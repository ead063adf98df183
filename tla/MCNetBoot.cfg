SPECIFICATION FairSpec
CONSTANTS
  kernel = kernel
  current = current
  boot = boot
  releases = releases
  NoNode = NoNode
  NoDir = NoDir
  NumDevs = 2
  HasEther = {0, 1}
  MayFail = {1}
  EthRotate = TRUE
  RetryForever = FALSE
  RetryCnt = 2
  MaxTry = 2
  Nodes <- MCNodes
  Dir <- MCDir
  Kind <- MCKind
  Link <- MCLink
  Size <- MCSize
  Final <- MCFinal
  DefaultFile = kernel
  ReadSize = 2
  MemTop = 3
  NfsRetryCount = 1
  MaxLate = 1
  MaxCommands = 1
  TimeoutCount = 2
  Addr <- MCAddr
  Offered = {NoNode, kernel}
  Typed = {NoNode, current}
  EnvAddrs = {0, 10}
INVARIANTS   AddressIsOurs NeverWaitsUnarmed
PROPERTIES CommandReturns
CHECK_DEADLOCK FALSE

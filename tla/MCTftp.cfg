SPECIFICATION Spec
CONSTANTS
  f1 = f1
  f2 = f2
  s1 = s1
  s2 = s2
  p1 = p1
  p2 = p2
  NumDevs = 1
  HasEther = {0}
  MayFail = {}
  EthRotate = TRUE
  RetryForever = TRUE
  RetryCnt = 0
  MaxTry = 2
  Files = {f1, f2}
  NoFile = NoFile
  Size <- MCSize
  DefaultBlkSize = 1
  OptBlkSizes = {2}
  SeqSize = 8
  ClientPorts = {p1, p2}
  PortsReused = FALSE
  ServerPorts = {s1, s2}
  WellKnownPort = wellknown
  TimeoutCountMax = 0
  RRQTimeoutCountMax = 0
  MemTop = 3
INVARIANTS TypeOK SuccessIntegrity TransferInv
PROPERTY NeverSpoils
CHECK_DEADLOCK FALSE

SPECIFICATION FairSpec
CONSTANTS
  NumDevs = 2
  HasEther = {0}
  MayFail = {0, 1}
  EthRotate = TRUE
  RetryForever = FALSE
  RetryCnt = 4
  MaxTry = 5
  ArpTimeoutCount = 2
  RRQTimeoutCountMax = 1
  MaxTimeouts = 3
INVARIANTS TypeOK ArpInv PendingIsCurrent NeverWaitsUnarmed OnlyCurrentRuns AttemptsBounded
PROPERTY CommandReturns
CHECK_DEADLOCK FALSE

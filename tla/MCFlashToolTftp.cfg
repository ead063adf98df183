SPECIFICATION Spec
CONSTANTS
  EnterAttempts = 1
  CtrlCAttempts = 2
  BufCap = 20
  MaxRomKeys = 1
  MaxResets = 0
  TftpMayFail = TRUE
  FlashMayFail = FALSE
INVARIANTS FinishedMeansFlashed
CHECK_DEADLOCK FALSE

SPECIFICATION FairSpec
CONSTANTS
  EnterAttempts = 1
  CtrlCAttempts = 2
  BufCap = 20
  MaxRomKeys = 1
  MaxResets = 1
  TftpMayFail = TRUE
  FlashMayFail = TRUE
INVARIANTS ToolInv InOrder AheadByIdle FinishedIsFlashed
PROPERTIES Terminates
CHECK_DEADLOCK FALSE

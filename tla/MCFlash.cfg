SPECIFICATION Spec
CONSTANTS
  AddrSpace = 16
  SectorSize = 2
  Start0 = 8
  Start1 = 12
  Counts0 = {0, 2}
  Counts1 = {1, 2}
  Start <- MCStart
  Found <- MCFound
  WordBytes = 2
  low = low
  D7 = D7
  Bits = {low, D7}
  Contents <- MCContents
  Sources <- MCSources
  Ranges <- MCRanges
  SectorNumbers = {0, 1, 2}
  Copies <- MCCopiesBack
  ChipProtect = {}
  MonitorAt <- MCMonitorAt
  MonitorLen = 2
  Worn <- MCWorn
  MaxCmds = 3
INVARIANTS FlashInv
PROPERTIES GuardedKept NothingElse CopyStored EraseComplete
CHECK_DEADLOCK FALSE

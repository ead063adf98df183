SPECIFICATION RangeSpec
CONSTANTS
  AddrSpace = 32
  SectorSize = 4
  Start0 = 16
  Start1 = 24
  Counts = {0, 1, 2}
  Start <- MCStart
  Found <- MCFound
INVARIANTS NeverBeyond CoversRange
CHECK_DEADLOCK FALSE

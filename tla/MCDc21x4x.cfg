SPECIFICATION FairSpec
CONSTANTS
  NumRx = 3
  MaxFrames = 4
  MaxLong = 1
  MaxSends = 2
  MaxInits = 2
INVARIANTS TypeOK DcInv SentIfReported NotOverwritten BufferOffered
PROPERTIES IsQueue FrameTaken RecvEnds
CHECK_DEADLOCK FALSE

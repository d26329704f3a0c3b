SPECIFICATION FairSpec
CONSTANTS
  Capacity = 2
  LineLen <- MCLineLen
  MaxBuffers = 5
  MaxFileSize = 3
  MaxLines = 9
CHECK_DEADLOCK FALSE
INVARIANTS TypeOK NothingLost RingInOrder
PROPERTIES WritesLogFile LinesReachFile LastFlush

SPECIFICATION Spec
CONSTANTS
  Capacity = 2
  LineLen <- MCLineLen
  MaxBuffers = 5
  MaxFileSize = 2
  MaxLines = 5
CHECK_DEADLOCK FALSE
INVARIANT CountsOpenFile

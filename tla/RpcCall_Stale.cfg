SPECIFICATION Spec
CONSTANTS
  Calls = 2
  Controllers = {k1, k2}
  MaxFd = 2
  MayTimeOut = FALSE
  MayLose = FALSE
CHECK_DEADLOCK FALSE
PROPERTY FailedBlamesServer

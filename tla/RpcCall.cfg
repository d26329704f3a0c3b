SPECIFICATION FairSpec
CONSTANTS
  Calls = 3
  Controllers = {k1, k2}
  MaxFd = 2
  MayTimeOut = TRUE
  MayLose = TRUE
CHECK_DEADLOCK FALSE
INVARIANTS TypeOK FailsForAReason Released OwnDescriptor
PROPERTIES ReturnedIsFinal CallsReturn

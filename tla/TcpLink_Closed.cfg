SPECIFICATION FairSpec
CONSTANTS
  Cap = 3
  ReqLen = 2
  RspLen = 3
  MayReject = FALSE
  MayTimeOut = TRUE
  MayDie = FALSE
CHECK_DEADLOCK FALSE
PROPERTY ErasedIsClosed

SPECIFICATION Spec
CONSTANTS
  Cap = 2
  ReqLen = 2
  RspLen = 3
  MayReject = FALSE
  MayTimeOut = FALSE
  MayDie = FALSE
CHECK_DEADLOCK FALSE
INVARIANT OutputArmed

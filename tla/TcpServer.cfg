SPECIFICATION ServerFairSpec
CONSTANTS
  Cap = 4
  ReqLen = 3
  RspLen = 5
  MayReject = TRUE
  MayTimeOut = TRUE
  MayDie = TRUE
  MaxOthers = 3
  ThreadNum = 3
  Pools = {{}, {0, 2}, {0, 1, 2}}
  MayExhaust = TRUE
  MayStop = TRUE
CHECK_DEADLOCK FALSE
INVARIANTS ServerTypeOK NoFalseHangUp NothingDangles Balanced
PROPERTIES Answered DeadServerNoticed GoneClientForgotten

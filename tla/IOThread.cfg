SPECIFICATION IOFairSpec
CONSTANTS
  Fds = {f1}
  WakeupFd = wakeup_fd
  Timerfd = timer_fd
  Remotes = {main}
  Acceptor = main
  IoMayStop = FALSE
  MaxEvents = 2
  MaxPosts = 3
  MaxCalls = 4
  CreateMayFail = TRUE
CHECK_DEADLOCK FALSE
INVARIANTS IOTypeOK ValidMeansUsable JoinedMeansDrained
PROPERTIES RunningLoopJoins

SPECIFICATION FairSpec
CONSTANTS
  Fds = {f1, f2}
  WakeupFd = wakeup_fd
  Timerfd = timer_fd
  Remotes = {main, other}
  Acceptor = main
  IoMayStop = TRUE
  MaxEvents = 2
  MaxCalls = 4
INVARIANTS TypeOK NoLostWakeup NoLostStop NoNullHandler RegistrationSettles
PROPERTIES FifoQueue PostedRuns StopReturns

SPECIFICATION FairSpec
CONSTANTS
  t1 = t1
  t2 = t2
  Timers = {t1, t2}
  Owner = loop
  Adders = {other}
  Interval <- MCInterval
  Periodic = {t1}
  Cancellers = {t1}
  MaxTime = 4
CHECK_DEADLOCK FALSE
INVARIANTS TypeOK NeverEarly ArmedForEarliest
PROPERTIES RemovedStaysSilent TimerFires

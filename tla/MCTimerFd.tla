------------------------------ MODULE MCTimerFd ------------------------------
(* TimerFd for TLC: t1 has interval 1, t2 interval 2.                *)
EXTENDS TimerFd, TLC

CONSTANTS t1, t2

MCInterval == [t \in Timers |-> IF t = t1 THEN 1 ELSE 2]
=============================================================================

------------------------------- MODULE TimerFd -------------------------------
(***************************************************************************)
(* zest::TimerFdEvent (src/zest/net/timer.cc): one timerfd, armed for the  *)
(* earliest of the timers in a priority queue.  The event loop's thread    *)
(* handles it; any thread may add timers or mark them invalid.             *)
(*                                                                         *)
(* addTimerEvent, resetTimerFd and handleTimerEvent call one another, and  *)
(* the second two recursively, so each thread has a stack of the calls it  *)
(* is in; a step is what happens between two points where another thread   *)
(* or the clock can be seen: a critical section, a read of the clock, an   *)
(* access to the timerfd or a callback.                                    *)
(***************************************************************************)
EXTENDS Naturals, Sequences, FiniteSetsExt

CONSTANTS
  Timers,
  Owner,       \* the event loop's thread
  Adders,      \* other threads that add timers
  Interval,    \* m_interval, in ticks of the clock
  Periodic,    \* the timers created periodic, which stay so (set_periodic(), which
               \* nothing in zest/ calls, is left out)
  Cancellers,  \* the timers some thread marks invalid at some time
  MaxTime      \* bound: the last reading of the clock

ASSUME TimersAssumption == Periodic \subseteq Timers /\ Cancellers \subseteq Timers
ASSUME OwnerAssumption == Owner \notin Adders
ASSUME IntervalAssumption == Interval \in [Timers -> Nat \ {0}]
ASSUME MaxTimeAssumption == MaxTime \in Nat \ {0}

Threads == {Owner} \cup Adders

VARIABLES
  now,               \* get_now_ms()
  m_trigger_time,
  m_valid,
  m_pending_timers,  \* the priority queue, guarded by m_mutex
  stack,             \* the calls each thread is in, the innermost last
  armed,             \* kernel: when the timerfd expires, 0 when disarmed
  expired,           \* kernel: the timerfd has expirations to read
  edge,              \* kernel: it expired since epoll_wait last reported it
  created,           \* history: when each timer was created, 0 before that
  fired,             \* history: how often each callback ran
  removed,           \* history: timers marked invalid while in the queue
  shared             \* history: another thread than the owner added a timer

timer_vars == <<m_trigger_time, m_valid, created, removed>>
fd_vars == <<armed, expired, edge>>
vars == <<now, timer_vars, m_pending_timers, stack, fd_vars, fired, shared>>

\* A frame: the function and where it is, the timers it holds, and its place
\* in the loop over them.
Frame == [at : {"add", "reset", "arm", "read", "collect", "again", "run"},
          timers : Seq(Timers), next : Nat]

Call(at, timers) == [at |-> at, timers |-> timers, next |-> 1]

TypeOK ==
  /\ now \in 1..MaxTime
  /\ m_trigger_time \in [Timers -> Nat]
  /\ m_valid \in [Timers -> BOOLEAN]
  /\ m_pending_timers \subseteq Timers
  /\ stack \in [Threads -> Seq(Frame)]
  /\ armed \in Nat
  /\ expired \in BOOLEAN
  /\ edge \in BOOLEAN
  /\ created \in [Timers -> 0..MaxTime]
  /\ fired \in [Timers -> Nat]
  /\ removed \subseteq Timers
  /\ shared \in BOOLEAN

Init ==
  /\ now = 1
  /\ m_trigger_time = [t \in Timers |-> 0]
  /\ m_valid = [t \in Timers |-> TRUE]
  /\ m_pending_timers = {}
  /\ stack = [th \in Threads |-> <<>>]
  /\ armed = 0
  /\ expired = FALSE
  /\ edge = FALSE
  /\ created = [t \in Timers |-> 0]
  /\ fired = [t \in Timers |-> 0]
  /\ removed = {}
  /\ shared = FALSE

-----------------------------------------------------------------------------
(* The calls a thread is in.                                               *)

Idle(th) == stack[th] = <<>>
Top(th) == stack[th][Len(stack[th])]
At(th, at) == ~Idle(th) /\ Top(th).at = at
Below(th) == SubSeq(stack[th], 1, Len(stack[th]) - 1)

\* The innermost call returns, or goes on as another frame, or calls.
Return(th) == stack' = [stack EXCEPT ![th] = Below(th)]
Goto(th, frame) == stack' = [stack EXCEPT ![th] = Append(Below(th), frame)]
GotoAndCall(th, frame, callee) ==
  stack' = [stack EXCEPT ![th] = Append(Append(Below(th), frame), callee)]

\* What top() of the priority queue may return: an earliest timer.
Earliest ==
  {t \in m_pending_timers : \A u \in m_pending_timers : m_trigger_time[t] <= m_trigger_time[u]}

Due == {t \in m_pending_timers : m_trigger_time[t] <= now}

-----------------------------------------------------------------------------
(* addTimerEvent, resetTimerFd and handleTimerEvent.                       *)

\* Mutation: the clock is subtracted.
ResetTimeMinus(t) == Interval[t] - now

\* Mutation: one tick too early.
ResetTimeEarly(t) == now + Interval[t] - 1

\* TimerEvent(), reset_time(): the trigger time, counted from now.
ResetTime(t) == now + Interval[t]

\* A timer is created, its trigger time fixed, and then added.
CreateTimer(th, t) ==
  /\ Idle(th)
  /\ created[t] = 0
  /\ created' = [created EXCEPT ![t] = now]
  /\ m_trigger_time' = [m_trigger_time EXCEPT ![t] = ResetTime(t)]
  /\ stack' = [stack EXCEPT ![th] = <<Call("add", <<t>>)>>]
  /\ shared' = (shared \/ th # Owner)
  /\ UNCHANGED <<now, m_valid, m_pending_timers, fd_vars, fired, removed>>

\* Mutation: the comparison reversed.
IsResetReversed(t) == \A u \in m_pending_timers : m_trigger_time[u] < m_trigger_time[t]

\* The timer is earlier than every one in the queue.
IsReset(t) == \A u \in m_pending_timers : m_trigger_time[u] > m_trigger_time[t]

\* addTimerEvent(): the critical section, then resetTimerFd() if the timer is
\* now the earliest.
AddTimerEvent(th) ==
  /\ At(th, "add")
  /\ LET t == Top(th).timers[1]
     IN  /\ m_pending_timers' = m_pending_timers \cup {t}
         /\ IF IsReset(t) THEN Goto(th, Call("reset", <<>>)) ELSE Return(th)
  /\ UNCHANGED <<now, timer_vars, fd_vars, fired, shared>>

\* resetTimerFd(): the critical section that picks the first timer.
PickFirst(th) ==
  /\ At(th, "reset")
  /\ IF m_pending_timers = {}
       THEN Return(th)
       ELSE \E t \in Earliest : Goto(th, Call("arm", <<t>>))
  /\ UNCHANGED <<now, timer_vars, m_pending_timers, fd_vars, fired, shared>>

\* resetTimerFd(): the rest.  A first timer that is due is handled here and
\* now, on whatever thread this is.
Arm(th) ==
  /\ At(th, "arm")
  /\ LET trigger == m_trigger_time[Top(th).timers[1]]
     IN  IF trigger <= now
           THEN Goto(th, Call("read", <<>>)) /\ UNCHANGED fd_vars
           ELSE /\ armed' = trigger
                /\ expired' = FALSE
                /\ UNCHANGED edge
                /\ Return(th)
  /\ UNCHANGED <<now, timer_vars, m_pending_timers, fired, shared>>

\* handleTimerEvent(): read the timerfd.
ReadFd(th) ==
  /\ At(th, "read")
  /\ expired' = FALSE
  /\ Goto(th, Call("collect", <<>>))
  /\ UNCHANGED <<now, timer_vars, m_pending_timers, armed, edge, fired, shared>>

\* The timers in a set in the order the priority queue yields them.
InOrder(S) ==
  {s \in [1..Cardinality(S) -> S] :
     /\ \A i, j \in 1..Cardinality(S) : i # j => s[i] # s[j]
     /\ \A i, j \in 1..Cardinality(S) : i < j => m_trigger_time[s[i]] <= m_trigger_time[s[j]]}

\* Mutation: validity is not checked.
TriggeredUnchecked == Due

\* The due timers whose callbacks will run.
Triggered == {t \in Due : m_valid[t]}

\* handleTimerEvent(): the critical section that takes the due timers out.
CollectDue(th) ==
  /\ At(th, "collect")
  /\ m_pending_timers' = m_pending_timers \ Due
  /\ \E trigger_timers \in InOrder(Triggered) :
       Goto(th, Call("again", trigger_timers))
  /\ UNCHANGED <<now, timer_vars, fd_vars, fired, shared>>

\* Mutation: every timer counts as periodic.
IsPeriodicAlways(t) == TRUE

IsPeriodic(t) == t \in Periodic

\* Mutation: the timerfd is not set again.
FinishNoReset(th, timers) == Goto(th, Call("run", timers))

\* The end of handleTimerEvent(): resetTimerFd(), then the callbacks.
Finish(th, timers) == GotoAndCall(th, Call("run", timers), Call("reset", <<>>))

\* handleTimerEvent(): a periodic timer is added again, a one-shot is passed
\* over; after the last resetTimerFd() is called and the callbacks follow it.
AddAgain(th) ==
  /\ At(th, "again")
  /\ LET frame == Top(th)
         t == frame.timers[frame.next]
         step == [frame EXCEPT !.next = @ + 1]
     IN  \/ /\ frame.next <= Len(frame.timers) /\ IsPeriodic(t)
            /\ m_trigger_time' = [m_trigger_time EXCEPT ![t] = ResetTime(t)]
            /\ GotoAndCall(th, step, Call("add", <<t>>))
         \/ /\ frame.next <= Len(frame.timers) /\ ~IsPeriodic(t)
            /\ Goto(th, step)
            /\ UNCHANGED m_trigger_time
         \/ /\ frame.next > Len(frame.timers)
            /\ Finish(th, frame.timers)
            /\ UNCHANGED m_trigger_time
  /\ UNCHANGED <<now, m_valid, created, removed, m_pending_timers, fd_vars, fired, shared>>

\* handleTimerEvent(): one callback, or the return after the last.
RunCallback(th) ==
  /\ At(th, "run")
  /\ LET frame == Top(th)
     IN  IF frame.next > Len(frame.timers)
           THEN Return(th) /\ UNCHANGED fired
           ELSE /\ fired' = [fired EXCEPT ![frame.timers[frame.next]] = @ + 1]
                /\ Goto(th, [frame EXCEPT !.next = @ + 1])
  /\ UNCHANGED <<now, timer_vars, m_pending_timers, fd_vars, shared>>

\* deleteTimerEvent() or set_valid(false), from any thread.
SetInvalid(t) ==
  /\ created[t] # 0 /\ m_valid[t]
  /\ m_valid' = [m_valid EXCEPT ![t] = FALSE]
  /\ removed' = IF t \in m_pending_timers THEN removed \cup {t} ELSE removed
  /\ UNCHANGED <<now, m_trigger_time, m_pending_timers, stack, fd_vars, created, fired, shared>>

-----------------------------------------------------------------------------
(* The loop's thread is told of the timerfd, and time passes.              *)

Deliverable == edge /\ expired

HandleTimerEvent ==
  /\ Idle(Owner)
  /\ Deliverable
  /\ edge' = FALSE
  /\ stack' = [stack EXCEPT ![Owner] = <<Call("read", <<>>)>>]
  /\ UNCHANGED <<now, timer_vars, m_pending_timers, armed, expired, fired, shared>>

Tick ==
  /\ now < MaxTime
  /\ now' = now + 1
  /\ IF armed = now'
       THEN armed' = 0 /\ expired' = TRUE /\ edge' = TRUE
       ELSE UNCHANGED fd_vars
  /\ UNCHANGED <<timer_vars, m_pending_timers, stack, fired, shared>>

-----------------------------------------------------------------------------

Step(th) ==
  AddTimerEvent(th) \/ PickFirst(th) \/ Arm(th) \/ ReadFd(th) \/ CollectDue(th) \/ AddAgain(th)
    \/ RunCallback(th)

Next ==
  \/ \E th \in Threads : Step(th) \/ \E t \in Timers : CreateTimer(th, t)
  \/ \E t \in Cancellers : SetInvalid(t)
  \/ HandleTimerEvent
  \/ Tick

Spec == Init /\ [][Next]_vars

\* Threads run their calls to the end, the owner takes a reported timerfd, and
\* time passes up to the bound.
FairSpec ==
  /\ Spec
  /\ \A th \in Threads : WF_vars(Step(th))
  /\ WF_vars(HandleTimerEvent)
  /\ WF_vars(Tick)

-----------------------------------------------------------------------------
(* Properties.                                                             *)

Quiet == \A th \in Threads : Idle(th)

\* A timer never fires before its time or more often than its intervals have
\* passed, a one-shot once, however late, nested or concurrent the calls that
\* handle it are.
NeverEarly ==
  \A t \in Timers :
    /\ fired[t] > 0 => created[t] + fired[t] * Interval[t] <= now
    /\ t \notin Periodic => fired[t] <= 1

\* The callbacks of a timer that a call of handleTimerEvent() has still to run.
ToRun(frame, t) ==
  {j \in DOMAIN frame.timers :
     frame.timers[j] = t /\ (frame.at = "again" \/ (frame.at = "run" /\ frame.next <= j))}

\* The rounds of a timer that were collected and have not run, by their places.
Owed(t) ==
  UNION {UNION {{<<th, i, j>> : j \in ToRun(stack[th][i], t)} : i \in DOMAIN stack[th]} : th \in Threads}

\* A timer marked invalid while it is in the queue is not collected any more.
\* A one-shot one is silent; of a periodic one that was already added again the
\* rounds collected before are run, which is all there is left of it.
RemovedStaysSilent ==
  [][\A t \in removed :
       /\ Owed(t)' \subseteq Owed(t)
       /\ fired'[t] # fired[t] => t \in Periodic /\ Owed(t)' # Owed(t)]_vars

\* Whenever no call is under way and a timer is in the queue, the timerfd is
\* armed or has expired and the loop is to be told: no timer is forgotten.  It
\* is armed for the earliest (the comments on TimerFdEvent say so) as long as
\* only the loop's own thread adds timers; of two threads in resetTimerFd() the
\* one that picked the later timer may arm it last.
ArmedForEarliest ==
  Quiet /\ m_pending_timers # {} /\ ~Deliverable =>
    /\ armed # 0
    /\ ~shared => \E t \in Earliest : armed = m_trigger_time[t]

\* The time an armed timerfd may still be ahead, for a timer to have its turn
\* before the bound of the clock.
Slack == IF shared THEN Max({Interval[t] : t \in Timers}) ELSE 0

\* Every timer that is not marked invalid fires once its interval has passed,
\* although epoll_wait's timeout never looks at the queue.  One that another
\* thread's arming made late fires when the timerfd armed in its place expires.
TimerFires ==
  \A t \in Timers :
    created[t] # 0 ~>
      fired[t] > 0 \/ ~m_valid[t] \/ created[t] + Interval[t] + Slack > MaxTime
=============================================================================

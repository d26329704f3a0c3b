---------------------------- MODULE RpcCallProofs ----------------------------
(***************************************************************************)
(* Proofs about RpcCall for every number of calls, of controllers and of   *)
(* descriptors.                                                            *)
(***************************************************************************)
EXTENDS RpcCall, Lemmas

\* Which call has a client, and when a loop is under way.
CallInOrder ==
  /\ pc # "idle" => call <= Calls
  /\ pc \in {"idle", "begin"} /\ call <= Calls => m_fd[call] = None
  /\ pc \in {"arming_connect", "connecting", "connected", "arming_call", "calling"} =>
       m_fd[call] # None
  /\ \A c \in 1..Calls : c > call => m_fd[c] = None
  /\ m_is_running \/ tasks # <<>> => pc \in {"connecting", "calling"}

\* A connect timer is valid in its connect() only, a call's has its client.
TimersInOrder ==
  \A t \in timers :
    /\ t.kind = "connect" =>
         t.call = call /\ pc \in {"arming_connect", "connecting", "undefined"}
    /\ t.kind = "call" =>
         /\ m_fd[t.call] # None
         /\ t.call < call \/ (t.call = call /\ pc \in {"arming_call", "calling", "undefined"})

\* The callbacks of a round are of different events, and the number of none of
\* them has become another call's.
RoundInOrder ==
  /\ IsInjective(tasks)
  /\ \A c \in Range(tasks) :
       c # TimerTask /\ m_fd[c] # None => owner[m_fd[c]] \in {Free, c, Other}

\* Of the calls that believe a number is theirs the kernel's owner is the last.
LastOwns ==
  \A c \in 1..Calls : m_fd[c] # None /\ owner[m_fd[c]] # Free => c <= owner[m_fd[c]]

\* How a call lost its descriptor.
Lost ==
  \A c \in 1..Calls :
    m_fd[c] # None /\ ~Owns(c) => c \in gave_up \/ \E h \in harmed : h.whose = c /\ h.by < c

CutShort(c) == stopped_by[c] \cap Stale # {}

\* A number that stays in the loop behind its call is that of a call cut short,
\* and so is the number of a callback that is still to run.
LeftBehind ==
  /\ \A c \in listening : c < call => CutShort(c)
  /\ pc = "calling" /\ ~m_is_running /\ call \in listening \cup Range(tasks)
       /\ CallTimer(call) \in timers => CutShort(call)
  /\ \A c \in Range(tasks) : c # TimerTask /\ c # call => c < call /\ CutShort(c)

\* Why the loop of a call without a response ended, and what a callback of its
\* connection is about to find.
EndsForAReason ==
  /\ pc = "calling" /\ ~m_is_running /\ ~rsp =>
       \/ link[call] \in {"hung_up", "refused"}
       \/ stopped_by[call] \cap ({"call"} \cup Stale) # {}
       \/ call \in gave_up
       \/ \E h \in harmed : h.whose = call
  /\ pc = "calling" /\ call \in Range(tasks) /\ Owns(call) =>
       link[call] \in {"answered", "hung_up", "refused"}

\* A call that timed out or failed is finished.
TimedOutIsFinished ==
  \A k \in Controllers : m_error_code[k] \in {"CALL_TIMEOUT", "CALL_FAILED"} => m_is_finished[k]

IInv ==
  /\ TypeOK /\ CallInOrder /\ TimersInOrder /\ RoundInOrder /\ LastOwns /\ Lost /\ LeftBehind
  /\ EndsForAReason /\ TimedOutIsFinished /\ Released /\ OwnDescriptor

-----------------------------------------------------------------------------
(* Descriptors.                                                            *)

\* socket() returns a number nobody has.
LEMMA LowestIsFree ==
  ASSUME FreeFds # {}
  PROVE  Min(FreeFds) \in 1..MaxFd /\ owner[Min(FreeFds)] = Free
<1>1. FreeFds \subseteq Nat
  BY CallsAssumption DEF FreeFds
<1> QED
  BY <1>1, MinOfNonempty DEF FreeFds

\* deleteEpollEvent() takes numbers out of the loop only.
LEMMA DeleteDeletes ==
  ASSUME TypeOK, NEW calls \in SUBSET (1..Calls), DeleteEpollEvents(calls)
  PROVE  /\ listening' = LeftListening(calls) /\ listening' \subseteq listening
         /\ listening' \subseteq m_listen_fds' /\ m_listen_fds' \subseteq 1..Calls
BY DEF DeleteEpollEvents, LeftListening, LeftInMap, TypeOK, FdTypeOK

\* addEpollEvent() makes the kernel watch at most one number more, that of a file.
LEMMA AddAdds ==
  ASSUME TypeOK, NEW c \in 1..Calls, NEW fd, NEW is_open \in BOOLEAN, AddEpollEvent(c, fd, is_open)
  PROVE  /\ listening' \subseteq listening \cup {c} /\ (~is_open => listening' = listening)
         /\ listening' \subseteq m_listen_fds' /\ m_listen_fds' \subseteq 1..Calls
BY DEF AddEpollEvent, Numbers, LeftInMap, TypeOK, FdTypeOK

-----------------------------------------------------------------------------
(* The callbacks of a round.                                               *)

LEMMA NoRound == ASSUME tasks' = <<>> PROVE RoundInOrder'
<1>1. DOMAIN tasks' = {}
  OBVIOUS
<1> QED
  BY <1>1 DEF RoundInOrder, IsInjective, Range

\* The first of them has run, and numbers have gone back at most.
LEMMA RoundGoesOn ==
  ASSUME IInv, tasks # <<>>, tasks' = Tail(tasks),
         \A c \in 1..Calls : m_fd'[c] # None => m_fd'[c] = m_fd[c],
         \A fd \in 1..MaxFd : owner'[fd] \in {owner[fd], Free}
  PROVE  /\ RoundInOrder'
         /\ tasks' \in Seq(0..Calls) /\ Range(tasks') \subseteq Range(tasks)
         /\ Head(tasks) \in Range(tasks) \ Range(tasks')
<1>. USE DEF IInv, TypeOK
<1>1. tasks \in Seq(0..Calls)
  BY DEF LoopTypeOK
<1>2. /\ tasks' \in Seq(0..Calls) /\ Range(tasks') \subseteq Range(tasks)
      /\ Head(tasks) \in Range(tasks)
  BY <1>1, HeadAndTail
<1>3. /\ Len(tasks') = Len(tasks) - 1 /\ \A i \in 1..Len(tasks') : tasks'[i] = tasks[i + 1]
      /\ DOMAIN tasks = 1..Len(tasks) /\ DOMAIN tasks' = 1..Len(tasks')
      /\ Head(tasks) = tasks[1] /\ Len(tasks) \in Nat \ {0}
  BY <1>1
<1>4. \A i, j \in 1..Len(tasks) : tasks[i] = tasks[j] => i = j
  BY <1>3 DEF RoundInOrder, IsInjective
<1>5. \A i \in 1..Len(tasks') : i + 1 \in 1..Len(tasks) /\ 1 \in 1..Len(tasks) /\ i + 1 # 1
  BY <1>3
<1>6. IsInjective(tasks')
  <2>1. ASSUME NEW i \in 1..Len(tasks'), NEW j \in 1..Len(tasks'), tasks'[i] = tasks'[j] PROVE i = j
    <3>1. i + 1 = j + 1
      BY <1>3, <1>4, <1>5, <2>1
    <3> QED
      BY <3>1
  <2> QED
    BY <1>3, <2>1 DEF IsInjective
<1>7. Head(tasks) \notin Range(tasks')
  BY <1>3, <1>4, <1>5 DEF Range
<1>9. Range(tasks) \subseteq 0..Calls
  BY <1>1, RangeOfSeq
<1>8. ASSUME NEW c \in Range(tasks'), c # TimerTask, m_fd'[c] # None
      PROVE  owner'[m_fd'[c]] \in {Free, c, Other}
  <2>4. c \in Range(tasks) /\ c # 0
    BY <1>2, <1>8 DEF TimerTask
  <2>1. c \in 1..Calls /\ c \in Range(tasks)
    BY <1>9, <2>4, CallsAssumption
  <2>2. m_fd'[c] = m_fd[c] /\ m_fd[c] \in 1..MaxFd
    BY <1>8, <2>1, CallsAssumption DEF FdTypeOK, None
  <2>3. owner[m_fd[c]] \in {Free, c, Other}
    BY <1>8, <2>1, <2>2, <2>4 DEF RoundInOrder, None, TimerTask
  <2> QED
    BY <2>2, <2>3
<1> QED
  BY <1>2, <1>6, <1>7, <1>8 DEF RoundInOrder

-----------------------------------------------------------------------------
(* close().                                                                *)

\* What each of these calls has done when it has closed its number.
Closed(calls) ==
  /\ owner' \in [1..MaxFd -> Free..Other]
  /\ \A fd \in 1..MaxFd : fd \in Numbers(calls) => owner'[fd] = Free
  /\ \A fd \in 1..MaxFd : fd \notin Numbers(calls) => owner'[fd] = owner[fd]
  /\ harmed' \subseteq [by : 1..Calls, whose : 1..Other]
  /\ harmed \subseteq harmed'
  /\ \A h \in harmed' : h \in harmed \/
       (h.by \in calls /\ h.whose \in 1..Other /\ h.by # h.whose /\ owner[m_fd[h.by]] = h.whose)
  /\ \A c \in calls : owner[m_fd[c]] \in (1..Other) \ {c} =>
       \E h \in harmed' : h.by = c /\ h.whose = owner[m_fd[c]]

LEMMA CloseCloses ==
  ASSUME TypeOK, NEW calls \in SUBSET (1..Calls), Close(calls)
  PROVE  Closed(calls)
<1>. USE CallsAssumption DEF Close
<1>1. owner' \in [1..MaxFd -> Free..Other]
  BY DEF TypeOK, FdTypeOK, Free, Other
<1>2. \A fd \in 1..MaxFd : /\ fd \in Numbers(calls) => owner'[fd] = Free
                          /\ fd \notin Numbers(calls) => owner'[fd] = owner[fd]
  OBVIOUS
<1>3. harmed' \subseteq [by : 1..Calls, whose : 1..Other]
  BY DEF TypeOK, HistoryTypeOK
<1>4. harmed \subseteq harmed'
  OBVIOUS
<1>5. \A h \in harmed' : h \in harmed \/
       (h.by \in calls /\ h.whose \in 1..Other /\ h.by # h.whose /\ owner[m_fd[h.by]] = h.whose)
  OBVIOUS
<1>6. ASSUME NEW c \in calls, owner[m_fd[c]] \in (1..Other) \ {c}
      PROVE  \E h \in harmed' : h.by = c /\ h.whose = owner[m_fd[c]]
  <2>1. [by |-> c, whose |-> owner[m_fd[c]]] \in harmed'
    BY <1>6
  <2> QED
    BY <2>1
<1> QED
  BY <1>1, <1>2, <1>3, <1>4, <1>5, <1>6 DEF Closed

\* A call that does not close its number loses it to an earlier one only.
LEMMA CloseTakesFromLater ==
  ASSUME TypeOK, LastOwns, Lost, NEW calls \in SUBSET (1..Calls),
         \A c \in calls : m_fd[c] # None, Closed(calls),
         NEW c \in (1..Calls) \ calls, m_fd[c] # None, owner'[m_fd[c]] # c
  PROVE  c \in gave_up \/ \E h \in harmed' : h.whose = c /\ h.by < c
<1>. USE CallsAssumption
<1>1. CASE ~Owns(c)
  BY <1>1 DEF Lost, Closed
<1>2. CASE Owns(c)
  <2>1. owner[m_fd[c]] = c /\ m_fd[c] \in 1..MaxFd
    BY <1>2 DEF Owns, TypeOK, FdTypeOK, None
  <2>2. PICK d \in calls : m_fd[d] = m_fd[c]
    BY <2>1 DEF Numbers, Closed
  <2>3. d <= c /\ d # c
    BY <2>1, <2>2 DEF LastOwns, Free
  <2>4. PICK h \in harmed' : h.by = d /\ h.whose = c
    BY <2>1, <2>2, <2>3 DEF Closed, Other
  <2> QED
    BY <2>3, <2>4
<1> QED
  BY <1>1, <1>2

\* What a close adds to history has its cause there.
LEMMA CloseHasCause ==
  ASSUME TypeOK, LastOwns, Lost, OwnDescriptor, NEW calls \in SUBSET (1..Calls),
         \A c \in calls : m_fd[c] # None, Closed(calls), gave_up \subseteq gave_up'
  PROVE  OwnDescriptor'
<1>. USE CallsAssumption
<1> SUFFICES ASSUME NEW h \in harmed'
             PROVE  /\ h.by < h.whose
                    /\ h.by \in gave_up' \/ \E cause \in harmed' : cause.whose = h.by /\ cause.by < h.by
  BY DEF OwnDescriptor
<1>1. CASE h \in harmed
  BY <1>1 DEF OwnDescriptor, Closed
<1>2. CASE h \notin harmed
  <2>1. h.by \in calls /\ h.whose \in 1..Other /\ h.by # h.whose /\ owner[m_fd[h.by]] = h.whose
    BY <1>2 DEF Closed
  <2>a. h.by \in 1..Calls
    BY <2>1
  <2>b. h.whose \in Nat \ {0}
    BY <2>1 DEF Other
  <2>2. h.by < h.whose
    BY <2>1, <2>a, <2>b DEF LastOwns, Free
  <2>3. ~Owns(h.by)
    BY <2>1 DEF Owns
  <2>4. h.by \in gave_up \/ \E cause \in harmed : cause.whose = h.by /\ cause.by < h.by
    BY <2>1, <2>3 DEF Lost
  <2> QED
    BY <2>2, <2>4 DEF Closed
<1> QED
  BY <1>1, <1>2

\* The clients that keep their number keep what they knew of it.
LEMMA CloseKeepsOwners ==
  ASSUME TypeOK, LastOwns, Released, NEW calls \in SUBSET (1..Calls), Closed(calls),
         \A c \in 1..Calls : m_fd'[c] # None => m_fd'[c] = m_fd[c],
         \A c \in (1..Calls) \ calls : m_fd'[c] = m_fd[c]
  PROVE  /\ LastOwns'
         /\ \A fd \in 1..MaxFd : owner'[fd] \in 1..Calls => m_fd'[owner'[fd]] = fd
<1>. USE CallsAssumption
<1>1. \A fd \in 1..MaxFd : owner'[fd] # Free => owner'[fd] = owner[fd] /\ fd \notin Numbers(calls)
  BY DEF Closed
<1>2. ASSUME NEW c \in 1..Calls, m_fd'[c] # None, owner'[m_fd'[c]] # Free
      PROVE  c <= owner'[m_fd'[c]]
  <2>1. m_fd'[c] = m_fd[c] /\ m_fd[c] \in 1..MaxFd
    BY <1>2 DEF TypeOK, FdTypeOK, None
  <2> QED
    BY <1>1, <1>2, <2>1 DEF LastOwns
<1>3. ASSUME NEW fd \in 1..MaxFd, owner'[fd] \in 1..Calls PROVE m_fd'[owner'[fd]] = fd
  <2>1. owner'[fd] = owner[fd] /\ fd \notin Numbers(calls)
    BY <1>1, <1>3 DEF Free
  <2>2. m_fd[owner[fd]] = fd
    BY <1>3, <2>1 DEF Released
  <2>3. owner[fd] \notin calls
    BY <2>1, <2>2 DEF Numbers
  <2> QED
    BY <1>3, <2>1, <2>2, <2>3
<1> QED
  BY <1>2, <1>3 DEF LastOwns, None, Free

\* The clients that still listen keep their number and its owner.
LEMMA CloseLeavesListening ==
  ASSUME TypeOK, NEW calls \in SUBSET (1..Calls), Closed(calls),
         listening' \subseteq LeftListening(calls),
         \A c \in (1..Calls) \ calls : m_fd'[c] = m_fd[c]
  PROVE  /\ listening' \subseteq (1..Calls) \ calls
         /\ \A c \in listening' : m_fd'[c] # None /\ owner'[m_fd'[c]] \in {c, Other}
<1> SUFFICES ASSUME NEW c \in listening'
             PROVE  c \in (1..Calls) \ calls /\ m_fd'[c] # None /\ owner'[m_fd'[c]] \in {c, Other}
  OBVIOUS
<1>1. c \in listening /\ c \in 1..Calls /\ m_fd[c] \notin Numbers(calls)
  BY DEF LeftListening, TypeOK, FdTypeOK
<1>2. c \notin calls
  BY <1>1 DEF Numbers
<1>3. m_fd[c] \in 1..MaxFd
  BY <1>1, CallsAssumption DEF TypeOK, FdTypeOK, None
<1> QED
  BY <1>1, <1>2, <1>3 DEF Closed, TypeOK, FdTypeOK

\* What the end of these clients leaves of the descriptors.
LEMMA DestroyKeeps ==
  ASSUME IInv, NEW calls \in SUBSET (1..Calls), \A c \in calls : m_fd[c] # None,
         Destroy(calls), listening' \subseteq LeftListening(calls),
         listening' \subseteq m_listen_fds', m_listen_fds' \subseteq 1..Calls, gave_up' = gave_up
  PROVE  /\ FdTypeOK' /\ LastOwns' /\ Lost' /\ OwnDescriptor'
         /\ harmed' \subseteq [by : 1..Calls, whose : 1..Other]
         /\ \A fd \in 1..MaxFd : owner'[fd] \in 1..Calls => m_fd'[owner'[fd]] = fd
         /\ listening' \subseteq listening \ calls
         /\ \A c \in calls : m_fd'[c] = None
         /\ \A c \in (1..Calls) \ calls : m_fd'[c] = m_fd[c]
<1>. USE CallsAssumption DEF IInv, TypeOK
<1>1. /\ m_fd' = [c \in 1..Calls |-> IF c \in calls THEN None ELSE m_fd[c]]
      /\ link' = [c \in 1..Calls |-> IF c \in calls THEN "none" ELSE link[c]]
  BY DEF Destroy
<1>2. /\ \A c \in calls : m_fd'[c] = None
      /\ \A c \in (1..Calls) \ calls : m_fd'[c] = m_fd[c]
  BY <1>1
<1>3. Closed(calls)
  BY CloseCloses DEF Destroy
<1>4. /\ listening' \subseteq (1..Calls) \ calls
      /\ \A c \in listening' : m_fd'[c] # None /\ owner'[m_fd'[c]] \in {c, Other}
  BY <1>2, <1>3, CloseLeavesListening
<1>5. FdTypeOK'
  <2>1. m_fd' \in [1..Calls -> None..MaxFd]
    BY <1>1 DEF FdTypeOK, None
  <2>2. link' \in [1..Calls -> {"none", "pending", "refused", "up", "answered", "hung_up"}]
    BY <1>1 DEF FdTypeOK
  <2> QED
    BY <1>3, <1>4, <2>1, <2>2 DEF FdTypeOK, Closed
<1>6. LastOwns' /\ \A fd \in 1..MaxFd : owner'[fd] \in 1..Calls => m_fd'[owner'[fd]] = fd
  <2>1. \A c \in 1..Calls : m_fd'[c] # None => m_fd'[c] = m_fd[c]
    BY <1>2
  <2> QED
    BY <1>2, <1>3, <2>1, CloseKeepsOwners
<1>7. Lost'
  <2> SUFFICES ASSUME NEW c \in 1..Calls, m_fd'[c] # None, owner'[m_fd'[c]] # c
               PROVE  c \in gave_up' \/ \E h \in harmed' : h.whose = c /\ h.by < c
    BY DEF Lost, Owns
  <2>1. c \notin calls /\ m_fd[c] # None /\ owner'[m_fd[c]] # c
    BY <1>2
  <2> QED
    BY <1>3, <2>1, CloseTakesFromLater
<1>8. OwnDescriptor'
  BY <1>3, CloseHasCause
<1>9. listening' \subseteq listening \ calls
  BY <1>4 DEF LeftListening
<1> QED
  BY <1>2, <1>3, <1>5, <1>6, <1>7, <1>8, <1>9 DEF Closed

-----------------------------------------------------------------------------
(* The initial state.                                                      *)

LEMMA InitIInv == Init => IInv
<1> SUFFICES ASSUME Init PROVE IInv
  OBVIOUS
<1>. USE CallsAssumption DEF Init
<1>1. CallTypeOK
  <2>1. (CHOOSE k \in Controllers : TRUE) \in Controllers
    BY ControllersAssumption
  <2>2. my_controller \in [1..Calls -> Controllers]
    BY <2>1
  <2>3. call \in 1..(Calls + 1)
    OBVIOUS
  <2> QED
    BY <2>2, <2>3 DEF CallTypeOK, Errors
<1>2. FdTypeOK
  BY DEF FdTypeOK, None, Free, Other
<1>3. LoopTypeOK
  <2>1. tasks \in Seq(0..Calls)
    OBVIOUS
  <2> QED
    BY <2>1 DEF LoopTypeOK
<1>4. HistoryTypeOK
  BY DEF HistoryTypeOK
<1>5. CallInOrder /\ TimersInOrder /\ LastOwns /\ Lost
  BY DEF CallInOrder, TimersInOrder, LastOwns, Lost, Owns, None, Free
<1>6. LeftBehind /\ EndsForAReason /\ TimedOutIsFinished
  BY DEF LeftBehind, EndsForAReason, TimedOutIsFinished, Range
<1>7. Released /\ OwnDescriptor
  BY DEF Released, OwnDescriptor, None, Free
<1>8. RoundInOrder
  BY DEF RoundInOrder, IsInjective, Range
<1> QED
  BY <1>1, <1>2, <1>3, <1>4, <1>5, <1>6, <1>7, <1>8 DEF IInv, TypeOK

-----------------------------------------------------------------------------
(* The steps outside the loop, which find it at rest.                      *)

AtRest == call \in 1..Calls /\ tasks = <<>> /\ ~m_is_running

LEMMA OutsideAtRest ==
  ASSUME IInv, \/ pc \in {"begin", "arming_connect", "connected", "arming_call"}
               \/ pc = "idle" /\ call <= Calls
  PROVE  AtRest
BY CallsAssumption DEF IInv, TypeOK, CallTypeOK, CallInOrder, AtRest

\* Only timers of earlier calls are left then.
LEMMA OutsideTimers ==
  ASSUME IInv, pc \in {"idle", "begin", "connected"}
  PROVE  \A t \in timers : /\ t.kind = "call" /\ t.call \in 1..Calls
                           /\ t.call < call /\ t.call # call /\ m_fd[t.call] # None
<1> SUFFICES ASSUME NEW t \in timers
             PROVE  /\ t.kind = "call" /\ t.call \in 1..Calls
                    /\ t.call < call /\ t.call # call /\ m_fd[t.call] # None
  OBVIOUS
<1>1. t.kind \in {"call", "connect"} /\ t.call \in 1..Calls /\ call \in Nat
  BY CallsAssumption DEF IInv, TypeOK, LoopTypeOK, CallTypeOK, Timer
<1>2. t.kind = "call"
  BY <1>1 DEF IInv, TimersInOrder
<1>3. m_fd[t.call] # None /\ t.call < call
  BY <1>2 DEF IInv, TimersInOrder
<1> QED
  BY <1>1, <1>2, <1>3

LEMMA ResetStep == ASSUME IInv, NEW controller \in Controllers, Reset(controller) PROVE IInv'
<1>. USE CallsAssumption DEF IInv, TypeOK, Reset
<1>1. AtRest
  BY OutsideAtRest
<1>2. UNCHANGED <<call, m_state, is_timeout, rsp, m_is_failed, owner, m_fd, link, listening, m_listen_fds,
                  m_is_running, tasks, timers, expired, gave_up, harmed, stopped_by>>
  BY DEF client_vars, fd_vars, loop_vars, timer_vars, history_vars
<1>3. CallTypeOK'
  BY <1>2 DEF CallTypeOK, Errors
<1>4. FdTypeOK' /\ LoopTypeOK' /\ HistoryTypeOK'
  BY <1>2 DEF FdTypeOK, LoopTypeOK, HistoryTypeOK
<1>5. CallInOrder' /\ TimersInOrder'
  BY <1>1, <1>2 DEF CallInOrder, TimersInOrder, AtRest, CallTimer
<1>10. RoundInOrder'
  BY <1>1, <1>2, NoRound DEF AtRest
<1>6. LastOwns' /\ Lost' /\ OwnDescriptor'
  BY <1>2 DEF LastOwns, Lost, Owns, OwnDescriptor
<1>7. LeftBehind' /\ EndsForAReason'
  BY <1>1, <1>2 DEF LeftBehind, EndsForAReason, CutShort, AtRest
<1>8. TimedOutIsFinished'
  BY <1>2 DEF TimedOutIsFinished, CallTypeOK
<1>9. Released'
  BY <1>2 DEF Released, CallTimer
<1> QED
  BY <1>3, <1>4, <1>5, <1>6, <1>7, <1>8, <1>9, <1>10

LEMMA NoDescriptorStep == ASSUME IInv, NoDescriptor PROVE IInv'
<1>. USE CallsAssumption DEF IInv, TypeOK, NoDescriptor, Return
<1>1. AtRest /\ m_fd[call] = None
  BY OutsideAtRest DEF CallInOrder, AtRest
<1>2. UNCHANGED <<my_controller, m_error_code, m_is_failed, m_is_finished, owner, m_fd, link,
                  listening, m_listen_fds, m_is_running, tasks, timers, expired, gave_up, harmed>>
  BY DEF controller_vars, fd_vars, loop_vars, timer_vars
<1>3. CallTypeOK'
  <2>1. call' \in 1..(Calls + 1)
    BY <1>1 DEF AtRest
  <2> QED
    BY <1>2, <2>1 DEF CallTypeOK
<1>4. FdTypeOK' /\ LoopTypeOK'
  BY <1>2 DEF FdTypeOK, LoopTypeOK
<1>5. HistoryTypeOK'
  BY <1>1, <1>2 DEF HistoryTypeOK, AtRest
<1>6. CallInOrder'
  BY <1>1, <1>2 DEF CallInOrder, AtRest
<1>11. TimersInOrder'
  <2> SUFFICES ASSUME NEW t \in timers
               PROVE  t.kind = "call" /\ t.call < call' /\ m_fd[t.call] # None
    BY <1>2 DEF TimersInOrder
  <2> QED
    BY <1>1, OutsideTimers DEF AtRest
<1>12. RoundInOrder'
  BY <1>1, <1>2, NoRound DEF AtRest
<1>7. LastOwns' /\ Lost' /\ OwnDescriptor'
  BY <1>2 DEF LastOwns, Lost, Owns, OwnDescriptor
<1>8. LeftBehind'
  <2>1. (\A c \in listening : c < call => CutShort(c))'
    BY <1>1, <1>2 DEF LeftBehind, CutShort, AtRest, FdTypeOK, HistoryTypeOK
  <2> QED
    BY <1>1, <1>2, <2>1 DEF LeftBehind, Range, AtRest
<1>9. EndsForAReason' /\ TimedOutIsFinished'
  BY <1>2 DEF EndsForAReason, TimedOutIsFinished
<1>10. Released'
  BY <1>1, <1>2 DEF Released, AtRest, CallTimer, CallInOrder
<1> QED
  BY <1>3, <1>4, <1>5, <1>6, <1>7, <1>8, <1>9, <1>10, <1>11, <1>12

\* A new client has the lowest free number.
LEMMA NewNumber ==
  ASSUME IInv, pc = "begin", FreeFds # {}
  PROVE  /\ AtRest /\ m_fd[call] = None
         /\ Min(FreeFds) \in 1..MaxFd /\ owner[Min(FreeFds)] = Free
         /\ \A c \in listening : c # call /\ m_fd[c] # Min(FreeFds)
<1>1. AtRest /\ m_fd[call] = None
  BY OutsideAtRest DEF IInv, CallInOrder, AtRest
<1>2. Min(FreeFds) \in 1..MaxFd /\ owner[Min(FreeFds)] = Free
  BY LowestIsFree
<1>3. ASSUME NEW c \in listening PROVE c # call /\ m_fd[c] # Min(FreeFds)
  <2>1. m_fd[c] # None /\ c \in 1..Calls /\ owner[m_fd[c]] \in {c, Other}
    BY DEF IInv, TypeOK, FdTypeOK
  <2>2. Free \notin {c, Other}
    BY <2>1, CallsAssumption DEF Free, Other
  <2> QED
    BY <1>1, <1>2, <2>1, <2>2
<1> QED
  BY <1>1, <1>2, <1>3

LEMMA ConnectsAtOnceStep == ASSUME IInv, ConnectsAtOnce PROVE IInv'
<1>. USE CallsAssumption DEF IInv, TypeOK, ConnectsAtOnce, Socket
<1>1. PICK fd \in 1..MaxFd :
        /\ owner[fd] = Free /\ (\A c \in listening : c # call /\ m_fd[c] # fd)
        /\ m_fd' = [m_fd EXCEPT ![call] = fd] /\ owner' = [owner EXCEPT ![fd] = call]
  BY NewNumber
<1>2. AtRest /\ m_fd[call] = None /\ pc = "begin"
  BY NewNumber
<1>3. UNCHANGED <<call, is_timeout, rsp, my_controller, m_error_code, m_is_failed, m_is_finished,
                  listening, m_is_running, tasks, timers, expired, gave_up, harmed, stopped_by>>
  BY DEF controller_vars, loop_vars, timer_vars, history_vars
<1>12. listening' \subseteq m_listen_fds' /\ m_listen_fds' \subseteq 1..Calls
  <2>1. PICK number : number = Min(FreeFds)
    OBVIOUS
  <2>2. \A c \in listening : m_fd[c] # number
    BY <2>1, NewNumber
  <2> QED
    BY <1>3, <2>1, <2>2 DEF FdTypeOK, LeftInMap
<1>. HIDE DEF Socket
<1>4. CallTypeOK'
  BY <1>3 DEF CallTypeOK
<1>5. FdTypeOK'
  <2>1. m_fd' \in [1..Calls -> None..MaxFd] /\ owner' \in [1..MaxFd -> Free..Other]
    BY <1>1, <1>2 DEF FdTypeOK, AtRest, None, Free, Other
  <2>2. link' \in [1..Calls -> {"none", "pending", "refused", "up", "answered", "hung_up"}]
    BY DEF FdTypeOK
  <2>3. \A c \in listening' : m_fd'[c] # None /\ owner'[m_fd'[c]] \in {c, Other}
    BY <1>1, <1>2, <1>3 DEF FdTypeOK, AtRest, None, Free, Other
  <2> QED
    BY <1>12, <2>1, <2>2, <2>3 DEF FdTypeOK
<1>6. LoopTypeOK' /\ HistoryTypeOK'
  BY <1>3 DEF LoopTypeOK, HistoryTypeOK
<1>7. CallInOrder'
  BY <1>1, <1>2, <1>3 DEF CallInOrder, AtRest, FdTypeOK, None
<1>11. TimersInOrder'
  <2> SUFFICES ASSUME NEW t \in timers
               PROVE  t.kind = "call" /\ t.call < call /\ m_fd'[t.call] # None
    BY <1>3 DEF TimersInOrder
  <2> QED
    BY <1>1, <1>2, OutsideTimers DEF FdTypeOK
<1>13. RoundInOrder'
  BY <1>2, <1>3, NoRound DEF AtRest
<1>8. LastOwns' /\ Lost' /\ OwnDescriptor'
  BY <1>1, <1>2, <1>3 DEF LastOwns, Lost, Owns, OwnDescriptor, AtRest, CallInOrder, FdTypeOK, None, Free, Other
<1>9. LeftBehind' /\ EndsForAReason' /\ TimedOutIsFinished'
  BY <1>2, <1>3 DEF LeftBehind, EndsForAReason, TimedOutIsFinished, CutShort, AtRest, Range
<1>10. Released'
  <2>1. \A f \in 1..MaxFd : owner'[f] \in 1..Calls => m_fd'[owner'[f]] = f
    BY <1>1, <1>2 DEF Released, AtRest, FdTypeOK, None, Free, Other
  <2> QED
    BY <1>1, <1>2, <1>3, <2>1 DEF Released, AtRest, CallTimer, FdTypeOK
<1> QED
  BY <1>4, <1>5, <1>6, <1>7, <1>8, <1>9, <1>10, <1>11, <1>13

LEMMA RefusedAtOnceStep == ASSUME IInv, RefusedAtOnce PROVE IInv'
<1>. USE CallsAssumption DEF IInv, TypeOK, RefusedAtOnce
<1>1. PICK fd \in 1..MaxFd : owner[fd] = Free /\ m_fd' = [m_fd EXCEPT ![call] = fd]
  BY NewNumber
<1>2. AtRest /\ m_fd[call] = None /\ \A c \in listening : c # call
  BY NewNumber
<1>3. UNCHANGED <<call, m_state, is_timeout, rsp, my_controller, m_error_code, m_is_failed,
                  m_is_finished, owner, listening, m_listen_fds, m_is_running, tasks, timers, expired, harmed,
                  stopped_by>>
  BY DEF client_vars, controller_vars, loop_vars, timer_vars
<1>4. CallTypeOK'
  BY <1>3 DEF CallTypeOK
<1>5. FdTypeOK'
  BY <1>1, <1>2, <1>3 DEF FdTypeOK, AtRest, None
<1>6. LoopTypeOK' /\ HistoryTypeOK'
  BY <1>2, <1>3 DEF LoopTypeOK, HistoryTypeOK, AtRest
<1>7. CallInOrder'
  BY <1>1, <1>2, <1>3 DEF CallInOrder, AtRest, FdTypeOK, None
<1>12. RoundInOrder'
  BY <1>2, <1>3, NoRound DEF AtRest
<1>8. TimersInOrder'
  <2> SUFFICES ASSUME NEW t \in timers
               PROVE  t.kind = "call" /\ t.call < call /\ m_fd'[t.call] # None
    BY <1>3 DEF TimersInOrder
  <2> QED
    BY <1>1, OutsideTimers DEF FdTypeOK
<1>9. LastOwns' /\ Lost' /\ OwnDescriptor'
  BY <1>1, <1>2, <1>3 DEF LastOwns, Lost, Owns, OwnDescriptor, AtRest, FdTypeOK
<1>10. LeftBehind' /\ EndsForAReason' /\ TimedOutIsFinished'
  BY <1>2, <1>3 DEF LeftBehind, EndsForAReason, TimedOutIsFinished, CutShort, AtRest, Range
<1>11. Released'
  <2>1. \A f \in 1..MaxFd : owner'[f] \in 1..Calls => m_fd'[owner'[f]] = f
    BY <1>1, <1>2, <1>3 DEF Released, AtRest, FdTypeOK, None
  <2> QED
    BY <1>1, <1>2, <1>3, <2>1 DEF Released, AtRest, CallTimer, FdTypeOK
<1> QED
  BY <1>4, <1>5, <1>6, <1>7, <1>8, <1>9, <1>10, <1>11, <1>12

LEMMA ConnectInProgressStep == ASSUME IInv, ConnectInProgress PROVE IInv'
<1>. USE CallsAssumption DEF IInv, TypeOK, ConnectInProgress
<1>1. PICK fd \in 1..MaxFd :
        /\ owner[fd] = Free /\ (\A c \in listening : c # call /\ m_fd[c] # fd)
        /\ m_fd' = [m_fd EXCEPT ![call] = fd] /\ owner' = [owner EXCEPT ![fd] = call]
  BY NewNumber DEF Socket
<1>2. AtRest /\ m_fd[call] = None /\ pc = "begin"
  BY NewNumber DEF Socket
<1>3. UNCHANGED <<call, m_state, is_timeout, rsp, my_controller, m_error_code, m_is_failed,
                  m_is_finished, m_is_running, tasks, expired, gave_up, harmed, stopped_by>>
  BY DEF client_vars, controller_vars, loop_vars, history_vars
<1>12. PICK number : number = Min(FreeFds) /\ AddEpollEvent(call, number, TRUE)
  OBVIOUS
<1>13. /\ listening' \subseteq listening \cup {call}
       /\ listening' \subseteq m_listen_fds' /\ m_listen_fds' \subseteq 1..Calls
  BY <1>2, <1>12, AddAdds DEF AtRest
<1>14. timers' = timers \cup {ConnectTimer} /\ pc' = "arming_connect"
  OBVIOUS
<1>. HIDE DEF ConnectInProgress
<1>4. CallTypeOK'
  BY <1>3, <1>14 DEF CallTypeOK
<1>5. FdTypeOK'
  <2>1. m_fd' \in [1..Calls -> None..MaxFd] /\ owner' \in [1..MaxFd -> Free..Other]
    BY <1>1, <1>2 DEF FdTypeOK, AtRest, None, Free, Other
  <2>2. \A c \in listening' : m_fd'[c] # None /\ owner'[m_fd'[c]] \in {c, Other}
    BY <1>1, <1>2, <1>13 DEF FdTypeOK, AtRest, None, Free, Other
  <2>3. link' \in [1..Calls -> {"none", "pending", "refused", "up", "answered", "hung_up"}]
    BY DEF ConnectInProgress, FdTypeOK
  <2> QED
    BY <1>13, <2>1, <2>2, <2>3 DEF FdTypeOK
<1>6. LoopTypeOK' /\ HistoryTypeOK'
  BY <1>2, <1>3, <1>14 DEF LoopTypeOK, HistoryTypeOK, AtRest, Timer, ConnectTimer
<1>7. CallInOrder'
  BY <1>1, <1>2, <1>3, <1>14 DEF CallInOrder, AtRest, FdTypeOK, None
<1>8. TimersInOrder'
  <2>1. ASSUME NEW t \in timers PROVE t.kind = "call" /\ t.call < call /\ m_fd'[t.call] # None
    BY <1>1, <1>2, OutsideTimers DEF FdTypeOK
  <2> QED
    BY <1>3, <1>14, <2>1 DEF TimersInOrder, ConnectTimer
<1>15. RoundInOrder'
  BY <1>2, <1>3, NoRound DEF AtRest
<1>9. LastOwns' /\ Lost' /\ OwnDescriptor'
  BY <1>1, <1>2, <1>3 DEF LastOwns, Lost, Owns, OwnDescriptor, AtRest, CallInOrder, FdTypeOK, None, Free, Other
<1>10. LeftBehind' /\ EndsForAReason' /\ TimedOutIsFinished'
  BY <1>2, <1>3, <1>13, <1>14
     DEF LeftBehind, EndsForAReason, TimedOutIsFinished, CutShort, AtRest, Range
<1>11. Released'
  <2>1. \A f \in 1..MaxFd : owner'[f] \in 1..Calls => m_fd'[owner'[f]] = f
    BY <1>1, <1>2 DEF Released, AtRest, FdTypeOK, None, Free, Other
  <2> QED
    BY <1>1, <1>2, <1>3, <1>14, <2>1 DEF Released, AtRest, CallTimer, FdTypeOK
<1> QED
  BY <1>4, <1>5, <1>6, <1>7, <1>8, <1>9, <1>10, <1>11, <1>15

LEMMA StartCallStep == ASSUME IInv, StartCall PROVE IInv'
<1>. USE CallsAssumption DEF IInv, TypeOK, StartCall
<1>1. AtRest /\ m_fd[call] # None /\ m_fd[call] \in 1..MaxFd
  BY OutsideAtRest DEF CallInOrder, AtRest, FdTypeOK, None
<1>2. UNCHANGED <<call, m_state, is_timeout, rsp, my_controller, m_error_code, m_is_failed,
                  m_is_finished, owner, m_fd, link, m_is_running, tasks, expired, gave_up, harmed, stopped_by>>
  BY DEF client_vars, controller_vars, loop_vars, history_vars
<1>12. PICK is_open \in BOOLEAN :
         is_open = (owner[m_fd[call]] # Free) /\ AddEpollEvent(call, m_fd[call], is_open)
  OBVIOUS
<1>13. /\ listening' \subseteq listening \cup {call}
       /\ owner[m_fd[call]] = Free => listening' = listening
       /\ listening' \subseteq m_listen_fds' /\ m_listen_fds' \subseteq 1..Calls
  BY <1>1, <1>12, AddAdds DEF AtRest
<1>14. timers' = timers \cup {CallTimer(call)} /\ pc' = "arming_call"
  OBVIOUS
<1>. HIDE DEF StartCall
<1>3. CallTypeOK'
  BY <1>2, <1>14 DEF CallTypeOK
<1>4. FdTypeOK'
  <2>1. ASSUME owner[m_fd[call]] # Free PROVE owner[m_fd[call]] \in {call, Other}
    <3>1. call <= owner[m_fd[call]] /\ owner[m_fd[call]] \in Free..Other
      BY <1>1, <2>1 DEF LastOwns, AtRest, FdTypeOK
    <3>2. ASSUME owner[m_fd[call]] \in 1..Calls PROVE owner[m_fd[call]] <= call
      <4>1. m_fd[owner[m_fd[call]]] # None
        BY <1>1, <3>2 DEF Released
      <4> QED
        BY <1>1, <3>2, <4>1 DEF CallInOrder, AtRest
    <3> QED
      BY <1>1, <3>1, <3>2 DEF AtRest, Free, Other
  <2> QED
    BY <1>1, <1>2, <1>13, <2>1 DEF FdTypeOK, AtRest
<1>5. LoopTypeOK' /\ HistoryTypeOK'
  BY <1>1, <1>2, <1>14 DEF LoopTypeOK, HistoryTypeOK, AtRest, Timer, CallTimer
<1>6. CallInOrder'
  BY <1>1, <1>2, <1>14 DEF CallInOrder, AtRest
<1>7. TimersInOrder'
  BY <1>1, <1>2, <1>14, OutsideTimers DEF TimersInOrder, CallTimer, StartCall
<1>15. RoundInOrder'
  BY <1>1, <1>2, NoRound DEF AtRest
<1>8. LastOwns' /\ Lost' /\ OwnDescriptor'
  BY <1>2 DEF LastOwns, Lost, Owns, OwnDescriptor
<1>9. LeftBehind'
  BY <1>1, <1>2, <1>13, <1>14 DEF LeftBehind, CutShort, AtRest, Range
<1>10. EndsForAReason' /\ TimedOutIsFinished'
  BY <1>1, <1>2, <1>14 DEF EndsForAReason, TimedOutIsFinished, AtRest, Range
<1>11. Released'
  BY <1>2, <1>14 DEF Released, CallTimer
<1> QED
  BY <1>3, <1>4, <1>5, <1>6, <1>7, <1>8, <1>9, <1>10, <1>11, <1>15

LEMMA StartLoopStep == ASSUME IInv, StartLoop PROVE IInv'
<1>. USE CallsAssumption DEF IInv, TypeOK
<1>1. /\ UNCHANGED <<call, m_state, is_timeout, rsp, my_controller, m_error_code, m_is_failed,
                     m_is_finished, owner, m_fd, link, listening, m_listen_fds, tasks, timers,
                     expired, gave_up, harmed, stopped_by>>
      /\ m_is_running' = TRUE
      /\ \/ pc = "arming_connect" /\ pc' = "connecting"
         \/ pc = "arming_call" /\ pc' = "calling"
  BY DEF StartLoop, client_vars, controller_vars, fd_vars, timer_vars, history_vars
<1>2. AtRest
  BY <1>1, OutsideAtRest
<1>3. CallTypeOK' /\ FdTypeOK' /\ LoopTypeOK' /\ HistoryTypeOK'
  BY <1>1 DEF CallTypeOK, FdTypeOK, LoopTypeOK, HistoryTypeOK
<1>4. CallInOrder' /\ TimersInOrder'
  BY <1>1, <1>2 DEF CallInOrder, TimersInOrder, AtRest
<1>5. RoundInOrder'
  BY <1>1, <1>2, NoRound DEF AtRest
<1>6. LastOwns' /\ Lost' /\ OwnDescriptor' /\ TimedOutIsFinished'
  BY <1>1 DEF LastOwns, Lost, Owns, OwnDescriptor, TimedOutIsFinished
<1>7. LeftBehind' /\ EndsForAReason'
  BY <1>1, <1>2 DEF LeftBehind, EndsForAReason, CutShort, AtRest, Range
<1>8. Released'
  BY <1>1 DEF Released, CallTimer
<1> QED
  BY <1>3, <1>4, <1>5, <1>6, <1>7, <1>8

LEMMA ConnectReturnsStep == ASSUME IInv, ConnectReturns PROVE IInv'
<1>. USE CallsAssumption DEF IInv, TypeOK
<1>1. /\ pc = "connecting" /\ pc' = "connected" /\ ~m_is_running /\ tasks = <<>>
      /\ timers' = timers \ {ConnectTimer} /\ expired' = expired \cap timers'
      /\ stopped_by' = [stopped_by EXCEPT ![call] = {}] /\ m_state' \in {m_state, "Connected"}
      /\ UNCHANGED <<call, is_timeout, rsp, my_controller, m_error_code, m_is_failed,
                     m_is_finished, m_fd, link, m_is_running, tasks>>
  BY DEF ConnectReturns, Invalidated, controller_vars, loop_vars
<1>2. call \in 1..Calls /\ m_fd[call] # None
  BY <1>1 DEF CallInOrder, CallTypeOK
<1>3. /\ \/ Close({call}) /\ gave_up' = gave_up \cup {call}
         \/ UNCHANGED <<owner, harmed, gave_up>>
      /\ listening' = LeftListening({call})
      /\ listening' \subseteq m_listen_fds' /\ m_listen_fds' \subseteq 1..Calls
  <2>1. CASE UNCHANGED m_listen_fds /\ listening' = LeftListening({call})
    BY <2>1 DEF ConnectReturns, LeftListening, FdTypeOK
  <2>2. CASE DeleteEpollEvents({call})
    BY <1>2, <2>2, DeleteDeletes DEF ConnectReturns
  <2> QED
    BY <2>1, <2>2 DEF ConnectReturns
<1>4. CallTypeOK' /\ LoopTypeOK'
  BY <1>1 DEF CallTypeOK, LoopTypeOK
<1>5. stopped_by' \in [1..Calls -> SUBSET ({"connect", "call", "unheard"} \cup Stale)]
  BY <1>1, <1>2 DEF HistoryTypeOK
<1>6. CallInOrder'
  BY <1>1, <1>2 DEF CallInOrder
<1>7. TimersInOrder'
  <2> SUFFICES ASSUME NEW t \in timers, t # ConnectTimer
               PROVE  t.kind = "call" /\ m_fd[t.call] # None /\ t.call < call
    BY <1>1 DEF TimersInOrder
  <2>1. t.kind \in {"connect", "call"} /\ t = [kind |-> t.kind, call |-> t.call]
    BY DEF LoopTypeOK, Timer
  <2>2. t.kind = "call"
    BY <2>1 DEF TimersInOrder, ConnectTimer
  <2> QED
    BY <1>1, <2>2 DEF TimersInOrder
<1>8. LeftBehind'
  <2>1. listening' \subseteq listening
    BY <1>3 DEF LeftListening
  <2>2. \A c \in listening : c < call => CutShort(c)' = CutShort(c)
    BY <1>1, <1>2 DEF CutShort, FdTypeOK, HistoryTypeOK
  <2> QED
    BY <1>1, <2>1, <2>2 DEF LeftBehind, Range
<1>9. EndsForAReason' /\ TimedOutIsFinished'
  BY <1>1 DEF EndsForAReason, TimedOutIsFinished
<1>10. \A c \in 1..Calls : m_fd'[c] # None /\ c # call' => CallTimer(c) \in timers'
  BY <1>1 DEF Released, CallTimer, ConnectTimer
<1>13. RoundInOrder'
  BY <1>1, NoRound
<1>11. CASE UNCHANGED <<owner, harmed, gave_up>>
  <2>1. FdTypeOK' /\ HistoryTypeOK'
    BY <1>1, <1>3, <1>5, <1>11 DEF FdTypeOK, HistoryTypeOK, LeftListening
  <2>2. LastOwns' /\ Lost' /\ OwnDescriptor' /\ Released'
    BY <1>1, <1>10, <1>11 DEF LastOwns, Lost, Owns, OwnDescriptor, Released, CallTimer
  <2> QED
    BY <1>4, <1>6, <1>7, <1>8, <1>9, <1>13, <2>1, <2>2
<1>12. CASE Close({call}) /\ gave_up' = gave_up \cup {call}
  <2>0. Closed({call}) /\ {call} \in SUBSET (1..Calls)
    BY <1>2, <1>12, CloseCloses
  <2>1. FdTypeOK'
    <3>1. /\ listening' \subseteq (1..Calls) \ {call}
          /\ \A c \in listening' : m_fd'[c] # None /\ owner'[m_fd'[c]] \in {c, Other}
      BY <1>1, <1>3, <2>0, CloseLeavesListening
    <3> QED
      BY <1>1, <1>3, <2>0, <3>1 DEF FdTypeOK, Closed
  <2>2. HistoryTypeOK'
    BY <1>2, <1>5, <1>12, <2>0 DEF HistoryTypeOK, Closed
  <2>3. OwnDescriptor'
    BY <1>2, <1>12, <2>0, CloseHasCause
  <2>4. LastOwns' /\ Released'
    <3>1. LastOwns' /\ \A fd \in 1..MaxFd : owner'[fd] \in 1..Calls => m_fd'[owner'[fd]] = fd
      BY <1>1, <2>0, CloseKeepsOwners
    <3> QED
      BY <1>1, <1>10, <3>1 DEF Released, CallTimer
  <2>5. Lost'
    <3> SUFFICES ASSUME NEW c \in 1..Calls, m_fd[c] # None, owner'[m_fd[c]] # c
                 PROVE  c \in gave_up' \/ \E h \in harmed' : h.whose = c /\ h.by < c
      BY <1>1 DEF Lost, Owns
    <3>1. CASE c = call
      BY <1>12, <3>1
    <3>2. CASE c # call
      BY <1>2, <1>12, <2>0, <3>2, CloseTakesFromLater
    <3> QED
      BY <3>1, <3>2
  <2> QED
    BY <1>4, <1>6, <1>7, <1>8, <1>9, <1>13, <2>1, <2>2, <2>3, <2>4, <2>5
<1> QED
  BY <1>3, <1>11, <1>12

\* Return, when the call's client goes or is kept by its timer.
LEMMA ReturnStep ==
  ASSUME IInv, AtRest, m_fd[call] # None, pc \in {"connected", "calling"}, Return,
         UNCHANGED <<m_is_running, tasks, timers, expired, gave_up>>,
         \/ DestroyAndDelete({call}) /\ CallTimer(call) \notin timers
         \/ /\ UNCHANGED <<owner, m_fd, link, listening, m_listen_fds, harmed>>
            /\ pc = "calling" /\ CallTimer(call) \in timers
  PROVE  /\ FdTypeOK' /\ LoopTypeOK' /\ HistoryTypeOK' /\ CallInOrder' /\ TimersInOrder'
         /\ RoundInOrder' /\ LastOwns' /\ Lost' /\ LeftBehind' /\ EndsForAReason' /\ Released'
         /\ OwnDescriptor'
<1>. USE CallsAssumption DEF IInv, TypeOK
<1>1. /\ call' = call + 1 /\ pc' = "idle" /\ call \in 1..Calls /\ tasks = <<>> /\ ~m_is_running
      /\ stopped_by' = [stopped_by EXCEPT ![call] = @ \cap Stale]
  BY DEF Return, AtRest
<1>2. /\ FdTypeOK' /\ LastOwns' /\ Lost' /\ OwnDescriptor'
      /\ harmed' \subseteq [by : 1..Calls, whose : 1..Other]
      /\ \A fd \in 1..MaxFd : owner'[fd] \in 1..Calls => m_fd'[owner'[fd]] = fd
      /\ listening' \subseteq listening
      /\ CallTimer(call) \notin timers => m_fd'[call] = None /\ call \notin listening'
      /\ CallTimer(call) \in timers => pc = "calling" /\ m_fd'[call] # None
      /\ \A c \in (1..Calls) \ {call} : m_fd'[c] = m_fd[c]
  <2>1. CASE DestroyAndDelete({call}) /\ CallTimer(call) \notin timers
    <3>3. /\ listening' = LeftListening({call})
          /\ listening' \subseteq m_listen_fds' /\ m_listen_fds' \subseteq 1..Calls
      BY <1>1, <2>1, DeleteDeletes DEF DestroyAndDelete
    <3>1. {call} \in SUBSET (1..Calls) /\ \A c \in {call} : m_fd[c] # None
      BY <1>1
    <3>2. /\ FdTypeOK' /\ LastOwns' /\ Lost' /\ OwnDescriptor'
          /\ harmed' \subseteq [by : 1..Calls, whose : 1..Other]
          /\ \A fd \in 1..MaxFd : owner'[fd] \in 1..Calls => m_fd'[owner'[fd]] = fd
          /\ listening' \subseteq listening \ {call}
          /\ \A c \in {call} : m_fd'[c] = None
          /\ \A c \in (1..Calls) \ {call} : m_fd'[c] = m_fd[c]
      BY <2>1, <3>1, <3>3, DestroyKeeps DEF DestroyAndDelete
    <3> QED
      BY <2>1, <3>2
  <2>2. CASE /\ UNCHANGED <<owner, m_fd, link, listening, m_listen_fds, harmed>>
             /\ pc = "calling" /\ CallTimer(call) \in timers
    BY <2>2 DEF FdTypeOK, HistoryTypeOK, LastOwns, Lost, Owns, OwnDescriptor, Released
  <2> QED
    BY <2>1, <2>2
<1>3. LoopTypeOK'
  BY DEF LoopTypeOK
<1>4. HistoryTypeOK'
  <2>1. stopped_by' \in [1..Calls -> SUBSET ({"connect", "call", "unheard"} \cup Stale)]
    BY <1>1 DEF HistoryTypeOK
  <2> QED
    BY <1>2, <2>1 DEF HistoryTypeOK
<1>5. CallInOrder'
  BY <1>1, <1>2 DEF CallInOrder
<1>6. TimersInOrder'
  <2> SUFFICES ASSUME NEW t \in timers
               PROVE  t.kind = "call" /\ t.call < call + 1 /\ m_fd'[t.call] # None
    BY <1>1 DEF TimersInOrder
  <2>1. t = [kind |-> t.kind, call |-> t.call] /\ t.kind \in {"connect", "call"} /\ t.call \in 1..Calls
    BY DEF LoopTypeOK, Timer
  <2>2. t.kind = "call"
    BY <2>1 DEF TimersInOrder
  <2>3. m_fd[t.call] # None /\ t.call <= call
    BY <1>1, <2>1, <2>2 DEF TimersInOrder
  <2>4. t.call = call => m_fd'[t.call] # None
    BY <1>2, <2>1, <2>2 DEF CallTimer
  <2> QED
    BY <1>1, <1>2, <2>1, <2>2, <2>3, <2>4
<1>7. LeftBehind'
  <2>1. ASSUME NEW c \in listening', c < call + 1 PROVE CutShort(c)
    <3>1. c \in listening /\ c \in 1..Calls
      BY <1>2 DEF FdTypeOK
    <3>2. CASE c < call
      BY <3>1, <3>2 DEF LeftBehind
    <3>3. CASE c = call
      BY <1>1, <1>2, <2>1, <3>1, <3>3 DEF LeftBehind
    <3> QED
      BY <1>1, <2>1, <3>1, <3>2, <3>3
  <2>2. \A c \in 1..Calls : CutShort(c)' = CutShort(c)
    BY <1>1 DEF CutShort, HistoryTypeOK
  <2>3. \A c \in listening' : c \in 1..Calls
    BY <1>2 DEF FdTypeOK
  <2> QED
    BY <1>1, <2>1, <2>2, <2>3 DEF LeftBehind, Range
<1>10. RoundInOrder'
  BY <1>1, NoRound
<1>8. EndsForAReason'
  BY <1>1 DEF EndsForAReason
<1>9. Released'
  <2>1. ASSUME NEW c \in 1..Calls, m_fd'[c] # None PROVE CallTimer(c) \in timers
    BY <1>2, <2>1 DEF Released
  <2> QED
    BY <1>1, <1>2, <2>1 DEF Released, CallTimer
<1> QED
  BY <1>2, <1>3, <1>4, <1>5, <1>6, <1>7, <1>8, <1>9, <1>10

LEMMA ConnectFailedStep == ASSUME IInv, ConnectFailed PROVE IInv'
<1>. USE CallsAssumption DEF IInv, TypeOK
<1>1. AtRest /\ pc = "connected" /\ m_fd[call] # None
  BY OutsideAtRest DEF ConnectFailed, CallInOrder
<1>2. /\ Return /\ DestroyAndDelete({call})
      /\ UNCHANGED <<my_controller, m_is_finished, m_is_running, tasks, timers, expired, gave_up>>
  BY DEF ConnectFailed, loop_vars, timer_vars
<1>3. CallTimer(call) \notin timers
  BY <1>1, OutsideTimers DEF CallTimer, AtRest
<1>4. CallTypeOK'
  <2>1. call' \in 1..(Calls + 1)
    BY <1>1, <1>2 DEF AtRest, Return
  <2>2. m_error_code' \in [Controllers -> Errors] /\ m_is_failed' \in [Controllers -> BOOLEAN]
    BY <1>1 DEF ConnectFailed, SetError, CallTypeOK, Errors, AtRest
  <2> QED
    BY <1>2, <2>1, <2>2 DEF Return, CallTypeOK
<1>5. TimedOutIsFinished'
  <2>1. \A k \in Controllers : m_error_code'[k] \in {m_error_code[k], "CONNECT_FAILED"}
    BY DEF ConnectFailed, SetError, CallTypeOK
  <2> QED
    BY <1>2, <2>1 DEF TimedOutIsFinished
<1> QED
  BY <1>1, <1>2, <1>3, <1>4, <1>5, ReturnStep

LEMMA CallReturnsStep == ASSUME IInv, CallReturns PROVE IInv'
<1>. USE CallsAssumption DEF IInv, TypeOK
<1>1. AtRest /\ pc = "calling" /\ m_fd[call] # None
  BY DEF CallReturns, CallInOrder, CallTypeOK, AtRest
<1>2. /\ Return
      /\ UNCHANGED <<my_controller, m_is_running, tasks, timers, expired, gave_up>>
      /\ \/ DestroyAndDelete({call}) /\ CallTimer(call) \notin timers
         \/ UNCHANGED <<owner, m_fd, link, listening, m_listen_fds, harmed>> /\ CallTimer(call) \in timers
  BY DEF CallReturns, loop_vars, timer_vars, DropClient, TimerKeeps, fd_vars
<1>3. /\ m_error_code' \in [Controllers -> Errors] /\ m_is_failed' \in [Controllers -> BOOLEAN]
      /\ m_is_finished' = [m_is_finished EXCEPT ![my_controller[call]] = TRUE]
      /\ \A k \in Controllers : k # my_controller[call] => m_error_code'[k] = m_error_code[k]
  BY <1>1 DEF CallReturns, SetError, Finished, CallTypeOK, Errors, AtRest
<1>4. CallTypeOK'
  <2>1. call' \in 1..(Calls + 1)
    BY <1>1, <1>2 DEF AtRest, Return
  <2> QED
    BY <1>2, <1>3, <2>1 DEF Return, CallTypeOK
<1>5. TimedOutIsFinished'
  BY <1>3 DEF TimedOutIsFinished, CallTypeOK
<1> QED
  BY <1>1, <1>2, <1>4, <1>5, ReturnStep

-----------------------------------------------------------------------------
(* The loop.                                                               *)

\* What a round of the loop has to run.
LEMMA RoundIsReady ==
  ASSUME IInv, tasks' \in SetToSeqs(Ready)
  PROVE  tasks' \in Seq(0..Calls) /\ Range(tasks') \subseteq Ready /\ IsInjective(tasks')
<1>1. Ready \subseteq 0..Calls
  BY CallsAssumption DEF Ready, TimerTask
<1>2. IsFiniteSet(0..Calls)
  BY CallsAssumption, FS_Interval
<1>3. Cardinality(Ready) \in Nat
  <2>1. IsFiniteSet(Ready)
    BY <1>1, <1>2, FS_Subset
  <2> QED
    BY <2>1, FS_CardinalityType
<1>4. /\ tasks' \in [1..Cardinality(Ready) -> Ready]
      /\ \A i, j \in 1..Cardinality(Ready) : i # j => tasks'[i] # tasks'[j]
  BY DEF SetToSeqs
<1>5. tasks' \in [1..Cardinality(Ready) -> 0..Calls]
  BY <1>1, <1>4
<1>6. DOMAIN tasks' = 1..Cardinality(Ready)
  BY <1>4
<1>7. tasks' \in Seq(0..Calls)
  BY <1>3, <1>5, FunctionIsSeq
<1>8. IsInjective(tasks')
  BY <1>4, <1>6 DEF IsInjective
<1> QED
  BY <1>4, <1>6, <1>7, <1>8 DEF Range

LEMMA EpollWaitStep == ASSUME IInv, EpollWait PROVE IInv'
<1>. USE CallsAssumption DEF IInv, TypeOK
<1>1. /\ UNCHANGED <<call, pc, m_state, is_timeout, rsp, my_controller, m_error_code, m_is_failed,
                     m_is_finished, owner, m_fd, link, listening, m_listen_fds, m_is_running, timers, expired,
                     gave_up, harmed, stopped_by>>
      /\ m_is_running
  BY DEF EpollWait, client_vars, controller_vars, fd_vars, timer_vars, history_vars
<1>2. tasks' \in Seq(0..Calls) /\ Range(tasks') \subseteq Ready /\ IsInjective(tasks')
  BY RoundIsReady DEF EpollWait
<1>3. CallTypeOK' /\ FdTypeOK' /\ HistoryTypeOK'
  BY <1>1 DEF CallTypeOK, FdTypeOK, HistoryTypeOK
<1>4. LoopTypeOK'
  BY <1>1, <1>2 DEF LoopTypeOK
<1>5. CallInOrder' /\ TimersInOrder'
  BY <1>1 DEF CallInOrder, TimersInOrder
<1>6. LastOwns' /\ Lost' /\ OwnDescriptor' /\ TimedOutIsFinished' /\ Released'
  BY <1>1 DEF LastOwns, Lost, Owns, OwnDescriptor, TimedOutIsFinished, Released, CallTimer
<1>9. RoundInOrder'
  <2>1. ASSUME NEW c \in Range(tasks'), c # TimerTask PROVE owner[m_fd[c]] \in {Free, c, Other}
    BY <1>2, <2>1 DEF Ready, IoReady, FdTypeOK
  <2> QED
    BY <1>1, <1>2, <2>1 DEF RoundInOrder
<1>7. LeftBehind'
  <2>1. ASSUME NEW c \in Range(tasks'), c # TimerTask, c # call PROVE c < call /\ CutShort(c)
    <3>1. c \in 1..Calls /\ c \in listening
      BY <1>2, <2>1 DEF Ready, IoReady
    <3>2. c < call
      BY <2>1, <3>1 DEF CallInOrder, FdTypeOK, CallTypeOK
    <3> QED
      BY <3>1, <3>2 DEF LeftBehind
  <2> QED
    BY <1>1, <2>1 DEF LeftBehind, CutShort
<1>8. EndsForAReason'
  <2>1. ASSUME pc = "calling", call \in Range(tasks'), Owns(call)
        PROVE  link[call] \in {"answered", "hung_up", "refused"}
    <3>1. call \in 1..Calls
      BY <2>1 DEF CallInOrder, CallTypeOK
    <3>2. call # TimerTask /\ call # Other
      BY <3>1 DEF TimerTask, Other
    <3>3. IoReady(call)
      BY <1>2, <2>1, <3>2 DEF Ready
    <3> QED
      BY <2>1, <3>2, <3>3 DEF IoReady, Owns
  <2> QED
    BY <1>1, <2>1 DEF EndsForAReason, Owns
<1> QED
  BY <1>3, <1>4, <1>5, <1>6, <1>7, <1>8, <1>9

LEMMA OnConnectedStep == ASSUME IInv, OnConnected PROVE IInv'
<1>. USE CallsAssumption DEF IInv, TypeOK
<1>1. /\ UNCHANGED <<call, pc, is_timeout, rsp, my_controller, m_error_code, m_is_failed,
                     m_is_finished, owner, m_fd, link, timers, expired, gave_up, harmed, stopped_by>>
      /\ pc = "connecting" /\ m_state' = "Connected" /\ DeleteEpollEvents({call})
      /\ m_is_running' = FALSE /\ tasks # <<>> /\ tasks' = Tail(tasks)
  BY DEF OnConnected, Io, controller_vars, timer_vars, history_vars
<1>2. tasks' \in Seq(0..Calls) /\ Range(tasks') \subseteq Range(tasks) /\ RoundInOrder'
  BY <1>1, RoundGoesOn
<1>9. /\ listening' \subseteq listening
      /\ listening' \subseteq m_listen_fds' /\ m_listen_fds' \subseteq 1..Calls
  BY <1>1, DeleteDeletes DEF CallInOrder, CallTypeOK
<1>3. CallTypeOK' /\ FdTypeOK' /\ HistoryTypeOK'
  BY <1>1, <1>9 DEF CallTypeOK, FdTypeOK, HistoryTypeOK
<1>4. LoopTypeOK'
  BY <1>1, <1>2 DEF LoopTypeOK
<1>5. CallInOrder' /\ TimersInOrder'
  BY <1>1 DEF CallInOrder, TimersInOrder
<1>6. LastOwns' /\ Lost' /\ OwnDescriptor' /\ TimedOutIsFinished' /\ Released'
  BY <1>1 DEF LastOwns, Lost, Owns, OwnDescriptor, TimedOutIsFinished, Released, CallTimer
<1>7. LeftBehind'
  BY <1>1, <1>2, <1>9 DEF LeftBehind, CutShort
<1>8. EndsForAReason'
  BY <1>1 DEF EndsForAReason
<1> QED
  BY <1>3, <1>4, <1>5, <1>6, <1>7, <1>8, <1>2

LEMMA OnRefusedStep == ASSUME IInv, OnRefused PROVE IInv'
<1>. USE CallsAssumption DEF IInv, TypeOK
<1>1. /\ UNCHANGED <<call, pc, m_state, is_timeout, rsp, my_controller, m_error_code, m_is_failed,
                     m_is_finished, m_fd, link, m_is_running, timers, expired, stopped_by>>
      /\ pc = "connecting" /\ listening' = LeftListening({call}) /\ gave_up' = gave_up \cup {call}
      /\ tasks # <<>> /\ tasks' = Tail(tasks)
  BY DEF OnRefused, Io, client_vars, controller_vars, timer_vars
<1>3. call \in 1..Calls /\ m_fd[call] # None
  BY <1>1 DEF CallInOrder, CallTypeOK
<1>4. Closed({call}) /\ {call} \in SUBSET (1..Calls)
  BY <1>3, CloseCloses DEF OnRefused
<1>2. tasks' \in Seq(0..Calls) /\ Range(tasks') \subseteq Range(tasks) /\ RoundInOrder'
  BY <1>1, <1>4, RoundGoesOn DEF Closed
<1>15. listening' \subseteq m_listen_fds' /\ m_listen_fds' \subseteq 1..Calls
  BY <1>1 DEF OnRefused, LeftListening, LeftInMap, Numbers, FdTypeOK
<1>5. CallTypeOK'
  BY <1>1 DEF CallTypeOK
<1>6. FdTypeOK'
  <2>1. /\ listening' \subseteq (1..Calls) \ {call}
        /\ \A c \in listening' : m_fd'[c] # None /\ owner'[m_fd'[c]] \in {c, Other}
    BY <1>1, <1>4, CloseLeavesListening
  <2> QED
    BY <1>1, <1>4, <1>15, <2>1 DEF FdTypeOK, Closed
<1>7. LoopTypeOK'
  BY <1>1, <1>2 DEF LoopTypeOK
<1>8. HistoryTypeOK'
  BY <1>1, <1>3, <1>4 DEF HistoryTypeOK, Closed
<1>9. CallInOrder' /\ TimersInOrder'
  BY <1>1 DEF CallInOrder, TimersInOrder
<1>10. LastOwns' /\ Released'
  <2>1. LastOwns' /\ \A fd \in 1..MaxFd : owner'[fd] \in 1..Calls => m_fd'[owner'[fd]] = fd
    BY <1>1, <1>4, CloseKeepsOwners
  <2> QED
    BY <1>1, <2>1 DEF Released, CallTimer
<1>11. Lost'
  <2> SUFFICES ASSUME NEW c \in 1..Calls, m_fd[c] # None, owner'[m_fd[c]] # c
               PROVE  c \in gave_up' \/ \E h \in harmed' : h.whose = c /\ h.by < c
    BY <1>1 DEF Lost, Owns
  <2>1. CASE c = call
    BY <1>1, <2>1
  <2>2. CASE c # call
    BY <1>1, <1>3, <1>4, <2>2, CloseTakesFromLater
  <2> QED
    BY <2>1, <2>2
<1>12. OwnDescriptor'
  BY <1>1, <1>3, <1>4, CloseHasCause
<1>13. LeftBehind'
  BY <1>1, <1>2 DEF LeftBehind, CutShort, LeftListening
<1>14. EndsForAReason' /\ TimedOutIsFinished'
  BY <1>1 DEF EndsForAReason, TimedOutIsFinished
<1> QED
  BY <1>5, <1>6, <1>7, <1>8, <1>9, <1>10, <1>11, <1>12, <1>13, <1>14, <1>2

LEMMA OnCallIoStep == ASSUME IInv, NEW c \in 1..Calls, OnCallIo(c) PROVE IInv'
<1>. USE CallsAssumption DEF IInv, TypeOK
<1>1. PICK stops \in BOOLEAN, answered \in BOOLEAN :
        /\ Owns(c) => stops /\ answered = (link[c] = "answered")
        /\ rsp' = (rsp \/ (answered /\ c = call))
        /\ m_is_running' = (m_is_running /\ ~stops)
        /\ stopped_by' = [stopped_by EXCEPT ![call] =
                             IF stops /\ c # call THEN @ \cup {"stale connection"} ELSE @]
        /\ IF stops
             THEN listening' = listening \ {c} /\ UNCHANGED m_listen_fds
             ELSE AddEpollEvent(c, m_fd[c], owner[m_fd[c]] # Free)
  BY DEF OnCallIo
<1>2. /\ UNCHANGED <<call, pc, m_state, is_timeout, my_controller, m_error_code, m_is_failed,
                     m_is_finished, owner, m_fd, link, timers, expired, gave_up, harmed>>
      /\ tasks # <<>> /\ Head(tasks) = c /\ tasks' = Tail(tasks)
      /\ m_fd[c] # None /\ (c = call => pc = "calling")
  BY DEF OnCallIo, Io, controller_vars, timer_vars
<1>3. tasks' \in Seq(0..Calls) /\ Range(tasks') \subseteq Range(tasks)
      /\ RoundInOrder' /\ c \in Range(tasks) \ Range(tasks')
  BY <1>2, RoundGoesOn
<1>4. call \in 1..Calls
  BY <1>2 DEF CallInOrder, CallTypeOK
<1>5. CallTypeOK'
  BY <1>1, <1>2 DEF CallTypeOK
<1>6. /\ listening' \subseteq listening \cup {c}
      /\ c \in listening' => ~stops
      /\ owner[m_fd[c]] = Free => listening' \subseteq listening
      /\ listening' \subseteq m_listen_fds' /\ m_listen_fds' \subseteq 1..Calls
  <2>1. CASE stops
    BY <1>1, <2>1 DEF FdTypeOK
  <2>2. CASE ~stops
    <3>1. PICK is_open \in BOOLEAN :
            is_open = (owner[m_fd[c]] # Free) /\ AddEpollEvent(c, m_fd[c], is_open)
      BY <1>1, <2>2
    <3> QED
      BY <2>2, <3>1, AddAdds
  <2> QED
    BY <2>1, <2>2
<1>7. FdTypeOK'
  <2>1. owner[m_fd[c]] \in {Free, c, Other}
    BY <1>2, <1>3 DEF RoundInOrder, TimerTask
  <2>2. \A d \in listening' : m_fd[d] # None /\ owner[m_fd[d]] \in {d, Other}
    BY <1>2, <1>6, <2>1 DEF FdTypeOK
  <2> QED
    BY <1>2, <1>6, <2>2 DEF FdTypeOK
<1>8. LoopTypeOK'
  BY <1>1, <1>2, <1>3 DEF LoopTypeOK
<1>9. HistoryTypeOK'
  <2>1. stopped_by' \in [1..Calls -> SUBSET ({"connect", "call", "unheard"} \cup Stale)]
    BY <1>1, <1>4 DEF HistoryTypeOK, Stale
  <2> QED
    BY <1>2, <2>1 DEF HistoryTypeOK
<1>10. CallInOrder' /\ TimersInOrder'
  BY <1>1, <1>2 DEF CallInOrder, TimersInOrder
<1>11. LastOwns' /\ Lost' /\ OwnDescriptor' /\ TimedOutIsFinished'
  BY <1>2 DEF LastOwns, Lost, Owns, OwnDescriptor, TimedOutIsFinished
<1>12. \A d \in 1..Calls : stopped_by[d] \subseteq stopped_by'[d]
  BY <1>1 DEF HistoryTypeOK
<1>13. Released'
  <2>1. pc = "undefined" => \E d \in 1..(call - 1) : stopped_by'[d] \cap Stale # {}
    BY <1>4, <1>12 DEF Released
  <2> QED
    BY <1>2, <2>1 DEF Released, CallTimer
<1>14. LeftBehind'
  <2>1. \A d \in 1..Calls : CutShort(d) => CutShort(d)'
    BY <1>12 DEF CutShort
  <2>2. ASSUME pc = "calling", ~m_is_running', call \in listening' \cup Range(tasks'),
               CallTimer(call) \in timers
        PROVE  stopped_by'[call] \cap Stale # {}
    <3>1. CASE ~m_is_running
      <4>2. call \in listening \cup Range(tasks)
        BY <1>3, <1>6, <2>2
      <4>1. CutShort(call)
        BY <2>2, <3>1, <4>2 DEF LeftBehind
      <4> QED
        BY <1>4, <1>12, <4>1 DEF CutShort
    <3>2. CASE m_is_running
      <4>3. stops
        BY <1>1, <2>2, <3>2
      <4>1. stops /\ c # call
        BY <1>3, <1>6, <2>2, <4>3
      <4>2. "stale connection" \in stopped_by'[call]
        BY <1>1, <1>4, <4>1 DEF HistoryTypeOK
      <4> QED
        BY <4>2 DEF Stale
    <3> QED
      BY <3>1, <3>2 DEF LoopTypeOK
  <2>5. c # call => CutShort(c)
    BY <1>3 DEF LeftBehind, TimerTask
  <2>3. \A d \in listening' : d < call => CutShort(d)'
    BY <1>4, <1>6, <2>1, <2>5 DEF LeftBehind, FdTypeOK
  <2>4. \A d \in Range(tasks') : d # TimerTask /\ d # call => d \in 1..Calls /\ d < call /\ CutShort(d)'
    <3> SUFFICES ASSUME NEW d \in Range(tasks'), d # TimerTask, d # call
                 PROVE  d \in 1..Calls /\ d < call /\ CutShort(d)'
      OBVIOUS
    <3>1. d \in 0..Calls
      BY <1>3 DEF Range
    <3> QED
      BY <1>3, <2>1, <3>1 DEF LeftBehind, TimerTask
  <2> QED
    BY <1>2, <2>2, <2>3, <2>4 DEF LeftBehind, CallTimer, CutShort
<1>15. EndsForAReason'
  <2>1. ASSUME pc = "calling", ~m_is_running', ~rsp'
        PROVE  \/ link[call] \in {"hung_up", "refused"}
               \/ stopped_by'[call] \cap ({"call"} \cup Stale) # {}
               \/ call \in gave_up
               \/ \E h \in harmed : h.whose = call
    <3>1. CASE ~m_is_running
      BY <1>1, <1>4, <1>12, <2>1, <3>1 DEF EndsForAReason
    <3>2. CASE m_is_running /\ c # call
      <4>1. "stale connection" \in stopped_by'[call]
        BY <1>1, <1>4, <2>1, <3>2 DEF HistoryTypeOK
      <4> QED
        BY <4>1 DEF Stale
    <3>3. CASE m_is_running /\ c = call /\ Owns(call)
      BY <1>1, <1>3, <2>1, <3>3 DEF EndsForAReason
    <3>4. CASE c = call /\ ~Owns(call)
      BY <1>2, <1>4, <3>4 DEF Lost
    <3> QED
      BY <3>1, <3>2, <3>3, <3>4 DEF LoopTypeOK
  <2>2. pc = "calling" /\ call \in Range(tasks') /\ Owns(call) =>
          link[call] \in {"answered", "hung_up", "refused"}
    BY <1>3 DEF EndsForAReason
  <2> QED
    BY <1>2, <2>1, <2>2 DEF EndsForAReason, Owns
<1> QED
  BY <1>5, <1>7, <1>8, <1>9, <1>10, <1>11, <1>13, <1>14, <1>15, <1>3

LEMMA OnDestroyedStep == ASSUME IInv, NEW c \in 1..Calls, OnDestroyed(c) PROVE IInv'
<1>. USE CallsAssumption DEF IInv, TypeOK
<1>1. /\ UNCHANGED <<call, m_state, is_timeout, rsp, my_controller, m_error_code, m_is_failed,
                     m_is_finished, owner, m_fd, link, listening, m_listen_fds, timers, expired, gave_up, harmed,
                     stopped_by>>
      /\ tasks # <<>> /\ Head(tasks) = c /\ m_fd[c] = None
      /\ pc' = "undefined" /\ m_is_running' = FALSE /\ tasks' = <<>>
  BY DEF OnDestroyed, client_vars, controller_vars, fd_vars, timer_vars, history_vars
<1>2. call \in 1..Calls /\ pc \in {"connecting", "calling"} /\ m_fd[call] # None
  BY <1>1 DEF CallInOrder, CallTypeOK
<1>3. c \in Range(tasks) /\ c # call /\ c # TimerTask
  BY <1>1, <1>2, HeadAndTail DEF LoopTypeOK, TimerTask
<1>4. c < call /\ CutShort(c)
  BY <1>3 DEF LeftBehind
<1>5. CallTypeOK'
  BY <1>1 DEF CallTypeOK
<1>6. FdTypeOK' /\ HistoryTypeOK'
  BY <1>1 DEF FdTypeOK, HistoryTypeOK
<1>7. LoopTypeOK'
  <2>1. tasks' \in Seq(0..Calls)
    BY <1>1
  <2> QED
    BY <1>1, <2>1 DEF LoopTypeOK
<1>8. CallInOrder' /\ TimersInOrder'
  BY <1>1, <1>2 DEF CallInOrder, TimersInOrder
<1>9. LastOwns' /\ Lost' /\ OwnDescriptor' /\ TimedOutIsFinished'
  BY <1>1 DEF LastOwns, Lost, Owns, OwnDescriptor, TimedOutIsFinished
<1>12. RoundInOrder'
  BY <1>1, NoRound
<1>10. LeftBehind' /\ EndsForAReason'
  BY <1>1 DEF LeftBehind, EndsForAReason, CutShort, Range
<1>11. Released'
  <2>1. c \in 1..(call - 1) /\ stopped_by[c] \cap Stale # {}
    BY <1>2, <1>4 DEF CutShort
  <2> QED
    BY <1>1, <2>1 DEF Released, CallTimer
<1> QED
  BY <1>5, <1>6, <1>7, <1>8, <1>9, <1>10, <1>11, <1>12

\* What the run of these timers leaves behind.
TimersRan(due) ==
  /\ CallTypeOK' /\ FdTypeOK' /\ TimersInOrder' /\ LastOwns' /\ Lost' /\ TimedOutIsFinished'
  /\ OwnDescriptor' /\ harmed' \subseteq [by : 1..Calls, whose : 1..Other] /\ harmed \subseteq harmed'
  /\ timers' = timers \ due /\ expired' = {}
  /\ listening' \subseteq listening
  /\ m_fd'[call] = m_fd[call] /\ link'[call] = link[call]
  /\ \A c \in 1..Calls : m_fd'[c] # None =>
       m_fd'[c] = m_fd[c] /\ (c # call => CallTimer(c) \in timers')
  /\ \A fd \in 1..MaxFd : /\ owner'[fd] \in {owner[fd], Free}
                          /\ owner'[fd] \in 1..Calls => m_fd'[owner'[fd]] = fd

LEMMA RunTimersRuns ==
  ASSUME IInv, call \in 1..Calls, NEW due \in SUBSET timers, RunTimers(due),
         UNCHANGED <<call, pc, m_state, rsp, my_controller, gave_up>>
  PROVE  TimersRan(due)
<1>. USE CallsAssumption DEF IInv, TypeOK
<1>. DEFINE of_calls == {c \in 1..Calls : CallTimer(c) \in due}
            ended == of_calls \ {call}
            Cancelled(k) == ~m_is_finished[k] /\ \E c \in of_calls : my_controller[c] = k
            connects == {c \in {call} : ConnectTimer \in due}
<1>1. /\ timers' = timers \ due /\ expired' = {}
      /\ is_timeout' = (is_timeout \/ ConnectTimer \in due)
      /\ Destroy(ended) /\ DeleteEpollEvents(ended \cup connects)
  BY DEF RunTimers
<1>2. /\ m_error_code' = [k \in Controllers |->
                            IF Cancelled(k) THEN "CALL_TIMEOUT" ELSE m_error_code[k]]
      /\ m_is_failed' = [k \in Controllers |-> m_is_failed[k] \/ Cancelled(k)]
      /\ m_is_finished' = [k \in Controllers |-> m_is_finished[k] \/ Cancelled(k)]
  BY DEF RunTimers
<1>3. \A t \in timers : /\ t.call \in 1..Calls /\ t.kind \in {"connect", "call"}
                        /\ t = [kind |-> t.kind, call |-> t.call]
  BY DEF LoopTypeOK, Timer
<1>4. ended \in SUBSET (1..Calls) /\ \A c \in ended : m_fd[c] # None
  BY <1>3 DEF TimersInOrder, CallTimer
<1>5. /\ listening' \subseteq LeftListening(ended)
      /\ listening' \subseteq m_listen_fds' /\ m_listen_fds' \subseteq 1..Calls
  <2>1. ended \cup connects \in SUBSET (1..Calls)
    OBVIOUS
  <2>2. /\ listening' = LeftListening(ended \cup connects)
        /\ listening' \subseteq m_listen_fds' /\ m_listen_fds' \subseteq 1..Calls
    BY <1>1, <2>1, DeleteDeletes
  <2> QED
    BY <2>2 DEF LeftListening, Numbers
<1>6. /\ FdTypeOK' /\ LastOwns' /\ Lost' /\ OwnDescriptor'
      /\ harmed' \subseteq [by : 1..Calls, whose : 1..Other]
      /\ \A fd \in 1..MaxFd : owner'[fd] \in 1..Calls => m_fd'[owner'[fd]] = fd
      /\ listening' \subseteq listening \ ended
      /\ \A c \in ended : m_fd'[c] = None
      /\ \A c \in (1..Calls) \ ended : m_fd'[c] = m_fd[c]
  BY <1>1, <1>4, <1>5, DestroyKeeps
<1>7. Closed(ended)
  BY <1>1, <1>4, CloseCloses DEF Destroy
<1>8. call \notin ended /\ link'[call] = link[call]
  BY <1>1 DEF Destroy
<1>9. CallTypeOK'
  BY <1>1, <1>2 DEF CallTypeOK, Errors
<1>10. TimedOutIsFinished'
  BY <1>2 DEF TimedOutIsFinished, CallTypeOK
<1>11. \A c \in 1..Calls : c \in ended <=> c # call /\ CallTimer(c) \in due
  OBVIOUS
<1>. HIDE DEF ended
<1>12. TimersInOrder'
  <2> SUFFICES ASSUME NEW t \in timers, t \notin due
               PROVE  /\ t.kind = "connect" =>
                           t.call = call /\ pc \in {"arming_connect", "connecting", "undefined"}
                      /\ t.kind = "call" =>
                           /\ m_fd'[t.call] # None
                           /\ \/ t.call < call
                              \/ t.call = call /\ pc \in {"arming_call", "calling", "undefined"}
    BY <1>1 DEF TimersInOrder
  <2>1. t.kind = "call" => t.call \notin ended
    BY <1>3, <1>11 DEF CallTimer
  <2> QED
    BY <1>3, <1>6, <2>1 DEF TimersInOrder
<1>13. ASSUME NEW c \in 1..Calls, m_fd'[c] # None
       PROVE  m_fd'[c] = m_fd[c] /\ (c # call => CallTimer(c) \in timers')
  <2>1. c \notin ended /\ m_fd'[c] = m_fd[c]
    BY <1>6, <1>13
  <2>2. c # call => CallTimer(c) \in timers
    BY <1>13, <2>1 DEF Released
  <2> QED
    BY <1>1, <1>11, <2>1, <2>2
<1>14. \A fd \in 1..MaxFd : owner'[fd] \in {owner[fd], Free}
  BY <1>7 DEF Closed
<1> QED
  BY <1>1, <1>6, <1>7, <1>8, <1>9, <1>10, <1>12, <1>13, <1>14 DEF TimersRan, Closed

LEMMA OnTimerStep == ASSUME IInv, OnTimer PROVE IInv'
<1>. USE CallsAssumption DEF IInv, TypeOK
<1>. DEFINE stoppers == {t \in expired : Stops(t)}
<1>1. /\ UNCHANGED <<call, pc, m_state, rsp, my_controller, gave_up>>
      /\ tasks # <<>> /\ tasks' = Tail(tasks) /\ RunTimers(expired)
      /\ m_is_running' = (m_is_running /\ stoppers = {})
      /\ stopped_by' = [stopped_by EXCEPT ![call] = @ \cup {Who(t) : t \in stoppers}]
  BY DEF OnTimer
<1>2. call \in 1..Calls /\ pc \in {"connecting", "calling"} /\ m_fd[call] # None
  BY <1>1 DEF CallInOrder, CallTypeOK
<1>3. TimersRan(expired)
  BY <1>1, <1>2, RunTimersRuns DEF LoopTypeOK
<1>4. tasks' \in Seq(0..Calls) /\ Range(tasks') \subseteq Range(tasks) /\ RoundInOrder'
  BY <1>1, <1>3, RoundGoesOn DEF TimersRan
<1>5. \A t \in expired : /\ t \in timers /\ t.call \in 1..Calls /\ t.kind \in {"connect", "call"}
                         /\ t = [kind |-> t.kind, call |-> t.call]
  BY DEF LoopTypeOK, Timer
<1>6. \A t \in stoppers : Who(t) \in {"connect", "call", "stale timer"} /\ t \in expired
  BY <1>5 DEF Who
<1>7. ASSUME pc = "calling", NEW t \in stoppers
      PROVE  Who(t) = "stale timer" \/ (Who(t) = "call" /\ CallTimer(call) \in expired)
  <2>1. t.kind = "call" /\ t \in expired
    BY <1>5, <1>7 DEF TimersInOrder
  <2> QED
    BY <1>5, <2>1 DEF Who, CallTimer
<1>. HIDE DEF stoppers
<1>8. LoopTypeOK'
  BY <1>1, <1>3, <1>4 DEF LoopTypeOK, TimersRan
<1>9. HistoryTypeOK'
  <2>1. {Who(t) : t \in stoppers} \subseteq {"connect", "call"} \cup Stale
    BY <1>6 DEF Stale
  <2>2. stopped_by' \in [1..Calls -> SUBSET ({"connect", "call", "unheard"} \cup Stale)]
    BY <1>1, <1>2, <2>1 DEF HistoryTypeOK
  <2> QED
    BY <1>1, <1>3, <2>2 DEF HistoryTypeOK, TimersRan
<1>10. CallInOrder'
  <2>1. \A c \in 1..Calls : c > call => m_fd'[c] = None
    BY <1>3 DEF CallInOrder, TimersRan
  <2> QED
    BY <1>1, <1>2, <1>3, <2>1 DEF CallInOrder, TimersRan
<1>11. \A d \in 1..Calls : stopped_by[d] \subseteq stopped_by'[d]
  BY <1>1 DEF HistoryTypeOK
<1>12. ASSUME m_is_running, ~m_is_running'
       PROVE  \E t \in stoppers : Who(t) \in stopped_by'[call]
  BY <1>1, <1>2, <1>12 DEF HistoryTypeOK
<1>13. LeftBehind'
  <2>1. ASSUME pc = "calling", ~m_is_running', call \in listening' \cup Range(tasks'),
               CallTimer(call) \in timers'
        PROVE  stopped_by'[call] \cap Stale # {}
    <3>3. call \in listening \cup Range(tasks) /\ CallTimer(call) \in timers \ expired
      BY <1>3, <1>4, <2>1 DEF TimersRan
    <3>1. CASE ~m_is_running
      <4>1. CutShort(call)
        BY <2>1, <3>1, <3>3 DEF LeftBehind
      <4> QED
        BY <1>2, <1>11, <4>1 DEF CutShort
    <3>2. CASE m_is_running
      <4>1. PICK t \in stoppers : Who(t) \in stopped_by'[call]
        BY <1>12, <2>1, <3>2
      <4>2. Who(t) = "stale timer"
        BY <1>7, <2>1, <3>3
      <4> QED
        BY <4>1, <4>2 DEF Stale
    <3> QED
      BY <3>1, <3>2 DEF LoopTypeOK
  <2>2. \A d \in listening' : d < call => d \in 1..Calls /\ stopped_by'[d] \cap Stale # {}
    BY <1>3, <1>11 DEF LeftBehind, FdTypeOK, CutShort, TimersRan
  <2>3. ASSUME NEW d \in Range(tasks'), d # TimerTask, d # call
        PROVE  d < call /\ stopped_by'[d] \cap Stale # {}
    <3>1. d \in 0..Calls
      BY <1>4 DEF Range
    <3>2. d \in 1..Calls /\ d < call /\ CutShort(d)
      BY <1>4, <2>3, <3>1 DEF LeftBehind, TimerTask
    <3> QED
      BY <1>11, <3>2 DEF CutShort
  <2> QED
    BY <1>1, <2>1, <2>2, <2>3 DEF LeftBehind, CallTimer, CutShort
<1>14. EndsForAReason'
  <2>1. ASSUME pc = "calling", ~m_is_running', ~rsp
        PROVE  \/ link[call] \in {"hung_up", "refused"}
               \/ stopped_by'[call] \cap ({"call"} \cup Stale) # {}
               \/ call \in gave_up
               \/ \E h \in harmed' : h.whose = call
    <3>1. CASE ~m_is_running
      BY <1>2, <1>3, <1>11, <2>1, <3>1 DEF EndsForAReason, TimersRan
    <3>2. CASE m_is_running
      <4>1. PICK t \in stoppers : Who(t) \in stopped_by'[call]
        BY <1>12, <2>1, <3>2
      <4> QED
        BY <1>7, <2>1, <4>1 DEF Stale
    <3> QED
      BY <3>1, <3>2 DEF LoopTypeOK
  <2>2. m_fd'[call] = m_fd[call] /\ link'[call] = link[call]
    BY <1>3 DEF TimersRan
  <2>3. Owns(call)' => Owns(call)
    <3>1. m_fd[call] \in 1..MaxFd /\ call # Free
      BY <1>2 DEF FdTypeOK, None, Free
    <3> QED
      BY <1>1, <1>3, <2>2, <3>1 DEF Owns, TimersRan
  <2> QED
    BY <1>1, <1>4, <2>1, <2>2, <2>3 DEF EndsForAReason
<1>15. Released'
  BY <1>1, <1>2, <1>3 DEF Released, CallTimer, TimersRan
<1> QED
  BY <1>3, <1>4, <1>8, <1>9, <1>10, <1>13, <1>14, <1>15 DEF TimersRan

LEMMA DueAtOnceStep == ASSUME IInv, DueAtOnce PROVE IInv'
<1>. USE CallsAssumption DEF IInv, TypeOK
<1>1. /\ UNCHANGED <<call, pc, m_state, rsp, my_controller, m_is_running, tasks, gave_up>>
      /\ stopped_by' = [stopped_by EXCEPT ![call] = @ \cup {"unheard"}]
      /\ pc \in {"arming_connect", "arming_call"}
  BY DEF DueAtOnce, loop_vars
<1>2. AtRest /\ m_fd[call] # None
  BY <1>1, OutsideAtRest DEF CallInOrder
<1>3. PICK due \in SUBSET timers : TimersRan(due)
  <2>1. PICK due \in SUBSET timers : RunTimers(due)
    <3>1. PICK behind \in SUBSET (timers \ {Own}) : RunTimers(behind \cup {Own})
      BY DEF DueAtOnce
    <3>2. behind \cup {Own} \in SUBSET timers
      BY DEF DueAtOnce
    <3> QED
      BY <3>1, <3>2
  <2> QED
    BY <1>1, <1>2, <2>1, RunTimersRuns DEF AtRest
<1>4. LoopTypeOK'
  BY <1>1, <1>3 DEF LoopTypeOK, TimersRan
<1>5. HistoryTypeOK'
  <2>1. stopped_by' \in [1..Calls -> SUBSET ({"connect", "call", "unheard"} \cup Stale)]
    BY <1>1, <1>2 DEF HistoryTypeOK, AtRest
  <2> QED
    BY <1>1, <1>3, <2>1 DEF HistoryTypeOK, TimersRan
<1>6. CallInOrder'
  <2>1. \A c \in 1..Calls : c > call => m_fd'[c] = None
    BY <1>3 DEF CallInOrder, TimersRan
  <2> QED
    BY <1>1, <1>2, <1>3, <2>1 DEF CallInOrder, TimersRan, AtRest
<1>7. RoundInOrder'
  BY <1>1, <1>2, NoRound DEF AtRest
<1>8. LeftBehind' /\ EndsForAReason'
  <2>1. \A d \in 1..Calls : stopped_by[d] \subseteq stopped_by'[d]
    BY <1>1 DEF HistoryTypeOK
  <2>2. \A d \in listening' : d < call => d \in 1..Calls /\ stopped_by'[d] \cap Stale # {}
    BY <1>3, <2>1 DEF LeftBehind, FdTypeOK, CutShort, TimersRan
  <2> QED
    BY <1>1, <1>2, <2>2 DEF LeftBehind, EndsForAReason, CutShort, AtRest, Range
<1>9. Released'
  BY <1>1, <1>2, <1>3 DEF Released, CallTimer, TimersRan, AtRest
<1> QED
  BY <1>3, <1>4, <1>5, <1>6, <1>7, <1>8, <1>9 DEF TimersRan

-----------------------------------------------------------------------------
(* The world.                                                              *)

\* The state of a connection changes while nothing waits for the old one.
LEMMA LinkStep ==
  ASSUME IInv, NEW c \in 1..Calls, link[c] \in {"pending", "up"},
         NEW state \in {"up", "refused", "answered", "hung_up"},
         Owns(c), link' = [link EXCEPT ![c] = state],
         UNCHANGED <<call, pc, client_vars, controller_vars, owner, m_fd, listening, m_listen_fds, loop_vars,
                     timer_vars, history_vars>>
  PROVE  IInv'
<1>. USE CallsAssumption DEF IInv, TypeOK
<1>1. UNCHANGED <<call, pc, m_state, is_timeout, rsp, my_controller, m_error_code, m_is_failed,
                  m_is_finished, owner, m_fd, listening, m_listen_fds, m_is_running, tasks, timers, expired,
                  gave_up, harmed, stopped_by>>
  BY DEF client_vars, controller_vars, loop_vars, timer_vars, history_vars
<1>2. CallTypeOK' /\ LoopTypeOK' /\ HistoryTypeOK'
  BY <1>1 DEF CallTypeOK, LoopTypeOK, HistoryTypeOK
<1>3. FdTypeOK'
  BY <1>1 DEF FdTypeOK
<1>4. CallInOrder' /\ TimersInOrder' /\ LastOwns' /\ Lost'
  BY <1>1 DEF CallInOrder, TimersInOrder, LastOwns, Lost, Owns
<1>7. RoundInOrder'
  BY <1>1 DEF RoundInOrder
<1>5. LeftBehind' /\ TimedOutIsFinished' /\ Released' /\ OwnDescriptor'
  BY <1>1 DEF LeftBehind, CutShort, TimedOutIsFinished, Released, OwnDescriptor, CallTimer
<1>6. EndsForAReason'
  <2>1. link'[call] = link[call] \/ (c = call /\ link[call] \in {"pending", "up"})
    BY DEF FdTypeOK
  <2> QED
    BY <1>1, <2>1 DEF EndsForAReason, Owns
<1> QED
  BY <1>2, <1>3, <1>4, <1>5, <1>6, <1>7

LEMMA OtherOpensStep == ASSUME IInv, OtherOpens PROVE IInv'
<1>. USE CallsAssumption DEF IInv, TypeOK
<1>1. UNCHANGED <<call, pc, m_state, is_timeout, rsp, my_controller, m_error_code, m_is_failed,
                  m_is_finished, m_fd, link, listening, m_listen_fds, m_is_running, tasks, timers, expired,
                  gave_up, harmed, stopped_by>>
  BY DEF OtherOpens, client_vars, controller_vars, loop_vars, timer_vars, history_vars
<1>2. PICK fd \in 1..MaxFd : owner[fd] = Free /\ owner' = [owner EXCEPT ![fd] = Other]
  BY LowestIsFree DEF OtherOpens
<1>3. CallTypeOK' /\ LoopTypeOK' /\ HistoryTypeOK'
  BY <1>1 DEF CallTypeOK, LoopTypeOK, HistoryTypeOK
<1>4. \A f \in 1..MaxFd : owner'[f] = owner[f] \/ (f = fd /\ owner'[f] = Other)
  BY <1>2 DEF FdTypeOK
<1>5. Other \in Free..Other /\ Other \notin 1..Calls /\ Free \notin 1..Calls /\ Free # Other
  BY DEF Free, Other
<1>6. FdTypeOK'
  <2>1. owner' \in [1..MaxFd -> Free..Other]
    BY <1>2, <1>5 DEF FdTypeOK
  <2> QED
    BY <1>1, <1>4, <2>1 DEF FdTypeOK, None
<1>7. CallInOrder' /\ TimersInOrder'
  BY <1>1 DEF CallInOrder, TimersInOrder
<1>13. RoundInOrder'
  <2>1. \A c \in Range(tasks) : c \in 0..Calls
    BY DEF LoopTypeOK, Range
  <2> QED
    BY <1>1, <1>4, <2>1 DEF RoundInOrder, FdTypeOK, None, TimerTask
<1>8. LastOwns'
  BY <1>1, <1>4 DEF LastOwns, FdTypeOK, None, Other
<1>9. Lost'
  BY <1>1, <1>2, <1>4, <1>5 DEF Lost, Owns, FdTypeOK, None
<1>10. LeftBehind' /\ TimedOutIsFinished' /\ OwnDescriptor'
  BY <1>1 DEF LeftBehind, CutShort, TimedOutIsFinished, OwnDescriptor, CallTimer
<1>11. EndsForAReason'
  <2>1. pc = "calling" /\ Owns(call)' => Owns(call)
    BY <1>1, <1>4, <1>5 DEF Owns, FdTypeOK, None, CallInOrder, CallTypeOK
  <2> QED
    BY <1>1, <2>1 DEF EndsForAReason
<1>12. Released'
  BY <1>1, <1>4, <1>5 DEF Released, CallTimer
<1> QED
  BY <1>3, <1>6, <1>7, <1>8, <1>9, <1>10, <1>11, <1>12, <1>13

LEMMA OtherClosesStep == ASSUME IInv, NEW fd \in 1..MaxFd, OtherCloses(fd) PROVE IInv'
<1>. USE CallsAssumption DEF IInv, TypeOK
<1>1. /\ UNCHANGED <<call, pc, m_state, is_timeout, rsp, my_controller, m_error_code, m_is_failed,
                     m_is_finished, m_fd, link, m_listen_fds, m_is_running, tasks, timers, expired,
                     gave_up, harmed, stopped_by>>
      /\ owner[fd] = Other /\ owner' = [owner EXCEPT ![fd] = Free]
      /\ listening' = {c \in listening : m_fd[c] # fd}
  BY DEF OtherCloses, client_vars, controller_vars, loop_vars, timer_vars, history_vars
<1>2. CallTypeOK' /\ LoopTypeOK' /\ HistoryTypeOK'
  BY <1>1 DEF CallTypeOK, LoopTypeOK, HistoryTypeOK
<1>3. \A f \in 1..MaxFd : owner'[f] = owner[f] \/ (f = fd /\ owner'[f] = Free)
  BY <1>1 DEF FdTypeOK
<1>4. Free \in Free..Other /\ Other \notin 1..Calls /\ Free \notin 1..Calls /\ Free # Other
  BY DEF Free, Other
<1>5. FdTypeOK'
  <2>1. owner' \in [1..MaxFd -> Free..Other]
    BY <1>1, <1>4 DEF FdTypeOK
  <2>2. ASSUME NEW c \in listening' PROVE m_fd[c] # None /\ owner'[m_fd[c]] \in {c, Other}
    <3>1. c \in listening /\ c \in 1..Calls /\ m_fd[c] # fd
      BY <1>1 DEF FdTypeOK
    <3>2. m_fd[c] \in 1..MaxFd
      BY <3>1 DEF FdTypeOK, None
    <3> QED
      BY <1>1, <3>1, <3>2 DEF FdTypeOK
  <2> QED
    BY <1>1, <2>1, <2>2 DEF FdTypeOK
<1>6. CallInOrder' /\ TimersInOrder'
  BY <1>1 DEF CallInOrder, TimersInOrder
<1>12. RoundInOrder'
  <2>1. \A c \in Range(tasks) : c \in 0..Calls
    BY DEF LoopTypeOK, Range
  <2> QED
    BY <1>1, <1>3, <2>1 DEF RoundInOrder, FdTypeOK, None, TimerTask
<1>7. LastOwns'
  BY <1>1, <1>3 DEF LastOwns, FdTypeOK, None
<1>8. Lost'
  BY <1>1, <1>3, <1>4 DEF Lost, Owns, FdTypeOK, None
<1>9. LeftBehind' /\ TimedOutIsFinished' /\ OwnDescriptor'
  BY <1>1 DEF LeftBehind, CutShort, TimedOutIsFinished, OwnDescriptor, CallTimer
<1>10. EndsForAReason'
  <2>1. pc = "calling" /\ Owns(call)' => Owns(call)
    BY <1>1, <1>3, <1>4 DEF Owns, FdTypeOK, None, CallInOrder, CallTypeOK
  <2> QED
    BY <1>1, <2>1 DEF EndsForAReason
<1>11. Released'
  BY <1>1, <1>3, <1>4 DEF Released, CallTimer
<1> QED
  BY <1>2, <1>5, <1>6, <1>7, <1>8, <1>9, <1>10, <1>11, <1>12

LEMMA ExpireStep == ASSUME IInv, NEW t \in Timer, Expire(t) PROVE IInv'
<1>. USE CallsAssumption DEF IInv, TypeOK
<1>1. /\ UNCHANGED <<call, pc, m_state, is_timeout, rsp, my_controller, m_error_code, m_is_failed,
                     m_is_finished, owner, m_fd, link, listening, m_listen_fds, m_is_running, tasks, timers,
                     gave_up, harmed, stopped_by>>
      /\ t \in timers /\ expired' = expired \cup {t}
  BY DEF Expire, client_vars, controller_vars, fd_vars, loop_vars, history_vars
<1>2. CallTypeOK' /\ FdTypeOK' /\ LoopTypeOK' /\ HistoryTypeOK'
  BY <1>1 DEF CallTypeOK, FdTypeOK, LoopTypeOK, HistoryTypeOK
<1>3. CallInOrder' /\ TimersInOrder' /\ RoundInOrder' /\ LastOwns' /\ Lost'
  BY <1>1 DEF CallInOrder, TimersInOrder, RoundInOrder, LastOwns, Lost, Owns
<1>4. LeftBehind' /\ EndsForAReason'
  BY <1>1 DEF LeftBehind, CutShort, EndsForAReason, Owns, CallTimer
<1>5. TimedOutIsFinished' /\ Released' /\ OwnDescriptor'
  BY <1>1 DEF TimedOutIsFinished, Released, OwnDescriptor, CallTimer
<1> QED
  BY <1>2, <1>3, <1>4, <1>5

LEMMA StutterStep == ASSUME IInv, UNCHANGED vars PROVE IInv'
<1>1. UNCHANGED <<call, pc, m_state, is_timeout, rsp, my_controller, m_error_code, m_is_failed,
                  m_is_finished, owner, m_fd, link, listening, m_listen_fds, m_is_running, tasks, timers, expired,
                  gave_up, harmed, stopped_by>>
  BY DEF vars, client_vars, controller_vars, fd_vars, loop_vars, timer_vars, history_vars
<1>. USE DEF IInv
<1>2. TypeOK'
  BY <1>1 DEF TypeOK, CallTypeOK, FdTypeOK, LoopTypeOK, HistoryTypeOK
<1>3. CallInOrder' /\ TimersInOrder' /\ RoundInOrder' /\ LastOwns' /\ Lost'
  BY <1>1 DEF CallInOrder, TimersInOrder, RoundInOrder, LastOwns, Lost, Owns
<1>4. LeftBehind' /\ EndsForAReason'
  BY <1>1 DEF LeftBehind, CutShort, EndsForAReason, Owns, CallTimer
<1>5. TimedOutIsFinished' /\ Released' /\ OwnDescriptor'
  BY <1>1 DEF TimedOutIsFinished, Released, OwnDescriptor, CallTimer
<1> QED
  BY <1>2, <1>3, <1>4, <1>5

-----------------------------------------------------------------------------
(* The theorems.                                                           *)

LEMMA NextIInv == IInv /\ [Next]_vars => IInv'
<1> SUFFICES ASSUME IInv, [Next]_vars PROVE IInv'
  OBVIOUS
<1>1. CASE Outside
  BY <1>1, ResetStep, NoDescriptorStep, ConnectsAtOnceStep, RefusedAtOnceStep,
     ConnectInProgressStep, ConnectReturnsStep, ConnectFailedStep, StartCallStep, DueAtOnceStep,
     StartLoopStep, CallReturnsStep
     DEF Outside
<1>2. CASE Loop
  BY <1>2, EpollWaitStep, OnConnectedStep, OnRefusedStep, OnTimerStep, OnCallIoStep,
     OnDestroyedStep DEF Loop
<1>3. CASE World
  <2>1. ASSUME NEW c \in 1..Calls, ConnectDone(c) PROVE IInv'
    <3>1. PICK result \in {"up", "refused"} : link' = [link EXCEPT ![c] = result]
      BY <2>1 DEF ConnectDone
    <3> QED
      BY <2>1, <3>1, LinkStep DEF ConnectDone
  <2>2. ASSUME NEW c \in 1..Calls, ServerResponds(c) PROVE IInv'
    <3>1. PICK result \in {"answered", "hung_up"} : link' = [link EXCEPT ![c] = result]
      BY <2>2 DEF ServerResponds
    <3> QED
      BY <2>2, <3>1, LinkStep DEF ServerResponds
  <2> QED
    BY <1>3, <2>1, <2>2, OtherOpensStep, OtherClosesStep, ExpireStep DEF World, TimePasses
<1>4. CASE UNCHANGED vars
  BY <1>4, StutterStep
<1> QED
  BY <1>1, <1>2, <1>3, <1>4 DEF Next

LEMMA Invariance == Spec => []IInv
<1> QED
  BY InitIInv, NextIInv, PTL DEF Spec

\* The state has its type: in particular a number in the loop is the number of
\* a client that believes it open, and the kernel has it for that client's file
\* or for another thread's, never for a later call's and never for nobody's
\* (TcpClient, EventLoop::addEpollEvent() and deleteEpollEvent()).
THEOREM TypeCorrect == Spec => []TypeOK
<1>1. IInv => TypeOK
  BY DEF IInv
<1> QED
  BY <1>1, Invariance, PTL

\* However many calls are made one after another, with whatever controllers and
\* however few descriptors, a call without a response was ended by its server,
\* by its own timer, by what an earlier call left in the loop, or had lost its
\* descriptor (RpcChannel::CallMethod and TcpClient::connect()).
THEOREM FailuresHaveReasons == Spec => []FailsForAReason
<1>1. IInv => FailsForAReason
  BY DEF IInv, EndsForAReason, FailsForAReason
<1> QED
  BY <1>1, Invariance, PTL

\* A client that outlives its call is kept by the call's timer alone, a number
\* in the table is the one its client knows, and only a call cut short by what
\* an earlier one left behind can lead to the callback of a destroyed
\* connection (the lambda's copy of client in CallMethod, ~TcpConnection).
THEOREM ClientsAreReleased == Spec => []Released
<1>1. IInv => Released
  BY DEF IInv
<1> QED
  BY <1>1, Invariance, PTL

\* A call closes the file of another only if that one opened it later, and then
\* because its own descriptor had been closed before, by itself or by a call
\* before it: the chain of wrong closes goes forward and starts with connect()
\* (TcpClient::connect(), TcpConnection::clear()).
THEOREM WrongClosesHaveCauses == Spec => []OwnDescriptor
<1>1. IInv => OwnDescriptor
  BY DEF IInv
<1> QED
  BY <1>1, Invariance, PTL

\* Nothing but the call that uses a controller changes the outcome in it, once
\* the call before has returned and has had a connection: what the caller read
\* stays (the lambda's test of Finished() in CallMethod).
THEOREM OutcomesAreFinal == Spec => ReturnedIsFinal
<1>. DEFINE Final ==
       \A k \in Controllers :
         /\ pc # "idle" /\ k # my_controller[call]
         /\ m_error_code[k] # "CONNECT_FAILED"
         /\ m_error_code[k] = "NONE" => m_is_finished[k]
         => /\ m_error_code'[k] = m_error_code[k]
            /\ m_is_failed'[k] = m_is_failed[k]
<1>1. IInv /\ [Next]_vars => [Final]_vars
  <2> SUFFICES ASSUME IInv, Next, NEW k \in Controllers,
                      pc # "idle", k # my_controller[call], m_error_code[k] # "CONNECT_FAILED",
                      m_error_code[k] = "NONE" => m_is_finished[k]
               PROVE  m_error_code'[k] = m_error_code[k] /\ m_is_failed'[k] = m_is_failed[k]
    OBVIOUS
  <2>. USE DEF IInv, TypeOK
  <2>1. m_is_finished[k]
    BY DEF TimedOutIsFinished, CallTypeOK, Errors
  <2>2. CASE ConnectFailed \/ CallReturns
    BY <2>2 DEF ConnectFailed, CallReturns, SetError, CallTypeOK
  <2>3. CASE OnTimer \/ DueAtOnce
    <3>1. PICK due : RunTimers(due)
      BY <2>3 DEF OnTimer, DueAtOnce
    <3> QED
      BY <2>1, <3>1 DEF RunTimers, CallTypeOK
  <2>4. CASE \E controller \in Controllers : Reset(controller)
    BY <2>4 DEF Reset
  <2>5. CASE NoDescriptor \/ ConnectsAtOnce \/ RefusedAtOnce \/ ConnectInProgress
               \/ ConnectReturns \/ StartCall \/ StartLoop
    BY <2>5 DEF NoDescriptor, ConnectsAtOnce, RefusedAtOnce, ConnectInProgress, ConnectReturns,
       StartCall, StartLoop, controller_vars
  <2>6. CASE EpollWait \/ OnConnected \/ OnRefused \/ \E c \in 1..Calls : OnCallIo(c) \/ OnDestroyed(c)
    BY <2>6 DEF EpollWait, OnConnected, OnRefused, OnCallIo, OnDestroyed, controller_vars
  <2>7. CASE World
    BY <2>7 DEF World, OtherOpens, OtherCloses, ConnectDone, ServerResponds, TimePasses, Expire,
       controller_vars
  <2> QED
    BY <2>2, <2>3, <2>4, <2>5, <2>6, <2>7 DEF Next, Outside, Loop
<1>2. Spec => [][Final]_vars
  BY <1>1, Invariance, PTL DEF Spec
<1> QED
  BY <1>2 DEF ReturnedIsFinal
=============================================================================

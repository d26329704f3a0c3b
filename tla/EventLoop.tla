------------------------------ MODULE EventLoop ------------------------------
(***************************************************************************)
(* zest::EventLoop (src/zest/net/eventloop.cc): one thread, the owner,     *)
(* runs loop(); other threads hand it registrations through addTask() and  *)
(* end it with stop(), waking it through an edge-triggered eventfd.        *)
(*                                                                         *)
(* The kernel's epoll instance, its eventfd and the descriptors' lifetimes *)
(* are modelled as far as the loop depends on them: an edge-triggered      *)
(* eventfd is reported when it was written since the last report and its   *)
(* counter is still nonzero, and closing a descriptor removes it from the  *)
(* epoll set.  What the callbacks of timers may do to the loop is modelled *)
(* as the callback of the timerfd; TimerFd.tla has the timers themselves.  *)
(***************************************************************************)
EXTENDS Naturals, Sequences, FiniteSets

CONSTANTS
  Fds,        \* descriptors registered by users of the loop
  WakeupFd,   \* m_wakeup_fd
  Timerfd,    \* m_timer's descriptor
  Remotes,    \* threads other than the owner that call the loop
  Acceptor,   \* the one of them that opens and closes the descriptors
  IoMayStop,  \* whether descriptors' callbacks may stop the loop, as a client's do
  MaxEvents,  \* g_epoll_max_events
  MaxCalls    \* bound: calls the remote threads make in one behaviour

ASSUME WakeupFdAssumption == WakeupFd \notin Fds /\ Timerfd \notin Fds /\ WakeupFd # Timerfd
ASSUME AcceptorAssumption == Acceptor \in Remotes
ASSUME IoMayStopAssumption == IoMayStop \in BOOLEAN
ASSUME MaxEventsAssumption == MaxEvents \in Nat \ {0}
ASSUME MaxCallsAssumption == MaxCalls \in Nat

VARIABLES
  loop_pc,          \* where the owner is in loop()
  m_is_running,
  m_pending_tasks,  \* the shared queue, guarded by m_mutex
  pending_tasks,    \* loop()'s local batch
  m_listen_fds,     \* the keys of the map of FdEvents
  events,           \* what epoll_wait returned and loop() has not visited
  epoll_set,        \* kernel: descriptors registered with epoll_ctl
  open_fds,         \* kernel: descriptors that are open
  wakeup_count,     \* kernel: the eventfd's counter is nonzero
  wakeup_edge,      \* kernel: written since epoll_wait last reported it
  remote_pc,        \* where each remote thread is in addTask() or stop()
  clearing,         \* descriptor closed by clear(), its delete not posted yet
  calls,            \* remote calls made so far
  asked             \* history: descriptors whose last request was to listen

loop_vars == <<loop_pc, pending_tasks, events>>
wakeup_vars == <<wakeup_count, wakeup_edge>>
listen_vars == <<m_listen_fds, epoll_set, asked>>
remote_vars == <<remote_pc, clearing, calls, open_fds>>
vars == <<loop_vars, m_is_running, m_pending_tasks, wakeup_vars, listen_vars, remote_vars>>

Descriptors == Fds \cup {Timerfd}
Task == [op : {"add", "delete"}, fd : Fds] \cup [op : {"io"}, fd : Descriptors]
          \cup [op : {"drain"}, fd : {WakeupFd}]
Event == [fd : Descriptors \cup {WakeupFd}, err : BOOLEAN]
LoopPc == {"idle", "while", "swap_top", "run_top", "epoll_wait",
           "collect", "swap_bottom", "run_bottom", "exit", "drain"}

TypeOK ==
  /\ loop_pc \in LoopPc
  /\ m_is_running \in BOOLEAN
  /\ m_pending_tasks \in Seq(Task)
  /\ pending_tasks \in Seq(Task)
  /\ m_listen_fds \subseteq Descriptors
  /\ events \subseteq Event
  /\ epoll_set \subseteq Descriptors
  /\ open_fds \subseteq Descriptors
  /\ wakeup_count \in BOOLEAN
  /\ wakeup_edge \in BOOLEAN
  /\ remote_pc \in [Remotes -> {"idle", "wake"}]
  /\ clearing \subseteq Fds
  /\ calls \in 0..MaxCalls
  /\ asked \subseteq Descriptors

Init ==
  /\ loop_pc = "idle"
  /\ m_is_running = FALSE
  /\ m_pending_tasks = <<>>
  /\ pending_tasks = <<>>
  /\ m_listen_fds = {Timerfd}
  /\ events = {}
  /\ epoll_set = {Timerfd}
  /\ open_fds = {Timerfd}
  /\ wakeup_count = FALSE
  /\ wakeup_edge = FALSE
  /\ remote_pc = [r \in Remotes |-> "idle"]
  /\ clearing = {}
  /\ calls = 0
  /\ asked = {Timerfd}

-----------------------------------------------------------------------------
(* The wakeup descriptor and the registrations, as the owner handles them. *)

\* Mutation: the write to the eventfd is lost.
WakeupLost == UNCHANGED wakeup_vars

\* A write to the eventfd: WakeUpFdEvent::wakeup().
Wakeup == wakeup_count' = TRUE /\ wakeup_edge' = TRUE

\* epoll_wait has the wakeup descriptor to report.
WakeupReady == wakeup_edge /\ wakeup_count

\* A callback is on its way through the queue.
Queued(op, f) ==
  \/ \E i \in DOMAIN m_pending_tasks : m_pending_tasks[i] = [op |-> op, fd |-> f]
  \/ \E i \in DOMAIN pending_tasks : pending_tasks[i] = [op |-> op, fd |-> f]

\* Mutation: a failed epoll_ctl leaves the entry in the map.
EntryAfterCtlKept(f, accepted) == m_listen_fds \cup {f}

\* The map after epoll_ctl: a refused descriptor is erased.
EntryAfterCtl(f, accepted) == IF accepted THEN m_listen_fds \cup {f} ELSE m_listen_fds \ {f}

\* addEpollEvent() on the owner.  Whether the call is a MOD or an ADD is
\* decided by m_listen_fds; the kernel refuses a MOD of a descriptor it does
\* not have, an ADD of one it has, and either on a closed one.
AddEpollEvent(f) ==
  LET accepted == f \in open_fds /\ (f \in m_listen_fds <=> f \in epoll_set)
  IN  /\ m_listen_fds' = EntryAfterCtl(f, accepted)
      /\ epoll_set' = IF accepted THEN epoll_set \cup {f} ELSE epoll_set
      /\ asked' = IF f \in open_fds THEN asked \cup {f} ELSE asked

\* Mutation: the map entry goes, the kernel's registration stays.
AfterCtlDelForgotten(f) == epoll_set

\* EPOLL_CTL_DEL, for a descriptor in the map.
AfterCtlDel(f) == IF f \in m_listen_fds THEN epoll_set \ {f} ELSE epoll_set

\* deleteEpollEvent() on the owner.
DeleteEpollEvent(f) ==
  /\ m_listen_fds' = m_listen_fds \ {f}
  /\ epoll_set' = AfterCtlDel(f)
  /\ asked' = IF Queued("add", f) THEN asked ELSE asked \ {f}

\* stop(), the flag first and the wakeup after it.
StopHere == m_is_running' = FALSE /\ Wakeup

\* The callback of the wakeup descriptor: read until the counter is zero.
DrainWakeup == wakeup_count' = FALSE /\ UNCHANGED wakeup_edge

\* What one callback does to the loop.  A read or write callback may listen
\* again or delete its registration, a timer's may delete any (a connect that
\* timed out), each may stop the loop or do none of these.
Execute(t) ==
  \/ /\ t.op \in {"add", "io"} /\ t.fd # Timerfd
     /\ AddEpollEvent(t.fd)
     /\ UNCHANGED <<m_is_running, wakeup_vars>>
  \/ /\ t.op \in {"delete", "io"} /\ t.fd # Timerfd
     /\ DeleteEpollEvent(t.fd)
     /\ UNCHANGED <<m_is_running, wakeup_vars>>
  \/ /\ t.op = "io" /\ t.fd = Timerfd
     /\ \E f \in Fds : DeleteEpollEvent(f)
     /\ UNCHANGED <<m_is_running, wakeup_vars>>
  \/ /\ t.op = "io" /\ IoMayStop
     /\ StopHere
     /\ UNCHANGED listen_vars
  \/ /\ t.op = "io"
     /\ UNCHANGED <<m_is_running, wakeup_vars, listen_vars>>
  \/ /\ t.op = "drain"
     /\ DrainWakeup
     /\ UNCHANGED <<m_is_running, listen_vars>>

-----------------------------------------------------------------------------
(* The owner, in the order of loop().                                      *)

StartLoop ==
  /\ loop_pc = "idle"
  /\ loop_pc' = "while"
  /\ m_is_running' = TRUE
  /\ UNCHANGED <<pending_tasks, events, m_pending_tasks, wakeup_vars, listen_vars, remote_vars>>

\* while (m_is_running)
TestRunning ==
  /\ loop_pc = "while"
  /\ loop_pc' = IF m_is_running THEN "swap_top" ELSE "exit"
  /\ UNCHANGED <<pending_tasks, events, m_is_running, m_pending_tasks, wakeup_vars,
                 listen_vars, remote_vars>>

\* Mutation: the shared queue is copied and not emptied.
SwapQueuesCopies == pending_tasks' = m_pending_tasks /\ UNCHANGED m_pending_tasks

SwapQueues == pending_tasks' = m_pending_tasks /\ m_pending_tasks' = pending_tasks

\* pending_tasks.swap(m_pending_tasks), before epoll_wait and after it.
Swap ==
  /\ \/ loop_pc = "swap_top" /\ loop_pc' = "run_top"
     \/ loop_pc = "swap_bottom" /\ loop_pc' = "run_bottom"
  /\ SwapQueues
  /\ UNCHANGED <<events, m_is_running, wakeup_vars, listen_vars, remote_vars>>

\* One callback of the batch.
RunTask ==
  /\ loop_pc \in {"run_top", "run_bottom"}
  /\ pending_tasks # <<>>
  /\ pending_tasks' = Tail(pending_tasks)
  /\ Execute(Head(pending_tasks))
  /\ UNCHANGED <<loop_pc, events, m_pending_tasks, remote_vars>>

BatchDone ==
  /\ pending_tasks = <<>>
  /\ \/ loop_pc = "run_top" /\ loop_pc' = "epoll_wait"
     \/ loop_pc = "run_bottom" /\ loop_pc' = "while"
  /\ UNCHANGED <<pending_tasks, events, m_is_running, m_pending_tasks, wakeup_vars,
                 listen_vars, remote_vars>>

\* epoll_wait returns events.  It leaves the wakeup descriptor out only when
\* that is not ready or the array is full of others.
EpollWait ==
  /\ loop_pc = "epoll_wait"
  /\ \E fds \in SUBSET epoll_set, errs \in SUBSET Fds, woken \in BOOLEAN :
       LET user == {[fd |-> f, err |-> f \in errs] : f \in fds}
           wake == IF woken THEN {[fd |-> WakeupFd, err |-> FALSE]} ELSE {}
       IN  /\ errs \subseteq fds
           /\ woken => WakeupReady
           /\ Cardinality(user \cup wake) \in 1..MaxEvents
           /\ WakeupReady /\ ~woken => Cardinality(user) = MaxEvents
           /\ events' = user \cup wake
           /\ wakeup_edge' = IF woken THEN FALSE ELSE wakeup_edge
  /\ loop_pc' = "collect"
  /\ UNCHANGED <<pending_tasks, m_is_running, m_pending_tasks, wakeup_count,
                 listen_vars, remote_vars>>

\* epoll_wait times out (n = 0, the for loop is empty) or fails (continue).
EpollWaitNothing ==
  /\ loop_pc = "epoll_wait"
  /\ \/ ~WakeupReady /\ loop_pc' = "collect"
     \/ loop_pc' = "while"
  /\ UNCHANGED <<pending_tasks, events, m_is_running, m_pending_tasks, wakeup_vars,
                 listen_vars, remote_vars>>

\* Mutation: the wakeup descriptor's callback is taken for a read callback.
HandlerIo(fd) == [op |-> "io", fd |-> fd]

\* FdEvent::handler(): the callback of a descriptor.
Handler(fd) == [op |-> IF fd = WakeupFd THEN "drain" ELSE "io", fd |-> fd]

\* One iteration of the for loop: the callback is posted, and a descriptor in
\* error is deleted too (its error callback is null and running it is a no-op).
Collect ==
  /\ loop_pc = "collect"
  /\ \E e \in events :
       /\ events' = events \ {e}
       /\ m_pending_tasks' = Append(m_pending_tasks, Handler(e.fd))
       /\ IF e.err THEN DeleteEpollEvent(e.fd) ELSE UNCHANGED listen_vars
  /\ UNCHANGED <<loop_pc, pending_tasks, m_is_running, wakeup_vars, remote_vars>>

CollectDone ==
  /\ loop_pc = "collect" /\ events = {}
  /\ loop_pc' = "swap_bottom"
  /\ UNCHANGED <<pending_tasks, events, m_is_running, m_pending_tasks, wakeup_vars,
                 listen_vars, remote_vars>>

\* Mutation: loop() returns without running what is left of the queue.
LockForExitReturns ==
  /\ loop_pc = "exit"
  /\ loop_pc' = "idle"
  /\ UNCHANGED <<pending_tasks, events, m_is_running, m_pending_tasks, wakeup_vars,
                 listen_vars, remote_vars>>

\* After the loop the rest of the queue is run with m_mutex held.
LockForExit ==
  /\ loop_pc = "exit"
  /\ loop_pc' = "drain"
  /\ UNCHANGED <<pending_tasks, events, m_is_running, m_pending_tasks, wakeup_vars,
                 listen_vars, remote_vars>>

RunAtExit ==
  /\ loop_pc = "drain"
  /\ m_pending_tasks # <<>>
  /\ m_pending_tasks' = Tail(m_pending_tasks)
  /\ Execute(Head(m_pending_tasks))
  /\ UNCHANGED <<loop_vars, remote_vars>>

ReturnFromLoop ==
  /\ loop_pc = "drain" /\ m_pending_tasks = <<>>
  /\ loop_pc' = "idle"
  /\ UNCHANGED <<pending_tasks, events, m_is_running, m_pending_tasks, wakeup_vars,
                 listen_vars, remote_vars>>

-----------------------------------------------------------------------------
(* The remote threads.                                                     *)

MutexFree == loop_pc # "drain"

CanCall(r) == remote_pc[r] = "idle" /\ (r = Acceptor => clearing = {})

\* Mutation: the call returns without a wakeup.
ThenWakeForgotten(r) == UNCHANGED remote_pc

\* The thread goes on to wakeup().
ThenWake(r) == remote_pc' = [remote_pc EXCEPT ![r] = "wake"]

\* addTask(cb, true) up to its unlock; Wake is the rest.
AddTask(r, op, f) ==
  /\ MutexFree
  /\ m_pending_tasks' = Append(m_pending_tasks, [op |-> op, fd |-> f])
  /\ ThenWake(r)

\* A connection is accepted and listens: addEpollEvent() off the owner.
PostAdd(f) ==
  /\ CanCall(Acceptor) /\ calls < MaxCalls
  /\ f \notin open_fds
  /\ open_fds' = open_fds \cup {f}
  /\ AddTask(Acceptor, "add", f)
  /\ calls' = calls + 1
  /\ asked' = asked \cup {f}
  /\ UNCHANGED <<loop_vars, m_is_running, wakeup_vars, m_listen_fds, epoll_set, clearing>>

\* TcpConnection::clear(): the descriptor is closed ...
Close(f) ==
  /\ CanCall(Acceptor) /\ calls < MaxCalls
  /\ f \in open_fds
  /\ open_fds' = open_fds \ {f}
  /\ epoll_set' = epoll_set \ {f}
  /\ clearing' = {f}
  /\ calls' = calls + 1
  /\ asked' = asked \ {f}
  /\ UNCHANGED <<loop_vars, m_is_running, m_pending_tasks, wakeup_vars, m_listen_fds, remote_pc>>

\* ... and then deleteEpollEvent() posts the rest.
PostDelete(f) ==
  /\ f \in clearing
  /\ clearing' = {}
  /\ AddTask(Acceptor, "delete", f)
  /\ UNCHANGED <<loop_vars, m_is_running, wakeup_vars, listen_vars, calls, open_fds>>

\* stop() up to the flag; Wake is the rest.
Stop(r) ==
  /\ CanCall(r) /\ calls < MaxCalls
  /\ m_is_running' = FALSE
  /\ ThenWake(r)
  /\ calls' = calls + 1
  /\ UNCHANGED <<loop_vars, m_pending_tasks, wakeup_vars, listen_vars, clearing, open_fds>>

Wake(r) ==
  /\ remote_pc[r] = "wake"
  /\ remote_pc' = [remote_pc EXCEPT ![r] = "idle"]
  /\ Wakeup
  /\ UNCHANGED <<loop_vars, m_is_running, m_pending_tasks, listen_vars, clearing, calls, open_fds>>

-----------------------------------------------------------------------------

LoopStep ==
  \/ TestRunning \/ Swap \/ RunTask \/ BatchDone \/ EpollWait \/ Collect \/ CollectDone
  \/ LockForExit \/ RunAtExit \/ ReturnFromLoop

Remote ==
  \/ \E f \in Fds : PostAdd(f) \/ Close(f) \/ PostDelete(f)
  \/ \E r \in Remotes : Stop(r) \/ Wake(r)

Next == StartLoop \/ LoopStep \/ EpollWaitNothing \/ Remote

Spec == Init /\ [][Next]_vars

\* The scheduler runs a thread that can run.  Nothing is assumed of the
\* 10 s timeout, of signals or of traffic on user descriptors: epoll_wait is
\* only known to return when the wakeup descriptor is ready.
Fairness ==
  /\ WF_vars(LoopStep /\ (loop_pc = "epoll_wait" => WakeupReady))
  /\ \A r \in Remotes : WF_vars(Wake(r))
  /\ \A f \in Fds : WF_vars(PostDelete(f))

FairSpec == Spec /\ Fairness

-----------------------------------------------------------------------------
(* Safety.                                                                 *)

WakeComing == WakeupReady \/ \E r \in Remotes : remote_pc[r] = "wake"

\* A callback another thread posted never waits for epoll_wait's timeout: from
\* the swap before epoll_wait until epoll_wait returns, whatever is in
\* m_pending_tasks has a wakeup in the eventfd or on its way to it.
NoLostWakeup ==
  loop_pc \in {"run_top", "epoll_wait"} /\ m_pending_tasks # <<>> => WakeComing

\* stop() never waits for the timeout either: once the loop condition has been
\* tested, a cleared m_is_running has its wakeup waiting or on its way.
NoLostStop ==
  loop_pc \in {"swap_top", "run_top", "epoll_wait"} /\ ~m_is_running => WakeComing

\* loop() dereferences m_listen_fds[event.data.fd] without a check: an event
\* the loop has not visited yet is for a descriptor still in the map, whatever
\* was deleted or closed since epoll_wait returned.
NoNullHandler == \A e \in events : e.fd \in m_listen_fds \cup {WakeupFd}

Quiet ==
  /\ m_pending_tasks = <<>> /\ pending_tasks = <<>> /\ events = {} /\ clearing = {}
  /\ \A r \in Remotes : remote_pc[r] = "idle"

\* Deferring addEpollEvent and deleteEpollEvent to the owner, with descriptors
\* closed and reused meanwhile and old callbacks listening again, settles to
\* what was asked: the map and the kernel's set are the descriptors whose last
\* request was to listen.
RegistrationSettles == Quiet => m_listen_fds = asked /\ epoll_set = asked

\* The local batch and the shared queue together are one FIFO queue.
Q == INSTANCE TaskQueue WITH queue <- pending_tasks \o m_pending_tasks

\* Every step posts at the tail, runs the head, or leaves the queue as it is.
FifoQueue == Q!Spec

-----------------------------------------------------------------------------
(* Liveness.                                                               *)

\* A registration another thread posts is carried out, unless the loop ends.
PostedRuns ==
  \A f \in Fds, op \in {"add", "delete"} :
    Queued(op, f) ~> ~Queued(op, f) \/ loop_pc = "idle"

\* A loop that was told to stop returns.
StopReturns == ~m_is_running ~> loop_pc = "idle"
=============================================================================

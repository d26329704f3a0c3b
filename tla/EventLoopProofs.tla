--------------------------- MODULE EventLoopProofs ---------------------------
(***************************************************************************)
(* Proofs about EventLoop for every set of descriptors and of threads, and *)
(* every bound.                                                            *)
(***************************************************************************)
EXTENDS EventLoop, SequenceTheorems, TLAPS

RemoteTask == [op : {"add", "delete"}, fd : Fds]

\* Where each kind of callback can be: those of descriptors (the drain of the
\* eventfd among them) are posted while collecting and run in the batch after
\* it, so the batch before epoll_wait cannot swallow a wakeup or stop the loop.
QueueContents ==
  /\ loop_pc \notin {"collect", "swap_bottom"} => m_pending_tasks \in Seq(RemoteTask)
  /\ loop_pc = "run_top" => pending_tasks \in Seq(RemoteTask)
  /\ loop_pc \notin {"run_top", "run_bottom"} => pending_tasks = <<>>

\* The kernel's set holds open descriptors that are in the map, and epoll_wait
\* reports a descriptor once.
MapCoversKernel ==
  /\ epoll_set \subseteq m_listen_fds \cap open_fds
  /\ loop_pc # "collect" => events = {}
  /\ \A d, e \in events : d.fd = e.fd => d = e

IInv == TypeOK /\ QueueContents /\ MapCoversKernel /\ NoLostWakeup /\ NoLostStop /\ NoNullHandler

-----------------------------------------------------------------------------

LEMMA RemoteTaskType == RemoteTask \subseteq Task
BY DEF RemoteTask, Task

LEMMA SeqMonotone ==
  ASSUME NEW S, NEW T, S \subseteq T, NEW s \in Seq(S)
  PROVE  s \in Seq(T)
<1>1. s \in [1..Len(s) -> S] /\ Len(s) \in Nat
  OBVIOUS
<1>2. s \in [1..Len(s) -> T]
  BY <1>1
<1> QED
  BY <1>1, <1>2

\* What any callback keeps of the registrations, whichever it is.
LEMMA AddKeeps ==
  ASSUME TypeOK, epoll_set \subseteq m_listen_fds \cap open_fds, NEW f \in Descriptors, AddEpollEvent(f)
  PROVE  /\ m_listen_fds' \subseteq Descriptors /\ epoll_set' \subseteq Descriptors /\ asked' \subseteq Descriptors
         /\ epoll_set' \subseteq m_listen_fds' \cap open_fds
<1>1. asked' \subseteq Descriptors
  BY DEF AddEpollEvent, EntryAfterCtl, TypeOK
<1>2. CASE f \in open_fds /\ (f \in m_listen_fds <=> f \in epoll_set)
  BY <1>1, <1>2 DEF AddEpollEvent, EntryAfterCtl, TypeOK
<1>3. CASE ~(f \in open_fds /\ (f \in m_listen_fds <=> f \in epoll_set))
  <2>1. m_listen_fds' = m_listen_fds \ {f} /\ epoll_set' = epoll_set
    BY <1>3, Zenon DEF AddEpollEvent, EntryAfterCtl
  <2>. QED
    BY <1>1, <1>3, <2>1 DEF TypeOK
<1> QED
  BY <1>2, <1>3

LEMMA DeleteKeeps ==
  ASSUME TypeOK, epoll_set \subseteq m_listen_fds \cap open_fds, NEW f, DeleteEpollEvent(f)
  PROVE  /\ m_listen_fds' \subseteq Descriptors /\ epoll_set' \subseteq Descriptors /\ asked' \subseteq Descriptors
         /\ epoll_set' \subseteq m_listen_fds' \cap open_fds
         /\ m_listen_fds' = m_listen_fds \ {f}
BY DEF DeleteEpollEvent, AfterCtlDel, TypeOK

\* What any callback keeps of the registrations, whichever it is.
LEMMA ExecuteKeeps ==
  ASSUME TypeOK, epoll_set \subseteq m_listen_fds \cap open_fds, NEW t \in Task, Execute(t)
  PROVE  /\ m_is_running' \in BOOLEAN
         /\ wakeup_count' \in BOOLEAN /\ wakeup_edge' \in BOOLEAN
         /\ m_listen_fds' \subseteq Descriptors /\ epoll_set' \subseteq Descriptors /\ asked' \subseteq Descriptors
         /\ epoll_set' \subseteq m_listen_fds' \cap open_fds
<1>. USE DEF TypeOK
<1>1. CASE t.op = "drain"
  BY <1>1 DEF Execute, DrainWakeup, listen_vars
<1>2. CASE t.op # "drain"
  <2>1. t.fd \in Descriptors
    BY <1>2 DEF Task, Descriptors
  <2>2. CASE AddEpollEvent(t.fd) /\ UNCHANGED <<m_is_running, wakeup_vars>>
    BY <2>1, <2>2, AddKeeps DEF wakeup_vars
  <2>3. ASSUME NEW f, DeleteEpollEvent(f), UNCHANGED <<m_is_running, wakeup_vars>>
        PROVE  /\ UNCHANGED <<m_is_running, wakeup_vars>>
               /\ m_listen_fds' \subseteq Descriptors /\ epoll_set' \subseteq Descriptors
               /\ asked' \subseteq Descriptors /\ epoll_set' \subseteq m_listen_fds' \cap open_fds
    BY <2>3, DeleteKeeps DEF wakeup_vars
  <2>4. CASE StopHere /\ UNCHANGED listen_vars
    BY <2>4 DEF StopHere, Wakeup, listen_vars
  <2>5. CASE UNCHANGED <<m_is_running, wakeup_vars, listen_vars>>
    BY <2>5 DEF wakeup_vars, listen_vars
  <2> QED
    BY <1>2, <2>2, <2>3, <2>4, <2>5 DEF Execute, wakeup_vars
<1> QED
  BY <1>1, <1>2

\* A callback that another thread posted does not touch the wakeup or the flag.
LEMMA RemoteTaskIsMild ==
  ASSUME NEW t \in RemoteTask, Execute(t)
  PROVE  UNCHANGED <<m_is_running, wakeup_count, wakeup_edge>>
BY DEF RemoteTask, Execute, wakeup_vars

LEMMA InitIInv == Init => IInv
<1> SUFFICES ASSUME Init PROVE IInv
  OBVIOUS
<1>1. TypeOK
  <2>1. m_pending_tasks \in Seq(Task) /\ pending_tasks \in Seq(Task)
    BY DEF Init
  <2>2. calls \in 0..MaxCalls
    BY MaxCallsAssumption DEF Init
  <2> QED
    BY <2>1, <2>2 DEF Init, TypeOK, LoopPc, Descriptors
<1> QED
  BY <1>1 DEF Init, IInv, QueueContents, MapCoversKernel, NoLostWakeup, NoLostStop, NoNullHandler

-----------------------------------------------------------------------------
(* Each action keeps the invariant.                                        *)

LEMMA NextIInv == IInv /\ [Next]_vars => IInv'
<1> SUFFICES ASSUME IInv, [Next]_vars PROVE IInv'
  OBVIOUS
<1>. USE DEF IInv, loop_vars, wakeup_vars, listen_vars, remote_vars
<1>1. CASE StartLoop
  BY <1>1 DEF StartLoop, TypeOK, LoopPc, QueueContents, MapCoversKernel, NoLostWakeup,
     NoLostStop, NoNullHandler
<1>2. CASE TestRunning
  BY <1>2 DEF TestRunning, TypeOK, LoopPc, QueueContents, MapCoversKernel, NoLostWakeup,
     NoLostStop, NoNullHandler
<1>3. CASE Swap
  <2>1. TypeOK'
    BY <1>3 DEF Swap, SwapQueues, TypeOK, LoopPc
  <2>2. QueueContents'
    <3>1. pending_tasks = <<>> /\ m_pending_tasks' = <<>> /\ <<>> \in Seq(RemoteTask)
      BY <1>3 DEF Swap, SwapQueues, QueueContents
    <3> QED
      BY <1>3, <3>1 DEF Swap, SwapQueues, QueueContents
  <2>3. MapCoversKernel' /\ NoNullHandler'
    BY <1>3 DEF Swap, SwapQueues, MapCoversKernel, NoNullHandler
  <2>4. NoLostWakeup' /\ NoLostStop'
    BY <1>3 DEF Swap, SwapQueues, QueueContents, NoLostWakeup, NoLostStop, WakeComing, WakeupReady
  <2> QED
    BY <2>1, <2>2, <2>3, <2>4
<1>4. CASE RunTask
  <2> DEFINE t == Head(pending_tasks)
  <2>1. t \in Task /\ pending_tasks' \in Seq(Task)
    BY <1>4 DEF RunTask, TypeOK
  <2>2. epoll_set \subseteq m_listen_fds \cap open_fds
    BY DEF MapCoversKernel
  <2>3. /\ m_is_running' \in BOOLEAN
        /\ wakeup_count' \in BOOLEAN /\ wakeup_edge' \in BOOLEAN
        /\ m_listen_fds' \subseteq Descriptors /\ epoll_set' \subseteq Descriptors /\ asked' \subseteq Descriptors
        /\ epoll_set' \subseteq m_listen_fds' \cap open_fds
    <3>1. Execute(t)
      BY <1>4 DEF RunTask
    <3> QED
      BY <2>1, <2>2, <3>1, ExecuteKeeps
  <2>4. TypeOK'
    BY <1>4, <2>1, <2>3 DEF RunTask, TypeOK
  <2>5. QueueContents'
    BY <1>4 DEF RunTask, QueueContents
  <2>6. MapCoversKernel' /\ NoNullHandler'
    BY <1>4, <2>3 DEF RunTask, MapCoversKernel, NoNullHandler
  <2>7. NoLostWakeup' /\ NoLostStop'
    <3>1. CASE loop_pc = "run_bottom"
      BY <1>4, <3>1 DEF RunTask, NoLostWakeup, NoLostStop
    <3>2. CASE loop_pc = "run_top"
      <4>1. t \in RemoteTask /\ Execute(t)
        BY <1>4, <3>2 DEF RunTask, QueueContents
      <4>2. UNCHANGED <<m_is_running, wakeup_count, wakeup_edge>>
        BY <4>1, RemoteTaskIsMild
      <4> QED
        BY <1>4, <4>2 DEF RunTask, NoLostWakeup, NoLostStop, WakeComing, WakeupReady
    <3> QED
      BY <1>4, <3>1, <3>2 DEF RunTask
  <2> QED
    BY <2>4, <2>5, <2>6, <2>7
<1>5. CASE BatchDone
  BY <1>5 DEF BatchDone, TypeOK, LoopPc, QueueContents, MapCoversKernel, NoLostWakeup,
     NoLostStop, NoNullHandler, WakeComing, WakeupReady
<1>6. CASE EpollWait
  <2>1. PICK fds \in SUBSET epoll_set, errs \in SUBSET Fds, woken \in BOOLEAN :
          /\ events' = {[fd |-> f, err |-> f \in errs] : f \in fds}
                        \cup IF woken THEN {[fd |-> WakeupFd, err |-> FALSE]} ELSE {}
          /\ wakeup_edge' = IF woken THEN FALSE ELSE wakeup_edge
    BY <1>6 DEF EpollWait
  <2>2. fds \subseteq Descriptors /\ WakeupFd \notin fds
    BY <2>1, WakeupFdAssumption DEF TypeOK, Descriptors
  <2>3. \A e \in events' : \/ \E f \in fds : e = [fd |-> f, err |-> f \in errs]
                           \/ e = [fd |-> WakeupFd, err |-> FALSE]
    <3> TAKE e \in events'
    <3>1. CASE e \in {[fd |-> f, err |-> f \in errs] : f \in fds}
      BY <3>1, Zenon
    <3>2. CASE woken /\ e \in {[fd |-> WakeupFd, err |-> FALSE]}
      BY <3>2, Zenon
    <3> QED
      BY <2>1, <3>1, <3>2
  <2>9. events' \subseteq Event
    <3>1. \A f \in fds : [fd |-> f, err |-> f \in errs] \in Event
      <4> TAKE f \in fds
      <4>1. f \in Descriptors \cup {WakeupFd} /\ (f \in errs) \in BOOLEAN
        BY <2>2
      <4> QED
        BY <4>1, Zenon DEF Event
    <3>2. [fd |-> WakeupFd, err |-> FALSE] \in Event
      BY DEF Event
    <3> QED
      BY <2>3, <3>1, <3>2
  <2>4. TypeOK'
    BY <1>6, <2>1, <2>9 DEF EpollWait, TypeOK, LoopPc
  <2>5. QueueContents' /\ NoLostWakeup' /\ NoLostStop'
    BY <1>6 DEF EpollWait, QueueContents, NoLostWakeup, NoLostStop
  <2>6. \A d, e \in events' : d.fd = e.fd => d = e
    <3>1. \A e \in events' : e.fd \in fds => e = [fd |-> e.fd, err |-> e.fd \in errs]
      <4> TAKE e \in events'
      <4> HAVE e.fd \in fds
      <4>1. PICK f \in fds : e = [fd |-> f, err |-> f \in errs]
        BY <2>2, <2>3
      <4>2. e.fd = f
        BY <4>1
      <4> QED
        BY <4>1, <4>2, Zenon
    <3>2. \A e \in events' : e.fd \notin fds => e = [fd |-> WakeupFd, err |-> FALSE]
      BY <2>3
    <3> SUFFICES ASSUME NEW d \in events', NEW e \in events', d.fd = e.fd PROVE d = e
      OBVIOUS
    <3>3. CASE d.fd \in fds
      <4>1. d = [fd |-> d.fd, err |-> d.fd \in errs] /\ e = [fd |-> e.fd, err |-> e.fd \in errs]
        BY <3>1, <3>3, Zenon
      <4>2. d = [fd |-> e.fd, err |-> e.fd \in errs]
        BY <4>1, Zenon
      <4> QED
        BY <4>1, <4>2, Zenon
    <3>4. CASE d.fd \notin fds
      BY <3>2, <3>4
    <3> QED
      BY <3>3, <3>4
  <2>7. MapCoversKernel'
    BY <1>6, <2>6 DEF EpollWait, MapCoversKernel
  <2>8. NoNullHandler'
    BY <1>6, <2>1 DEF EpollWait, MapCoversKernel, NoNullHandler
  <2> QED
    BY <2>4, <2>5, <2>7, <2>8
<1>7. CASE EpollWaitNothing
  BY <1>7 DEF EpollWaitNothing, TypeOK, LoopPc, QueueContents, MapCoversKernel, NoLostWakeup,
     NoLostStop, NoNullHandler
<1>8. CASE Collect
  <2>1. PICK e \in events :
          /\ events' = events \ {e}
          /\ m_pending_tasks' = Append(m_pending_tasks, Handler(e.fd))
          /\ IF e.err THEN DeleteEpollEvent(e.fd) ELSE UNCHANGED listen_vars
    BY <1>8 DEF Collect
  <2>2. Handler(e.fd) \in Task
    BY DEF TypeOK, Event, Task, Handler
  <2>3. /\ m_listen_fds' \subseteq Descriptors /\ epoll_set' \subseteq Descriptors /\ asked' \subseteq Descriptors
        /\ epoll_set' \subseteq m_listen_fds' \cap open_fds
        /\ m_listen_fds \ {e.fd} \subseteq m_listen_fds'
    BY <2>1, DeleteKeeps DEF TypeOK, MapCoversKernel
  <2>4. TypeOK'
    BY <1>8, <2>1, <2>2, <2>3 DEF Collect, TypeOK
  <2>5. QueueContents' /\ NoLostWakeup' /\ NoLostStop'
    BY <1>8 DEF Collect, QueueContents, NoLostWakeup, NoLostStop
  <2>6. MapCoversKernel'
    BY <1>8, <2>1, <2>3 DEF Collect, MapCoversKernel
  <2>7. NoNullHandler'
    BY <2>1, <2>3 DEF MapCoversKernel, NoNullHandler
  <2> QED
    BY <2>4, <2>5, <2>6, <2>7
<1>9. CASE CollectDone
  BY <1>9 DEF CollectDone, TypeOK, LoopPc, QueueContents, MapCoversKernel, NoLostWakeup,
     NoLostStop, NoNullHandler
<1>10. CASE LockForExit \/ ReturnFromLoop
  BY <1>10 DEF LockForExit, ReturnFromLoop, TypeOK, LoopPc, QueueContents, MapCoversKernel,
     NoLostWakeup, NoLostStop, NoNullHandler
<1>11. CASE RunAtExit
  <2> DEFINE t == Head(m_pending_tasks)
  <2>1. t \in Task /\ m_pending_tasks' \in Seq(Task)
    BY <1>11 DEF RunAtExit, TypeOK
  <2>2. epoll_set \subseteq m_listen_fds \cap open_fds /\ Execute(t)
    BY <1>11 DEF RunAtExit, MapCoversKernel
  <2>3. /\ m_is_running' \in BOOLEAN
        /\ wakeup_count' \in BOOLEAN /\ wakeup_edge' \in BOOLEAN
        /\ m_listen_fds' \subseteq Descriptors /\ epoll_set' \subseteq Descriptors /\ asked' \subseteq Descriptors
        /\ epoll_set' \subseteq m_listen_fds' \cap open_fds
    BY <2>1, <2>2, ExecuteKeeps
  <2>4. TypeOK'
    BY <1>11, <2>1, <2>3 DEF RunAtExit, TypeOK
  <2>5. QueueContents' /\ NoLostWakeup' /\ NoLostStop'
    BY <1>11 DEF RunAtExit, QueueContents, NoLostWakeup, NoLostStop
  <2>6. MapCoversKernel' /\ NoNullHandler'
    BY <1>11, <2>3 DEF RunAtExit, MapCoversKernel, NoNullHandler
  <2> QED
    BY <2>4, <2>5, <2>6
<1>12. ASSUME NEW f \in Fds, PostAdd(f) \/ PostDelete(f) PROVE IInv'
  <2>1. PICK op \in {"add", "delete"} : AddTask(Acceptor, op, f)
    BY <1>12 DEF PostAdd, PostDelete
  <2>2. [op |-> op, fd |-> f] \in RemoteTask /\ RemoteTask \subseteq Task
    BY RemoteTaskType DEF RemoteTask
  <2>3. TypeOK'
    <3>1. m_pending_tasks' \in Seq(Task)
      BY <2>1, <2>2 DEF AddTask, ThenWake, TypeOK
    <3>2. calls' \in 0..MaxCalls
      BY <1>12, MaxCallsAssumption DEF PostAdd, PostDelete, TypeOK
    <3>3. remote_pc' \in [Remotes -> {"idle", "wake"}]
      BY <2>1 DEF AddTask, ThenWake, TypeOK
    <3> QED
      BY <1>12, <3>1, <3>2, <3>3 DEF PostAdd, PostDelete, TypeOK, Descriptors
  <2>4. QueueContents'
    BY <1>12, <2>1, <2>2 DEF AddTask, ThenWake, PostAdd, PostDelete, QueueContents
  <2>5. MapCoversKernel' /\ NoNullHandler'
    BY <1>12 DEF PostAdd, PostDelete, MapCoversKernel, NoNullHandler
  <2>6. WakeComing'
    BY <2>1, AcceptorAssumption DEF AddTask, ThenWake, WakeComing, TypeOK
  <2> QED
    BY <2>3, <2>4, <2>5, <2>6 DEF NoLostWakeup, NoLostStop
<1>13. ASSUME NEW f \in Fds, Close(f) PROVE IInv'
  <2>1. TypeOK'
    BY <1>13, MaxCallsAssumption DEF Close, TypeOK
  <2>2. QueueContents' /\ MapCoversKernel' /\ NoNullHandler'
    BY <1>13 DEF Close, QueueContents, MapCoversKernel, NoNullHandler
  <2>3. NoLostWakeup' /\ NoLostStop'
    BY <1>13 DEF Close, NoLostWakeup, NoLostStop, WakeComing, WakeupReady
  <2> QED
    BY <2>1, <2>2, <2>3
<1>14. ASSUME NEW r \in Remotes, Stop(r) PROVE IInv'
  <2>1. TypeOK'
    <3>1. calls' \in 0..MaxCalls
      BY <1>14, MaxCallsAssumption DEF Stop, ThenWake, TypeOK
    <3>2. remote_pc' \in [Remotes -> {"idle", "wake"}]
      BY <1>14 DEF Stop, ThenWake, TypeOK
    <3> QED
      BY <1>14, <3>1, <3>2 DEF Stop, ThenWake, TypeOK
  <2>2. QueueContents' /\ MapCoversKernel' /\ NoNullHandler'
    BY <1>14 DEF Stop, ThenWake, QueueContents, MapCoversKernel, NoNullHandler
  <2>3. WakeComing'
    BY <1>14 DEF Stop, ThenWake, WakeComing, TypeOK
  <2> QED
    BY <2>1, <2>2, <2>3 DEF NoLostWakeup, NoLostStop
<1>15. ASSUME NEW r \in Remotes, Wake(r) PROVE IInv'
  <2>1. TypeOK'
    BY <1>15 DEF Wake, Wakeup, TypeOK
  <2>2. QueueContents' /\ MapCoversKernel' /\ NoNullHandler'
    BY <1>15 DEF Wake, QueueContents, MapCoversKernel, NoNullHandler
  <2>3. WakeComing'
    BY <1>15 DEF Wake, Wakeup, WakeComing, WakeupReady
  <2> QED
    BY <2>1, <2>2, <2>3 DEF NoLostWakeup, NoLostStop
<1>16. CASE UNCHANGED vars
  BY <1>16 DEF vars, TypeOK, QueueContents, MapCoversKernel, NoLostWakeup, NoLostStop,
     NoNullHandler, WakeComing, WakeupReady
<1> QED
  BY <1>1, <1>2, <1>3, <1>4, <1>5, <1>6, <1>7, <1>8, <1>9, <1>10, <1>11, <1>12, <1>13,
     <1>14, <1>15, <1>16 DEF Next, LoopStep, Remote

LEMMA Invariance == Spec => []IInv
BY InitIInv, NextIInv, PTL DEF Spec

-----------------------------------------------------------------------------
(* The theorems.                                                           *)

\* Every variable of the loop, of the kernel's side of it and of the remote
\* threads keeps its type.
THEOREM TypeCorrect == Spec => []TypeOK
BY Invariance, PTL DEF IInv

\* No interleaving of addTask() with the loop leaves a posted callback behind
\* an epoll_wait that nothing will end before its timeout.
THEOREM PostsAreWoken == Spec => []NoLostWakeup
BY Invariance, PTL DEF IInv

\* No interleaving of stop() with a running loop leaves it in epoll_wait.
THEOREM StopsAreWoken == Spec => []NoLostStop
BY Invariance, PTL DEF IInv

\* The map lookup of the event loop never yields a null FdEvent.
THEOREM HandlersExist == Spec => []NoNullHandler
BY Invariance, PTL DEF IInv

-----------------------------------------------------------------------------
(* The batch and the shared queue implement one FIFO queue.                *)

LEMMA AppendAfterConcat ==
  ASSUME NEW S, NEW s \in Seq(S), NEW t \in Seq(S), NEW x \in S
  PROVE  s \o Append(t, x) = Append(s \o t, x)
OBVIOUS

LEMMA TailOfConcat ==
  ASSUME NEW S, NEW s \in Seq(S), NEW t \in Seq(S), s # <<>>
  PROVE  s \o t # <<>> /\ Tail(s \o t) = Tail(s) \o t
OBVIOUS

LEMMA EmptyConcat ==
  ASSUME NEW S, NEW s \in Seq(S)
  PROVE  <<>> \o s = s /\ s \o <<>> = s
OBVIOUS

queue == pending_tasks \o m_pending_tasks

LEMMA QueueStep == IInv /\ [Next]_vars => [Q!Next]_queue
<1> SUFFICES ASSUME IInv, [Next]_vars PROVE [Q!Next]_queue
  OBVIOUS
<1>. USE DEF IInv, loop_vars, wakeup_vars, listen_vars, remote_vars
<1>1. CASE UNCHANGED <<pending_tasks, m_pending_tasks>>
  BY <1>1 DEF queue
<1>2. CASE Swap
  <2>1. pending_tasks = <<>>
    BY <1>2 DEF Swap, SwapQueues, QueueContents
  <2> QED
    BY <1>2, <2>1, EmptyConcat DEF Swap, SwapQueues, TypeOK, queue
<1>3. CASE RunTask
  <2>1. queue # <<>> /\ queue' = Tail(queue)
    BY <1>3, TailOfConcat DEF RunTask, TypeOK, queue
  <2> QED
    BY <2>1 DEF Q!Next, Q!Run, queue
<1>4. CASE RunAtExit
  <2>1. pending_tasks = <<>> /\ pending_tasks' = <<>>
    BY <1>4 DEF RunAtExit, QueueContents
  <2>2. queue = m_pending_tasks /\ queue' = Tail(m_pending_tasks)
    BY <1>4, <2>1, EmptyConcat DEF RunAtExit, TypeOK, queue
  <2> QED
    BY <1>4, <2>2 DEF RunAtExit, Q!Next, Q!Run, queue
<1>5. ASSUME NEW t \in Task, m_pending_tasks' = Append(m_pending_tasks, t), UNCHANGED pending_tasks
      PROVE  Q!Next
  <2>1. queue' = Append(queue, t)
    BY <1>5, AppendAfterConcat DEF TypeOK, queue
  <2> QED
    BY <2>1 DEF Q!Next, Q!Post, queue
<1>6. CASE Collect
  <2>1. \E t \in Task : m_pending_tasks' = Append(m_pending_tasks, t)
    <3>1. PICK e \in events : m_pending_tasks' = Append(m_pending_tasks, Handler(e.fd))
      BY <1>6 DEF Collect
    <3>2. Handler(e.fd) \in Task
      BY DEF TypeOK, Event, Task, Handler
    <3> QED
      BY <3>1, <3>2
  <2> QED
    BY <1>5, <1>6, <2>1 DEF Collect
<1>7. ASSUME NEW f \in Fds, PostAdd(f) \/ PostDelete(f) PROVE Q!Next
  <2>1. \E t \in RemoteTask : m_pending_tasks' = Append(m_pending_tasks, t)
    BY <1>7 DEF PostAdd, PostDelete, AddTask, RemoteTask
  <2> QED
    BY <1>5, <1>7, <2>1, RemoteTaskType DEF PostAdd, PostDelete
<1> QED
  BY <1>1, <1>2, <1>3, <1>4, <1>6, <1>7 DEF Next, LoopStep, Remote, vars, StartLoop, TestRunning,
     BatchDone, EpollWait, EpollWaitNothing, CollectDone, LockForExit, ReturnFromLoop, Close,
     Stop, Wake

\* Callbacks run in the order they were posted, each exactly once, across the
\* swap of the shared queue with the local batch and the drain at exit.
THEOREM ImplementsTaskQueue == Spec => FifoQueue
<1>1. Init => Q!Init
  BY DEF Init, Q!Init
<1>2. IInv /\ [Next]_vars => [Q!Next]_(pending_tasks \o m_pending_tasks)
  BY QueueStep DEF queue
<1> QED
  BY <1>1, <1>2, Invariance, PTL DEF Spec, FifoQueue, Q!Spec

-----------------------------------------------------------------------------
(* Registrations settle.                                                   *)

InQueue(op, f) == \E i \in DOMAIN queue : queue[i] = [op |-> op, fd |-> f]

\* A descriptor that was opened again has its add behind every delete.
AddIsBehind(f) ==
  \A i \in DOMAIN queue :
    queue[i] = [op |-> "delete", fd |-> f] =>
      \E j \in DOMAIN queue : i < j /\ queue[j] = [op |-> "add", fd |-> f]

\* Every difference between the map, the kernel's set and what was asked has a
\* callback on its way that settles it.
Settling ==
  /\ epoll_set \subseteq asked /\ asked \subseteq open_fds /\ clearing \cap open_fds = {}
  /\ \A f, g \in clearing : f = g
  /\ \A f \in m_listen_fds \ epoll_set : f \in clearing \/ InQueue("delete", f)
  /\ \A f \in asked \ epoll_set : InQueue("add", f)
  /\ \A f \in open_fds : AddIsBehind(f)

LEMMA QueueIsSeq == TypeOK => queue \in Seq(Task) /\ Len(queue) \in Nat /\ DOMAIN queue = 1..Len(queue)
BY DEF TypeOK, queue

LEMMA QueuedIsInQueue == ASSUME TypeOK, NEW op, NEW f PROVE Queued(op, f) <=> InQueue(op, f)
<1>. DEFINE p == Len(pending_tasks)
            m == Len(m_pending_tasks)
<1>1. /\ p \in Nat /\ m \in Nat /\ Len(queue) = p + m /\ DOMAIN queue = 1..(p + m)
      /\ DOMAIN pending_tasks = 1..p /\ DOMAIN m_pending_tasks = 1..m
  BY DEF TypeOK, queue
<1>2. \A i \in 1..p : queue[i] = pending_tasks[i]
  BY DEF TypeOK, queue
<1>3. \A i \in 1..m : queue[p + i] = m_pending_tasks[i]
  BY DEF TypeOK, queue
<1>. HIDE DEF p, m
<1>4. ASSUME NEW i \in DOMAIN queue
      PROVE  \/ i \in DOMAIN pending_tasks /\ queue[i] = pending_tasks[i]
             \/ \E j \in DOMAIN m_pending_tasks : queue[i] = m_pending_tasks[j]
  <2>1. CASE i <= p
    BY <1>1, <1>2, <2>1
  <2>2. CASE ~(i <= p)
    <3>1. i - p \in 1..m /\ p + (i - p) = i
      BY <1>1, <2>2
    <3> QED
      BY <1>1, <1>3, <3>1
  <2> QED
    BY <2>1, <2>2
<1>5. ASSUME NEW i \in DOMAIN pending_tasks PROVE i \in DOMAIN queue /\ queue[i] = pending_tasks[i]
  BY <1>1, <1>2
<1>6. ASSUME NEW i \in DOMAIN m_pending_tasks PROVE p + i \in DOMAIN queue /\ queue[p + i] = m_pending_tasks[i]
  BY <1>1, <1>3
<1> QED
  BY <1>4, <1>5, <1>6 DEF Queued, InQueue

\* Nothing that was on its way is lost by a post.
LEMMA PostKeepsQueued ==
  ASSUME TypeOK, NEW t \in Task, queue' = Append(queue, t)
  PROVE  /\ \A op, f : InQueue(op, f) => InQueue(op, f)'
         /\ \A f : t = [op |-> t.op, fd |-> f] => InQueue(t.op, f)'
         /\ \A f : AddIsBehind(f) /\ t # [op |-> "delete", fd |-> f] => AddIsBehind(f)'
         /\ \A f : t = [op |-> "add", fd |-> f] => AddIsBehind(f)'
<1>1. /\ Len(queue) \in Nat /\ DOMAIN queue = 1..Len(queue) /\ DOMAIN queue' = 1..(Len(queue) + 1)
      /\ queue'[Len(queue) + 1] = t /\ \A i \in DOMAIN queue : queue'[i] = queue[i]
  BY QueueIsSeq
<1>2. ASSUME NEW i \in DOMAIN queue' PROVE i \in DOMAIN queue \/ (i = Len(queue) + 1 /\ queue'[i] = t)
  BY <1>1
<1>3. \A i \in DOMAIN queue : i \in DOMAIN queue' /\ i < Len(queue) + 1
  BY <1>1
<1>4. Len(queue) + 1 \in DOMAIN queue'
  BY <1>1
<1>5. \A op, f : InQueue(op, f) => InQueue(op, f)'
  BY <1>1, <1>3 DEF InQueue
<1>6. \A f : t = [op |-> t.op, fd |-> f] => InQueue(t.op, f)'
  BY <1>1, <1>4 DEF InQueue
<1>7. ASSUME NEW f, AddIsBehind(f), t # [op |-> "delete", fd |-> f] PROVE AddIsBehind(f)'
  BY <1>1, <1>2, <1>3, <1>7 DEF AddIsBehind
<1>8. ASSUME NEW f, t = [op |-> "add", fd |-> f] PROVE AddIsBehind(f)'
  <2>1. t # [op |-> "delete", fd |-> f]
    BY <1>8
  <2> QED
    BY <1>1, <1>2, <1>3, <1>4, <1>8, <2>1 DEF AddIsBehind
<1> QED
  BY <1>5, <1>6, <1>7, <1>8

\* Running a callback takes it out, and no other.
LEMMA RunTakesOne ==
  ASSUME TypeOK, queue # <<>>, queue' = Tail(queue)
  PROVE  /\ Head(queue) \in Task
         /\ \A op, f : InQueue(op, f) /\ Head(queue) # [op |-> op, fd |-> f] => InQueue(op, f)'
         /\ \A f : AddIsBehind(f) => AddIsBehind(f)'
         /\ \A f : AddIsBehind(f) /\ InQueue("delete", f) => InQueue("add", f)'
<1>1. /\ Len(queue) \in Nat /\ Len(queue) # 0 /\ DOMAIN queue = 1..Len(queue)
      /\ DOMAIN queue' = 1..(Len(queue) - 1) /\ \A i \in 1..(Len(queue) - 1) : queue'[i] = queue[i + 1]
      /\ Head(queue) = queue[1] /\ Head(queue) \in Task
  BY QueueIsSeq
<1>2. ASSUME NEW i \in DOMAIN queue, i # 1
      PROVE  i - 1 \in DOMAIN queue' /\ queue'[i - 1] = queue[i]
  BY <1>1, <1>2
<1>3. ASSUME NEW i \in DOMAIN queue' PROVE i + 1 \in DOMAIN queue /\ queue'[i] = queue[i + 1]
  BY <1>1
<1>4. ASSUME NEW op, NEW f, InQueue(op, f), Head(queue) # [op |-> op, fd |-> f] PROVE InQueue(op, f)'
  BY <1>1, <1>2, <1>4 DEF InQueue
<1>5. ASSUME NEW f, AddIsBehind(f) PROVE AddIsBehind(f)'
  <2>1. ASSUME NEW i \in DOMAIN queue', queue'[i] = [op |-> "delete", fd |-> f]
        PROVE  \E j \in DOMAIN queue' : i < j /\ queue'[j] = [op |-> "add", fd |-> f]
    <3>1. PICK j \in DOMAIN queue : i + 1 < j /\ queue[j] = [op |-> "add", fd |-> f]
      BY <1>3, <1>5, <2>1 DEF AddIsBehind
    <3>2. j # 1 /\ i < j - 1
      BY <1>1, <3>1
    <3> QED
      BY <1>2, <3>1, <3>2
  <2> QED
    BY <2>1 DEF AddIsBehind
<1>6. ASSUME NEW f, AddIsBehind(f), InQueue("delete", f) PROVE InQueue("add", f)'
  <2>1. PICK i \in DOMAIN queue : queue[i] = [op |-> "delete", fd |-> f]
    BY <1>6 DEF InQueue
  <2>2. PICK j \in DOMAIN queue : i < j /\ queue[j] = [op |-> "add", fd |-> f]
    BY <1>6, <2>1 DEF AddIsBehind
  <2>3. j # 1
    BY <1>1, <2>2
  <2> QED
    BY <1>2, <2>2, <2>3 DEF InQueue
<1> QED
  BY <1>1, <1>4, <1>5, <1>6

Unposted == UNCHANGED <<open_fds, clearing>>

\* addEpollEvent() on the owner.
LEMMA AddSettles ==
  ASSUME TypeOK, MapCoversKernel, Settling, NEW f \in Descriptors, AddEpollEvent(f), Unposted,
         queue # <<>>, queue' = Tail(queue), Head(queue).fd = f, Head(queue).op # "delete"
  PROVE  Settling'
<1>1. /\ \A g : g # f => Head(queue) # [op |-> "add", fd |-> g]
      /\ \A g : Head(queue) # [op |-> "delete", fd |-> g]
  OBVIOUS
<1>2. /\ \A g : InQueue("delete", g) => InQueue("delete", g)'
      /\ \A g : g # f /\ InQueue("add", g) => InQueue("add", g)'
      /\ \A g : AddIsBehind(g) => AddIsBehind(g)'
      /\ \A g : AddIsBehind(g) /\ InQueue("delete", g) => InQueue("add", g)'
  BY <1>1, RunTakesOne
<1>3. open_fds' = open_fds /\ clearing' = clearing
  BY DEF Unposted
<1>4. CASE f \in open_fds /\ (f \in m_listen_fds <=> f \in epoll_set)
  <2>1. m_listen_fds' = m_listen_fds \cup {f} /\ epoll_set' = epoll_set \cup {f} /\ asked' = asked \cup {f}
    BY <1>4 DEF AddEpollEvent, EntryAfterCtl
  <2> QED
    BY <1>2, <1>3, <1>4, <2>1 DEF Settling
<1>5. CASE ~(f \in open_fds /\ (f \in m_listen_fds <=> f \in epoll_set))
  <2>1. m_listen_fds' = m_listen_fds \ {f} /\ epoll_set' = epoll_set
    BY <1>5, Zenon DEF AddEpollEvent, EntryAfterCtl
  <2>2. asked' = IF f \in open_fds THEN asked \cup {f} ELSE asked
    BY DEF AddEpollEvent
  <2>3. f \in open_fds => InQueue("add", f)'
    <3> SUFFICES ASSUME f \in open_fds PROVE InQueue("add", f)'
      OBVIOUS
    <3>1. f \in m_listen_fds \ epoll_set /\ f \notin clearing /\ AddIsBehind(f)
      BY <1>5 DEF MapCoversKernel, Settling
    <3> QED
      BY <1>2, <3>1 DEF Settling
  <2>4. ASSUME NEW g \in asked' \ epoll_set' PROVE InQueue("add", g)'
    <3>1. CASE g = f
      BY <2>2, <2>3, <2>4, <3>1 DEF Settling
    <3>2. CASE g # f
      BY <1>2, <2>1, <2>2, <2>4, <3>2 DEF Settling
    <3> QED
      BY <3>1, <3>2
  <2>5. epoll_set' \subseteq asked' /\ asked' \subseteq open_fds'
    BY <1>3, <2>1, <2>2 DEF Settling
  <2> QED
    BY <1>2, <1>3, <2>1, <2>4, <2>5 DEF Settling
<1> QED
  BY <1>4, <1>5

\* deleteEpollEvent() on the owner.
LEMMA DeleteSettles ==
  ASSUME TypeOK, MapCoversKernel, Settling, NEW f, DeleteEpollEvent(f), Unposted,
         \A g : InQueue("add", g) => InQueue("add", g)',
         \A g : g # f /\ InQueue("delete", g) => InQueue("delete", g)',
         \A g : AddIsBehind(g) => AddIsBehind(g)'
  PROVE  Settling'
<1>1. open_fds' = open_fds /\ clearing' = clearing
  BY DEF Unposted
<1>2. m_listen_fds' = m_listen_fds \ {f} /\ epoll_set' = epoll_set \ {f}
  BY DEF DeleteEpollEvent, AfterCtlDel, MapCoversKernel
<1>3. asked' = IF InQueue("add", f) THEN asked ELSE asked \ {f}
  BY QueuedIsInQueue DEF DeleteEpollEvent
<1>4. ASSUME NEW g \in asked' \ epoll_set' PROVE InQueue("add", g)'
  BY <1>2, <1>3, <1>4 DEF Settling
<1>5. epoll_set' \subseteq asked' /\ asked' \subseteq open_fds'
  BY <1>1, <1>2, <1>3 DEF Settling
<1>6. \A g \in m_listen_fds' \ epoll_set' : g \in clearing' \/ InQueue("delete", g)'
  BY <1>1, <1>2 DEF Settling
<1> QED
  BY <1>1, <1>4, <1>5, <1>6 DEF Settling

\* A step that leaves the registrations alone.
LEMMA OtherwiseSettling ==
  ASSUME Settling, Unposted, UNCHANGED <<m_listen_fds, epoll_set, asked>>,
         \A g : InQueue("add", g) => InQueue("add", g)',
         \A g : InQueue("delete", g) => InQueue("delete", g)',
         \A g : AddIsBehind(g) => AddIsBehind(g)'
  PROVE  Settling'
BY DEF Settling, Unposted

\* Any callback.
LEMMA ExecuteSettles ==
  ASSUME TypeOK, MapCoversKernel, Settling, Unposted, queue # <<>>, queue' = Tail(queue), Execute(Head(queue))
  PROVE  Settling'
<1>1. PICK t \in Task : t = Head(queue)
  BY RunTakesOne
<1>2. CASE t.op \in {"add", "io"} /\ t.fd # Timerfd /\ AddEpollEvent(t.fd)
  BY <1>1, <1>2, AddSettles DEF Task, Descriptors
<1>3. ASSUME NEW f, DeleteEpollEvent(f), t.op \in {"delete", "io"}, t.op = "delete" => t.fd = f
      PROVE  Settling'
  <2>1. /\ \A g : t # [op |-> "add", fd |-> g]
        /\ \A g : g # f => t # [op |-> "delete", fd |-> g]
    BY <1>3
  <2> QED
    BY <1>1, <1>3, <2>1, RunTakesOne, DeleteSettles
<1>4. CASE t.op \in {"io", "drain"} /\ UNCHANGED <<m_listen_fds, epoll_set, asked>>
  <2>1. \A g : t # [op |-> "add", fd |-> g] /\ t # [op |-> "delete", fd |-> g]
    BY <1>4
  <2> QED
    BY <1>1, <1>4, <2>1, RunTakesOne, OtherwiseSettling
<1>5. Execute(t)
  BY <1>1
<1> QED
  BY <1>2, <1>3, <1>4, <1>5 DEF Execute, listen_vars

\* A connection listens.
LEMMA PostAddSettles == ASSUME TypeOK, Settling, NEW f \in Fds, PostAdd(f) PROVE Settling'
<1>1. /\ f \notin open_fds /\ open_fds' = open_fds \cup {f} /\ asked' = asked \cup {f} /\ clearing = {}
      /\ UNCHANGED <<m_listen_fds, epoll_set, clearing, pending_tasks>>
      /\ m_pending_tasks' = Append(m_pending_tasks, [op |-> "add", fd |-> f])
  BY DEF PostAdd, AddTask, CanCall, loop_vars
<1>2. PICK t \in Task : t = [op |-> "add", fd |-> f]
  BY DEF Task
<1>3. queue' = Append(queue, t)
  BY <1>1, <1>2, AppendAfterConcat DEF TypeOK, queue
<1>4. /\ \A g : t # [op |-> "delete", fd |-> g]
      /\ t = [op |-> t.op, fd |-> f] /\ t.op = "add"
  BY <1>2
<1>5. /\ \A op, g : InQueue(op, g) => InQueue(op, g)'
      /\ InQueue("add", f)' /\ AddIsBehind(f)'
      /\ \A g : AddIsBehind(g) => AddIsBehind(g)'
  BY <1>3, <1>4, PostKeepsQueued
<1> QED
  BY <1>1, <1>5 DEF Settling

\* A connection is closed ...
LEMMA CloseSettles == ASSUME Settling, NEW f \in Fds, Close(f) PROVE Settling'
<1>1. /\ open_fds' = open_fds \ {f} /\ epoll_set' = epoll_set \ {f} /\ asked' = asked \ {f}
      /\ clearing' = {f} /\ UNCHANGED <<m_listen_fds, pending_tasks, m_pending_tasks>>
  BY DEF Close, loop_vars
<1>2. clearing = {} /\ f \in open_fds
  BY DEF Close, CanCall
<1>3. queue' = queue
  BY <1>1 DEF queue
<1>4. \A op, g : InQueue(op, g)' <=> InQueue(op, g)
  BY <1>3 DEF InQueue
<1>5. \A g : AddIsBehind(g)' <=> AddIsBehind(g)
  BY <1>3 DEF AddIsBehind
<1> QED
  BY <1>1, <1>2, <1>4, <1>5 DEF Settling

\* ... and its delete posted.
LEMMA PostDeleteSettles == ASSUME TypeOK, Settling, NEW f \in Fds, PostDelete(f) PROVE Settling'
<1>1. /\ f \in clearing /\ clearing' = {}
      /\ UNCHANGED <<open_fds, asked, m_listen_fds, epoll_set, pending_tasks>>
      /\ m_pending_tasks' = Append(m_pending_tasks, [op |-> "delete", fd |-> f])
  BY DEF PostDelete, AddTask, loop_vars, listen_vars
<1>2. PICK t \in Task : t = [op |-> "delete", fd |-> f]
  BY DEF Task
<1>3. queue' = Append(queue, t)
  BY <1>1, <1>2, AppendAfterConcat DEF TypeOK, queue
<1>4. /\ \A g : g # f => t # [op |-> "delete", fd |-> g]
      /\ t = [op |-> t.op, fd |-> f] /\ t.op = "delete"
  BY <1>2
<1>5. /\ \A op, g : InQueue(op, g) => InQueue(op, g)'
      /\ InQueue("delete", f)'
      /\ \A g : g # f /\ AddIsBehind(g) => AddIsBehind(g)'
  BY <1>3, <1>4, PostKeepsQueued
<1>6. f \notin open_fds /\ clearing = {f}
  BY <1>1 DEF Settling
<1> QED
  BY <1>1, <1>5, <1>6 DEF Settling

\* An event is looked up and its callback posted.
LEMMA CollectSettles == ASSUME TypeOK, MapCoversKernel, Settling, Collect PROVE Settling'
<1>1. PICK e \in events :
        /\ m_pending_tasks' = Append(m_pending_tasks, Handler(e.fd))
        /\ IF e.err THEN DeleteEpollEvent(e.fd) ELSE UNCHANGED listen_vars
  BY DEF Collect
<1>2. UNCHANGED <<open_fds, clearing, pending_tasks>>
  BY DEF Collect, remote_vars
<1>3. PICK t \in Task : t = Handler(e.fd) /\ t.op \in {"io", "drain"}
  <2>1. Handler(e.fd) \in Task
    BY DEF TypeOK, Event, Task, Handler
  <2>2. Handler(e.fd).op \in {"io", "drain"}
    BY DEF Handler
  <2> QED
    BY <2>1, <2>2
<1>4. queue' = Append(queue, t)
  BY <1>1, <1>2, <1>3, AppendAfterConcat DEF TypeOK, queue
<1>5. \A g : t # [op |-> "delete", fd |-> g]
  BY <1>3
<1>6. /\ \A op, g : InQueue(op, g) => InQueue(op, g)'
      /\ \A g : AddIsBehind(g) => AddIsBehind(g)'
  BY <1>4, <1>5, PostKeepsQueued
<1>7. Unposted
  BY <1>2 DEF Unposted
<1>8. CASE e.err
  BY <1>1, <1>6, <1>7, <1>8, DeleteSettles
<1>9. CASE ~e.err
  <2>1. UNCHANGED <<m_listen_fds, epoll_set, asked>>
    BY <1>1, <1>9 DEF listen_vars
  <2> QED
    BY <1>6, <1>7, <2>1, OtherwiseSettling
<1> QED
  BY <1>8, <1>9

\* The queue and the registrations stay.
LEMMA StaysSettling ==
  ASSUME Settling, queue' = queue, UNCHANGED <<open_fds, clearing, m_listen_fds, epoll_set, asked>>
  PROVE  Settling'
<1>1. /\ \A op, g : InQueue(op, g)' <=> InQueue(op, g)
      /\ \A g : AddIsBehind(g)' <=> AddIsBehind(g)
  BY DEF InQueue, AddIsBehind
<1> QED
  BY <1>1 DEF Settling

LEMMA NextSettles == IInv /\ Settling /\ [Next]_vars => Settling'
<1> SUFFICES ASSUME IInv, Settling, [Next]_vars PROVE Settling'
  OBVIOUS
<1>0. TypeOK /\ MapCoversKernel
  BY DEF IInv
<1>1. CASE UNCHANGED <<pending_tasks, m_pending_tasks, open_fds, clearing, m_listen_fds, epoll_set, asked>>
  <2>1. queue' = queue
    BY <1>1 DEF queue
  <2> QED
    BY <1>1, <2>1, StaysSettling
<1>2. CASE Swap
  <2>1. pending_tasks = <<>> /\ pending_tasks' = m_pending_tasks /\ m_pending_tasks' = pending_tasks
    BY <1>2 DEF Swap, SwapQueues, IInv, QueueContents
  <2>2. queue' = queue
    BY <1>0, <2>1, EmptyConcat DEF TypeOK, queue
  <2> QED
    BY <1>2, <2>2, StaysSettling DEF Swap, listen_vars, remote_vars
<1>3. CASE RunTask
  <2>1. queue # <<>> /\ queue' = Tail(queue) /\ Head(queue) = Head(pending_tasks)
    <3>1. /\ pending_tasks \in Seq(Task) /\ pending_tasks # <<>> /\ m_pending_tasks \in Seq(Task)
          /\ pending_tasks' = Tail(pending_tasks) /\ m_pending_tasks' = m_pending_tasks
      BY <1>0, <1>3 DEF RunTask, TypeOK
    <3>2. queue # <<>> /\ queue' = Tail(queue)
      BY <3>1, TailOfConcat DEF queue
    <3>3. Head(queue) = Head(pending_tasks)
      BY <3>1 DEF queue
    <3> QED
      BY <3>2, <3>3
  <2>2. Unposted
    BY <1>3 DEF RunTask, remote_vars, Unposted
  <2> QED
    BY <1>0, <1>3, <2>1, <2>2, ExecuteSettles DEF RunTask
<1>4. CASE RunAtExit
  <2>1. pending_tasks = <<>> /\ pending_tasks' = <<>>
    BY <1>4 DEF RunAtExit, IInv, QueueContents, loop_vars
  <2>2. queue = m_pending_tasks /\ queue' = Tail(m_pending_tasks) /\ queue # <<>>
    <3>1. m_pending_tasks' \in Seq(Task)
      BY <1>0, <1>4 DEF RunAtExit, TypeOK
    <3>2. queue = m_pending_tasks /\ queue' = m_pending_tasks'
      BY <1>0, <2>1, <3>1, EmptyConcat DEF TypeOK, queue
    <3> QED
      BY <1>4, <3>2 DEF RunAtExit
  <2>3. Unposted
    BY <1>4 DEF RunAtExit, remote_vars, Unposted
  <2> QED
    BY <1>0, <1>4, <2>2, <2>3, ExecuteSettles DEF RunAtExit
<1>5. CASE Collect
  BY <1>0, <1>5, CollectSettles
<1>6. ASSUME NEW f \in Fds, PostAdd(f) \/ Close(f) \/ PostDelete(f) PROVE Settling'
  BY <1>0, <1>6, PostAddSettles, CloseSettles, PostDeleteSettles
<1> QED
  BY <1>1, <1>2, <1>3, <1>4, <1>5, <1>6 DEF Next, LoopStep, Remote, vars, loop_vars, listen_vars, remote_vars,
     StartLoop, TestRunning, BatchDone, EpollWait, EpollWaitNothing, CollectDone, LockForExit, ReturnFromLoop,
     Stop, Wake

LEMMA AlwaysSettling == Spec => []Settling
<1>1. Init => Settling
  <2> SUFFICES ASSUME Init PROVE Settling
    OBVIOUS
  <2>1. DOMAIN queue = {}
    BY DEF Init, queue
  <2> QED
    BY <2>1 DEF Init, Settling, AddIsBehind
<1> QED
  BY <1>1, NextSettles, Invariance, PTL DEF Spec

\* When no callback, call or event is on its way, the map and the kernel's set
\* are what was asked last of addEpollEvent() and deleteEpollEvent(), however
\* descriptors were closed and their numbers used again meanwhile.
THEOREM RegistrationsSettle == Spec => []RegistrationSettles
<1>1. ASSUME IInv, Settling PROVE RegistrationSettles
  <2> SUFFICES ASSUME Quiet PROVE m_listen_fds = asked /\ epoll_set = asked
    BY DEF RegistrationSettles
  <2>1. DOMAIN queue = {} /\ clearing = {}
    BY DEF Quiet, queue
  <2>2. \A op, f : ~InQueue(op, f)
    BY <2>1 DEF InQueue
  <2>3. epoll_set \subseteq m_listen_fds
    BY <1>1 DEF IInv, MapCoversKernel
  <2> QED
    BY <1>1, <2>1, <2>2, <2>3 DEF Settling
<1> QED
  BY <1>1, Invariance, AlwaysSettling, PTL
=============================================================================

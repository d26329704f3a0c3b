---------------------------- MODULE IOThreadProofs ----------------------------
(***************************************************************************)
(* Proofs about IOThread for every set of descriptors and every number of  *)
(* calls.  Its loop is EventLoop's, whose invariant holds here too.        *)
(***************************************************************************)
EXTENDS IOThread, EventLoopProofs

\* The constructor is released once, by a thread that has its loop or will have
\* none.
Constructed ==
  /\ thread_pc \in {"create", "post"} => main_pc = "ctor" /\ m_init_sem = 0
  /\ thread_pc = "create" => m_eventloop = "null"
  /\ m_eventloop = "null" => thread_pc \in {"create", "exited"}
  /\ m_is_valid => m_eventloop = "set" \/ main_pc = "done"

\* Only the destructor's stop() makes the loop return, and after it the main
\* thread posts nothing.
StoppedByMain ==
  /\ thread_pc \in {"create", "post", "wait_start", "enter"} => loop_pc = "idle"
  /\ thread_pc = "loop" /\ (~m_is_running \/ loop_pc \in {"exit", "drain", "idle"}) =>
       main_pc \in {"stop", "join"}
  /\ thread_pc = "loop" /\ loop_pc = "idle" => m_pending_tasks = <<>>
  /\ thread_pc = "exited" /\ m_eventloop = "set" =>
       m_pending_tasks = <<>> /\ main_pc \in {"stop", "join", "joined"}
  /\ main_pc \in {"stop", "join", "joined"} => m_eventloop = "set"
  /\ main_pc \in {"joined", "done"} => thread_pc = "exited"

IOInv == IInv /\ IOTypeOK /\ Constructed /\ StoppedByMain

-----------------------------------------------------------------------------
(* The event loop inside the thread.                                       *)

LEMMA LoopGoesOn ==
  ASSUME IInv, IONext \/ UNCHANGED io_vars
  PROVE  IInv'
<1>1. CASE UNCHANGED vars
  BY <1>1, NextIInv
<1>2. CASE StartLoop \/ LoopStep \/ EpollWaitNothing \/ Remote
  BY <1>2, NextIInv DEF Next
<1>3. CASE ThreadStep
  BY <1>1, <1>2, <1>3 DEF ThreadStep, ThreadCreate, ThreadCreateFails, ThreadPostInit, ThreadWaitStart,
                          ThreadEnterLoop, ThreadInLoop, ThreadExit
<1>4. CASE MainStep
  <2>1. CASE MainConstructed \/ MainJoin \/ MainDestroyLoop \/ MainStart
    BY <1>1, <2>1 DEF MainConstructed, MainJoin, MainDestroyLoop, MainStart
  <2>2. CASE MainWake \/ MainCalls
    BY <1>2, <2>2, AcceptorAssumption DEF MainWake, MainCalls, MainInCall, Remote
  <2>3. CASE MainStop
    BY <1>1, <1>2, <2>3, AcceptorAssumption DEF MainStop, Remote
  <2> QED
    BY <1>4, <2>1, <2>2, <2>3 DEF MainStep, MainFinishes
<1>5. CASE UNCHANGED io_vars
  BY <1>1, <1>5 DEF io_vars
<1> QED
  BY <1>3, <1>4, <1>5 DEF IONext

\* What loop() does to the flag, and how it returns.
LEMMA LoopReturns ==
  ASSUME LoopStep \/ EpollWaitNothing
  PROVE  /\ m_is_running' = m_is_running /\ loop_pc # "idle"
         /\ loop_pc' = "idle" => m_pending_tasks' = <<>>
         /\ loop_pc' \in {"exit", "drain", "idle"} => loop_pc \in {"exit", "drain"} \/ ~m_is_running
<1>1. CASE TestRunning \/ Swap \/ BatchDone
  BY <1>1 DEF TestRunning, Swap, BatchDone
<1>2. CASE RunTask
  <2>1. m_is_running' = m_is_running
    BY <1>2, ServerCallbacksAssumption DEF RunTask, Execute
  <2> QED
    BY <1>2, <2>1 DEF RunTask
<1>3. CASE EpollWait \/ EpollWaitNothing \/ Collect \/ CollectDone
  BY <1>3 DEF EpollWait, EpollWaitNothing, Collect, CollectDone
<1>4. CASE LockForExit \/ ReturnFromLoop
  BY <1>4 DEF LockForExit, ReturnFromLoop
<1>5. CASE RunAtExit
  <2>1. m_is_running' = m_is_running
    BY <1>5, ServerCallbacksAssumption DEF RunAtExit, Execute
  <2> QED
    BY <1>5, <2>1 DEF RunAtExit, loop_vars
<1> QED
  BY <1>1, <1>2, <1>3, <1>4, <1>5 DEF LoopStep

\* A call of the main thread leaves the loop where it is and running.
LEMMA CallsDoNotStop ==
  ASSUME MainCalls
  PROVE  UNCHANGED <<loop_pc, m_is_running>> /\ main_pc = "own" /\ UNCHANGED thread_vars
BY DEF MainCalls, MainInCall, PostAdd, Close, PostDelete, Wake, loop_vars

-----------------------------------------------------------------------------
(* The inductive invariant.                                                *)

LEMMA InitIOInv == IOInit => IOInv
<1> SUFFICES ASSUME IOInit PROVE IOInv
  OBVIOUS
<1>1. IInv
  BY InitIInv DEF IOInit
<1>2. IOTypeOK
  <2>1. TypeOK
    BY <1>1 DEF IInv
  <2>2. m_init_sem \in 0..1 /\ m_start_sem \in 0..1
    BY DEF IOInit
  <2> QED
    BY <2>1, <2>2 DEF IOInit, IOTypeOK
<1>3. Constructed /\ StoppedByMain
  BY DEF IOInit, Init, Constructed, StoppedByMain
<1> QED
  BY <1>1, <1>2, <1>3 DEF IOInv

\* ThreadFunc before loop() and after it.
LEMMA ThreadStepKeeps == ASSUME IOInv, IInv', ThreadStep PROVE IOInv'
<1>. USE DEF IOInv, IOTypeOK, Constructed, StoppedByMain
<1>0. TypeOK'
  BY DEF IInv
<1>1. CASE ThreadCreate
  <2>1. UNCHANGED <<loop_pc, m_is_running, m_pending_tasks>>
    BY <1>1 DEF ThreadCreate, vars, loop_vars
  <2> QED
    BY <1>0, <1>1, <2>1 DEF ThreadCreate
<1>2. CASE ThreadCreateFails \/ ThreadPostInit \/ ThreadWaitStart
  <2>1. UNCHANGED <<loop_pc, m_is_running, m_pending_tasks>>
    BY <1>2 DEF ThreadCreateFails, ThreadPostInit, ThreadWaitStart, vars, loop_vars
  <2> QED
    BY <1>0, <1>2, <2>1 DEF ThreadCreateFails, ThreadPostInit, ThreadWaitStart, Posted
<1>3. CASE ThreadEnterLoop
  BY <1>0, <1>3 DEF ThreadEnterLoop, StartLoop
<1>4. CASE ThreadInLoop
  <2>1. /\ thread_pc = "loop" /\ UNCHANGED <<main_pc, thread_pc, m_eventloop, m_is_valid, m_init_sem, m_start_sem, stop_running>>
        /\ m_is_running' = m_is_running /\ loop_pc # "idle"
        /\ loop_pc' = "idle" => m_pending_tasks' = <<>>
        /\ loop_pc' \in {"exit", "drain", "idle"} => loop_pc \in {"exit", "drain"} \/ ~m_is_running
    BY <1>4, LoopReturns DEF ThreadInLoop, thread_vars
  <2> QED
    BY <1>0, <2>1
<1>5. CASE ThreadExit
  <2>1. UNCHANGED <<loop_pc, m_is_running, m_pending_tasks>>
    BY <1>5 DEF ThreadExit, vars, loop_vars
  <2> QED
    BY <1>0, <1>5, <2>1 DEF ThreadExit
<1> QED
  BY <1>1, <1>2, <1>3, <1>4, <1>5 DEF ThreadStep

LEMMA MainStepKeeps == ASSUME IOInv, IInv', MainStep PROVE IOInv'
<1>. USE DEF IOInv, IOTypeOK, Constructed, StoppedByMain
<1>0. TypeOK'
  BY DEF IInv
<1>1. CASE MainConstructed \/ MainJoin \/ MainDestroyLoop \/ MainStart
  <2>1. UNCHANGED <<loop_pc, m_is_running, m_pending_tasks>>
    BY <1>1 DEF MainConstructed, MainJoin, MainDestroyLoop, MainStart, vars, loop_vars
  <2>2. CASE MainConstructed
    BY <1>0, <2>1, <2>2 DEF MainConstructed
  <2>3. CASE MainJoin \/ MainDestroyLoop
    BY <1>0, <2>1, <2>3 DEF MainJoin, MainDestroyLoop
  <2>4. CASE MainStart
    BY <1>0, <2>1, <2>4 DEF MainStart, Started, Posted
  <2> QED
    BY <1>1, <2>2, <2>3, <2>4
<1>2. CASE MainCalls
  <2>1. /\ UNCHANGED <<loop_pc, m_is_running>> /\ main_pc = "own"
        /\ UNCHANGED <<main_pc, thread_pc, m_eventloop, m_is_valid, m_init_sem, m_start_sem, stop_running>>
    BY <1>2, CallsDoNotStop DEF thread_vars
  <2> QED
    BY <1>0, <2>1
<1>3. CASE MainStop
  <2>1. /\ main_pc = "own"
        /\ UNCHANGED <<loop_pc, m_pending_tasks, thread_pc, m_eventloop, m_is_valid, m_init_sem, m_start_sem>>
        /\ IF m_eventloop = "null" THEN main_pc' = "crashed" /\ UNCHANGED <<m_is_running, stop_running>>
                                   ELSE main_pc' = "stop" /\ stop_running' = m_is_running
    BY <1>3 DEF MainStop, Stop, vars, loop_vars
  <2>2. stop_running' \in BOOLEAN
    BY <2>1 DEF TypeOK
  <2> QED
    BY <1>0, <2>1, <2>2
<1>4. CASE MainWake
  <2>1. UNCHANGED <<loop_pc, m_is_running, m_pending_tasks>>
    BY <1>4 DEF MainWake, Wake, loop_vars
  <2> QED
    BY <1>0, <1>4, <2>1 DEF MainWake
<1> QED
  BY <1>1, <1>2, <1>3, <1>4 DEF MainStep, MainFinishes

LEMMA IOInvariance == IOSpec => []IOInv
<1>1. IOInv /\ [IONext]_io_vars => IOInv'
  <2> SUFFICES ASSUME IOInv, [IONext]_io_vars PROVE IOInv'
    OBVIOUS
  <2>1. IInv'
    BY LoopGoesOn DEF IOInv
  <2>2. CASE ThreadStep
    BY <2>1, <2>2, ThreadStepKeeps
  <2>3. CASE MainStep
    BY <2>1, <2>3, MainStepKeeps
  <2>4. CASE UNCHANGED io_vars
    BY <2>1, <2>4 DEF IOInv, IOTypeOK, Constructed, StoppedByMain, io_vars, thread_vars, vars, loop_vars, IInv
  <2> QED
    BY <2>2, <2>3, <2>4 DEF IONext
<1> QED
  BY <1>1, InitIOInv, PTL DEF IOSpec

-----------------------------------------------------------------------------
(* The theorems.                                                           *)

\* The thread's state has its type; no semaphore is posted twice before it is
\* waited for.
THEOREM IOTypeCorrect == IOSpec => []IOTypeOK
<1>1. IOInv => IOTypeOK
  BY DEF IOInv
<1> QED
  BY <1>1, IOInvariance, PTL

\* A constructed thread that says it is valid has an event loop (IOThread(),
\* ThreadFunc() and m_init_sem between them).
THEOREM ValidThreadsAreUsable == IOSpec => []ValidMeansUsable
<1>1. IOInv => ValidMeansUsable
  BY DEF IOInv, IOTypeOK, Constructed, ValidMeansUsable
<1> QED
  BY <1>1, IOInvariance, PTL

\* When the destructor has joined the thread, the loop's queue is empty:
\* ~EventLoop() never runs a callback with the mutex it holds (~IOThread(),
\* and loop() running what is left before it returns).
THEOREM NothingLeftToDestroy == IOSpec => []JoinedMeansDrained
<1>1. IOInv => JoinedMeansDrained
  BY DEF IOInv, StoppedByMain, JoinedMeansDrained
<1> QED
  BY <1>1, IOInvariance, PTL
=============================================================================

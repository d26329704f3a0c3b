------------------------------- MODULE IOThread -------------------------------
(***************************************************************************)
(* zest::IOThread (src/zest/net/io_thread.cc): the life of one IO thread   *)
(* and its EventLoop, from the constructor on the main thread to the       *)
(* destructor there.  The loop is EventLoop's; the main thread is its only *)
(* remote caller, as the ThreadPool's owner is in the server.              *)
(***************************************************************************)
EXTENDS EventLoop

CONSTANTS
  CreateMayFail,  \* CreateEventLoop() may return nullptr
  MaxPosts        \* bound: registrations posted before the destructor runs

ASSUME CreateMayFailAssumption == CreateMayFail \in BOOLEAN
ASSUME MaxPostsAssumption == MaxPosts \in Nat /\ MaxPosts < MaxCalls
ASSUME OnlyMainAssumption == Remotes = {Acceptor}
ASSUME ServerCallbacksAssumption == ~IoMayStop

VARIABLES
  main_pc,      \* where the main thread is in the IOThread's life
  thread_pc,    \* where ThreadFunc is
  m_eventloop,  \* "null" or "set"
  m_is_valid,
  m_init_sem,
  m_start_sem,
  stop_running  \* history: m_is_running when the destructor stopped the loop

thread_vars == <<main_pc, thread_pc, m_eventloop, m_is_valid, m_init_sem, m_start_sem, stop_running>>
io_vars == <<vars, thread_vars>>

IOTypeOK ==
  /\ TypeOK
  /\ main_pc \in {"ctor", "own", "stop", "join", "joined", "done", "crashed"}
  /\ thread_pc \in {"create", "post", "wait_start", "enter", "loop", "exited"}
  /\ m_eventloop \in {"null", "set"}
  /\ m_is_valid \in BOOLEAN
  /\ m_init_sem \in 0..1
  /\ m_start_sem \in 0..1
  /\ stop_running \in BOOLEAN

IOInit ==
  /\ Init
  /\ main_pc = "ctor"
  /\ thread_pc = "create"
  /\ m_eventloop = "null"
  /\ m_is_valid = FALSE
  /\ m_init_sem = 0
  /\ m_start_sem = 0
  /\ stop_running = FALSE

-----------------------------------------------------------------------------
(* ThreadFunc, on the IO thread.                                           *)

\* Mutation: a post counts twice.
PostedTwice(sem) == sem + 2

\* Sem::post()
Posted(sem) == sem + 1

ThreadCreate ==
  /\ thread_pc = "create"
  /\ m_eventloop' = "set"
  /\ m_is_valid' = TRUE
  /\ thread_pc' = "post"
  /\ UNCHANGED <<vars, main_pc, m_init_sem, m_start_sem, stop_running>>

\* A null event loop: the constructor is released and the thread returns.
ThreadCreateFails ==
  /\ CreateMayFail
  /\ thread_pc = "create"
  /\ m_init_sem' = Posted(m_init_sem)
  /\ thread_pc' = "exited"
  /\ UNCHANGED <<vars, main_pc, m_eventloop, m_is_valid, m_start_sem, stop_running>>

\* Mutation: the constructor is released before the event loop exists.
ThreadPostInitEarly ==
  /\ thread_pc \in {"create", "post"}
  /\ m_init_sem' = Posted(m_init_sem)
  /\ thread_pc' = "wait_start"
  /\ UNCHANGED <<vars, main_pc, m_eventloop, m_is_valid, m_start_sem, stop_running>>

ThreadPostInit ==
  /\ thread_pc = "post"
  /\ m_init_sem' = Posted(m_init_sem)
  /\ thread_pc' = "wait_start"
  /\ UNCHANGED <<vars, main_pc, m_eventloop, m_is_valid, m_start_sem, stop_running>>

ThreadWaitStart ==
  /\ thread_pc = "wait_start"
  /\ m_start_sem > 0
  /\ m_start_sem' = m_start_sem - 1
  /\ thread_pc' = "enter"
  /\ UNCHANGED <<vars, main_pc, m_eventloop, m_is_valid, m_init_sem, stop_running>>

ThreadEnterLoop ==
  /\ thread_pc = "enter"
  /\ StartLoop
  /\ thread_pc' = "loop"
  /\ UNCHANGED <<main_pc, m_eventloop, m_is_valid, m_init_sem, m_start_sem, stop_running>>

ThreadInLoop ==
  /\ thread_pc = "loop"
  /\ LoopStep \/ EpollWaitNothing
  /\ UNCHANGED thread_vars

ThreadExit ==
  /\ thread_pc = "loop" /\ loop_pc = "idle"
  /\ m_is_valid' = FALSE
  /\ thread_pc' = "exited"
  /\ UNCHANGED <<vars, main_pc, m_eventloop, m_init_sem, m_start_sem, stop_running>>

-----------------------------------------------------------------------------
(* The main thread.                                                        *)

\* The constructor returns once the thread posted m_init_sem.
MainConstructed ==
  /\ main_pc = "ctor"
  /\ m_init_sem > 0
  /\ m_init_sem' = m_init_sem - 1
  /\ main_pc' = "own"
  /\ UNCHANGED <<vars, thread_pc, m_eventloop, m_is_valid, m_start_sem, stop_running>>

Started == m_start_sem > 0 \/ thread_pc \in {"enter", "loop"}

\* start(): ThreadPool::start() posts each thread's semaphore once.
MainStart ==
  /\ main_pc = "own"
  /\ ~Started
  /\ CanCall(Acceptor)
  /\ m_start_sem' = Posted(m_start_sem)
  /\ UNCHANGED <<vars, main_pc, thread_pc, m_eventloop, m_is_valid, m_init_sem, stop_running>>

\* The rest of a call begun: the delete that follows a close, or the wakeup.
MainInCall == (\E f \in Fds : PostDelete(f)) \/ Wake(Acceptor)

\* Connections are given to a thread that get_io_thread() finds valid, before
\* start() or after it.
MainCalls ==
  /\ main_pc = "own"
  /\ \/ \E f \in Fds : m_is_valid /\ calls < MaxPosts /\ (PostAdd(f) \/ Close(f))
     \/ MainInCall
  /\ UNCHANGED thread_vars

\* ~IOThread(): stop() through m_eventloop, the pointer unchecked ...
MainStop ==
  /\ main_pc = "own"
  /\ CanCall(Acceptor)
  /\ IF m_eventloop = "null"
       THEN main_pc' = "crashed" /\ UNCHANGED <<vars, stop_running>>
       ELSE main_pc' = "stop" /\ Stop(Acceptor) /\ stop_running' = m_is_running
  /\ UNCHANGED <<thread_pc, m_eventloop, m_is_valid, m_init_sem, m_start_sem>>

\* ... its wakeup ...
MainWake ==
  /\ main_pc = "stop"
  /\ Wake(Acceptor)
  /\ main_pc' = "join"
  /\ UNCHANGED <<thread_pc, m_eventloop, m_is_valid, m_init_sem, m_start_sem, stop_running>>

\* ... and pthread_join.
MainJoin ==
  /\ main_pc = "join"
  /\ thread_pc = "exited"
  /\ main_pc' = "joined"
  /\ UNCHANGED <<vars, thread_pc, m_eventloop, m_is_valid, m_init_sem, m_start_sem, stop_running>>

\* The last reference goes: ~EventLoop() runs what is left of the queue with
\* m_mutex held, where a registration posts itself and waits for m_mutex.
MainDestroyLoop ==
  /\ main_pc = "joined"
  /\ m_pending_tasks = <<>>
  /\ m_eventloop' = "null"
  /\ main_pc' = "done"
  /\ UNCHANGED <<vars, thread_pc, m_is_valid, m_init_sem, m_start_sem, stop_running>>

-----------------------------------------------------------------------------

ThreadStep ==
  \/ ThreadCreate \/ ThreadCreateFails \/ ThreadPostInit \/ ThreadWaitStart \/ ThreadEnterLoop
  \/ ThreadInLoop \/ ThreadExit

MainFinishes == MainConstructed \/ MainWake \/ MainJoin \/ MainDestroyLoop

MainStep == MainFinishes \/ MainStart \/ MainCalls \/ MainStop

IONext == ThreadStep \/ MainStep

IOSpec == IOInit /\ [][IONext]_io_vars

\* Both threads are scheduled; epoll_wait is not relied on to time out; what
\* the main thread does with the object, and when it destroys it, is its choice.
IOFairness ==
  /\ WF_io_vars(ThreadStep /\ (loop_pc = "epoll_wait" => WakeupReady))
  /\ WF_io_vars(MainFinishes)
  /\ WF_io_vars(main_pc = "own" /\ MainInCall /\ UNCHANGED thread_vars)

IOFairSpec == IOSpec /\ IOFairness

-----------------------------------------------------------------------------
(* Properties.                                                             *)

\* When the constructor has returned the loop can be used from the main thread
\* if the thread says it is valid: nobody sees m_is_valid before m_eventloop,
\* and a thread that is not running any more has left the loop.
ValidMeansUsable ==
  /\ m_is_valid => m_eventloop = "set" \/ main_pc = "done"
  /\ main_pc # "ctor" => m_eventloop = "set" \/ thread_pc = "exited"

\* Nothing posted before the destructor is left for ~EventLoop() to run on the
\* main thread, where it would wait for the mutex it holds.
JoinedMeansDrained == main_pc = "joined" => m_pending_tasks = <<>>

\* A destructor that stops a loop already running returns.  (loop() sets
\* m_is_running whatever was asked before, so one that comes between start() and
\* that line waits for ever, as does one for a thread that was never started.)
RunningLoopJoins == (main_pc = "join" /\ stop_running) ~> main_pc = "done"
=============================================================================

------------------------------- MODULE RpcCall -------------------------------
(***************************************************************************)
(* zest::RpcChannel::CallMethod (src/zest/net/rpc/rpc_channel.cc) and the  *)
(* TcpClients it makes: one thread calls one method after another, each    *)
(* over a connection of its own, and all of them run the thread's one      *)
(* event loop, once to connect and once for the call.                      *)
(*                                                                         *)
(* A call's timer stays in the loop's queue when the call has returned,    *)
(* and keeps its client, with its descriptor and its place in the loop,    *)
(* until a loop of the thread runs the timer.  A timer that is due when it *)
(* is added runs before the loop that it is to stop.                       *)
(*                                                                         *)
(* Descriptors are numbers in the process's table, where a closed one is   *)
(* soon another's.  A round of the loop runs the callbacks of all the      *)
(* events epoll_wait returned, in any order.  The bytes of a call are      *)
(* TcpLink's: here its connection is answered, hung up or silent.          *)
(***************************************************************************)
EXTENDS FiniteSetsExt, SequencesExt

CONSTANTS
  Calls,        \* bound: the number of calls
  Controllers,  \* the RpcControllers the caller has, for use and reuse
  MaxFd,        \* bound: the numbers in the table of descriptors
  MayTimeOut,   \* a call's own timer may expire before the call returns
  MayLose       \* the server may refuse, hang up or be silent, and another
                \* thread opens and closes files

ASSUME CallsAssumption == Calls \in Nat \ {0} /\ MaxFd \in Nat \ {0}
ASSUME ControllersAssumption == IsFiniteSet(Controllers) /\ Controllers # {}
ASSUME ChoicesAssumption == {MayTimeOut, MayLose} \subseteq BOOLEAN

VARIABLES
  call,         \* the number of the current call
  pc,           \* where CallMethod is
  m_state,      \* of the current call's TcpConnection
  is_timeout,   \* connect()'s
  rsp,          \* rsp_protocol is set
  my_controller,  \* of each call
  m_error_code, m_is_failed, m_is_finished,  \* of each controller
  owner,        \* kernel: whose file a number is
  m_fd,         \* of each client, None without a client
  link,         \* kernel: each client's connection
  listening,    \* kernel: the clients whose number the epoll instance watches
  m_listen_fds, \* the clients whose number is in the loop's map
  m_is_running,
  tasks,        \* callbacks of this round of the loop still to run
  timers,       \* the valid timers in the loop's queue
  expired,      \* the ones whose time has come
  gave_up,      \* history: the calls whose connect() closed the descriptor
  harmed,       \* history: who closed whose file
  stopped_by    \* history: who stopped the last loop of each call, or tried to
                \* before it began

client_vars == <<m_state, is_timeout, rsp>>
controller_vars == <<my_controller, m_error_code, m_is_failed, m_is_finished>>
fd_vars == <<owner, m_fd, link, listening, m_listen_fds>>
loop_vars == <<m_is_running, tasks>>
timer_vars == <<timers, expired>>
history_vars == <<gave_up, harmed, stopped_by>>
vars == <<call, pc, client_vars, controller_vars, fd_vars, loop_vars, timer_vars, history_vars>>

Errors == {"NONE", "CONNECT_FAILED", "CALL_TIMEOUT", "CALL_FAILED"}
Timer == [kind : {"connect", "call"}, call : 1..Calls]

Stale == {"stale timer", "stale connection"}

None == 0  \* no number
Free == 0  \* nobody's number
Other == Calls + 1

CallTypeOK ==
  /\ call \in 1..(Calls + 1)
  /\ pc \in {"idle", "begin", "arming_connect", "connecting", "connected", "arming_call",
             "calling", "undefined"}
  /\ m_state \in {"NotConnected", "Connected"}
  /\ is_timeout \in BOOLEAN /\ rsp \in BOOLEAN
  /\ my_controller \in [1..Calls -> Controllers]
  /\ m_error_code \in [Controllers -> Errors]
  /\ m_is_failed \in [Controllers -> BOOLEAN] /\ m_is_finished \in [Controllers -> BOOLEAN]

FdTypeOK ==
  /\ owner \in [1..MaxFd -> Free..Other]
  /\ m_fd \in [1..Calls -> None..MaxFd]
  /\ link \in [1..Calls -> {"none", "pending", "refused", "up", "answered", "hung_up"}]
  /\ listening \subseteq m_listen_fds /\ m_listen_fds \subseteq 1..Calls
  /\ \A c \in listening : m_fd[c] # None /\ owner[m_fd[c]] \in {c, Other}

LoopTypeOK ==
  /\ m_is_running \in BOOLEAN /\ tasks \in Seq(0..Calls)
  /\ expired \subseteq timers /\ timers \subseteq Timer

HistoryTypeOK ==
  /\ gave_up \subseteq 1..Calls
  /\ harmed \subseteq [by : 1..Calls, whose : 1..Other]
  /\ stopped_by \in [1..Calls -> SUBSET ({"connect", "call", "unheard"} \cup Stale)]

TypeOK == CallTypeOK /\ FdTypeOK /\ LoopTypeOK /\ HistoryTypeOK

Init ==
  /\ call = 1 /\ pc = "idle"
  /\ m_state = "NotConnected" /\ is_timeout = FALSE /\ rsp = FALSE
  /\ my_controller = [c \in 1..Calls |-> CHOOSE k \in Controllers : TRUE]
  /\ m_error_code = [k \in Controllers |-> "NONE"]
  /\ m_is_failed = [k \in Controllers |-> FALSE]
  /\ m_is_finished = [k \in Controllers |-> FALSE]
  /\ owner = [fd \in 1..MaxFd |-> Free]
  /\ m_fd = [c \in 1..Calls |-> None] /\ link = [c \in 1..Calls |-> "none"]
  /\ listening = {} /\ m_listen_fds = {}
  /\ m_is_running = FALSE /\ tasks = <<>>
  /\ timers = {} /\ expired = {}
  /\ gave_up = {} /\ harmed = {} /\ stopped_by = [c \in 1..Calls |-> {}]

-----------------------------------------------------------------------------
(* Descriptors.                                                            *)

Owns(c) == m_fd[c] # None /\ owner[m_fd[c]] = c

FreeFds == {fd \in 1..MaxFd : owner[fd] = Free}

Numbers(calls) == {m_fd[c] : c \in calls}

\* close(m_fd) by each of these calls: whoever has the number loses its file,
Close(calls) ==
  /\ owner' = [fd \in 1..MaxFd |-> IF fd \in Numbers(calls) THEN Free ELSE owner[fd]]
  /\ harmed' = harmed \cup
       {h \in [by : calls, whose : 1..Other] : h.by # h.whose /\ owner[m_fd[h.by]] = h.whose}

\* Mutation: the closed numbers stay in the loop.
StillListening(calls) == listening

\* and the kernel watches these only.
LeftListening(calls) == {c \in listening : m_fd[c] \notin Numbers(calls)}

\* The map without the entries of these numbers.
LeftInMap(numbers) == {c \in m_listen_fds : m_fd[c] \notin numbers}

\* deleteEpollEvent() by each of these calls: whoever has its number in the map
\* loses the entry and the registration.
DeleteEpollEvents(calls) ==
  /\ listening' = LeftListening(calls)
  /\ m_listen_fds' = LeftInMap(Numbers(calls))

\* addEpollEvent() by a call for a number.  An entry left in the map makes it an
\* EPOLL_CTL_MOD, which fails when the kernel has dropped the number, and takes
\* the entry along; an EPOLL_CTL_ADD fails when nobody has the number.
AddEpollEvent(c, fd, is_open) ==
  IF fd \in Numbers(m_listen_fds)
    THEN /\ UNCHANGED listening
         /\ m_listen_fds' = IF fd \in Numbers(listening) THEN m_listen_fds ELSE LeftInMap({fd})
    ELSE /\ listening' = IF is_open THEN listening \cup {c} ELSE listening
         /\ m_listen_fds' = IF is_open THEN m_listen_fds \cup {c} ELSE m_listen_fds

\* ~TcpClient of each of these calls, with clear() of its connection: close(),
\* then the number leaves the loop.
Destroy(calls) ==
  /\ Close(calls)
  /\ m_fd' = [c \in 1..Calls |-> IF c \in calls THEN None ELSE m_fd[c]]
  /\ link' = [c \in 1..Calls |-> IF c \in calls THEN "none" ELSE link[c]]

DestroyAndDelete(calls) == Destroy(calls) /\ DeleteEpollEvents(calls)

-----------------------------------------------------------------------------
(* CallMethod outside the loop.                                            *)

ConnectTimer == [kind |-> "connect", call |-> call]
CallTimer(c) == [kind |-> "call", call |-> c]

\* RpcController::SetError()
SetError(code) ==
  /\ m_error_code' = [m_error_code EXCEPT ![my_controller[call]] = code]
  /\ m_is_failed' = [m_is_failed EXCEPT ![my_controller[call]] = TRUE]

\* The next call may begin.
Return ==
  /\ call' = call + 1
  /\ pc' = "idle"
  /\ m_state' = "NotConnected" /\ is_timeout' = FALSE /\ rsp' = FALSE
  /\ stopped_by' = [stopped_by EXCEPT ![call] = @ \cap Stale]

\* The caller takes a controller, used or not, the first time always the same,
\* and resets it.  Reset() does not touch m_is_failed.
Reset(controller) ==
  /\ pc = "idle" /\ call <= Calls
  /\ call = 1 => controller = my_controller[1]
  /\ my_controller' = [my_controller EXCEPT ![call] = controller]
  /\ m_error_code' = [m_error_code EXCEPT ![controller] = "NONE"]
  /\ m_is_finished' = [m_is_finished EXCEPT ![controller] = FALSE]
  /\ pc' = "begin"
  /\ UNCHANGED <<call, client_vars, m_is_failed, fd_vars, loop_vars, timer_vars, history_vars>>

\* TcpClient's constructor: socket() takes the lowest number.
Socket ==
  /\ pc = "begin" /\ FreeFds # {}
  /\ m_fd' = [m_fd EXCEPT ![call] = Min(FreeFds)]
  /\ owner' = [owner EXCEPT ![Min(FreeFds)] = call]

\* With no number left the constructor, and CallMethod, throw.
NoDescriptor ==
  /\ pc = "begin" /\ FreeFds = {}
  /\ Return
  /\ UNCHANGED <<controller_vars, fd_vars, loop_vars, timer_vars, gave_up, harmed>>

\* connect(): the connection is made at once.
ConnectsAtOnce ==
  /\ Socket
  /\ link' = [link EXCEPT ![call] = "up"]
  /\ m_listen_fds' = LeftInMap({Min(FreeFds)})
  /\ m_state' = "Connected"
  /\ pc' = "connected"
  /\ UNCHANGED <<call, is_timeout, rsp, controller_vars, listening, loop_vars, timer_vars,
                 history_vars>>

\* connect(): it is refused at once, and the descriptor, just made, is closed.
RefusedAtOnce ==
  /\ MayLose
  /\ pc = "begin" /\ FreeFds # {}
  /\ m_fd' = [m_fd EXCEPT ![call] = Min(FreeFds)]
  /\ link' = [link EXCEPT ![call] = "refused"]
  /\ gave_up' = gave_up \cup {call}
  /\ pc' = "connected"
  /\ UNCHANGED <<call, client_vars, controller_vars, owner, listening, m_listen_fds, loop_vars,
                 timer_vars, harmed, stopped_by>>

\* connect(): it is in progress, and its timer is put into the queue.
ConnectInProgress ==
  /\ Socket
  /\ link' = [link EXCEPT ![call] = "pending"]
  /\ AddEpollEvent(call, Min(FreeFds), TRUE)
  /\ timers' = timers \cup {ConnectTimer}
  /\ pc' = "arming_connect"
  /\ UNCHANGED <<call, client_vars, controller_vars, loop_vars, expired, history_vars>>

\* Mutation: the timer is left valid.
StillValid(t) == timers

\* set_valid(false)
Invalidated(t) == timers \ {t}

\* The loop has returned to connect(): with a timeout the descriptor is closed,
\* otherwise the connection counts as made.
ConnectReturns ==
  /\ pc = "connecting" /\ ~m_is_running /\ tasks = <<>>
  /\ timers' = Invalidated(ConnectTimer)
  /\ expired' = expired \cap timers'
  /\ IF is_timeout
       THEN /\ Close({call})
            /\ listening' = LeftListening({call})
            /\ gave_up' = gave_up \cup {call}
            /\ UNCHANGED <<m_state, m_listen_fds>>
       ELSE /\ m_state' = "Connected"
            /\ DeleteEpollEvents({call})
            /\ UNCHANGED <<owner, harmed, gave_up>>
  /\ pc' = "connected"
  /\ stopped_by' = [stopped_by EXCEPT ![call] = {}]
  /\ UNCHANGED <<call, is_timeout, rsp, controller_vars, m_fd, link, loop_vars>>

\* connect() did not succeed: CallMethod returns without calling done.
ConnectFailed ==
  /\ pc = "connected" /\ m_state = "NotConnected"
  /\ SetError("CONNECT_FAILED")
  /\ DestroyAndDelete({call})
  /\ Return
  /\ UNCHANGED <<my_controller, m_is_finished, loop_vars, timer_vars, gave_up>>

\* prepare(), and the call's timer is put into the queue.  The loop takes the
\* number when it is a file, whoever's it is.
StartCall ==
  /\ pc = "connected" /\ m_state = "Connected"
  /\ AddEpollEvent(call, m_fd[call], owner[m_fd[call]] # Free)
  /\ timers' = timers \cup {CallTimer(call)}
  /\ pc' = "arming_call"
  /\ UNCHANGED <<call, client_vars, controller_vars, owner, m_fd, link, loop_vars, expired,
                 history_vars>>

\* start() and the first line of loop(), whatever stop() was called before.
StartLoop ==
  /\ \/ pc = "arming_connect" /\ pc' = "connecting"
     \/ pc = "arming_call" /\ pc' = "calling"
  /\ m_is_running' = TRUE
  /\ UNCHANGED <<call, client_vars, controller_vars, fd_vars, tasks, timer_vars, history_vars>>

\* Mutation: a call is not marked finished.
FinishedNot == m_is_finished

\* SetFinished()
Finished == [m_is_finished EXCEPT ![my_controller[call]] = TRUE]

\* Mutation: the client is kept when the timer is gone, too.
KeptAnyway(c) == c \in 1..Calls

\* The lambda of the call's timer keeps the client while it is in the queue.
TimerKeeps(c) == CallTimer(c) \in timers

\* Mutation: the call closes the descriptor, and so will its client.
CloseToo ==
  Close({call}) /\ DeleteEpollEvents({call}) /\ UNCHANGED <<m_fd, link>>

\* CallMethod's own pointer to the client goes.
DropClient ==
  IF TimerKeeps(call)
    THEN UNCHANGED <<fd_vars, harmed>>
    ELSE DestroyAndDelete({call})

\* The loop has returned to CallMethod: without a response the call failed.
CallReturns ==
  /\ pc = "calling" /\ ~m_is_running /\ tasks = <<>>
  /\ IF rsp THEN UNCHANGED <<m_error_code, m_is_failed>> ELSE SetError("CALL_FAILED")
  /\ m_is_finished' = Finished
  /\ DropClient
  /\ Return
  /\ UNCHANGED <<my_controller, loop_vars, timer_vars, gave_up>>

-----------------------------------------------------------------------------
(* The loop.                                                               *)

TimerTask == 0  \* the timerfd's callback; the others are those of a call

\* The client's number has something to report: another's file may, any time.
IoReady(c) ==
  /\ c \in listening
  /\ \/ c = call /\ pc = "connecting" /\ link[c] \in {"up", "refused"}
     \/ (c < call \/ pc = "calling") /\ link[c] \in {"answered", "hung_up", "refused"}
     \/ owner[m_fd[c]] = Other

Ready == {c \in 1..Calls : IoReady(c)} \cup (IF expired # {} THEN {TimerTask} ELSE {})

\* epoll_wait: all that is ready, in any order.
EpollWait ==
  /\ m_is_running /\ tasks = <<>>
  /\ Ready # {}
  /\ tasks' \in SetToSeqs(Ready)
  /\ UNCHANGED <<call, pc, client_vars, controller_vars, fd_vars, m_is_running, timer_vars,
                 history_vars>>

\* A callback of the call is the next to run.
Io(c) == tasks # <<>> /\ Head(tasks) = c /\ tasks' = Tail(tasks)

\* connect() as the callback: connected, or the number is now the file of
\* another that is.
OnConnected ==
  /\ Io(call) /\ pc = "connecting"
  /\ IF Owns(call) THEN link[call] = "up" ELSE owner[m_fd[call]] = Other
  /\ m_state' = "Connected"
  /\ DeleteEpollEvents({call})
  /\ m_is_running' = FALSE
  /\ UNCHANGED <<call, pc, is_timeout, rsp, controller_vars, owner, m_fd, link, timer_vars,
                 history_vars>>

\* connect() as the callback: refused, which as an EPOLLERR took the entry out of
\* the map before, or the number is no socket that connects.  It is closed, and
\* the loop goes on.
OnRefused ==
  /\ Io(call) /\ pc = "connecting"
  /\ Owns(call) => link[call] = "refused"
  /\ Close({call})
  /\ listening' = LeftListening({call})
  /\ m_listen_fds' = IF Owns(call) THEN LeftInMap({m_fd[call]}) ELSE m_listen_fds
  /\ gave_up' = gave_up \cup {call}
  /\ UNCHANGED <<call, pc, client_vars, controller_vars, m_fd, link, m_is_running, timer_vars,
                 stopped_by>>

\* The callbacks of the call's connection, of this call or of one that has
\* returned: to the response or to the end of the connection, with stop(), and
\* the one-shot event is not armed again; or, when the number is not its file, to
\* nothing or to the file of another, and it may listen again.
OnCallIo(c) ==
  /\ Io(c) /\ m_fd[c] # None
  /\ c = call => pc = "calling"
  /\ \E stops, answered \in BOOLEAN :
       /\ Owns(c) => stops /\ answered = (link[c] = "answered")
       /\ answered => stops
       /\ stops => owner[m_fd[c]] # Free
       /\ rsp' = (rsp \/ (answered /\ c = call))
       /\ m_is_running' = (m_is_running /\ ~stops)
       /\ stopped_by' = [stopped_by EXCEPT ![call] =
                            IF stops /\ c # call THEN @ \cup {"stale connection"} ELSE @]
       /\ IF stops
            THEN listening' = listening \ {c} /\ UNCHANGED m_listen_fds
            ELSE AddEpollEvent(c, m_fd[c], owner[m_fd[c]] # Free)
  /\ UNCHANGED <<call, pc, m_state, is_timeout, controller_vars, owner, m_fd, link, timer_vars,
                 gave_up, harmed>>

\* The timer that came before it in this round destroyed the connection whose
\* callback this is.
OnDestroyed(c) ==
  /\ tasks # <<>> /\ Head(tasks) = c /\ m_fd[c] = None
  /\ pc' = "undefined"
  /\ m_is_running' = FALSE /\ tasks' = <<>>
  /\ UNCHANGED <<call, client_vars, controller_vars, fd_vars, timer_vars, history_vars>>

\* Mutation: connect()'s timer does not stop the loop.
StopsOnlyCall(t) == t.kind = "call"

\* Every timer's callback ends with stop(), whatever it was set for.
Stops(t) == t \in Timer

Who(t) == IF t.call = call THEN t.kind ELSE "stale timer"

\* handleTimerEvent() for these timers: connect()'s gives the connection up, a
\* call's cancels what uses its controller unless that has finished.  Then the
\* lambdas go, and with them the clients of calls that have returned.
RunTimers(due) ==
  LET of_calls == {c \in 1..Calls : CallTimer(c) \in due}
      ended == of_calls \ {call}
      Cancelled(k) == ~m_is_finished[k] /\ \E c \in of_calls : my_controller[c] = k
  IN  /\ m_error_code' = [k \in Controllers |->
                            IF Cancelled(k) THEN "CALL_TIMEOUT" ELSE m_error_code[k]]
      /\ m_is_failed' = [k \in Controllers |-> m_is_failed[k] \/ Cancelled(k)]
      /\ m_is_finished' = [k \in Controllers |-> m_is_finished[k] \/ Cancelled(k)]
      /\ is_timeout' = (is_timeout \/ ConnectTimer \in due)
      /\ Destroy(ended)
      /\ DeleteEpollEvents(ended \cup {c \in {call} : ConnectTimer \in due})
      /\ timers' = timers \ due
      /\ expired' = {}

\* The timerfd's callback runs every timer that is due.
OnTimer ==
  /\ tasks # <<>> /\ Head(tasks) = TimerTask /\ tasks' = Tail(tasks)
  /\ RunTimers(expired)
  /\ LET stoppers == {t \in expired : Stops(t)}
     IN  /\ m_is_running' = (m_is_running /\ stoppers = {})
         /\ stopped_by' = [stopped_by EXCEPT ![call] = @ \cup {Who(t) : t \in stoppers}]
  /\ UNCHANGED <<call, pc, m_state, rsp, my_controller, gave_up>>

Own == IF pc = "arming_connect" THEN ConnectTimer ELSE CallTimer(call)

\* addTimerEvent() for the call's own timer: when it is the earliest of the queue
\* and due by now, resetTimerFd() runs it, and those that came due behind it, at
\* once.  Their stop() is for a loop that has not begun.
DueAtOnce ==
  /\ pc \in {"arming_connect", "arming_call"}
  /\ MayTimeOut
  /\ Own \in timers /\ expired = {}
  /\ \E behind \in SUBSET (timers \ {Own}) : RunTimers(behind \cup {Own})
  /\ stopped_by' = [stopped_by EXCEPT ![call] = @ \cup {"unheard"}]
  /\ UNCHANGED <<call, pc, m_state, rsp, my_controller, loop_vars, gave_up>>

-----------------------------------------------------------------------------
(* The world.                                                              *)

\* The connection is made or refused.
ConnectDone(c) ==
  /\ Owns(c) /\ link[c] = "pending"
  /\ \E result \in {"up", "refused"} :
       /\ result = "refused" => MayLose
       /\ link' = [link EXCEPT ![c] = result]
  /\ UNCHANGED <<call, pc, client_vars, controller_vars, owner, m_fd, listening, m_listen_fds,
                 loop_vars, timer_vars, history_vars>>

\* The server answers the request, or the connection ends without an answer.
ServerResponds(c) ==
  /\ Owns(c) /\ link[c] = "up"
  /\ c = call => pc = "calling"
  /\ \E result \in {"answered", "hung_up"} :
       /\ result = "hung_up" => MayLose
       /\ link' = [link EXCEPT ![c] = result]
  /\ UNCHANGED <<call, pc, client_vars, controller_vars, owner, m_fd, listening, m_listen_fds,
                 loop_vars, timer_vars, history_vars>>

\* Another thread opens a file, one at a time, or closes it.
OtherOpens ==
  /\ MayLose /\ FreeFds # {} /\ Other \notin Range(owner)
  /\ owner' = [owner EXCEPT ![Min(FreeFds)] = Other]
  /\ UNCHANGED <<call, pc, client_vars, controller_vars, m_fd, link, listening, m_listen_fds,
                 loop_vars, timer_vars, history_vars>>

\* and the kernel drops it from the epoll instance, the loop's map does not.
OtherCloses(fd) ==
  /\ owner[fd] = Other
  /\ owner' = [owner EXCEPT ![fd] = Free]
  /\ listening' = {c \in listening : m_fd[c] # fd}
  /\ UNCHANGED <<call, pc, client_vars, controller_vars, m_fd, link, m_listen_fds, loop_vars,
                 timer_vars, history_vars>>

\* The time of a timer comes; the timerfd will report it to a loop.
Expire(t) ==
  /\ t \in timers
  /\ t.call = call => MayTimeOut
  /\ expired' = expired \cup {t}
  /\ UNCHANGED <<call, pc, client_vars, controller_vars, fd_vars, loop_vars, timers, history_vars>>

-----------------------------------------------------------------------------

Outside ==
  \/ \E controller \in Controllers : Reset(controller)
  \/ NoDescriptor \/ ConnectsAtOnce \/ RefusedAtOnce \/ ConnectInProgress
  \/ ConnectReturns \/ ConnectFailed \/ StartCall \/ DueAtOnce \/ StartLoop \/ CallReturns

Loop ==
  \/ EpollWait \/ OnConnected \/ OnRefused \/ OnTimer
  \/ \E c \in 1..Calls : OnCallIo(c) \/ OnDestroyed(c)

TimePasses == \E t \in Timer : Expire(t)

World ==
  \/ OtherOpens \/ \E fd \in 1..MaxFd : OtherCloses(fd)
  \/ \E c \in 1..Calls : ConnectDone(c) \/ ServerResponds(c)
  \/ TimePasses

Next == Outside \/ Loop \/ World

Spec == Init /\ [][Next]_vars

\* The thread runs and timers expire; a connection may stay pending and a
\* server silent.
FairSpec ==
  /\ Spec
  /\ WF_vars(Outside \/ Loop)
  /\ WF_vars(TimePasses)

-----------------------------------------------------------------------------
(* Properties.                                                             *)

\* In the loop nothing changes a controller but the call that uses it and the
\* timers of earlier calls that used the same: the outcome of a call that has
\* returned is final (the lambda in CallMethod and its Finished()).  It is not
\* for a call that could not connect or for want of a descriptor threw, which
\* leaves the controller unfinished to the timers of the calls before it.
ReturnedIsFinal ==
  [][\A k \in Controllers :
       /\ pc # "idle" /\ k # my_controller[call]
       /\ m_error_code[k] # "CONNECT_FAILED"
       /\ m_error_code[k] = "NONE" => m_is_finished[k]
       => /\ m_error_code'[k] = m_error_code[k]
          /\ m_is_failed'[k] = m_is_failed[k]]_vars

\* The loop of a call whose own timer ran before the loop began: stop() is not
\* called again unless the call's connection has something to report.
Unheard ==
  /\ call <= Calls /\ m_is_running /\ "unheard" \in stopped_by[call]
  /\ pc = "calling" /\ Owns(call) /\ call \in listening => link[call] \in {"pending", "up"}

\* Every call returns, with a server that refuses, hangs up or says nothing, a
\* timer that comes due with the answer or between two loops, and a descriptor
\* that was closed behind the connection's back or is refused by epoll_ctl.  It
\* does not if the program runs the callback of a connection that is no more, or
\* if its own timer, or its connect()'s, was due before the loop began and the
\* server then says nothing (CallMethod, connect() and EventLoop::loop()).
CallsReturn == <>[](call > Calls \/ pc = "undefined" \/ Unheard)

\* A call without a response was ended by its server, by its own timer, by the
\* timer or the connection of an earlier call, or had lost its descriptor, and
\* by nothing else: connect()'s timer, which may expire in the very round that
\* connects, never reaches into the call's loop (connect() and CallMethod).
FailsForAReason ==
  pc = "calling" /\ ~m_is_running /\ tasks = <<>> /\ ~rsp =>
    \/ link[call] \in {"hung_up", "refused"}
    \/ stopped_by[call] \cap ({"call"} \cup Stale) # {}
    \/ call \in gave_up
    \/ \E h \in harmed : h.whose = call

\* A client lives no longer than its call and its call's timer: what CallMethod
\* leaves in the table of descriptors goes when the timer does, however the
\* call ended; and the program runs the callback of a destroyed connection only
\* if an earlier call was ended by a timer or a connection that was not its own
\* (the lambda's copy of client in CallMethod, ~TcpConnection).
Released ==
  /\ \A c \in 1..Calls : m_fd[c] # None /\ c # call => CallTimer(c) \in timers
  /\ \A fd \in 1..MaxFd : owner[fd] \in 1..Calls => m_fd[owner[fd]] = fd
  /\ pc = "undefined" => \E c \in 1..(call - 1) : stopped_by[c] \cap Stale # {}

\* A call closes the file of a later call, or of another thread, only if its
\* connect() had closed its own, after a refusal or a timeout, or if an earlier
\* call closed it for it (connect(), clear()).
OwnDescriptor ==
  \A h \in harmed :
    /\ h.by < h.whose
    /\ h.by \in gave_up \/ \E cause \in harmed : cause.whose = h.by /\ cause.by < h.by

\* ERROR_CALL_FAILED is the error of a call whose server closed the connection
\* or sent what cannot be parsed (the comment in rpc_protocol.h).
FailedBlamesServer ==
  [][pc = "calling" /\ call' > call /\ m_error_code'[my_controller[call]] = "CALL_FAILED" =>
       link[call] \in {"hung_up", "refused"}]_vars
=============================================================================

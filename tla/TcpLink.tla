------------------------------- MODULE TcpLink -------------------------------
(***************************************************************************)
(* A zest::TcpConnection (src/zest/net/tcp/tcp_connection.cc) of a client  *)
(* and the one the server made for it, from the moment both are connected  *)
(* and the client's request is in its m_out_buffer until the server has    *)
(* erased its side.                                                        *)
(*                                                                         *)
(* The events are EPOLLONESHOT: armed for reading or for writing, once.    *)
(* Data is counted in units; a request and a response are as long as the   *)
(* constants say, and decode() finds one when as many units have come.     *)
(* The kernel holds Cap units a direction; a FIN, a reset and the data     *)
(* before them reach recv() in the order Linux reports them.               *)
(***************************************************************************)
EXTENDS Naturals, FiniteSetsExt

CONSTANTS
  Cap,         \* what the kernel buffers in one direction
  ReqLen,      \* the length of an encoded request
  RspLen,      \* the length of an encoded response
  MayReject,   \* process() may return without encoding a response
  MayTimeOut,  \* the client's timer may stop its loop
  MayDie       \* the server's process may end

ASSUME LengthsAssumption == {Cap, ReqLen, RspLen} \subseteq Nat \ {0}
ASSUME ChoicesAssumption == {MayReject, MayTimeOut, MayDie} \subseteq BOOLEAN

Ends == {"client", "server"}
Peer(e) == IF e = "client" THEN "server" ELSE "client"

VARIABLES
  m_state,        \* TcpConnection's
  m_in_buffer,
  m_out_buffer,
  armed,          \* what the end's descriptor waits for
  pc,             \* the callback the end's thread is in
  chan,           \* kernel: units on the way to the end
  fin,            \* kernel: the end received a FIN
  rst,            \* kernel: the end received a reset
  fd_open,        \* kernel: the end's descriptor is open
  running,        \* the loop the end's connection belongs to runs
  rsp,            \* the client's m_rsp_protocol is set
  in_connections, \* TcpServer::m_connections holds the server's connection
  cut             \* history: why no response may come

net_vars == <<chan, fin, rst, fd_open>>
buffer_vars == <<m_in_buffer, m_out_buffer>>
vars == <<m_state, buffer_vars, armed, pc, net_vars, running, rsp, in_connections, cut>>

TypeOK ==
  /\ m_state \in [Ends -> {"Connected", "HalfClosing", "Closed"}]
  /\ m_in_buffer \in [Ends -> 0..(ReqLen + RspLen)]
  /\ m_out_buffer \in [Ends -> 0..(ReqLen + RspLen)]
  /\ armed \in [Ends -> {"none", "read", "write"}]
  /\ pc \in [Ends -> {"idle", "tcp_read", "tcp_write"}]
  /\ chan \in [Ends -> 0..Cap]
  /\ {fin, rst, fd_open, running} \subseteq [Ends -> BOOLEAN]
  /\ rsp \in BOOLEAN
  /\ in_connections \in BOOLEAN
  /\ cut \subseteq {"rejected", "timed_out"}

\* What the server's descriptor waits for, and whether it is in the map, is the
\* server's to say.
InitWith(server_armed, inserted) ==
  /\ m_state = [e \in Ends |-> "Connected"]
  /\ m_in_buffer = [e \in Ends |-> 0]
  /\ m_out_buffer = [client |-> ReqLen, server |-> 0]
  /\ armed = [client |-> "write", server |-> server_armed]
  /\ pc = [e \in Ends |-> "idle"]
  /\ chan = [e \in Ends |-> 0]
  /\ fin = [e \in Ends |-> FALSE]
  /\ rst = [e \in Ends |-> FALSE]
  /\ fd_open = [e \in Ends |-> TRUE]
  /\ running = [e \in Ends |-> TRUE]
  /\ rsp = FALSE
  /\ in_connections = inserted
  /\ cut = {}

Init == InitWith("read", TRUE)

-----------------------------------------------------------------------------
(* One end's callbacks.                                                    *)

\* close(): the peer gets a FIN after the data, or, if data was not read, a
\* reset that may overtake it.
Close(e) ==
  /\ fd_open' = [fd_open EXCEPT ![e] = FALSE]
  /\ IF chan[e] > 0
       THEN /\ rst' = [rst EXCEPT ![Peer(e)] = TRUE]
            /\ \E n \in 0..chan[Peer(e)] : chan' = [chan EXCEPT ![Peer(e)] = n, ![e] = 0]
            /\ UNCHANGED fin
       ELSE /\ fin' = [fin EXCEPT ![Peer(e)] = TRUE]
            /\ UNCHANGED <<rst, chan>>

\* A process ends, and the kernel closes its descriptors.
EndServer ==
  /\ running' = [running EXCEPT !["server"] = FALSE]
  /\ pc' = [pc EXCEPT !["server"] = "idle"]
  /\ Close("server")
  /\ UNCHANGED <<m_state, buffer_vars, armed, rsp, in_connections, cut>>

EndClient ==
  /\ running' = [running EXCEPT !["client"] = FALSE]
  /\ pc' = [pc EXCEPT !["client"] = "idle"]
  /\ UNCHANGED <<m_state, buffer_vars, armed, net_vars, rsp, in_connections, cut>>

Readable(e) == chan[e] > 0 \/ fin[e] \/ rst[e]
Writable(e) == chan[Peer(e)] < Cap \/ rst[e]

\* The event an end waits for is reported and its callback called.
Callback(e) ==
  /\ running[e] /\ pc[e] = "idle"
  /\ \/ armed[e] = "read" /\ Readable(e) /\ pc' = [pc EXCEPT ![e] = "tcp_read"]
     \/ armed[e] = "write" /\ Writable(e) /\ pc' = [pc EXCEPT ![e] = "tcp_write"]
  /\ armed' = [armed EXCEPT ![e] = "none"]
  /\ UNCHANGED <<m_state, buffer_vars, net_vars, running, rsp, in_connections, cut>>

\* The callback ends with listen_read(), listen_write() or neither.
Finish(e, event) ==
  /\ pc' = [pc EXCEPT ![e] = "idle"]
  /\ armed' = [armed EXCEPT ![e] = event]

\* shutdown()
Shutdown(e) == m_state' = [m_state EXCEPT ![e] = IF @ = "Closed" THEN @ ELSE "HalfClosing"]

\* recv() returns data.
Receive(e) ==
  /\ pc[e] = "tcp_read" /\ m_state[e] # "HalfClosing"
  /\ \E n \in 1..chan[e] :
       /\ chan' = [chan EXCEPT ![e] = @ - n]
       /\ m_in_buffer' = [m_in_buffer EXCEPT ![e] = @ + n]
  /\ UNCHANGED <<m_state, m_out_buffer, armed, pc, fin, rst, fd_open, running, rsp,
                 in_connections, cut>>

\* Mutation: a closed connection listens again, as one with an error does.
AfterCloseListens == "read"

\* What a connection found closed listens to.
AfterClose == "none"

\* recv() returns 0, or the connection is half closed: the server marks its
\* connection, the client stops its loop.  The callback returns in the same step:
\* it does not touch the connection again.
ReadClosed(e) ==
  /\ pc[e] = "tcp_read"
  /\ m_state[e] = "HalfClosing" \/ (chan[e] = 0 /\ fin[e])
  /\ IF e = "server"
       THEN m_state' = [m_state EXCEPT ![e] = "Closed"] /\ UNCHANGED running
       ELSE running' = [running EXCEPT ![e] = FALSE] /\ UNCHANGED m_state
  /\ Finish(e, AfterClose)
  /\ UNCHANGED <<buffer_vars, net_vars, rsp, in_connections, cut>>

\* Mutation: EAGAIN is an error like the others.
ErrorEverything(e) == TRUE

\* What is an error: everything but EAGAIN and EINTR.
Error(e) == rst[e]

\* Mutation: an error of recv() is left to the next event without shutdown().
ShutdownForgotten(e) == UNCHANGED m_state

\* A connection with an error is half closed.
OnError(e) == Shutdown(e)

\* recv() reports an error.
ReadError(e) ==
  /\ pc[e] = "tcp_read" /\ m_state[e] # "HalfClosing"
  /\ chan[e] = 0 /\ ~fin[e] /\ Error(e)
  /\ OnError(e)
  /\ Finish(e, "read")
  /\ UNCHANGED <<buffer_vars, net_vars, running, rsp, in_connections, cut>>

\* recv() returns EAGAIN: the data is looked at.
ReadAll(e) ==
  /\ pc[e] = "tcp_read" /\ m_state[e] # "HalfClosing"
  /\ chan[e] = 0 /\ ~fin[e] /\ ~Error(e)

\* Mutation: the server goes on reading.
ToListenRead(out) == "read"

\* What the server listens to, given its m_out_buffer.
ToListen(out) == IF out > 0 THEN "write" ELSE "read"

\* server_execute(): a whole request is processed, and answered or not.
ServerExecute ==
  /\ ReadAll("server")
  /\ \/ /\ m_in_buffer["server"] < ReqLen
        /\ UNCHANGED <<buffer_vars, cut>>
     \/ /\ m_in_buffer["server"] >= ReqLen
        /\ m_in_buffer' = [m_in_buffer EXCEPT !["server"] = @ - ReqLen]
        /\ \/ /\ m_out_buffer' = [m_out_buffer EXCEPT !["server"] = @ + RspLen]
              /\ UNCHANGED cut
           \/ /\ MayReject
              /\ cut' = cut \cup {"rejected"}
              /\ UNCHANGED m_out_buffer
  /\ Finish("server", ToListen(m_out_buffer'["server"]))
  /\ UNCHANGED <<m_state, net_vars, running, rsp, in_connections>>

\* client_execute(): a whole response stops the loop.
ClientExecute ==
  /\ ReadAll("client")
  /\ IF m_in_buffer["client"] >= RspLen
       THEN /\ m_in_buffer' = [m_in_buffer EXCEPT !["client"] = @ - RspLen]
            /\ rsp' = TRUE
            /\ running' = [running EXCEPT !["client"] = FALSE]
            /\ Finish("client", "none")
       ELSE /\ UNCHANGED <<m_in_buffer, rsp, running>>
            /\ Finish("client", "read")
  /\ UNCHANGED <<m_state, m_out_buffer, net_vars, in_connections, cut>>

\* Mutation: what was sent is not moved past.
UnsentAll(out, n) == out

\* move_forward()
Unsent(out, n) == out - n

\* send() takes what there is room for.
Send(e) ==
  /\ pc[e] = "tcp_write" /\ ~rst[e]
  /\ \E n \in 1..Min({m_out_buffer[e], Cap - chan[Peer(e)]}) :
       /\ m_out_buffer' = [m_out_buffer EXCEPT ![e] = Unsent(@, n)]
       /\ chan' = [chan EXCEPT ![Peer(e)] = @ + n]
  /\ UNCHANGED <<m_state, m_in_buffer, armed, pc, fin, rst, fd_open, running, rsp,
                 in_connections, cut>>

\* send() reports an error.
SendError(e) ==
  /\ pc[e] = "tcp_write" /\ rst[e] /\ ~fin[e] /\ m_out_buffer[e] > 0
  /\ OnError(e)
  /\ Finish(e, "read")
  /\ UNCHANGED <<buffer_vars, net_vars, running, rsp, in_connections, cut>>

\* send() after a FIN and the reset behind it: the error is EPIPE, and SIGPIPE,
\* which nobody handles, ends the process.
SigPipe(e) ==
  /\ pc[e] = "tcp_write" /\ rst[e] /\ fin[e] /\ m_out_buffer[e] > 0
  /\ IF e = "server" THEN EndServer ELSE EndClient

\* Nothing is left to send, or send() returns EAGAIN: read next.
WriteDone(e) ==
  /\ pc[e] = "tcp_write"
  /\ m_out_buffer[e] = 0 \/ (~rst[e] /\ chan[Peer(e)] = Cap)
  /\ Finish(e, "read")
  /\ UNCHANGED <<m_state, buffer_vars, net_vars, running, rsp, in_connections, cut>>

-----------------------------------------------------------------------------
(* The ends of the connection.                                             *)

\* Data for a closed descriptor is answered with a reset.
Refuse(e) ==
  /\ ~fd_open[e] /\ chan[e] > 0
  /\ chan' = [chan EXCEPT ![e] = 0]
  /\ rst' = [rst EXCEPT ![Peer(e)] = TRUE]
  /\ UNCHANGED <<m_state, buffer_vars, armed, pc, fin, fd_open, running, rsp, in_connections, cut>>

\* The timer of RpcChannel::CallMethod stops the client's loop.
TimeOut ==
  /\ MayTimeOut
  /\ running["client"] /\ pc["client"] = "idle"
  /\ running' = [running EXCEPT !["client"] = FALSE]
  /\ cut' = cut \cup {"timed_out"}
  /\ UNCHANGED <<m_state, buffer_vars, armed, pc, net_vars, rsp, in_connections>>

\* The client's connection is destroyed: clear().
ClientGone ==
  /\ ~running["client"] /\ fd_open["client"]
  /\ Close("client")
  /\ m_state' = [m_state EXCEPT !["client"] = "Closed"]
  /\ UNCHANGED <<buffer_vars, armed, pc, running, rsp, in_connections, cut>>

\* The server's process ends.
ServerDies == MayDie /\ running["server"] /\ EndServer

\* clear_invalid_connection(), on the server's main thread: the connection is
\* erased and destroyed, and clear() returns at once for a closed one.
ClearInvalidConnection ==
  /\ running["server"]
  /\ in_connections /\ m_state["server"] = "Closed"
  /\ in_connections' = FALSE
  /\ UNCHANGED <<m_state, buffer_vars, armed, pc, net_vars, running, rsp, cut>>

-----------------------------------------------------------------------------

EndStep(e) ==
  \/ Callback(e) \/ Receive(e) \/ ReadClosed(e) \/ ReadError(e)
  \/ Send(e) \/ SendError(e) \/ SigPipe(e) \/ WriteDone(e)

ServerStep == EndStep("server") \/ ServerExecute
ClientStep == EndStep("client") \/ ClientExecute

Next ==
  \/ ServerStep \/ ClientStep
  \/ \E e \in Ends : Refuse(e)
  \/ TimeOut \/ ClientGone \/ ServerDies \/ ClearInvalidConnection

Spec == Init /\ [][Next]_vars

\* The threads of both ends are scheduled, the network delivers, and the
\* server's cleaning timer is periodic.  The client's timer, the end of its
\* process and of the server's need not come.
FairSpec ==
  /\ Spec
  /\ WF_vars(ServerStep) /\ WF_vars(ClientStep)
  /\ \A e \in Ends : WF_vars(Refuse(e))
  /\ WF_vars(ClearInvalidConnection)

-----------------------------------------------------------------------------
(* Properties.                                                             *)

\* Neither end takes the other for gone while it is there: the server keeps a
\* connection whose client has not closed it, and a client whose timer has not
\* fired gives up without a response only when the server is gone.
NoFalseHangUp ==
  /\ m_state["server"] # "Connected" => ~fd_open["client"]
  /\ ~running["client"] /\ ~rsp /\ "timed_out" \notin cut => ~fd_open["server"]

\* Data to send is waited for (the comments in prepare() and server_execute()):
\* a connection with output and no error, in no callback, is armed for writing.
OutputArmed ==
  \A e \in Ends :
    running[e] /\ pc[e] = "idle" /\ m_state[e] = "Connected" /\ m_out_buffer[e] > 0 =>
      armed[e] = "write"

\* A client learns that the server has died without its timer.
DeadServerNoticed == ~running["server"] ~> ~running["client"]

\* The comment in TcpServer(): connections that are gone are cleaned up and
\* their resources released.
ErasedIsClosed == ~in_connections ~> ~fd_open["server"]
=============================================================================

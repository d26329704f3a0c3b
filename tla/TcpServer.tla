------------------------------ MODULE TcpServer ------------------------------
(***************************************************************************)
(* zest::TcpServer with its TcpAcceptor and ThreadPool                     *)
(* (src/zest/net/tcp/tcp_server.cc, tcp_acceptor.cc, io_thread.cc): the    *)
(* main thread accepts clients, makes a connection for each on one of the  *)
(* I/O threads and keeps it in m_connections.                              *)
(*                                                                         *)
(* One client is TcpLink's, with its request in flight from the start, and *)
(* its connection runs on its I/O thread while the main thread is still    *)
(* making it.  The other clients come and are accepted; what they take is  *)
(* a place in the backlog, a turn of the pool and a step of the main       *)
(* thread.                                                                 *)
(***************************************************************************)
EXTENDS TcpLink, SequencesExt

CONSTANTS
  MaxOthers,   \* bound: how many other clients connect
  ThreadNum,   \* the size of the pool
  Pools,       \* the sets of its threads that may be valid
  MayExhaust,  \* accept() may find no descriptor
  MayStop      \* the program may call stop()

Threads == 0..(ThreadNum - 1)

ASSUME PoolAssumption == ThreadNum \in Nat \ {0} /\ Pools \subseteq SUBSET Threads
ASSUME ArrivalsAssumption == MaxOthers \in Nat /\ {MayExhaust, MayStop} \subseteq BOOLEAN

VARIABLES
  backlog,      \* kernel: the clients connected and not accepted
  others,       \* kernel: how many other clients have connected
  edge,         \* kernel: the listening descriptor has something new to report
  main_pc,      \* where the main thread is
  new_clients,  \* the clients accept() returned that have no connection yet
  valid,        \* the threads of the pool that are there and valid
  m_index,      \* ThreadPool's
  given,        \* history: the connections given to each thread
  posted,       \* the client's listen_read() waits in its I/O thread's loop
  shared,       \* make_shared of its connection has returned
  exhausted     \* the last accept() found no descriptor

kernel_vars == <<backlog, others, edge>>
pool_vars == <<valid, m_index, given>>
main_vars == <<main_pc, new_clients, pool_vars, shared, exhausted>>
server_vars == <<vars, kernel_vars, main_vars, posted>>

Client == {"client", "other"}

ServerTypeOK ==
  /\ TypeOK
  /\ backlog \in Seq(Client) /\ new_clients \in Seq(Client)
  /\ others \in 0..MaxOthers
  /\ main_pc \in {"loop", "accept", "hand_over", "make_shared", "insert", "stopped"}
  /\ valid \subseteq Threads /\ m_index \in Threads
  /\ given \in [Threads -> 0..(MaxOthers + 1)]
  /\ {edge, posted, shared, exhausted} \subseteq BOOLEAN

\* ThreadPool(): a thread whose loop could not be made is there and not valid;
\* from the first one that could not be made at all on, there are none.
PoolMade ==
  /\ valid \in Pools
  /\ m_index = 0
  /\ given = [t \in Threads |-> 0]

\* TcpAcceptor() listens; the client has connected, perhaps behind others.
Listening ==
  /\ others \in 0..MaxOthers
  /\ backlog = Append([i \in 1..others |-> "other"], "client")
  /\ edge = TRUE

\* The server is started.
ServerInit ==
  /\ InitWith("none", FALSE)
  /\ Listening
  /\ main_pc = "loop"
  /\ new_clients = <<>>
  /\ PoolMade
  /\ posted = FALSE /\ shared = FALSE /\ exhausted = FALSE

-----------------------------------------------------------------------------
(* The main thread.                                                        *)

Main(from, to) == running["server"] /\ main_pc = from /\ main_pc' = to

\* The loop calls accept_callback() for the edge-triggered listening descriptor.
AcceptCallback ==
  /\ Main("loop", "accept")
  /\ edge /\ edge' = FALSE
  /\ exhausted' = FALSE
  /\ UNCHANGED <<vars, backlog, others, new_clients, pool_vars, posted, shared>>

\* Mutation: one client for each event.
AcceptNext == "hand_over"

\* accept() goes on until it fails.
AfterAccepted == "accept"

Accept ==
  /\ Main("accept", AfterAccepted)
  /\ backlog # <<>>
  /\ new_clients' = Append(new_clients, Head(backlog))
  /\ backlog' = Tail(backlog)
  /\ UNCHANGED <<vars, others, edge, pool_vars, posted, shared, exhausted>>

\* It fails with EAGAIN, or with EMFILE and clients left in the backlog.
AcceptFails ==
  /\ Main("accept", "hand_over")
  /\ exhausted' = (backlog # <<>>)
  /\ exhausted' => MayExhaust
  /\ UNCHANGED <<vars, kernel_vars, new_clients, pool_vars, posted, shared>>

\* The first valid thread from m_index on, around the pool.
TurnOf ==
  LET Turn(k) == (m_index + k) % ThreadNum
  IN  Turn(Min({k \in Threads : Turn(k) \in valid}))

\* Mutation: a thread that is passed over keeps its turn.
StaysAfter(t) == IF t = m_index THEN (t + 1) % ThreadNum ELSE m_index

\* m_index once t has been given out.
IndexAfter(t) == (t + 1) % ThreadNum

\* get_io_thread()
GetIoThread ==
  /\ valid # {}
  /\ m_index' = IndexAfter(TurnOf)
  /\ given' = [given EXCEPT ![TurnOf] = @ + 1]
  /\ UNCHANGED valid

\* The map of new clients is in no order.
TakeNew(i) == i \in DOMAIN new_clients /\ new_clients' = RemoveAt(new_clients, i)

\* Another client's connection is made and inserted.
HandOverOther ==
  /\ Main("hand_over", "hand_over")
  /\ \E i \in DOMAIN new_clients : new_clients[i] = "other" /\ TakeNew(i)
  /\ GetIoThread
  /\ UNCHANGED <<vars, kernel_vars, posted, shared, exhausted>>

\* The client's connection is constructed: listen_read() posts to its loop, and
\* the I/O thread may take it from here.
Construct ==
  /\ Main("hand_over", "make_shared")
  /\ \E i \in DOMAIN new_clients : new_clients[i] = "client" /\ TakeNew(i)
  /\ GetIoThread
  /\ posted' = TRUE
  /\ UNCHANGED <<vars, kernel_vars, shared, exhausted>>

\* make_shared returns: from now on there is a shared_from_this().
MakeShared ==
  /\ Main("make_shared", "insert")
  /\ shared' = TRUE
  /\ UNCHANGED <<vars, kernel_vars, new_clients, pool_vars, posted, exhausted>>

\* Mutation: the connection is marked Connected once it is in the map.
MarkedConnected == [m_state EXCEPT !["server"] = "Connected"]

\* The state was the constructor's.
StateInserted == m_state

\* m_connections[client_fd] = connection
Insert ==
  /\ Main("insert", "hand_over")
  /\ in_connections' = TRUE
  /\ m_state' = StateInserted
  /\ UNCHANGED <<buffer_vars, armed, pc, net_vars, running, rsp, cut, kernel_vars, new_clients,
                 pool_vars, posted, shared, exhausted>>

HandedOver ==
  /\ Main("hand_over", "loop")
  /\ new_clients = <<>>
  /\ UNCHANGED <<vars, kernel_vars, new_clients, pool_vars, posted, shared, exhausted>>

\* No thread is valid: get_io_thread() ends the process.
NoIoThread ==
  /\ Main("hand_over", "hand_over")
  /\ new_clients # <<>> /\ valid = {}
  /\ EndServer
  /\ UNCHANGED <<kernel_vars, new_clients, pool_vars, posted, shared, exhausted>>

\* The timer's callback runs between the others.
Clear ==
  /\ Main("loop", "loop")
  /\ ClearInvalidConnection
  /\ UNCHANGED <<kernel_vars, new_clients, pool_vars, posted, shared, exhausted>>

\* stop(): the main loop ends, and start() returns.
Stop ==
  /\ MayStop
  /\ Main("loop", "stopped")
  /\ UNCHANGED <<vars, kernel_vars, new_clients, pool_vars, posted, shared, exhausted>>

\* The program ends, and the server is destroyed with its threads, which have
\* served on until then.
Exit ==
  /\ Main("stopped", "stopped")
  /\ EndServer
  /\ UNCHANGED <<kernel_vars, new_clients, pool_vars, posted, shared, exhausted>>

MainStep ==
  \/ AcceptCallback \/ Accept \/ AcceptFails
  \/ HandOverOther \/ Construct \/ MakeShared \/ Insert \/ HandedOver \/ NoIoThread
  \/ Exit

-----------------------------------------------------------------------------
(* The client's I/O thread, and the world.                                 *)

\* The posted listen_read() is run by the thread's loop.
Register ==
  /\ running["server"] /\ posted
  /\ posted' = FALSE
  /\ armed' = [armed EXCEPT !["server"] = "read"]
  /\ UNCHANGED <<m_state, buffer_vars, pc, net_vars, running, rsp, in_connections, cut,
                 kernel_vars, main_vars>>

WholeRequest == ReadAll("server") /\ m_in_buffer["server"] >= ReqLen

\* A request is processed before make_shared has returned: shared_from_this()
\* throws, which nothing on the thread catches.
BadWeakPtr ==
  /\ WholeRequest /\ ~shared
  /\ EndServer
  /\ UNCHANGED <<kernel_vars, main_vars, posted>>

IoStep ==
  \/ /\ \/ EndStep("server")
        \/ ServerExecute /\ (WholeRequest => shared)
     /\ UNCHANGED <<kernel_vars, main_vars, posted>>
  \/ Register \/ BadWeakPtr

\* Another client connects.
Arrive ==
  /\ running["server"] /\ others < MaxOthers
  /\ others' = others + 1
  /\ backlog' = Append(backlog, "other")
  /\ edge' = TRUE
  /\ UNCHANGED <<vars, main_vars, posted>>

WorldStep ==
  /\ ClientStep \/ (\E e \in Ends : Refuse(e)) \/ TimeOut \/ ClientGone \/ ServerDies
  /\ UNCHANGED <<kernel_vars, main_vars, posted>>

ServerNext == MainStep \/ Clear \/ Stop \/ IoStep \/ Arrive \/ WorldStep

ServerSpec == ServerInit /\ [][ServerNext]_server_vars

\* The threads are scheduled, the network delivers, and the cleaning timer is
\* periodic.  Nothing makes another client come, a timer fire, the program stop
\* its server or a process end.
ServerFairSpec ==
  /\ ServerSpec
  /\ WF_server_vars(MainStep) /\ WF_server_vars(Clear) /\ WF_server_vars(IoStep)
  /\ WF_server_vars(ClientStep /\ UNCHANGED <<kernel_vars, main_vars, posted>>)
  /\ \A e \in Ends :
       WF_server_vars(Refuse(e) /\ UNCHANGED <<kernel_vars, main_vars, posted>>)

-----------------------------------------------------------------------------
(* Properties.                                                             *)

\* The connection is in the hands of the main thread's make_shared.
BeingMade == main_pc \in {"make_shared", "insert"}

\* Nothing points to a connection that is gone: unless it is in m_connections
\* or being made, no registration of it is posted, no event armed whose
\* callback holds the plain pointer to it, and no thread is in one (the bind of
\* this in listen_read() against erase() in clear_invalid_connection()).
NothingDangles ==
  ~in_connections /\ ~BeingMade => ~posted /\ armed["server"] = "none" /\ pc["server"] = "idle"

\* The connections are spread evenly over the valid threads, wherever in the
\* pool the others are, and no other thread gets one (get_io_thread()).
Balanced ==
  \A t \in Threads :
    IF t \in valid
      THEN \A u \in valid : given[t] <= given[u] + 1
      ELSE given[t] = 0

\* The client is left in the backlog for want of descriptors until the next
\* client comes.
LeftOut == "client" \in Range(backlog) /\ exhausted

\* tcp_write() has sent the first part of a message and waits to read, so that
\* the rest is never sent.
Stranded ==
  \E e \in Ends :
    /\ armed[e] = "read"
    /\ m_out_buffer[e] \in 1..((IF e = "client" THEN ReqLen ELSE RspLen) - 1)

\* A call is answered although no timer fires, however many clients connect at
\* once and in whatever pieces the two messages come: no client is left in the
\* backlog behind an edge, no registration lost on its way to the I/O thread,
\* and none missing between two callbacks (TcpAcceptor::accept(), listen_read(),
\* server_execute()).  Excused are what the code does not answer: a request
\* process() rejects, a call that has timed out, a message that filled the
\* kernel's buffer (Stranded), a client for whom no descriptor was left, and a
\* server that has ended, be it because the I/O thread was faster than
\* make_shared (BadWeakPtr).
Answered == <>[](rsp \/ cut # {} \/ Stranded \/ LeftOut \/ ~running["server"])

Forgotten == shared /\ ~BeingMade /\ ~in_connections

\* The server forgets a client that has gone, however it went (with a FIN, a
\* reset, or both, before, after or in the middle of the response) and whenever:
\* also before its connection is in the map.
GoneClientForgotten ==
  ~fd_open["client"] ~> [](Forgotten \/ ~running["server"] \/ LeftOut)
=============================================================================

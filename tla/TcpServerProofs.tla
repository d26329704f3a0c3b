--------------------------- MODULE TcpServerProofs ---------------------------
(***************************************************************************)
(* Proofs about TcpLink and TcpServer for every length of the messages,    *)
(* every capacity of the kernel's buffers, every number of clients and     *)
(* every pool of threads.                                                  *)
(***************************************************************************)
EXTENDS TcpServer, Lemmas

\* The units of the request and of the response that are somewhere.
Requested == m_out_buffer["client"] + chan["server"] + m_in_buffer["server"]
Responded == m_out_buffer["server"] + chan["client"] + m_in_buffer["client"]

\* There is one request, and the response comes when it is gone.
UnitsInOrder ==
  Requested <= ReqLen /\ Responded <= RspLen /\ (Responded > 0 => Requested = 0)

\* What an end hears of the other's end is true, and so is what it made of it.
PeerGone ==
  /\ \A e \in Ends : fin[e] \/ rst[e] => ~fd_open[Peer(e)]
  /\ m_state["client"] = "HalfClosing" => ~fd_open["server"]

LinkInv == TypeOK /\ UnitsInOrder /\ PeerGone /\ NoFalseHangUp

-----------------------------------------------------------------------------
(* The connection.                                                         *)

LEMMA Lengths == {Cap, ReqLen, RspLen} \subseteq Nat /\ Cap > 0 /\ ReqLen > 0 /\ RspLen > 0
BY LengthsAssumption

\* The buffers are no longer than what is on the way.
LEMMA BoundedUnits ==
  ASSUME NEW in \in [Ends -> Nat], NEW out \in [Ends -> Nat], NEW ch \in [Ends -> Nat],
         out["client"] + ch["server"] + in["server"] <= ReqLen,
         out["server"] + ch["client"] + in["client"] <= RspLen
  PROVE  in \in [Ends -> 0..(ReqLen + RspLen)] /\ out \in [Ends -> 0..(ReqLen + RspLen)]
<1>1. /\ in["client"] \in Nat /\ in["server"] \in Nat /\ out["client"] \in Nat /\ out["server"] \in Nat
      /\ ch["client"] \in Nat /\ ch["server"] \in Nat
  BY DEF Ends
<1>2. \A e \in Ends : in[e] \in 0..(ReqLen + RspLen) /\ out[e] \in 0..(ReqLen + RspLen)
  BY <1>1, Lengths DEF Ends
<1> QED
  BY <1>2

\* What TypeOK says of the units, as numbers.
LEMMA UnitsAreNumbers ==
  ASSUME TypeOK
  PROVE  /\ m_in_buffer \in [Ends -> Nat] /\ m_out_buffer \in [Ends -> Nat]
         /\ chan \in [Ends -> Nat] /\ \A e \in Ends : chan[e] <= Cap
BY Lengths DEF TypeOK

LEMMA InitLinkInv ==
  ASSUME NEW server_armed \in {"none", "read"}, NEW inserted \in BOOLEAN,
         InitWith(server_armed, inserted)
  PROVE  LinkInv
<1>1. TypeOK
  <2>1. m_out_buffer \in [Ends -> 0..(ReqLen + RspLen)] /\ m_in_buffer \in [Ends -> 0..(ReqLen + RspLen)]
    BY Lengths DEF InitWith, Ends
  <2>2. chan \in [Ends -> 0..Cap]
    BY Lengths DEF InitWith
  <2>3. armed \in [Ends -> {"none", "read", "write"}] /\ pc \in [Ends -> {"idle", "tcp_read", "tcp_write"}]
    BY DEF InitWith, Ends
  <2>4. m_state \in [Ends -> {"Connected", "HalfClosing", "Closed"}]
    BY DEF InitWith
  <2>5. {fin, rst, fd_open, running} \subseteq [Ends -> BOOLEAN]
    BY DEF InitWith
  <2> QED
    BY <2>1, <2>2, <2>3, <2>4, <2>5 DEF InitWith, TypeOK
<1>2. UnitsInOrder
  BY Lengths DEF InitWith, UnitsInOrder, Requested, Responded, Ends
<1>3. PeerGone /\ NoFalseHangUp
  BY DEF InitWith, PeerGone, NoFalseHangUp, Ends, Peer
<1> QED
  BY <1>1, <1>2, <1>3 DEF LinkInv

\* close() of a descriptor.
LEMMA CloseKeeps ==
  ASSUME LinkInv, NEW e \in Ends, Close(e)
  PROVE  /\ chan' \in [Ends -> 0..Cap] /\ \A d \in Ends : chan'[d] <= chan[d]
         /\ {fin, rst, fd_open}' \subseteq [Ends -> BOOLEAN]
         /\ \A d \in Ends : fin'[d] \/ rst'[d] => ~fd_open'[Peer(d)]
         /\ ~fd_open'[e]
         /\ \A d \in Ends : ~fd_open[d] => ~fd_open'[d]
<1>. USE DEF LinkInv, TypeOK
<1>1. Peer(e) \in Ends /\ Peer(e) # e /\ Peer(Peer(e)) = e
  BY DEF Ends, Peer
<1>2. fd_open' = [fd_open EXCEPT ![e] = FALSE]
  BY DEF Close
<1>3. CASE chan[e] > 0
  <2>1. PICK n \in 0..chan[Peer(e)] : chan' = [chan EXCEPT ![Peer(e)] = n, ![e] = 0]
    BY <1>3 DEF Close
  <2>2. rst' = [rst EXCEPT ![Peer(e)] = TRUE] /\ fin' = fin
    BY <1>3 DEF Close
  <2>3. chan' \in [Ends -> 0..Cap] /\ \A d \in Ends : chan'[d] <= chan[d]
    BY <1>1, <2>1, Lengths
  <2>4. {fin, rst, fd_open}' \subseteq [Ends -> BOOLEAN]
    BY <1>2, <2>2
  <2>5. \A d \in Ends : fin'[d] \/ rst'[d] => ~fd_open'[Peer(d)]
    BY <1>1, <1>2, <2>2 DEF PeerGone
  <2> QED
    BY <1>2, <2>3, <2>4, <2>5
<1>4. CASE ~(chan[e] > 0)
  <2>1. fin' = [fin EXCEPT ![Peer(e)] = TRUE] /\ rst' = rst /\ chan' = chan
    BY <1>4 DEF Close
  <2>2. \A d \in Ends : chan'[d] <= chan[d]
    BY <2>1, Lengths
  <2>3. {fin, rst, fd_open}' \subseteq [Ends -> BOOLEAN]
    BY <1>2, <2>1
  <2>4. \A d \in Ends : fin'[d] \/ rst'[d] => ~fd_open'[Peer(d)]
    BY <1>1, <1>2, <2>1 DEF PeerGone
  <2> QED
    BY <1>2, <2>1, <2>2, <2>3, <2>4
<1> QED
  BY <1>3, <1>4

\* Data that is lost on the way is in nobody's buffer.
LEMMA LessData ==
  ASSUME TypeOK, UnitsInOrder, UNCHANGED <<m_in_buffer, m_out_buffer>>,
         chan' \in [Ends -> 0..Cap], \A d \in Ends : chan'[d] <= chan[d]
  PROVE  UnitsInOrder'
<1>1. "client" \in Ends /\ "server" \in Ends
  BY DEF Ends
<1>2. /\ m_in_buffer["client"] \in Nat /\ m_in_buffer["server"] \in Nat
      /\ m_out_buffer["client"] \in Nat /\ m_out_buffer["server"] \in Nat
      /\ chan["client"] \in Nat /\ chan["server"] \in Nat
  BY <1>1, UnitsAreNumbers
<1>3. chan'["client"] \in 0..chan["client"] /\ chan'["server"] \in 0..chan["server"]
  BY <1>1, <1>2, Lengths
<1>4. Requested' \in 0..Requested /\ Responded' \in 0..Responded
  BY <1>2, <1>3 DEF Requested, Responded
<1>5. Requested \in Nat /\ Responded \in Nat
  BY <1>2 DEF Requested, Responded
<1> QED
  BY <1>4, <1>5, Lengths DEF UnitsInOrder

\* The process of the server ends.
LEMMA EndServerStep == ASSUME LinkInv, EndServer PROVE LinkInv'
<1>. USE DEF LinkInv
<1>1. /\ running' = [running EXCEPT !["server"] = FALSE] /\ pc' = [pc EXCEPT !["server"] = "idle"]
      /\ UNCHANGED <<m_state, m_in_buffer, m_out_buffer, armed, rsp, in_connections, cut>>
  BY DEF EndServer, buffer_vars
<1>2. /\ chan' \in [Ends -> 0..Cap] /\ \A d \in Ends : chan'[d] <= chan[d]
      /\ {fin, rst, fd_open}' \subseteq [Ends -> BOOLEAN]
      /\ \A d \in Ends : fin'[d] \/ rst'[d] => ~fd_open'[Peer(d)]
      /\ ~fd_open'["server"]
      /\ \A d \in Ends : ~fd_open[d] => ~fd_open'[d]
  BY CloseKeeps DEF EndServer, Ends
<1>3. TypeOK'
  BY <1>1, <1>2 DEF TypeOK
<1>4. UnitsInOrder'
  BY <1>1, <1>2, LessData
<1>5. PeerGone' /\ NoFalseHangUp'
  BY <1>1, <1>2 DEF PeerGone, NoFalseHangUp, TypeOK, Ends
<1> QED
  BY <1>3, <1>4, <1>5

LEMMA ClientGoneStep == ASSUME LinkInv, ClientGone PROVE LinkInv'
<1>. USE DEF LinkInv
<1>1. /\ m_state' = [m_state EXCEPT !["client"] = "Closed"]
      /\ UNCHANGED <<m_in_buffer, m_out_buffer, armed, pc, running, rsp, in_connections, cut>>
  BY DEF ClientGone, buffer_vars
<1>2. /\ chan' \in [Ends -> 0..Cap] /\ \A d \in Ends : chan'[d] <= chan[d]
      /\ {fin, rst, fd_open}' \subseteq [Ends -> BOOLEAN]
      /\ \A d \in Ends : fin'[d] \/ rst'[d] => ~fd_open'[Peer(d)]
      /\ ~fd_open'["client"]
      /\ \A d \in Ends : ~fd_open[d] => ~fd_open'[d]
  BY CloseKeeps DEF ClientGone, Ends
<1>3. TypeOK'
  BY <1>1, <1>2 DEF TypeOK
<1>4. UnitsInOrder'
  BY <1>1, <1>2, LessData
<1>5. PeerGone' /\ NoFalseHangUp'
  BY <1>1, <1>2 DEF PeerGone, NoFalseHangUp, TypeOK, Ends
<1> QED
  BY <1>3, <1>4, <1>5

\* The kernel refuses data for a closed descriptor.
LEMMA RefuseStep == ASSUME LinkInv, NEW e \in Ends, Refuse(e) PROVE LinkInv'
<1>. USE DEF LinkInv
<1>1. /\ ~fd_open[e] /\ chan' = [chan EXCEPT ![e] = 0] /\ rst' = [rst EXCEPT ![Peer(e)] = TRUE]
      /\ UNCHANGED <<m_state, m_in_buffer, m_out_buffer, armed, pc, fin, fd_open, running, rsp,
                     in_connections, cut>>
  BY DEF Refuse, buffer_vars
<1>2. Peer(e) \in Ends /\ Peer(Peer(e)) = e
  BY DEF Ends, Peer
<1>3. chan' \in [Ends -> 0..Cap] /\ \A d \in Ends : chan'[d] \in Nat /\ chan'[d] <= chan[d]
  BY <1>1, Lengths DEF TypeOK
<1>4. TypeOK'
  <2>1. rst' \in [Ends -> BOOLEAN]
    BY <1>1, <1>2 DEF TypeOK
  <2> QED
    BY <1>1, <1>3, <2>1 DEF TypeOK
<1>5. UnitsInOrder'
  BY <1>1, <1>3, LessData
<1>6. PeerGone'
  BY <1>1, <1>2 DEF PeerGone, TypeOK
<1>7. NoFalseHangUp'
  BY <1>1 DEF NoFalseHangUp
<1> QED
  BY <1>4, <1>5, <1>6, <1>7

\* The callbacks that move no data.
LEMMA NoDataStep ==
  ASSUME LinkInv, NEW e \in Ends,
         \/ Callback(e) \/ ReadClosed(e) \/ ReadError(e) \/ SendError(e) \/ WriteDone(e)
         \/ EndClient /\ SigPipe("client")
  PROVE  LinkInv'
<1>. USE DEF LinkInv
<1>1. /\ UNCHANGED <<m_in_buffer, m_out_buffer, chan, fin, rst, fd_open, rsp, in_connections, cut>>
      /\ armed' \in [Ends -> {"none", "read", "write"}]
      /\ pc' \in [Ends -> {"idle", "tcp_read", "tcp_write"}]
  <2>1. CASE Callback(e)
    BY <2>1 DEF Callback, TypeOK, buffer_vars, net_vars
  <2>2. CASE ReadClosed(e) \/ ReadError(e) \/ SendError(e) \/ WriteDone(e)
    BY <2>2 DEF ReadClosed, ReadError, SendError, WriteDone, Finish, AfterClose, TypeOK, buffer_vars, net_vars
  <2>3. CASE EndClient
    BY <2>3 DEF EndClient, TypeOK, buffer_vars, net_vars, Ends
  <2> QED
    BY <2>1, <2>2, <2>3
<1>2. \/ UNCHANGED <<m_state, running>>
      \/ /\ m_state' = [m_state EXCEPT ![e] = IF @ = "Closed" THEN @ ELSE "HalfClosing"]
         /\ rst[e] /\ UNCHANGED running
      \/ /\ e = "server" /\ m_state' = [m_state EXCEPT ![e] = "Closed"] /\ UNCHANGED running
         /\ m_state[e] = "HalfClosing" \/ fin[e]
      \/ /\ running' = [running EXCEPT !["client"] = FALSE] /\ UNCHANGED m_state
         /\ m_state["client"] = "HalfClosing" \/ fin["client"]
  <2>1. CASE Callback(e) \/ WriteDone(e)
    BY <2>1 DEF Callback, WriteDone
  <2>2. CASE ReadClosed(e)
    BY <2>2 DEF ReadClosed, Ends
  <2>3. CASE ReadError(e) \/ SendError(e)
    BY <2>3 DEF ReadError, SendError, OnError, Shutdown, Error
  <2>4. CASE EndClient /\ SigPipe("client")
    BY <2>4 DEF EndClient, SigPipe
  <2> QED
    BY <2>1, <2>2, <2>3, <2>4
<1>3. TypeOK'
  <2>1. m_state' \in [Ends -> {"Connected", "HalfClosing", "Closed"}]
    BY <1>2 DEF TypeOK
  <2>2. running' \in [Ends -> BOOLEAN]
    BY <1>2 DEF TypeOK, Ends
  <2> QED
    BY <1>1, <2>1, <2>2 DEF TypeOK
<1>4. UnitsInOrder'
  BY <1>1 DEF UnitsInOrder, Requested, Responded
<1>5. \A d \in Ends : fin[d] \/ rst[d] => ~fd_open[Peer(d)]
  BY DEF PeerGone
<1>6. /\ fin["client"] \/ rst["client"] => ~fd_open["server"]
      /\ fin["server"] \/ rst["server"] => ~fd_open["client"]
  BY <1>5 DEF Ends, Peer
<1>7. m_state'["client"] = "HalfClosing" => ~fd_open["server"]
  BY <1>2, <1>6 DEF PeerGone, TypeOK, Ends
<1>8. PeerGone'
  BY <1>1, <1>5, <1>7 DEF PeerGone
<1>9. NoFalseHangUp'
  <2>1. m_state'["server"] # "Connected" => ~fd_open["client"]
    BY <1>2, <1>6 DEF NoFalseHangUp, TypeOK, Ends
  <2>2. ~running'["client"] => ~running["client"] \/ ~fd_open["server"]
    BY <1>2, <1>6 DEF PeerGone, TypeOK, Ends
  <2> QED
    BY <1>1, <2>1, <2>2 DEF NoFalseHangUp
<1> QED
  BY <1>3, <1>4, <1>8, <1>9

\* What send() takes is no more than there is, and there is room for it.
LEMMA MinOfTwo ==
  ASSUME NEW a \in Nat, NEW b \in Nat
  PROVE  Min({a, b}) \in Nat /\ Min({a, b}) <= a /\ Min({a, b}) <= b
<1>1. {a, b} \in SUBSET Nat /\ {a, b} # {}
  OBVIOUS
<1> QED
  BY <1>1, MinOfNonempty

\* Units change their place, or a request its response.
LEMMA MovedUnits ==
  ASSUME LinkInv,
         m_in_buffer' \in [Ends -> Nat], m_out_buffer' \in [Ends -> Nat], chan' \in [Ends -> 0..Cap],
         armed' \in [Ends -> {"none", "read", "write"}],
         pc' \in [Ends -> {"idle", "tcp_read", "tcp_write"}],
         cut \subseteq cut', cut' \subseteq {"rejected", "timed_out"}, rsp' \in BOOLEAN, rsp => rsp',
         UnitsInOrder',
         \/ UNCHANGED running
         \/ running' = [running EXCEPT !["client"] = FALSE] /\ (rsp' \/ "timed_out" \in cut'),
         UNCHANGED <<m_state, fin, rst, fd_open, in_connections>>
  PROVE  LinkInv'
<1>. USE DEF LinkInv
<1>1. chan' \in [Ends -> Nat]
  BY Lengths
<1>2. m_in_buffer' \in [Ends -> 0..(ReqLen + RspLen)] /\ m_out_buffer' \in [Ends -> 0..(ReqLen + RspLen)]
  BY <1>1, BoundedUnits DEF UnitsInOrder, Requested, Responded
<1>3. running' \in [Ends -> BOOLEAN]
  BY DEF TypeOK, Ends
<1>4. TypeOK'
  BY <1>2, <1>3 DEF TypeOK
<1>5. PeerGone'
  BY DEF PeerGone
<1>6. NoFalseHangUp'
  BY DEF NoFalseHangUp, TypeOK, Ends
<1> QED
  BY <1>4, <1>5, <1>6

LEMMA ReceiveStep == ASSUME LinkInv, NEW e \in Ends, Receive(e) PROVE LinkInv'
<1>1. PICK n \in 1..chan[e] : /\ chan' = [chan EXCEPT ![e] = @ - n]
                              /\ m_in_buffer' = [m_in_buffer EXCEPT ![e] = @ + n]
  BY DEF Receive
<1>2. UNCHANGED <<m_state, m_out_buffer, armed, pc, fin, rst, fd_open, running, rsp,
                  in_connections, cut>>
  BY DEF Receive
<1>3. TypeOK /\ UnitsInOrder
  BY DEF LinkInv
<1>4. /\ m_in_buffer \in [Ends -> Nat] /\ m_out_buffer \in [Ends -> Nat]
      /\ chan \in [Ends -> Nat] /\ chan[e] <= Cap /\ n \in Nat /\ n <= chan[e]
  BY <1>3, UnitsAreNumbers
<1>5. m_in_buffer' \in [Ends -> Nat]
  BY <1>1, <1>4
<1>6. chan' \in [Ends -> 0..Cap]
  BY <1>1, <1>3, <1>4, Lengths DEF TypeOK
<1>7. Requested' = Requested /\ Responded' = Responded
  BY <1>1, <1>2, <1>4 DEF Requested, Responded, Ends
<1>8. UnitsInOrder'
  BY <1>3, <1>7 DEF UnitsInOrder
<1> QED
  BY <1>2, <1>3, <1>4, <1>5, <1>6, <1>8, MovedUnits DEF TypeOK

LEMMA SendStep == ASSUME LinkInv, NEW e \in Ends, Send(e) PROVE LinkInv'
<1>1. PICK n \in 1..Min({m_out_buffer[e], Cap - chan[Peer(e)]}) :
        /\ m_out_buffer' = [m_out_buffer EXCEPT ![e] = Unsent(@, n)]
        /\ chan' = [chan EXCEPT ![Peer(e)] = @ + n]
  BY DEF Send
<1>2. UNCHANGED <<m_state, m_in_buffer, armed, pc, fin, rst, fd_open, running, rsp,
                  in_connections, cut>>
  BY DEF Send
<1>3. TypeOK /\ UnitsInOrder /\ Peer(e) \in Ends
  BY DEF LinkInv, Ends, Peer
<1>4. /\ m_in_buffer \in [Ends -> Nat] /\ m_out_buffer \in [Ends -> Nat]
      /\ chan \in [Ends -> Nat] /\ Cap - chan[Peer(e)] \in Nat
  BY <1>3, UnitsAreNumbers, Lengths
<1>5. n \in Nat /\ n <= m_out_buffer[e] /\ n <= Cap - chan[Peer(e)]
  BY <1>3, <1>4, MinOfTwo
<1>6. m_out_buffer' \in [Ends -> Nat]
  BY <1>1, <1>4, <1>5 DEF Unsent
<1>7. chan' \in [Ends -> 0..Cap]
  BY <1>1, <1>3, <1>4, <1>5, Lengths DEF TypeOK
<1>8. Requested' = Requested /\ Responded' = Responded
  BY <1>1, <1>2, <1>4, <1>5 DEF Requested, Responded, Ends, Peer, Unsent
<1>9. UnitsInOrder'
  BY <1>3, <1>8 DEF UnitsInOrder
<1> QED
  BY <1>2, <1>3, <1>4, <1>6, <1>7, <1>9, MovedUnits DEF TypeOK

LEMMA ServerExecuteStep == ASSUME LinkInv, ServerExecute PROVE LinkInv'
<1>1. /\ UNCHANGED <<m_state, chan, fin, rst, fd_open, running, rsp, in_connections>>
      /\ pc' = [pc EXCEPT !["server"] = "idle"]
      /\ armed' = [armed EXCEPT !["server"] = ToListen(m_out_buffer'["server"])]
  BY DEF ServerExecute, Finish, net_vars
<1>2. TypeOK /\ UnitsInOrder
  BY DEF LinkInv
<1>3. /\ m_in_buffer \in [Ends -> Nat] /\ m_out_buffer \in [Ends -> Nat] /\ chan \in [Ends -> Nat]
  BY <1>2, UnitsAreNumbers
<1>4. /\ m_in_buffer["client"] \in Nat /\ m_in_buffer["server"] \in Nat
      /\ m_out_buffer["client"] \in Nat /\ m_out_buffer["server"] \in Nat
      /\ chan["client"] \in Nat /\ chan["server"] \in Nat
  BY <1>3 DEF Ends
<1>5. /\ m_in_buffer' \in [Ends -> Nat] /\ m_out_buffer' \in [Ends -> Nat]
      /\ cut \subseteq cut' /\ cut' \subseteq {"rejected", "timed_out"}
      /\ UnitsInOrder'
  <2>1. CASE UNCHANGED <<m_in_buffer, m_out_buffer, cut>>
    BY <1>1, <1>2, <1>3, <2>1 DEF UnitsInOrder, Requested, Responded, TypeOK
  <2>2. CASE /\ m_in_buffer["server"] >= ReqLen
             /\ m_in_buffer' = [m_in_buffer EXCEPT !["server"] = @ - ReqLen]
             /\ m_out_buffer' \in {m_out_buffer, [m_out_buffer EXCEPT !["server"] = @ + RspLen]}
             /\ cut' \in {cut, cut \cup {"rejected"}}
    <3>1. Requested = ReqLen /\ Responded = 0 /\ m_out_buffer["server"] = 0
      BY <1>2, <1>4, <2>2, Lengths DEF UnitsInOrder, Requested, Responded
    <3>0. m_in_buffer["server"] - ReqLen \in Nat /\ m_out_buffer["server"] + RspLen \in Nat
      BY <1>4, <2>2, Lengths
    <3>2. m_in_buffer' \in [Ends -> Nat] /\ m_out_buffer' \in [Ends -> Nat]
      BY <1>3, <2>2, <3>0
    <3>3. /\ m_in_buffer'["server"] = m_in_buffer["server"] - ReqLen
          /\ m_in_buffer'["client"] = m_in_buffer["client"]
          /\ m_out_buffer'["client"] = m_out_buffer["client"]
          /\ m_out_buffer'["server"] \in {0, RspLen}
      <4>1. "server" \in Ends /\ "client" \in Ends
        BY DEF Ends
      <4>2. 0 + RspLen = RspLen
        BY Lengths
      <4> QED
        BY <1>3, <2>2, <3>1, <4>1, <4>2
    <3>4. Requested' = 0 /\ Responded' \in {0, RspLen}
      <4>0. chan' = chan /\ ReqLen \in Nat /\ m_out_buffer["server"] = 0
        BY <1>1, <3>1, Lengths
      <4>1. Requested' = Requested - ReqLen
        BY <1>4, <3>3, <4>0 DEF Requested
      <4>2. Responded' = m_out_buffer'["server"] + Responded
        <5>1. m_out_buffer'["server"] \in Nat
          BY <3>3, Lengths
        <5> QED
          BY <1>4, <3>3, <4>0, <5>1 DEF Responded
      <4> QED
        BY <3>1, <3>3, <4>1, <4>2, Lengths
    <3>5. UnitsInOrder'
      BY <3>4, Lengths DEF UnitsInOrder
    <3> QED
      BY <1>2, <2>2, <3>2, <3>5 DEF TypeOK
  <2> QED
    BY <2>1, <2>2 DEF ServerExecute, buffer_vars
<1>6. armed' \in [Ends -> {"none", "read", "write"}] /\ pc' \in [Ends -> {"idle", "tcp_read", "tcp_write"}]
  BY <1>1, <1>2 DEF TypeOK, ToListen
<1> QED
  BY <1>1, <1>2, <1>5, <1>6, MovedUnits DEF TypeOK

LEMMA ClientExecuteStep == ASSUME LinkInv, ClientExecute PROVE LinkInv'
<1>1. /\ UNCHANGED <<m_state, m_out_buffer, chan, fin, rst, fd_open, in_connections, cut>>
      /\ pc' = [pc EXCEPT !["client"] = "idle"]
      /\ armed' \in {[armed EXCEPT !["client"] = "none"], [armed EXCEPT !["client"] = "read"]}
      /\ \/ /\ m_in_buffer["client"] >= RspLen
            /\ m_in_buffer' = [m_in_buffer EXCEPT !["client"] = @ - RspLen]
            /\ rsp' = TRUE /\ running' = [running EXCEPT !["client"] = FALSE]
         \/ UNCHANGED <<m_in_buffer, rsp, running>>
  BY DEF ClientExecute, Finish, net_vars
<1>2. TypeOK /\ UnitsInOrder
  BY DEF LinkInv
<1>3. /\ m_in_buffer \in [Ends -> Nat] /\ m_out_buffer \in [Ends -> Nat] /\ chan \in [Ends -> Nat]
  BY <1>2, UnitsAreNumbers
<1>4. /\ m_in_buffer["client"] \in Nat /\ m_in_buffer["server"] \in Nat
      /\ m_out_buffer["client"] \in Nat /\ m_out_buffer["server"] \in Nat
      /\ chan["client"] \in Nat /\ chan["server"] \in Nat
  BY <1>3 DEF Ends
<1>5. m_in_buffer' \in [Ends -> Nat] /\ m_in_buffer'["server"] = m_in_buffer["server"]
      /\ m_in_buffer'["client"] \in 0..m_in_buffer["client"]
  BY <1>1, <1>3, <1>4, Lengths DEF Ends
<1>6. UnitsInOrder'
  <2>1. Requested' = Requested /\ Responded' \in 0..Responded /\ Responded \in Nat
    BY <1>1, <1>4, <1>5 DEF Requested, Responded
  <2> QED
    BY <1>2, <2>1, Lengths DEF UnitsInOrder
<1>7. armed' \in [Ends -> {"none", "read", "write"}] /\ pc' \in [Ends -> {"idle", "tcp_read", "tcp_write"}]
  BY <1>1, <1>2 DEF TypeOK
<1> QED
  BY <1>1, <1>2, <1>3, <1>5, <1>6, <1>7, MovedUnits DEF TypeOK

LEMMA TimeOutStep == ASSUME LinkInv, TimeOut PROVE LinkInv'
<1>1. /\ running' = [running EXCEPT !["client"] = FALSE] /\ cut' = cut \cup {"timed_out"}
      /\ UNCHANGED <<m_state, m_in_buffer, m_out_buffer, chan, armed, pc, fin, rst, fd_open, rsp,
                     in_connections>>
  BY DEF TimeOut, buffer_vars, net_vars
<1>2. TypeOK /\ UnitsInOrder
  BY DEF LinkInv
<1>3. UnitsInOrder'
  BY <1>1, <1>2 DEF UnitsInOrder, Requested, Responded
<1>4. m_in_buffer \in [Ends -> Nat] /\ m_out_buffer \in [Ends -> Nat]
  BY <1>2, UnitsAreNumbers
<1> QED
  BY <1>1, <1>2, <1>3, <1>4, MovedUnits DEF TypeOK

\* What happens outside this module changes what the end waits for and whether
\* it is in the map, and nothing else.
LEMMA OtherLinkStep ==
  ASSUME LinkInv, armed' \in [Ends -> {"none", "read", "write"}], in_connections' \in BOOLEAN,
         UNCHANGED <<m_state, m_in_buffer, m_out_buffer, pc, chan, fin, rst, fd_open, running, rsp, cut>>
  PROVE  LinkInv'
<1>. USE DEF LinkInv
<1>1. TypeOK'
  BY DEF TypeOK
<1>2. UnitsInOrder' /\ PeerGone' /\ NoFalseHangUp'
  BY DEF UnitsInOrder, Requested, Responded, PeerGone, NoFalseHangUp
<1> QED
  BY <1>1, <1>2

LEMMA EndStepKeeps == ASSUME LinkInv, NEW e \in Ends, EndStep(e) PROVE LinkInv'
<1>1. CASE SigPipe(e)
  BY <1>1, EndServerStep, NoDataStep DEF SigPipe, Ends
<1> QED
  BY <1>1, NoDataStep, ReceiveStep, SendStep DEF EndStep

LEMMA LinkNext == LinkInv /\ [Next]_vars => LinkInv'
<1> SUFFICES ASSUME LinkInv, [Next]_vars PROVE LinkInv'
  OBVIOUS
<1>1. CASE ServerStep \/ ClientStep
  BY <1>1, EndStepKeeps, ServerExecuteStep, ClientExecuteStep DEF ServerStep, ClientStep, Ends
<1>2. CASE (\E e \in Ends : Refuse(e)) \/ TimeOut \/ ClientGone \/ ServerDies
  BY <1>2, RefuseStep, TimeOutStep, ClientGoneStep, EndServerStep DEF ServerDies
<1>3. CASE ClearInvalidConnection \/ UNCHANGED vars
  BY <1>3, OtherLinkStep DEF ClearInvalidConnection, vars, buffer_vars, net_vars, LinkInv, TypeOK
<1> QED
  BY <1>1, <1>2, <1>3 DEF Next

LEMMA LinkInvariance == Spec => []LinkInv
<1>1. Init => LinkInv
  BY InitLinkInv DEF Init
<1> QED
  BY <1>1, LinkNext, PTL DEF Spec

\* Whatever the lengths of the messages and the kernel's buffers, neither end
\* takes the other for gone while it is there (TcpConnection's read() and
\* write(): shutdown() on an error, "Closed" or stop() on the end of the data).
THEOREM NoFalseHangUpOfALink == Spec => []NoFalseHangUp
<1>1. LinkInv => NoFalseHangUp
  BY DEF LinkInv
<1> QED
  BY <1>1, LinkInvariance, PTL

-----------------------------------------------------------------------------
(* The server's invariant.                                                 *)

\* The client waits in this sequence.
In(seq) == \E i \in 1..Len(seq) : seq[i] = "client"
Once(seq) == \A i, j \in 1..Len(seq) : seq[i] = "client" /\ seq[j] = "client" => i = j

\* A connection has been constructed for it.
Made == shared \/ BeingMade

\* The client is accepted once and handed over once.
OneClient ==
  /\ Once(backlog) /\ Once(new_clients)
  /\ ~(In(backlog) /\ In(new_clients))
  /\ Made => ~In(backlog) /\ ~In(new_clients)

\* Nothing happens to a connection before it is made, to one that waits to be
\* registered, to one found closed, and the ones that are closed are erased.
QuietWhenGone ==
  /\ main_pc = "make_shared" => ~shared
  /\ main_pc = "insert" => shared
  /\ in_connections => shared
  /\ BeingMade => ~in_connections
  /\ ~Made => ~posted /\ armed["server"] = "none" /\ pc["server"] = "idle" /\ m_state["server"] = "Connected"
  /\ posted => armed["server"] = "none" /\ pc["server"] = "idle" /\ m_state["server"] = "Connected"
  /\ pc["server"] # "idle" => armed["server"] = "none"
  /\ m_state["server"] = "Closed" => ~posted /\ armed["server"] = "none" /\ pc["server"] = "idle"
  /\ Made /\ ~BeingMade /\ ~in_connections => m_state["server"] = "Closed"

\* No thread has more connections than clients have been taken.
GivenToClients ==
  \A t \in Threads : given[t] + Len(backlog) + Len(new_clients) <= others + 1

\* The valid threads before m_index have had one turn more than the others.
InTurn ==
  /\ \A t, u \in valid :
       IF (t < m_index) = (u < m_index)
         THEN given[t] = given[u]
         ELSE t < m_index => given[t] = given[u] + 1
  /\ \A t \in Threads \ valid : given[t] = 0

ServerIInv == LinkInv /\ ServerTypeOK /\ OneClient /\ QuietWhenGone /\ GivenToClients /\ InTurn

-----------------------------------------------------------------------------
(* The pool's turns.                                                       *)

LEMMA ThreadsAreNumbers == ThreadNum \in Nat \ {0} /\ Threads = 0..(ThreadNum - 1)
BY PoolAssumption DEF Threads

\* One after another, around the pool.
LEMMA AroundThePool ==
  ASSUME NEW t \in Threads, NEW k \in Nat, k <= ThreadNum
  PROVE  (t + k) % ThreadNum = IF t + k < ThreadNum THEN t + k ELSE t + k - ThreadNum
<1>1. t \in 0..(ThreadNum - 1) /\ k \in 0..ThreadNum /\ ThreadNum \in Nat \ {0}
  BY ThreadsAreNumbers
<1> QED
  BY <1>1, ModOfSum

\* get_io_thread() finds the first valid thread from m_index on.
LEMMA TurnIsNext ==
  ASSUME valid \subseteq Threads, valid # {}, m_index \in Threads
  PROVE  /\ TurnOf \in valid
         /\ \A v \in valid : v >= m_index => m_index <= TurnOf /\ TurnOf <= v
         /\ \A v \in valid : TurnOf < m_index => v < m_index /\ TurnOf <= v
<1>. DEFINE Turn(k) == (m_index + k) % ThreadNum
            places == {k \in Threads : Turn(k) \in valid}
            place(v) == IF v >= m_index THEN v - m_index ELSE v - m_index + ThreadNum
<1>0. ThreadNum \in Nat \ {0} /\ Threads = 0..(ThreadNum - 1)
  BY ThreadsAreNumbers
<1>1. \A k \in Threads : Turn(k) = IF m_index + k < ThreadNum THEN m_index + k ELSE m_index + k - ThreadNum
  BY <1>0, AroundThePool
<1>2. ASSUME NEW v \in valid PROVE place(v) \in Threads /\ place(v) \in places
  <2>1. place(v) \in Threads
    BY <1>0
  <2>2. Turn(place(v)) = v
    BY <1>0, <1>1, <2>1
  <2> QED
    BY <2>1, <2>2
<1>3. Min(places) \in places /\ \A k \in places : Min(places) <= k
  <2>0. PICK v \in valid : TRUE
    OBVIOUS
  <2>1. places # {}
    BY <1>2, <2>0
  <2>2. places \in SUBSET Nat
    BY <1>0
  <2> QED
    BY <2>1, <2>2, MinOfNonempty
<1>4. TurnOf = Turn(Min(places))
  BY DEF TurnOf
<1>. DEFINE first == Min(places)
<1>5. first \in Threads /\ TurnOf \in valid
  BY <1>3, <1>4
<1>6. TurnOf = IF m_index + first < ThreadNum THEN m_index + first ELSE m_index + first - ThreadNum
  BY <1>1, <1>4, <1>5
<1>7. \A v \in valid : first <= place(v)
  BY <1>2, <1>3
<1>. HIDE DEF first, places, Turn
<1>8. \A v \in valid : v >= m_index => m_index <= TurnOf /\ TurnOf <= v
  BY <1>0, <1>5, <1>6, <1>7
<1>9. \A v \in valid : TurnOf < m_index => v < m_index /\ TurnOf <= v
  BY <1>0, <1>5, <1>6, <1>7, <1>8
<1> QED
  BY <1>5, <1>8, <1>9

\* A turn keeps the threads in turn.
LEMMA GetIoThreadKeeps ==
  ASSUME ServerTypeOK, InTurn, GetIoThread
  PROVE  /\ InTurn' /\ m_index' \in Threads /\ valid' = valid
         /\ given' \in [Threads -> Nat]
         /\ \A t \in Threads : given'[t] <= given[t] + 1
<1>1. valid \subseteq Threads /\ valid # {} /\ m_index \in Threads /\ given \in [Threads -> Nat]
  BY ArrivalsAssumption DEF ServerTypeOK, GetIoThread
<1>2. /\ valid' = valid /\ given' = [given EXCEPT ![TurnOf] = @ + 1]
      /\ m_index' = (TurnOf + 1) % ThreadNum
  BY DEF GetIoThread, IndexAfter
<1>3. PICK turn \in Threads : turn = TurnOf
  BY <1>1, TurnIsNext
<1>4. /\ turn \in valid
      /\ \A v \in valid : v >= m_index => m_index <= turn /\ turn <= v
      /\ \A v \in valid : turn < m_index => v < m_index /\ turn <= v
  BY <1>1, <1>3, TurnIsNext
<1>5. m_index' = IF turn + 1 < ThreadNum THEN turn + 1 ELSE 0
  <2>1. (turn + 1) % ThreadNum = IF turn + 1 < ThreadNum THEN turn + 1 ELSE turn + 1 - ThreadNum
    BY ThreadsAreNumbers, AroundThePool
  <2>2. turn + 1 < ThreadNum \/ turn + 1 - ThreadNum = 0
    BY ThreadsAreNumbers
  <2> QED
    BY <1>2, <1>3, <2>1, <2>2
<1>6. m_index' \in Threads
  BY <1>5, ThreadsAreNumbers
<1>7. \A t \in Threads : given'[t] = IF t = turn THEN given[t] + 1 ELSE given[t]
  BY <1>1, <1>2, <1>3
<1>8. ASSUME NEW t \in valid, NEW u \in valid
      PROVE  IF (t < m_index') = (u < m_index')
               THEN given'[t] = given'[u]
               ELSE t < m_index' => given'[t] = given'[u] + 1
  <2>. USE ThreadsAreNumbers
  <2>1. \A v, w \in {t, u, turn} :
          IF (v < m_index) = (w < m_index)
            THEN given[v] = given[w]
            ELSE v < m_index => given[v] = given[w] + 1
    <3>1. {t, u, turn} \subseteq valid
      BY <1>4
    <3> QED
      BY <3>1, Zenon DEF InTurn
  <2>5. t \in Threads /\ u \in Threads /\ given[t] \in Nat /\ given[u] \in Nat /\ given[turn] \in Nat
    BY <1>1, <1>4
  <2>6. /\ IF (t < m_index) = (u < m_index)
             THEN given[t] = given[u]
             ELSE t < m_index => given[t] = given[u] + 1
        /\ IF (t < m_index) = (turn < m_index)
             THEN given[t] = given[turn]
             ELSE /\ t < m_index => given[t] = given[turn] + 1
                  /\ turn < m_index => given[turn] = given[t] + 1
        /\ IF (u < m_index) = (turn < m_index)
             THEN given[u] = given[turn]
             ELSE /\ u < m_index => given[u] = given[turn] + 1
                  /\ turn < m_index => given[turn] = given[u] + 1
    BY <2>1, Zenon
  <2>7. given'[t] = (IF t = turn THEN given[t] + 1 ELSE given[t])
        /\ given'[u] = (IF u = turn THEN given[u] + 1 ELSE given[u])
    BY <1>7, <2>5, Zenon
  <2>8. /\ t >= m_index => m_index <= turn /\ turn <= t
        /\ u >= m_index => m_index <= turn /\ turn <= u
        /\ turn < m_index => t < m_index /\ turn <= t /\ u < m_index /\ turn <= u
    BY <1>4, Zenon
  <2> QED
    BY <1>1, <1>5, <2>5, <2>6, <2>7, <2>8
<1>9. \A t \in Threads \ valid : given'[t] = 0
  BY <1>4, <1>7 DEF InTurn
<1>10. given' \in [Threads -> Nat] /\ \A t \in Threads : given'[t] <= given[t] + 1
  <2>1. \A t \in Threads : given'[t] \in Nat /\ given'[t] <= given[t] + 1
    BY <1>1, <1>7
  <2>2. DOMAIN given' = Threads /\ given' = [t \in Threads |-> given'[t]]
    BY <1>1, <1>2
  <2> QED
    BY <2>1, <2>2
<1> QED
  BY <1>2, <1>6, <1>8, <1>9, <1>10 DEF InTurn

-----------------------------------------------------------------------------
(* The client's place.                                                     *)

LEMMA InAppended ==
  ASSUME NEW seq \in Seq(Client), NEW c \in Client, Once(seq), c = "client" => ~In(seq)
  PROVE  /\ Append(seq, c) \in Seq(Client) /\ Len(Append(seq, c)) = Len(seq) + 1
         /\ Once(Append(seq, c)) /\ (In(Append(seq, c)) => In(seq) \/ c = "client")
BY DEF Once, In

LEMMA InTail ==
  ASSUME NEW seq \in Seq(Client), seq # <<>>, Once(seq)
  PROVE  /\ Tail(seq) \in Seq(Client) /\ Len(Tail(seq)) = Len(seq) - 1 /\ Head(seq) \in Client
         /\ Once(Tail(seq)) /\ (In(Tail(seq)) => In(seq) /\ Head(seq) # "client")
         /\ (Head(seq) = "client" => In(seq))
BY DEF Once, In

LEMMA InRemoved ==
  ASSUME NEW seq \in Seq(Client), NEW i \in 1..Len(seq), Once(seq)
  PROVE  /\ RemoveAt(seq, i) \in Seq(Client) /\ Len(RemoveAt(seq, i)) = Len(seq) - 1
         /\ Once(RemoveAt(seq, i)) /\ (In(RemoveAt(seq, i)) => In(seq) /\ seq[i] # "client")
         /\ (seq[i] = "client" => In(seq))
<1>1. /\ RemoveAt(seq, i) \in Seq(Client) /\ Len(RemoveAt(seq, i)) = Len(seq) - 1
      /\ \A j \in 1..(Len(seq) - 1) :
           RemoveAt(seq, i)[j] = IF j < i THEN seq[j] ELSE seq[j + 1]
  BY RemoveAtMovesUp
<1>2. Len(seq) \in Nat
  OBVIOUS
<1>3. Once(RemoveAt(seq, i))
  BY <1>1, <1>2 DEF Once
<1>4. In(RemoveAt(seq, i)) => In(seq) /\ seq[i] # "client"
  BY <1>1, <1>2 DEF Once, In
<1> QED
  BY <1>1, <1>3, <1>4 DEF In

-----------------------------------------------------------------------------
(* The server's steps.                                                     *)

LEMMA LinkUnchanged == ASSUME LinkInv, UNCHANGED vars PROVE LinkInv'
BY LinkNext

\* Every connection given is a client's that has come.
LEMMA TypedByGiven ==
  ASSUME LinkInv', GivenToClients',
         backlog' \in Seq(Client), new_clients' \in Seq(Client), others' \in 0..MaxOthers,
         main_pc' \in {"loop", "accept", "hand_over", "make_shared", "insert", "stopped"},
         valid' \subseteq Threads, m_index' \in Threads, given' \in [Threads -> Nat],
         {edge, posted, shared, exhausted}' \subseteq BOOLEAN
  PROVE  ServerTypeOK'
<1>1. TypeOK'
  BY DEF LinkInv
<1>2. ASSUME NEW t \in Threads PROVE given'[t] \in 0..(MaxOthers + 1)
  <2>1. given'[t] + Len(backlog') + Len(new_clients') <= others' + 1
    BY DEF GivenToClients
  <2>2. given'[t] \in Nat /\ Len(backlog') \in Nat /\ Len(new_clients') \in Nat
    OBVIOUS
  <2> QED
    BY <2>1, <2>2, ArrivalsAssumption
<1>3. given' \in [Threads -> 0..(MaxOthers + 1)]
  BY <1>2
<1> QED
  BY <1>1, <1>3 DEF ServerTypeOK

\* What does not touch the clients who wait nor the pool.
LEMMA QueuesUnchanged ==
  ASSUME ServerIInv, LinkInv', Made' => Made,
         main_pc' \in {"loop", "accept", "hand_over", "make_shared", "insert", "stopped"},
         {edge, posted, shared, exhausted}' \subseteq BOOLEAN,
         UNCHANGED <<backlog, others, new_clients, valid, m_index, given>>
  PROVE  ServerTypeOK' /\ OneClient' /\ GivenToClients' /\ InTurn'
<1>1. OneClient' /\ GivenToClients' /\ InTurn'
  BY DEF ServerIInv, OneClient, Once, In, GivenToClients, InTurn
<1>2. TypeOK'
  BY DEF LinkInv
<1> QED
  BY <1>1, <1>2 DEF ServerIInv, ServerTypeOK

\* The main thread goes from one place to another.
LEMMA MainStepKeeps ==
  ASSUME ServerIInv, AcceptCallback \/ AcceptFails \/ MakeShared \/ HandedOver \/ Stop
  PROVE  ServerIInv'
<1>. USE DEF ServerIInv
<1>1. /\ UNCHANGED <<vars, backlog, others, new_clients, valid, m_index, given, posted>>
      /\ \/ main_pc \in {"loop", "accept", "hand_over"} /\ main_pc' \in {"loop", "accept", "hand_over", "stopped"} /\ shared' = shared
         \/ main_pc = "make_shared" /\ main_pc' = "insert" /\ shared' = TRUE
      /\ {edge', exhausted'} \subseteq BOOLEAN
  BY DEF AcceptCallback, AcceptFails, MakeShared, HandedOver, Stop, Main, kernel_vars, pool_vars, ServerTypeOK
<1>2. LinkInv'
  BY <1>1, LinkUnchanged
<1>3. Made' => Made
  BY <1>1 DEF Made, BeingMade
<1>4. ServerTypeOK' /\ OneClient' /\ GivenToClients' /\ InTurn'
  <2>1. {edge, posted, shared, exhausted}' \subseteq BOOLEAN
    BY <1>1 DEF ServerTypeOK
  <2>2. main_pc' \in {"loop", "accept", "hand_over", "make_shared", "insert", "stopped"}
    BY <1>1
  <2> QED
    BY <1>1, <1>2, <1>3, <2>1, <2>2, QueuesUnchanged
<1>5. QuietWhenGone'
  <2>1. UNCHANGED <<m_state, armed, pc, in_connections, posted>>
    BY <1>1 DEF vars
  <2> QED
    BY <1>1, <2>1 DEF QuietWhenGone, Made, BeingMade
<1> QED
  BY <1>2, <1>4, <1>5

LEMMA AcceptStep == ASSUME ServerIInv, Accept PROVE ServerIInv'
<1>. USE DEF ServerIInv
<1>1. /\ backlog # <<>> /\ main_pc' = main_pc
      /\ new_clients' = Append(new_clients, Head(backlog)) /\ backlog' = Tail(backlog)
      /\ UNCHANGED <<vars, others, edge, valid, m_index, given, posted, shared, exhausted>>
  BY DEF Accept, Main, AfterAccepted, pool_vars
<1>2. backlog \in Seq(Client) /\ new_clients \in Seq(Client) /\ Once(backlog) /\ Once(new_clients)
  BY DEF ServerTypeOK, OneClient
<1>3. /\ backlog' \in Seq(Client) /\ Len(backlog') = Len(backlog) - 1 /\ Head(backlog) \in Client
      /\ Once(backlog') /\ (In(backlog') => In(backlog) /\ Head(backlog) # "client")
      /\ (Head(backlog) = "client" => In(backlog))
  BY <1>1, <1>2, InTail
<1>4. Head(backlog) = "client" => ~In(new_clients)
  BY <1>3 DEF OneClient
<1>5. /\ new_clients' \in Seq(Client) /\ Len(new_clients') = Len(new_clients) + 1
      /\ Once(new_clients') /\ (In(new_clients') => In(new_clients) \/ Head(backlog) = "client")
  BY <1>1, <1>2, <1>3, <1>4, InAppended
<1>6. LinkInv'
  BY <1>1, LinkUnchanged
<1>7. OneClient'
  <2>1. Made' = Made
    BY <1>1 DEF Made, BeingMade
  <2>2. Once(backlog)' = Once(backlog') /\ Once(new_clients)' = Once(new_clients')
        /\ In(backlog)' = In(backlog') /\ In(new_clients)' = In(new_clients')
    BY DEF Once, In
  <2> QED
    BY <1>3, <1>5, <2>1, <2>2 DEF OneClient
<1>8. GivenToClients'
  <2>1. ASSUME NEW t \in Threads PROVE given'[t] + Len(backlog') + Len(new_clients') <= others' + 1
    <3>1. given[t] + Len(backlog) + Len(new_clients) <= others + 1
      BY DEF GivenToClients
    <3>2. Len(backlog) \in Nat /\ Len(new_clients) \in Nat
      BY <1>2
    <3>3. given[t] \in Nat /\ others \in Nat
      BY ArrivalsAssumption DEF ServerTypeOK
    <3> QED
      BY <1>1, <1>3, <1>5, <3>1, <3>2, <3>3
  <2> QED
    BY <2>1 DEF GivenToClients
<1>9. InTurn'
  BY <1>1 DEF InTurn
<1>10. ServerTypeOK'
  BY <1>1, <1>3, <1>5, <1>6 DEF ServerTypeOK, LinkInv
<1>11. QuietWhenGone'
  BY <1>1 DEF QuietWhenGone, Made, BeingMade, vars
<1> QED
  BY <1>6, <1>7, <1>8, <1>9, <1>10, <1>11

\* A new client is taken out of the map and given to a thread.
LEMMA TakenAndGiven ==
  ASSUME ServerIInv, LinkInv', GetIoThread,
         NEW i \in DOMAIN new_clients, new_clients' = RemoveAt(new_clients, i),
         main_pc' \in {"hand_over", "make_shared"}, posted' \in BOOLEAN,
         Made' => Made \/ new_clients[i] = "client",
         UNCHANGED <<backlog, others, edge, shared, exhausted>>
  PROVE  ServerTypeOK' /\ OneClient' /\ GivenToClients' /\ InTurn'
<1>. USE DEF ServerIInv
<1>1. backlog \in Seq(Client) /\ new_clients \in Seq(Client) /\ Once(new_clients) /\ i \in 1..Len(new_clients)
  BY DEF ServerTypeOK, OneClient
<1>2. /\ new_clients' \in Seq(Client) /\ Len(new_clients') = Len(new_clients) - 1
      /\ Once(new_clients') /\ (In(new_clients') => In(new_clients) /\ new_clients[i] # "client")
      /\ (new_clients[i] = "client" => In(new_clients))
  BY <1>1, InRemoved
<1>3. /\ InTurn' /\ m_index' \in Threads /\ valid' = valid
      /\ given' \in [Threads -> Nat]
      /\ \A t \in Threads : given'[t] <= given[t] + 1
  BY GetIoThreadKeeps
<1>4. OneClient'
  <2>1. Once(backlog)' = Once(backlog) /\ Once(new_clients)' = Once(new_clients')
        /\ In(backlog)' = In(backlog) /\ In(new_clients)' = In(new_clients')
    BY DEF Once, In
  <2> QED
    BY <1>2, <2>1 DEF OneClient
<1>5. GivenToClients'
  <2>1. ASSUME NEW t \in Threads PROVE given'[t] + Len(backlog') + Len(new_clients') <= others' + 1
    <3>1. given[t] + Len(backlog) + Len(new_clients) <= others + 1
      BY DEF GivenToClients
    <3>2. Len(backlog) \in Nat /\ Len(new_clients) \in Nat
      BY <1>1
    <3>3. given[t] \in Nat /\ others \in Nat
      BY ArrivalsAssumption DEF ServerTypeOK
    <3>4. given'[t] \in Nat /\ given'[t] <= given[t] + 1
      BY <1>3
    <3>5. Len(backlog') = Len(backlog) /\ others' = others
      OBVIOUS
    <3> QED
      BY <1>2, <3>1, <3>2, <3>3, <3>4, <3>5
  <2> QED
    BY <2>1 DEF GivenToClients
<1>6. ServerTypeOK'
  <2>1. {edge, posted, shared, exhausted}' \subseteq BOOLEAN /\ others' \in 0..MaxOthers
        /\ valid' \subseteq Threads /\ backlog' \in Seq(Client)
    BY <1>1, <1>3 DEF ServerTypeOK
  <2> QED
    BY <1>2, <1>3, <1>5, <2>1, TypedByGiven
<1> QED
  BY <1>3, <1>4, <1>5, <1>6

LEMMA HandOverStep == ASSUME ServerIInv, HandOverOther \/ Construct PROVE ServerIInv'
<1>. USE DEF ServerIInv
<1>1. GetIoThread /\ UNCHANGED <<vars, backlog, others, edge, shared, exhausted>>
  BY DEF HandOverOther, Construct, kernel_vars
<1>2. LinkInv'
  BY <1>1, LinkUnchanged
<1>3. UNCHANGED <<m_state, armed, pc, in_connections>>
  BY <1>1 DEF vars
<1>4. CASE HandOverOther
  <2>1. PICK i \in DOMAIN new_clients : new_clients[i] = "other" /\ new_clients' = RemoveAt(new_clients, i)
    BY <1>4 DEF HandOverOther, TakeNew
  <2>2. main_pc = "hand_over" /\ main_pc' = "hand_over" /\ posted' = posted
    BY <1>4 DEF HandOverOther, Main
  <2>3. (Made' => Made) /\ posted' \in BOOLEAN
    BY <1>1, <2>2 DEF Made, BeingMade, ServerTypeOK
  <2>4. ServerTypeOK' /\ OneClient' /\ GivenToClients' /\ InTurn'
    BY <1>1, <1>2, <2>1, <2>2, <2>3, TakenAndGiven
  <2>5. QuietWhenGone'
    BY <1>1, <1>3, <2>2 DEF QuietWhenGone, Made, BeingMade
  <2> QED
    BY <1>2, <2>4, <2>5
<1>5. CASE Construct
  <2>1. PICK i \in DOMAIN new_clients : new_clients[i] = "client" /\ new_clients' = RemoveAt(new_clients, i)
    BY <1>5 DEF Construct, TakeNew
  <2>2. main_pc = "hand_over" /\ main_pc' = "make_shared" /\ posted' = TRUE
    BY <1>5 DEF Construct, Main
  <2>3. ServerTypeOK' /\ OneClient' /\ GivenToClients' /\ InTurn'
    BY <1>1, <1>2, <2>1, <2>2, TakenAndGiven
  <2>4. i \in 1..Len(new_clients)
    BY <2>1 DEF ServerTypeOK
  <2>5. ~Made
    BY <2>1, <2>4 DEF OneClient, In
  <2>6. QuietWhenGone'
    BY <1>1, <1>3, <2>2, <2>5 DEF QuietWhenGone, Made, BeingMade
  <2> QED
    BY <1>2, <2>3, <2>6
<1> QED
  BY <1>4, <1>5

\* The connection goes into the map, or out of it, or is registered.
LEMMA MapStep == ASSUME ServerIInv, Insert \/ Clear \/ Register PROVE ServerIInv'
<1>. USE DEF ServerIInv
<1>1. /\ UNCHANGED <<m_state, m_in_buffer, m_out_buffer, pc, chan, fin, rst, fd_open, running, rsp, cut>>
      /\ UNCHANGED <<backlog, others, edge, new_clients, valid, m_index, given, shared, exhausted>>
      /\ \/ /\ main_pc = "insert" /\ main_pc' = "hand_over" /\ in_connections' = TRUE
            /\ posted' = posted /\ armed' = armed
         \/ /\ main_pc = "loop" /\ main_pc' = "loop" /\ in_connections' = FALSE
            /\ m_state["server"] = "Closed" /\ posted' = posted /\ armed' = armed
            /\ in_connections
         \/ /\ main_pc' = main_pc /\ in_connections' = in_connections
            /\ posted /\ posted' = FALSE /\ armed' = [armed EXCEPT !["server"] = "read"]
  <2>1. CASE Insert
    BY <2>1 DEF Insert, Main, StateInserted, kernel_vars, pool_vars, net_vars, buffer_vars
  <2>2. CASE Clear
    BY <2>2 DEF Clear, ClearInvalidConnection, Main, kernel_vars, pool_vars, net_vars, buffer_vars
  <2>3. CASE Register
    BY <2>3 DEF Register, main_vars, kernel_vars, pool_vars, net_vars, buffer_vars
  <2> QED
    BY <2>1, <2>2, <2>3
<1>2. LinkInv'
  <2>1. armed' \in [Ends -> {"none", "read", "write"}] /\ in_connections' \in BOOLEAN
    BY <1>1 DEF LinkInv, TypeOK
  <2> QED
    BY <1>1, <2>1, OtherLinkStep
<1>3. QuietWhenGone'
  BY <1>1 DEF QuietWhenGone, Made, BeingMade, LinkInv, TypeOK, Ends
<1>4. ServerTypeOK' /\ OneClient' /\ GivenToClients' /\ InTurn'
  <2>1. Made' => Made
    BY <1>1 DEF Made, BeingMade
  <2>2. {edge, posted, shared, exhausted}' \subseteq BOOLEAN
        /\ main_pc' \in {"loop", "accept", "hand_over", "make_shared", "insert", "stopped"}
    BY <1>1 DEF ServerTypeOK
  <2> QED
    BY <1>1, <1>2, <2>1, <2>2, QueuesUnchanged
<1> QED
  BY <1>2, <1>3, <1>4

\* What the I/O thread or the world does to the connection.
LEMMA LinkStepKeeps ==
  ASSUME ServerIInv, LinkInv', UNCHANGED <<kernel_vars, main_vars, posted>>,
         in_connections' = in_connections,
         \/ UNCHANGED <<m_state["server"], armed["server"]>> /\ pc'["server"] \in {pc["server"], "idle"}
         \/ /\ armed["server"] # "none" \/ pc["server"] # "idle"
            /\ armed'["server"] = "none" \/ pc'["server"] = "idle"
            /\ m_state'["server"] = "Closed" /\ m_state["server"] # "Closed" =>
                 armed'["server"] = "none" /\ pc'["server"] = "idle"
  PROVE  ServerIInv'
<1>. USE DEF ServerIInv
<1>1. UNCHANGED <<backlog, others, edge, main_pc, new_clients, valid, m_index, given, posted, shared, exhausted>>
  BY DEF kernel_vars, main_vars, pool_vars
<1>2. QuietWhenGone'
  BY <1>1 DEF QuietWhenGone, Made, BeingMade
<1>3. ServerTypeOK' /\ OneClient' /\ GivenToClients' /\ InTurn'
  <2>1. Made' => Made
    BY <1>1 DEF Made, BeingMade
  <2>2. {edge, posted, shared, exhausted}' \subseteq BOOLEAN
        /\ main_pc' \in {"loop", "accept", "hand_over", "make_shared", "insert", "stopped"}
    BY <1>1 DEF ServerTypeOK
  <2> QED
    BY <1>1, <2>1, <2>2, QueuesUnchanged
<1> QED
  BY <1>2, <1>3

\* A step of the server's end is a callback's, and a closed end has none left.
LEMMA ServerEndStep ==
  ASSUME LinkInv, QuietWhenGone,
         (EndStep("server") /\ ~SigPipe("server")) \/ ServerExecute
  PROVE  /\ in_connections' = in_connections
         /\ armed["server"] # "none" \/ pc["server"] # "idle"
         /\ armed'["server"] = "none" \/ pc'["server"] = "idle"
         /\ m_state'["server"] = "Closed" /\ m_state["server"] # "Closed" =>
              armed'["server"] = "none" /\ pc'["server"] = "idle"
<1>. USE DEF LinkInv, TypeOK, Ends
<1>1. CASE Callback("server")
  BY <1>1 DEF Callback
<1>2. CASE Receive("server") \/ Send("server")
  BY <1>2 DEF Receive, Send, QuietWhenGone
<1>3. CASE ReadClosed("server")
  BY <1>3 DEF ReadClosed, Finish, AfterClose
<1>4. CASE ReadError("server") \/ SendError("server")
  BY <1>4 DEF ReadError, SendError, OnError, Shutdown, Finish
<1>5. CASE WriteDone("server") \/ ServerExecute
  BY <1>5 DEF WriteDone, ServerExecute, ReadAll, Finish
<1> QED
  BY <1>1, <1>2, <1>3, <1>4, <1>5 DEF EndStep

\* A step of the client's end leaves the server's alone.
LEMMA ClientEndStep ==
  ASSUME LinkInv, ClientStep \/ (\E e \in Ends : Refuse(e)) \/ TimeOut \/ ClientGone
  PROVE  UNCHANGED <<in_connections, m_state["server"], armed["server"], pc["server"]>>
<1>. USE DEF LinkInv, TypeOK, Ends
<1>1. CASE Callback("client") \/ Receive("client") \/ Send("client") \/ WriteDone("client")
  BY <1>1 DEF Callback, Receive, Send, WriteDone, Finish
<1>2. CASE ReadClosed("client") \/ ReadError("client") \/ SendError("client")
  BY <1>2 DEF ReadClosed, ReadError, SendError, OnError, Shutdown, Finish
<1>3. CASE SigPipe("client") \/ ClientExecute
  BY <1>3 DEF SigPipe, EndClient, ClientExecute, Finish
<1>4. CASE (\E e \in Ends : Refuse(e)) \/ TimeOut \/ ClientGone
  BY <1>4 DEF Refuse, TimeOut, ClientGone
<1> QED
  BY <1>1, <1>2, <1>3, <1>4 DEF ClientStep, EndStep

LEMMA ProcessEnds ==
  ASSUME ServerIInv, EndServer, UNCHANGED <<kernel_vars, main_vars, posted>>
  PROVE  ServerIInv'
<1>1. LinkInv'
  BY EndServerStep DEF ServerIInv
<1>2. /\ in_connections' = in_connections /\ UNCHANGED <<m_state, armed>>
      /\ pc'["server"] = "idle"
  BY DEF EndServer, ServerIInv, LinkInv, TypeOK, Ends
<1> QED
  BY <1>1, <1>2, LinkStepKeeps

LEMMA IoStepKeeps == ASSUME ServerIInv, IoStep PROVE ServerIInv'
<1>. USE DEF ServerIInv
<1>1. CASE Register
  BY <1>1, MapStep
<1>2. CASE BadWeakPtr
  BY <1>2, ProcessEnds DEF BadWeakPtr
<1>3. CASE (EndStep("server") \/ ServerExecute) /\ UNCHANGED <<kernel_vars, main_vars, posted>>
  <2>1. LinkInv'
    BY <1>3, EndStepKeeps, ServerExecuteStep DEF Ends
  <2>2. CASE SigPipe("server")
    BY <1>3, <2>2, ProcessEnds DEF SigPipe
  <2>3. CASE (EndStep("server") /\ ~SigPipe("server")) \/ ServerExecute
    BY <1>3, <2>1, <2>3, ServerEndStep, LinkStepKeeps
  <2> QED
    BY <1>3, <2>2, <2>3
<1> QED
  BY <1>1, <1>2, <1>3 DEF IoStep

LEMMA WorldStepKeeps == ASSUME ServerIInv, WorldStep PROVE ServerIInv'
<1>. USE DEF ServerIInv
<1>1. UNCHANGED <<kernel_vars, main_vars, posted>>
  BY DEF WorldStep
<1>2. CASE ClientStep \/ (\E e \in Ends : Refuse(e)) \/ TimeOut \/ ClientGone
  <2>1. LinkInv'
    BY <1>2, EndStepKeeps, ClientExecuteStep, RefuseStep, TimeOutStep, ClientGoneStep DEF ClientStep, Ends
  <2>2. UNCHANGED <<in_connections, m_state["server"], armed["server"], pc["server"]>>
    BY <1>2, ClientEndStep
  <2> QED
    BY <1>1, <2>1, <2>2, LinkStepKeeps
<1>3. CASE ServerDies
  BY <1>1, <1>3, ProcessEnds DEF ServerDies
<1> QED
  BY <1>2, <1>3 DEF WorldStep

LEMMA ArriveStep == ASSUME ServerIInv, Arrive PROVE ServerIInv'
<1>. USE DEF ServerIInv
<1>1. /\ others < MaxOthers /\ others' = others + 1 /\ backlog' = Append(backlog, "other") /\ edge' = TRUE
      /\ UNCHANGED <<vars, main_pc, new_clients, valid, m_index, given, posted, shared, exhausted>>
  BY DEF Arrive, main_vars, pool_vars
<1>2. /\ backlog \in Seq(Client) /\ Once(backlog) /\ new_clients \in Seq(Client)
      /\ others \in Nat /\ given \in [Threads -> Nat]
  BY ArrivalsAssumption DEF ServerTypeOK, OneClient
<1>3. /\ backlog' \in Seq(Client) /\ Len(backlog') = Len(backlog) + 1
      /\ Once(backlog') /\ (In(backlog') => In(backlog))
  BY <1>1, <1>2, InAppended DEF Client
<1>4. LinkInv'
  BY <1>1, LinkUnchanged
<1>5. OneClient'
  <2>1. Made' = Made
    BY <1>1 DEF Made, BeingMade
  <2>2. Once(backlog)' = Once(backlog') /\ Once(new_clients)' = Once(new_clients)
        /\ In(backlog)' = In(backlog') /\ In(new_clients)' = In(new_clients)
    BY <1>1 DEF Once, In
  <2> QED
    BY <1>3, <2>1, <2>2 DEF OneClient
<1>6. GivenToClients'
  <2>1. ASSUME NEW t \in Threads PROVE given'[t] + Len(backlog') + Len(new_clients') <= others' + 1
    <3>1. given[t] + Len(backlog) + Len(new_clients) <= others + 1
      BY DEF GivenToClients
    <3>2. Len(backlog) \in Nat /\ Len(new_clients) \in Nat /\ given[t] \in Nat
      BY <1>2
    <3> QED
      BY <1>1, <1>2, <1>3, <3>1, <3>2
  <2> QED
    BY <2>1 DEF GivenToClients
<1>7. ServerTypeOK'
  <2>1. others' \in 0..MaxOthers
    BY <1>1, <1>2, ArrivalsAssumption
  <2>2. TypeOK'
    BY <1>4 DEF LinkInv
  <2> QED
    BY <1>1, <1>3, <2>1, <2>2 DEF ServerTypeOK
<1>8. InTurn' /\ QuietWhenGone'
  BY <1>1 DEF InTurn, QuietWhenGone, Made, BeingMade, vars
<1> QED
  BY <1>4, <1>5, <1>6, <1>7, <1>8

LEMMA InitServerIInv == ServerInit => ServerIInv
<1> SUFFICES ASSUME ServerInit PROVE ServerIInv
  OBVIOUS
<1>1. LinkInv /\ m_state["server"] = "Connected" /\ armed["server"] = "none" /\ pc["server"] = "idle"
      /\ in_connections = FALSE
  <2>1. InitWith("none", FALSE)
    BY DEF ServerInit
  <2> QED
    BY <2>1, InitLinkInv DEF InitWith, Ends
<1>2. /\ main_pc = "loop" /\ new_clients = <<>> /\ posted = FALSE /\ shared = FALSE /\ exhausted = FALSE
      /\ edge = TRUE /\ valid \in Pools /\ m_index = 0 /\ given = [t \in Threads |-> 0]
      /\ others \in 0..MaxOthers
  BY DEF ServerInit, Listening, PoolMade
<1>3. PICK before : before = [i \in 1..others |-> "other"]
  OBVIOUS
<1>4. others \in Nat /\ before \in Seq(Client) /\ Len(before) = others /\ Once(before) /\ ~In(before)
  <2>1. others \in Nat
    BY <1>2, ArrivalsAssumption
  <2>2. before \in Seq(Client) /\ Len(before) = others
    BY <1>3, <2>1 DEF Client
  <2>3. \A i \in 1..Len(before) : before[i] = "other"
    BY <1>3, <2>1, <2>2
  <2> QED
    BY <2>1, <2>2, <2>3 DEF Once, In
<1>5. backlog = Append(before, "client")
  BY <1>3 DEF ServerInit, Listening
<1>6. backlog \in Seq(Client) /\ Len(backlog) = others + 1 /\ Once(backlog)
  BY <1>4, <1>5, InAppended DEF Client
<1>7. valid \subseteq Threads /\ 0 \in Threads
  <2>1. 0 \in Threads
    BY ThreadsAreNumbers
  <2> QED
    BY <1>2, <2>1, PoolAssumption
<1>8. GivenToClients
  BY <1>2, <1>4, <1>6 DEF GivenToClients
<1>9. ServerTypeOK
  <2>1. given \in [Threads -> 0..(MaxOthers + 1)]
    BY <1>2, ArrivalsAssumption
  <2>2. new_clients \in Seq(Client)
    BY <1>2
  <2>3. TypeOK
    BY <1>1 DEF LinkInv
  <2> QED
    BY <1>2, <1>6, <1>7, <2>1, <2>2, <2>3 DEF ServerTypeOK
<1>10. OneClient /\ QuietWhenGone
  BY <1>1, <1>2, <1>6 DEF OneClient, QuietWhenGone, Made, BeingMade, Once, In
<1>11. InTurn
  <2>1. \A t \in Threads : given[t] = 0 /\ ~(t < m_index)
    BY <1>2, ThreadsAreNumbers
  <2> QED
    BY <1>7, <2>1 DEF InTurn
<1> QED
  BY <1>1, <1>8, <1>9, <1>10, <1>11 DEF ServerIInv

LEMMA ServerInvariance == ServerSpec => []ServerIInv
<1>1. ServerIInv /\ [ServerNext]_server_vars => ServerIInv'
  <2> SUFFICES ASSUME ServerIInv, [ServerNext]_server_vars PROVE ServerIInv'
    OBVIOUS
  <2>1. CASE AcceptCallback \/ AcceptFails \/ MakeShared \/ HandedOver \/ Stop
    BY <2>1, MainStepKeeps
  <2>2. CASE Accept
    BY <2>2, AcceptStep
  <2>3. CASE HandOverOther \/ Construct
    BY <2>3, HandOverStep
  <2>4. CASE Insert \/ Clear
    BY <2>4, MapStep
  <2>5. CASE NoIoThread \/ Exit
    <3>1. EndServer /\ UNCHANGED <<kernel_vars, main_vars, posted>>
      BY <2>5 DEF NoIoThread, Exit, Main, main_vars
    <3> QED
      BY <3>1, ProcessEnds
  <2>6. CASE IoStep
    BY <2>6, IoStepKeeps
  <2>7. CASE Arrive
    BY <2>7, ArriveStep
  <2>8. CASE WorldStep
    BY <2>8, WorldStepKeeps
  <2>9. CASE UNCHANGED server_vars
    <3>1. UNCHANGED <<vars, kernel_vars, main_vars, posted>>
      BY <2>9 DEF server_vars
    <3>2. LinkInv' /\ UNCHANGED <<m_state, armed, pc, in_connections>>
      BY <3>1, LinkUnchanged DEF ServerIInv, vars
    <3> QED
      BY <3>1, <3>2, LinkStepKeeps
  <2> QED
    BY <2>1, <2>2, <2>3, <2>4, <2>5, <2>6, <2>7, <2>8, <2>9 DEF ServerNext, MainStep
<1> QED
  BY <1>1, InitServerIInv, PTL DEF ServerSpec

-----------------------------------------------------------------------------
(* The theorems.                                                           *)

\* The server's state has its type, and no thread is given more connections
\* than clients have come (run(), accept() and get_io_thread()).
THEOREM ServerTypeCorrect == ServerSpec => []ServerTypeOK
<1>1. ServerIInv => ServerTypeOK
  BY DEF ServerIInv
<1> QED
  BY <1>1, ServerInvariance, PTL

\* Neither end takes the other for gone while it is there, also while the main
\* thread is still making the connection.
THEOREM NoFalseHangUpOfAServer == ServerSpec => []NoFalseHangUp
<1>1. ServerIInv => NoFalseHangUp
  BY DEF ServerIInv, LinkInv
<1> QED
  BY <1>1, ServerInvariance, PTL

\* When the main thread erases a connection, its I/O thread has nothing left
\* that points to it (clear_invalid_connection() against listen_read()).
THEOREM ErasedWhenQuiet == ServerSpec => []NothingDangles
<1>1. ServerIInv => NothingDangles
  BY DEF ServerIInv, QuietWhenGone, NothingDangles, Made
<1> QED
  BY <1>1, ServerInvariance, PTL

\* However many threads there are, which of them are valid and however many
\* clients come, the connections are spread evenly (get_io_thread()).
THEOREM PoolIsBalanced == ServerSpec => []Balanced
<1>1. ASSUME ServerIInv PROVE Balanced
  <2>1. ASSUME NEW t \in valid, NEW u \in valid PROVE given[t] <= given[u] + 1
    <3>1. given[t] \in Nat /\ given[u] \in Nat
      BY <1>1, ArrivalsAssumption DEF ServerIInv, ServerTypeOK
    <3>2. \/ given[t] = given[u] \/ given[t] = given[u] + 1 \/ given[u] = given[t] + 1
      BY <1>1 DEF ServerIInv, InTurn
    <3> QED
      BY <3>1, <3>2
  <2> QED
    BY <1>1, <2>1 DEF Balanced, ServerIInv, InTurn
<1> QED
  BY <1>1, ServerInvariance, PTL
=============================================================================

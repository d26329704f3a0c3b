------------------------------- MODULE RpcWire -------------------------------
(***************************************************************************)
(* The wire format of src/zest/net/rpc/rpc_protocol.cc: the encoder at one *)
(* end of a connection, the decoder at the other, and the two TcpBuffers   *)
(* and the stream between them, which delivers the bytes in pieces of any  *)
(* size.                                                                   *)
(*                                                                         *)
(* A byte is a number.  An integer is four bytes, the most significant     *)
(* first.  The sum of a packet is neither computed nor checked by the code *)
(* (its fill_check_sum() and valid_check_sum() are stubs), so the state    *)
(* that would check it is passed over.                                     *)
(***************************************************************************)
EXTENDS TcpBuffer, SequencesExt

CONSTANTS
  Messages,  \* the protocols that may be sent
  MaxSent,   \* bound: how many are sent
  Room       \* how many bytes the kernel takes from one send()

START_FLAG == 2
END_FLAG == 3
INT32_MAX == 2147483647

ASSUME BytesAssumption == Bytes = 0..255
ASSUME BoundsAssumption == MaxSent \in Nat /\ Room \in Nat \ {0}
VARIABLES
  m_out_buffer,    \* of the sending connection
  stream,          \* kernel: bytes on their way
  m_in_buffer,     \* of the receiving connection
  m_state,         \* RpcDecoder's
  m_remain_len,
  m_req_protocol,
  decoding,        \* the receiver is in the loop around decode()
  sent,            \* history: the protocols encoded
  received         \* history: the protocols decode() returned

buffer_vars == <<m_out_buffer, stream, m_in_buffer>>
decoder_vars == <<m_state, m_remain_len, m_req_protocol>>
vars == <<buffer_vars, decoder_vars, decoding, sent, received>>

-----------------------------------------------------------------------------
(* The encoder.                                                            *)

\* htonl() and memcpy()
NetInt(n) ==
  <<(((n \div 256) \div 256) \div 256) % 256, ((n \div 256) \div 256) % 256,
    (n \div 256) % 256, n % 256>>

\* get_int32_from_net_bytes()
HostInt(s) == 256 * (256 * (256 * s[1] + s[2]) + s[3]) + s[4]

\* Mutation: the sum is counted twice.
PkLenLong(p) ==
  1 + 4 + 4 + Len(p.m_msg_id) + 4 + Len(p.m_method_name) + 4 + 4 + Len(p.m_error_info)
    + Len(p.m_rpc_data) + 4 + 4 + 1

\* The length prepare() and process() give a packet.
PkLen(p) ==
  1 + 4 + 4 + Len(p.m_msg_id) + 4 + Len(p.m_method_name) + 4 + 4 + Len(p.m_error_info)
    + Len(p.m_rpc_data) + 4 + 1

\* The fields of a packet in the order RpcEncoder() adds them.
Fields(p) ==
  <<<<START_FLAG>>, NetInt(PkLen(p)),
    NetInt(Len(p.m_msg_id)), p.m_msg_id,
    NetInt(Len(p.m_method_name)), p.m_method_name,
    NetInt(p.m_error_code),
    NetInt(Len(p.m_error_info)), p.m_error_info,
    p.m_rpc_data, NetInt(0), <<END_FLAG>>>>

\* RpcEncoder()
Encoded(p) == FlattenSeq(Fields(p))

\* generateMsgID() makes the ids, and a method has a name.  Lengths are those of
\* an int32_t, beyond which protobuf serializes nothing.
ASSUME MessagesAssumption ==
  /\ Messages \subseteq [m_msg_id : Seq(Bytes) \ {<<>>}, m_method_name : Seq(Bytes) \ {<<>>},
                         m_error_code : Bytes, m_error_info : Seq(Bytes), m_rpc_data : Seq(Bytes)]
  /\ \A p \in Messages : PkLen(p) <= INT32_MAX

-----------------------------------------------------------------------------
(* The decoder.                                                            *)

\* The states in the order decode() goes through them.
Order == <<"WAITING_START_FLAG", "PARSE_PK_LEN", "PARSE_MSG_ID_LEN", "PARSE_MSG_ID",
           "PARSE_METHOD_NAME_LEN", "PARSE_METHOD_NAME", "PARSE_ERROR_CODE",
           "PARSE_ERROR_INFO_LEN", "PARSE_ERROR_INFO", "PARSE_RPC_DATA", "PARSE_CHECK_SUM",
           "WAITING_END_FLAG", "PARSE_SUCCESS">>

NextState == Order[(CHOOSE i \in DOMAIN Order : Order[i] = m_state) + 1]

\* The states that take an integer, and the member it goes to.
IntMember ==
  [PARSE_PK_LEN |-> "m_pk_len", PARSE_MSG_ID_LEN |-> "m_msg_id_len",
   PARSE_METHOD_NAME_LEN |-> "m_method_name_len", PARSE_ERROR_CODE |-> "m_error_code",
   PARSE_ERROR_INFO_LEN |-> "m_error_info_len", PARSE_CHECK_SUM |-> "m_check_sum"]

\* The states that take a string, and the member it goes to.
StringMember ==
  [PARSE_MSG_ID |-> "m_msg_id", PARSE_METHOD_NAME |-> "m_method_name",
   PARSE_ERROR_INFO |-> "m_error_info", PARSE_RPC_DATA |-> "m_rpc_data"]

\* RpcProtocol::clear()
Cleared ==
  [member \in Range(IntMember) \cup Range(StringMember) |->
     IF member \in Range(IntMember) THEN 0 ELSE <<>>]

\* The length of the string the state takes.
StringLen ==
  CASE m_state = "PARSE_MSG_ID" -> m_req_protocol.m_msg_id_len
    [] m_state = "PARSE_METHOD_NAME" -> m_req_protocol.m_method_name_len
    [] m_state = "PARSE_ERROR_INFO" -> m_req_protocol.m_error_info_len
    [] m_state = "PARSE_RPC_DATA" -> m_remain_len - 5

\* How many bytes the state takes.
Taken ==
  CASE m_state \in DOMAIN IntMember -> 4
    [] m_state \in DOMAIN StringMember -> StringLen
    [] OTHER -> 1

\* There are not that many yet.
Starved == Size(m_in_buffer) < Taken

TypeOK ==
  /\ m_out_buffer \in Buffer /\ m_in_buffer \in Buffer
  /\ stream \in Seq(Bytes)
  /\ m_state \in Range(Order) \cup {"PARSE_FAILED"}
  /\ m_remain_len \in Nat
  /\ \A member \in Range(IntMember) : m_req_protocol[member] \in Nat
  /\ \A member \in Range(StringMember) : m_req_protocol[member] \in Seq(Bytes)
  /\ decoding \in BOOLEAN
  /\ sent \in Seq(Messages)

Init ==
  /\ m_out_buffer = EmptyBuffer /\ stream = <<>> /\ m_in_buffer = EmptyBuffer
  /\ m_state = "WAITING_START_FLAG"
  /\ m_remain_len = 0
  /\ m_req_protocol = Cleared
  /\ decoding = FALSE
  /\ sent = <<>>
  /\ received = <<>>

\* A protocol is encoded into the output.  The strings are added with
\* operator+=, which shrinks the buffer first.
Encode(p) ==
  /\ Len(sent) < MaxSent
  /\ m_out_buffer' = AppendBytes(Shrink(m_out_buffer), Encoded(p))
  /\ sent' = Append(sent, p)
  /\ UNCHANGED <<stream, m_in_buffer, decoder_vars, decoding, received>>

\* send() takes as much as there is room for.
Send ==
  /\ Size(m_out_buffer) > 0
  /\ LET n == Min({Size(m_out_buffer), Room})
     IN  /\ stream' = stream \o SubSeq(Contents(m_out_buffer), 1, n)
         /\ m_out_buffer' = MoveForward(Shrink(m_out_buffer), n)
  /\ UNCHANGED <<m_in_buffer, decoder_vars, decoding, sent, received>>

\* Mutation: decode() clears the protocol whatever its state.
ClearedAnyway == Cleared

\* The protocol decode() goes on with: it clears the one it failed on.
GoneOnWith == IF m_state = "PARSE_FAILED" THEN Cleared ELSE m_req_protocol

\* recv() brings some bytes, and then the receiver decodes, anew if it failed.
Receive ==
  /\ ~decoding
  /\ \E n \in 1..Len(stream) :
       /\ m_in_buffer' = AppendBytes(m_in_buffer, SubSeq(stream, 1, n))
       /\ stream' = SubSeq(stream, n + 1, Len(stream))
  /\ decoding' = TRUE
  /\ m_state' = IF m_state = "PARSE_FAILED" THEN "WAITING_START_FLAG" ELSE m_state
  /\ m_req_protocol' = GoneOnWith
  /\ UNCHANGED <<m_out_buffer, m_remain_len, sent, received>>

\* decode() returns nullptr for want of bytes.
ReturnNull ==
  /\ decoding
  /\ m_state # "PARSE_SUCCESS" /\ Starved
  /\ decoding' = FALSE
  /\ UNCHANGED <<buffer_vars, decoder_vars, sent, received>>

\* The bytes the state takes are there and are passed over.
Take ==
  /\ decoding /\ ~Starved
  /\ m_in_buffer' = MoveForward(m_in_buffer, Taken)
  /\ m_state' = NextState
  /\ UNCHANGED <<m_out_buffer, stream, decoding, sent, received>>

Flag == IF m_state = "WAITING_START_FLAG" THEN START_FLAG ELSE END_FLAG

\* The byte is the flag, or decode() fails and returns nullptr.
ParseFlag ==
  /\ m_state \in {"WAITING_START_FLAG", "WAITING_END_FLAG"}
  /\ decoding /\ ~Starved
  /\ IF At(m_in_buffer, 1) = Flag
     THEN Take
     ELSE /\ m_state' = "PARSE_FAILED" /\ decoding' = FALSE
          /\ UNCHANGED <<buffer_vars, sent, received>>
  /\ UNCHANGED <<m_remain_len, m_req_protocol>>

ParseInt ==
  /\ m_state \in DOMAIN IntMember
  /\ Take
  /\ LET n == HostInt(Substr(m_in_buffer, 4))
     IN  /\ m_req_protocol' = [m_req_protocol EXCEPT ![IntMember[m_state]] = n]
         /\ m_remain_len' = IF m_state = "PARSE_PK_LEN" THEN n - 5 ELSE m_remain_len - 4

ParseString ==
  /\ m_state \in DOMAIN StringMember
  /\ Take
  /\ m_req_protocol' =
       [m_req_protocol EXCEPT ![StringMember[m_state]] = Substr(m_in_buffer, StringLen)]
  /\ m_remain_len' = m_remain_len - StringLen

\* decode() returns a protocol and is called again.
ReturnProtocol ==
  /\ decoding /\ m_state = "PARSE_SUCCESS"
  /\ received' = Append(received, m_req_protocol)
  /\ m_req_protocol' = Cleared
  /\ m_state' = "WAITING_START_FLAG"
  /\ UNCHANGED <<buffer_vars, m_remain_len, decoding, sent>>

Next ==
  \/ \E p \in Messages : Encode(p)
  \/ Send \/ Receive
  \/ ReturnNull \/ ParseFlag \/ ParseInt \/ ParseString \/ ReturnProtocol

Spec == Init /\ [][Next]_vars

-----------------------------------------------------------------------------

\* The bytes that were encoded and that the decoder has not taken.
Unread == Contents(m_in_buffer) \o (stream \o Contents(m_out_buffer))

\* The bytes of the protocols encoded from the i-th on.
EncodedFrom(i) == FlattenSeq([j \in 1..(Len(sent) + 1 - i) |-> Encoded(sent[i - 1 + j])])

\* decode() stays in step with the packets, however they were cut up on the
\* way: it never fails, before a start flag what it has not taken is the packets
\* it has not returned, and a receiver that waits for bytes with none on the way
\* has returned them all, for it never gives up on a packet it has all of (the
\* states of RpcDecoder::decode()).
InStep ==
  /\ m_state # "PARSE_FAILED"
  /\ m_state = "WAITING_START_FLAG" => Unread = EncodedFrom(Len(received) + 1)
  /\ ~decoding /\ m_out_buffer = EmptyBuffer /\ stream = <<>> => Len(received) = Len(sent)

\* A protocol is returned in the order it was encoded, with the id, the name
\* and the error code it was encoded with, and with its error information and
\* its data when they are not empty (decode() and RpcEncoder()).
FieldsArrive ==
  /\ Len(received) <= Len(sent)
  /\ \A i \in DOMAIN received :
       /\ \A member \in {"m_msg_id", "m_method_name", "m_error_code"} :
            received[i][member] = sent[i][member]
       /\ \A member \in {"m_error_info", "m_rpc_data"} :
            sent[i][member] # <<>> => received[i][member] = sent[i][member]

\* A protocol is returned with the serialized data it was encoded with
\* (rpc_protocol.h:40), also when that is empty.
DataArrives == \A i \in DOMAIN received : received[i].m_rpc_data = sent[i].m_rpc_data
=============================================================================

----------------------------- MODULE RpcService -----------------------------
(***************************************************************************)
(* zest::RpcService (src/zest/net/rpc/rpc_service.cc) behind the decoder   *)
(* of a connection: server_execute() hands every protocol that decode()    *)
(* returns to process(), which looks up the method and, unless something   *)
(* is wrong with the request, calls it with a closure that encodes the     *)
(* response.                                                               *)
(*                                                                         *)
(* The I/O thread runs decode(), process() and the method without a break, *)
(* so one step does a request.  A method cannot keep the closure, which    *)
(* process() destroys: it runs it or never does.  The response's protocol  *)
(* is reused for the next request, but process() and the closure set all   *)
(* that the encoder reads.                                                 *)
(***************************************************************************)
EXTENDS RpcWire

CONSTANTS
  Services,    \* full name of a service -> name of a method -> what it does
  Serialized,  \* the data a method's request can be deserialized from
  Reply        \* the data of a response

Outcomes == {"done", "not serializable", "silent"}

ASSUME ServicesAssumption ==
  /\ DOMAIN Services \subseteq Seq(Bytes)
  /\ \A service \in DOMAIN Services :
       /\ DOMAIN Services[service] \subseteq Seq(Bytes)
       /\ Range(Services[service]) \subseteq Outcomes

VARIABLES
  m_service_map,
  responses      \* history: the protocols encoded into the connection's output

service_vars == <<m_service_map, responses>>

ERROR_NONE == 0
ERROR_SERIALIZE_FAILED == 3
Dot == 46

ServiceTypeOK ==
  /\ TypeOK
  /\ DOMAIN m_service_map \subseteq DOMAIN Services
  /\ \A service \in DOMAIN m_service_map : m_service_map[service] = Services[service]
  /\ responses \in
       Seq([m_msg_id : Seq(Bytes), m_method_name : Seq(Bytes),
            m_error_code : {ERROR_NONE, ERROR_SERIALIZE_FAILED}, m_rpc_data : {Reply, <<>>}])

ServiceInit ==
  /\ Init
  /\ m_service_map = <<>>
  /\ responses = <<>>

\* The program registers its services before it starts the server; a second
\* service of a name is turned away with an exception.
RegisterService(service) ==
  /\ sent = <<>>
  /\ m_service_map' = [name \in DOMAIN m_service_map \cup {service} |->
                        IF name \in DOMAIN m_service_map THEN m_service_map[name] ELSE Services[name]]
  /\ UNCHANGED <<vars, responses>>

-----------------------------------------------------------------------------

\* parse_method_full_name(): the names before and after the first dot.
DotAt(name) == SelectInSeq(name, LAMBDA byte : byte = Dot)
ServiceName(name) == SubSeq(name, 1, DotAt(name) - 1)

\* Mutation: the name of the method begins at the dot.
MethodNameAtDot(name) == SubSeq(name, DotAt(name), Len(name))

MethodName(name) == SubSeq(name, DotAt(name) + 1, Len(name))

\* What the closure encodes for a request, if the method runs it.
Response(request, outcome) ==
  [m_msg_id |-> request.m_msg_id, m_method_name |-> request.m_method_name,
   m_error_code |-> IF outcome = "done" THEN ERROR_NONE ELSE ERROR_SERIALIZE_FAILED,
   m_rpc_data |-> IF outcome = "done" THEN Reply ELSE <<>>]

\* The checks of process(), each of which ends it with an error in a protocol
\* that nothing encodes.
Callable(request) ==
  LET name == request.m_method_name
  IN  /\ DotAt(name) # 0
      /\ ServiceName(name) \in DOMAIN m_service_map
      /\ MethodName(name) \in DOMAIN m_service_map[ServiceName(name)]
      /\ request.m_rpc_data \in Serialized

\* What the method does when process() calls it.
Outcome(name) == m_service_map[ServiceName(name)][MethodName(name)]

\* decode() returns a request and process() handles it.
Process ==
  /\ ReturnProtocol
  /\ responses' =
       IF Callable(m_req_protocol) /\ Outcome(m_req_protocol.m_method_name) # "silent"
       THEN Append(responses, Response(m_req_protocol, Outcome(m_req_protocol.m_method_name)))
       ELSE responses
  /\ UNCHANGED m_service_map

Decode == ReturnNull \/ ParseFlag \/ ParseInt \/ ParseString

ServiceNext ==
  \/ \E service \in DOMAIN Services : RegisterService(service)
  \/ (\E p \in Messages : Encode(p)) /\ UNCHANGED service_vars
  \/ (Send \/ Receive \/ Decode) /\ UNCHANGED service_vars
  \/ Process

ServiceSpec == ServiceInit /\ [][ServiceNext]_<<vars, service_vars>>

-----------------------------------------------------------------------------

\* The request names a method of a registered service.
Names(request, service, method) ==
  /\ service \in DOMAIN m_service_map /\ method \in DOMAIN m_service_map[service]
  /\ request.m_method_name = service \o <<Dot>> \o method

\* From the client's output to the server's: the responses are in the order of
\* the requests and at most one to each, carry the id and the name the client
\* gave its request and the outcome of the method it named, and leave out no
\* request that named a method of a registered service outside a package, with
\* data that can be deserialized and is not empty, unless the method never ran
\* the closure (server_execute() and RpcService::process()).
AnswersMatch ==
  \E answered \in [DOMAIN responses -> DOMAIN received] :
    /\ \A j, k \in DOMAIN responses : j < k => answered[j] < answered[k]
    /\ \A k \in DOMAIN responses :
         \E service \in DOMAIN Services : \E method \in DOMAIN Services[service] :
           /\ Names(sent[answered[k]], service, method)
           /\ responses[k] = Response(sent[answered[k]], Services[service][method])
    /\ \A i \in DOMAIN received \ Range(answered), service \in DOMAIN Services :
         \A method \in DOMAIN Services[service] :
           Names(sent[i], service, method) =>
             \/ Dot \in Range(service)
             \/ Services[service][method] = "silent"
             \/ sent[i].m_rpc_data \notin Serialized \ {<<>>}
=============================================================================

---------------------------- MODULE MCRpcService ----------------------------
(***************************************************************************)
(* Requests with the flags' values in their fields: to a method that       *)
(* answers, to one that never does, to one whose response cannot be        *)
(* serialized (with no data), and to a service in a package, this one with *)
(* the error information of a response.                                    *)
(***************************************************************************)
EXTENDS RpcService

MCBytes == 0..255
MCMessages ==
  {[m_msg_id |-> <<1>>, m_method_name |-> <<3, 46, 2>>, m_error_code |-> 0,
    m_error_info |-> <<>>, m_rpc_data |-> <<2, 3>>],
   [m_msg_id |-> <<2>>, m_method_name |-> <<3, 46, 5, 46, 2>>, m_error_code |-> 4,
    m_error_info |-> <<6>>, m_rpc_data |-> <<>>],
   [m_msg_id |-> <<3>>, m_method_name |-> <<3, 46, 4>>, m_error_code |-> 0,
    m_error_info |-> <<>>, m_rpc_data |-> <<>>],
   [m_msg_id |-> <<2>>, m_method_name |-> <<3, 46, 6>>, m_error_code |-> 0,
    m_error_info |-> <<>>, m_rpc_data |-> <<2, 3>>]}
MCServices ==
  (<<3>> :> (<<2>> :> "done" @@ <<4>> :> "not serializable" @@ <<6>> :> "silent"))
    @@ (<<3, 46, 5>> :> (<<2>> :> "done"))
MCSerialized == {<<>>, <<2, 3>>}
MCReply == <<8>>
=============================================================================

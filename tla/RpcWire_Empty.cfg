CONSTANTS
  Bytes <- MCBytes
  Messages <- MCMessages
  Services <- MCServices
  Serialized <- MCSerialized
  Reply <- MCReply
  MaxSent = 2
  Room = 20
SPECIFICATION ServiceSpec
CHECK_DEADLOCK FALSE
INVARIANT DataArrives

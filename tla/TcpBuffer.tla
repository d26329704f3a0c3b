------------------------------ MODULE TcpBuffer ------------------------------
(***************************************************************************)
(* zest::TcpBuffer (src/zest/net/tcp/tcp_buffer.h): a string of which the  *)
(* first m_start_index bytes have been used up.  A buffer is a record of   *)
(* the two members; what it holds is the rest of the string.               *)
(***************************************************************************)
EXTENDS Naturals, Sequences

CONSTANT Bytes

Buffer == {buf \in [m_buffer : Seq(Bytes), m_start_index : Nat] :
             buf.m_start_index <= Len(buf.m_buffer)}

EmptyBuffer == [m_buffer |-> <<>>, m_start_index |-> 0]

\* size()
Size(buf) == Len(buf.m_buffer) - buf.m_start_index

\* operator[], with the index counted from 1
At(buf, i) == buf.m_buffer[buf.m_start_index + i]

\* substr(0, n): n bytes, or with n = 0 all there are.
Substr(buf, n) ==
  SubSeq(buf.m_buffer, buf.m_start_index + 1,
         IF n # 0 THEN buf.m_start_index + n ELSE Len(buf.m_buffer))

\* shrink()
Shrink(buf) ==
  [m_buffer |-> SubSeq(buf.m_buffer, buf.m_start_index + 1, Len(buf.m_buffer)),
   m_start_index |-> 0]

\* append() and operator+=(char)
AppendBytes(buf, s) == [buf EXCEPT !.m_buffer = @ \o s]

\* Mutation: the bytes are dropped, and passed over as well.
MoveForwardTwice(buf, n) ==
  [m_buffer |-> SubSeq(buf.m_buffer, buf.m_start_index + n + 1, Len(buf.m_buffer)),
   m_start_index |-> buf.m_start_index + n]

\* move_forward(): past n bytes, the used ones dropped when they are more than
\* a third.
MoveForward(buf, n) ==
  LET moved == [buf EXCEPT !.m_start_index = @ + n]
  IN  IF moved.m_start_index * 3 > Len(moved.m_buffer) THEN Shrink(moved) ELSE moved

-----------------------------------------------------------------------------

\* What a buffer stands for: the bytes that have not been used.
Contents(buf) == SubSeq(buf.m_buffer, buf.m_start_index + 1, Len(buf.m_buffer))
=============================================================================

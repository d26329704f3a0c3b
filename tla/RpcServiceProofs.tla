--------------------------- MODULE RpcServiceProofs ---------------------------
(***************************************************************************)
(* What the operations of TcpBuffer do to what a buffer stands for, that   *)
(* the decoder of RpcWire stays in step with the packets, and that the     *)
(* responses of RpcService match the requests: for every buffer, message,  *)
(* service and method, and however the bytes are cut up on the way.        *)
(***************************************************************************)
EXTENDS RpcService, Lemmas

-----------------------------------------------------------------------------
(* TcpBuffer: m_start_index, and when the used bytes are dropped, is the   *)
(* buffer's own business.                                                  *)

LEMMA BufferFields ==
  ASSUME NEW buf \in Buffer
  PROVE  /\ buf.m_buffer \in Seq(Bytes) /\ Len(buf.m_buffer) \in Nat
         /\ buf.m_start_index \in 0..Len(buf.m_buffer)
         /\ buf = [m_buffer |-> buf.m_buffer, m_start_index |-> buf.m_start_index]
BY LenProperties DEF Buffer

\* What is left of a sequence after its first k elements.
LEMMA Rest ==
  ASSUME NEW S, NEW s \in Seq(S), NEW k \in 0..Len(s)
  PROVE  /\ SubSeq(s, k + 1, Len(s)) \in Seq(S)
         /\ Len(SubSeq(s, k + 1, Len(s))) = Len(s) - k
         /\ \A i \in 1..(Len(s) - k) : SubSeq(s, k + 1, Len(s))[i] = s[k + i]
<1>1. Len(s) \in Nat /\ k \in Nat
  BY LenProperties
<1>2. \A i \in (k + 1)..Len(s) : s[i] \in S
  BY <1>1, ElementOfSeq
<1>3. /\ SubSeq(s, k + 1, Len(s)) \in Seq(S)
      /\ Len(SubSeq(s, k + 1, Len(s))) =
           IF k + 1 <= Len(s) THEN Len(s) - (k + 1) + 1 ELSE 0
      /\ \A i \in 1..(Len(s) - (k + 1) + 1) :
           SubSeq(s, k + 1, Len(s))[i] = s[k + 1 + i - 1]
  BY <1>1, <1>2, SubSeqProperties
<1>4. \A i \in 1..(Len(s) - k) : SubSeq(s, k + 1, Len(s))[i] = s[k + i]
  <2>1. TAKE i \in 1..(Len(s) - k)
  <2>2. i \in 1..(Len(s) - (k + 1) + 1) /\ k + 1 + i - 1 = k + i
    BY <1>1, <2>1
  <2> QED
    BY <1>3, <2>2
<1> QED
  BY <1>1, <1>3, <1>4

LEMMA ContentsType ==
  ASSUME NEW buf \in Buffer
  PROVE  Contents(buf) \in Seq(Bytes) /\ Len(Contents(buf)) = Size(buf) /\ Size(buf) \in Nat
BY BufferFields, Rest DEF Contents, Size

LEMMA ContentsOf ==
  ASSUME NEW s, NEW k
  PROVE  Contents([m_buffer |-> s, m_start_index |-> k]) = SubSeq(s, k + 1, Len(s))
<1> DEFINE buf == [m_buffer |-> s, m_start_index |-> k]
<1>1. buf.m_buffer = s /\ buf.m_start_index = k
  OBVIOUS
<1>2. Contents(buf) = SubSeq(buf.m_buffer, buf.m_start_index + 1, Len(buf.m_buffer))
  BY DEF Contents
<1> HIDE DEF buf
<1>3. Contents(buf) = SubSeq(s, k + 1, Len(s))
  BY <1>1, <1>2, Zenon
<1> QED
  BY <1>3 DEF buf

\* shrink() gives a buffer that stands for the same bytes.
THEOREM ShrinkKeeps ==
  ASSUME NEW buf \in Buffer
  PROVE  /\ Shrink(buf) \in Buffer
         /\ Contents(Shrink(buf)) = Contents(buf)
<1> DEFINE s == Contents(buf)
<1>1. s \in Seq(Bytes) /\ Len(s) \in Nat
  BY ContentsType, LenProperties
<1>2. Shrink(buf) = [m_buffer |-> s, m_start_index |-> 0]
  BY DEF Shrink, Contents
<1>3. Shrink(buf) \in Buffer
  BY <1>1, <1>2 DEF Buffer
<1> HIDE DEF s
<1>4. Contents(Shrink(buf)) = SubSeq(s, 0 + 1, Len(s))
  BY <1>2, ContentsOf, Zenon
<1>5. SubSeq(s, 0 + 1, Len(s)) = s
  BY <1>1, SubSeqFull
<1> QED
  BY <1>3, <1>4, <1>5 DEF s

\* append() adds its bytes to what the buffer stands for.
THEOREM AppendAppends ==
  ASSUME NEW buf \in Buffer, NEW t \in Seq(Bytes)
  PROVE  /\ AppendBytes(buf, t) \in Buffer
         /\ Contents(AppendBytes(buf, t)) = Contents(buf) \o t
<1> DEFINE s == buf.m_buffer
           k == buf.m_start_index
           st == s \o t
<1>1. s \in Seq(Bytes) /\ Len(s) \in Nat /\ k \in 0..Len(s)
  BY BufferFields
<1>2. Len(t) \in Nat
  BY LenProperties
<1>3. /\ st \in Seq(Bytes) /\ Len(st) = Len(s) + Len(t)
      /\ \A i \in 1..(Len(s) + Len(t)) : st[i] = IF i <= Len(s) THEN s[i] ELSE t[i - Len(s)]
  BY <1>1, ConcatProperties
<1>4. AppendBytes(buf, t) = [m_buffer |-> st, m_start_index |-> k]
  <2>1. buf \in [m_buffer : Seq(Bytes), m_start_index : Nat]
    BY DEF Buffer
  <2>2. AppendBytes(buf, t) = [buf EXCEPT !.m_buffer = st]
    BY Zenon DEF AppendBytes
  <2> HIDE DEF st
  <2>3. [buf EXCEPT !.m_buffer = st] = [m_buffer |-> st, m_start_index |-> k]
    BY <2>1
  <2> QED
    BY <2>2, <2>3, Zenon
<1>5. AppendBytes(buf, t) \in Buffer
  BY <1>1, <1>2, <1>3, <1>4 DEF Buffer
<1>6. Contents(AppendBytes(buf, t)) = SubSeq(st, k + 1, Len(st))
  BY <1>4, ContentsOf, Zenon
<1> DEFINE a == SubSeq(st, k + 1, Len(st))
           r == SubSeq(s, k + 1, Len(s))
<1>7. /\ r \in Seq(Bytes) /\ Len(r) = Len(s) - k
      /\ \A i \in 1..(Len(s) - k) : r[i] = s[k + i]
  BY <1>1, Rest
<1>8. k \in 0..Len(st)
  BY <1>1, <1>2, <1>3
<1>9. /\ a \in Seq(Bytes) /\ Len(a) = Len(st) - k
      /\ \A i \in 1..(Len(st) - k) : a[i] = st[k + i]
  BY <1>3, <1>8, Rest
<1>10. /\ r \o t \in Seq(Bytes) /\ Len(r \o t) = Len(r) + Len(t)
       /\ \A i \in 1..(Len(r) + Len(t)) :
            (r \o t)[i] = IF i <= Len(r) THEN r[i] ELSE t[i - Len(r)]
  BY <1>7, ConcatProperties
<1>11. Len(a) = Len(r \o t)
  BY <1>1, <1>2, <1>3, <1>7, <1>9, <1>10
<1> DEFINE rt == r \o t
<1> HIDE DEF s, k, st, a, r, rt
<1>12. \A i \in 1..Len(a) : a[i] = rt[i]
  <2>1. TAKE i \in 1..Len(a)
  <2>2. i \in 1..(Len(r) + Len(t)) /\ k + i \in 1..(Len(s) + Len(t)) /\ i \in 1..(Len(st) - k)
    BY <1>1, <1>2, <1>3, <1>7, <1>9
  <2>3. a[i] = st[k + i]
    BY <1>9, <2>2
  <2>4. st[k + i] = IF k + i <= Len(s) THEN s[k + i] ELSE t[k + i - Len(s)]
    BY <1>1, <1>3, <2>2
  <2>5. rt[i] = IF i <= Len(r) THEN r[i] ELSE t[i - Len(r)]
    BY <1>10, <2>2 DEF rt
  <2>6. (k + i <= Len(s)) = (i <= Len(r)) /\ k + i - Len(s) = i - Len(r)
    BY <1>1, <1>2, <1>7, <2>2
  <2>7. i <= Len(r) => r[i] = s[k + i]
    BY <1>1, <1>2, <1>7, <2>2
  <2> QED
    BY <2>3, <2>4, <2>5, <2>6, <2>7
<1>13. a = rt
  BY <1>9, <1>10, <1>11, <1>12, SeqEqual DEF rt
<1> QED
  BY <1>5, <1>6, <1>13 DEF Contents, a, rt, r, s, k

\* move_forward() takes bytes off the front of what the buffer stands for,
\* whether it drops the used ones or not.
THEOREM MoveForwardTakes ==
  ASSUME NEW buf \in Buffer, NEW n \in 0..Size(buf)
  PROVE  /\ MoveForward(buf, n) \in Buffer
         /\ Contents(MoveForward(buf, n)) = SubSeq(Contents(buf), n + 1, Size(buf))
<1> DEFINE s == buf.m_buffer
           k == buf.m_start_index
           moved == [m_buffer |-> s, m_start_index |-> k + n]
<1>1. s \in Seq(Bytes) /\ Len(s) \in Nat /\ k \in 0..Len(s)
  BY BufferFields
<1>2. Size(buf) = Len(s) - k
  BY DEF Size
<1>3. moved \in Buffer
  BY <1>1, <1>2 DEF Buffer
<1>4. MoveForward(buf, n) \in {moved, Shrink(moved)}
  BY BufferFields DEF MoveForward
<1>5. MoveForward(buf, n) \in Buffer /\ Contents(MoveForward(buf, n)) = Contents(moved)
  BY <1>3, <1>4, ShrinkKeeps
<1> DEFINE a == SubSeq(s, k + n + 1, Len(s))
           r == SubSeq(s, k + 1, Len(s))
           b == SubSeq(r, n + 1, Len(r))
<1>6. /\ r \in Seq(Bytes) /\ Len(r) = Len(s) - k
      /\ \A i \in 1..(Len(s) - k) : r[i] = s[k + i]
  BY <1>1, Rest
<1>7. k + n \in 0..Len(s) /\ n \in 0..Len(r)
  BY <1>1, <1>2, <1>6
<1>8. /\ a \in Seq(Bytes) /\ Len(a) = Len(s) - (k + n)
      /\ \A i \in 1..(Len(s) - (k + n)) : a[i] = s[k + n + i]
  BY <1>1, <1>7, Rest
<1>9. /\ b \in Seq(Bytes) /\ Len(b) = Len(r) - n
      /\ \A i \in 1..(Len(r) - n) : b[i] = r[n + i]
  BY <1>6, <1>7, Rest
<1>10. Len(a) = Len(b)
  <2>. HIDE DEF a, b, r, s, k
  <2> QED
    BY <1>1, <1>6, <1>7, <1>8, <1>9
<1>11. \A i \in 1..Len(a) : a[i] = b[i]
  <2>1. TAKE i \in 1..Len(a)
  <2>2. i \in 1..(Len(s) - (k + n)) /\ i \in 1..(Len(r) - n)
    BY <1>8, <1>9, <1>10, <2>1
  <2>3. a[i] = s[k + n + i] /\ b[i] = r[n + i]
    BY <1>8, <1>9, <2>2
  <2>4. n + i \in 1..(Len(s) - k)
    BY <1>1, <1>7, <2>2
  <2>5. r[n + i] = s[k + (n + i)]
    BY <1>6, <2>4
  <2>6. k + (n + i) = k + n + i
    BY <1>1, <1>7, <2>2
  <2> QED
    BY <2>3, <2>5, <2>6
<1>12. a = b
  BY <1>8, <1>9, <1>10, <1>11, SeqEqual
<1>13. Contents(moved) = a
  BY DEF Contents
<1>14. b = SubSeq(Contents(buf), n + 1, Size(buf))
  BY <1>2, <1>6 DEF Contents
<1> QED
  BY <1>5, <1>12, <1>13, <1>14

-----------------------------------------------------------------------------
(* The packets.                                                            *)

LEMMA LowByte ==
  ASSUME NEW n \in Nat
  PROVE  \E m \in Nat, d \in 0..255 : m = n \div 256 /\ d = n % 256 /\ n = 256 * m + d
<1>1. PICK m \in Nat, d \in 0..255 : m = n \div 256 /\ d = n % 256
  <2>1. n \div 256 \in Nat /\ n % 256 \in 0..255
    OBVIOUS
  <2> QED
    BY <2>1
<1>2. n = 256 * m + d
  BY <1>1
<1> QED
  BY <1>1, <1>2

\* An integer of an int32_t that is not negative goes there and back.
LEMMA IntArrives ==
  ASSUME NEW n \in Nat, n <= INT32_MAX
  PROVE  NetInt(n) \in Seq(Bytes) /\ Len(NetInt(n)) = 4 /\ HostInt(NetInt(n)) = n
<1>1. n <= 2147483647
  BY SMT DEF INT32_MAX
<1>2. PICK n1 \in Nat, d \in 0..255 : n1 = n \div 256 /\ d = n % 256 /\ n = 256 * n1 + d
  BY LowByte, Zenon
<1>3. PICK n2 \in Nat, c \in 0..255 : n2 = n1 \div 256 /\ c = n1 % 256 /\ n1 = 256 * n2 + c
  BY LowByte, Zenon
<1>4. PICK n3 \in Nat, b \in 0..255 : n3 = n2 \div 256 /\ b = n2 % 256 /\ n2 = 256 * n3 + b
  BY LowByte, Zenon
<1>5. n3 <= 127 /\ n3 % 256 = n3
  <2>1. n = 256 * n1 + d /\ n1 = 256 * n2 + c /\ n2 = 256 * n3 + b
    BY <1>2, <1>3, <1>4
  <2>2. n3 <= 127
    BY <1>1, <2>1, SMT
  <2> QED
    BY <2>2
<1>6. NetInt(n) = <<n3, b, c, d>>
  <2>1. (((n \div 256) \div 256) \div 256) % 256 = n3
    BY <1>2, <1>3, <1>4, <1>5, Zenon
  <2>2. ((n \div 256) \div 256) % 256 = b
    BY <1>2, <1>3, <1>4, Zenon
  <2>3. (n \div 256) % 256 = c /\ n % 256 = d
    BY <1>2, <1>3, Zenon
  <2> QED
    BY <2>1, <2>2, <2>3, Zenon DEF NetInt
<1>7. HostInt(<<n3, b, c, d>>) = 256 * (256 * (256 * n3 + b) + c) + d
  BY DEF HostInt
<1>8. n3 \in 0..255
  BY <1>5
<1> QED
  <2>1. n = 256 * (256 * (256 * n3 + b) + c) + d
    <3>1. n = 256 * n1 + d /\ n1 = 256 * n2 + c /\ n2 = 256 * n3 + b
      BY <1>2, <1>3, <1>4
    <3> QED
      BY <3>1
  <2>2. <<n3, b, c, d>> \in Seq(Bytes) /\ Len(<<n3, b, c, d>>) = 4
    BY <1>8, BytesAssumption
  <2> QED
    BY <1>6, <1>7, <2>1, <2>2

LEMMA MessageFields ==
  ASSUME NEW p \in Messages
  PROVE  /\ p.m_msg_id \in Seq(Bytes) \ {<<>>} /\ p.m_method_name \in Seq(Bytes) \ {<<>>}
         /\ p.m_error_code \in Bytes /\ p.m_error_info \in Seq(Bytes) /\ p.m_rpc_data \in Seq(Bytes)
         /\ Len(p.m_msg_id) \in Nat /\ Len(p.m_method_name) \in Nat
         /\ Len(p.m_error_info) \in Nat /\ Len(p.m_rpc_data) \in Nat
         /\ PkLen(p) = 26 + Len(p.m_msg_id) + Len(p.m_method_name) + Len(p.m_error_info) + Len(p.m_rpc_data)
         /\ PkLen(p) <= INT32_MAX
<1>1. /\ p.m_msg_id \in Seq(Bytes) \ {<<>>} /\ p.m_method_name \in Seq(Bytes) \ {<<>>}
      /\ p.m_error_code \in Bytes /\ p.m_error_info \in Seq(Bytes) /\ p.m_rpc_data \in Seq(Bytes)
      /\ PkLen(p) <= INT32_MAX
  BY MessagesAssumption
<1>2. /\ Len(p.m_msg_id) \in Nat /\ Len(p.m_method_name) \in Nat
      /\ Len(p.m_error_info) \in Nat /\ Len(p.m_rpc_data) \in Nat
  BY <1>1, LenProperties
<1>3. PICK a \in Nat, b \in Nat, c \in Nat, d \in Nat :
        /\ a = Len(p.m_msg_id) /\ b = Len(p.m_method_name)
        /\ c = Len(p.m_error_info) /\ d = Len(p.m_rpc_data)
  BY <1>2
<1>4. PkLen(p) = 26 + a + b + c + d
  <2>1. PkLen(p) = 1 + 4 + 4 + a + 4 + b + 4 + 4 + c + d + 4 + 1
    BY <1>3, Zenon DEF PkLen
  <2> QED
    BY <2>1
<1> QED
  BY <1>1, <1>2, <1>3, <1>4, Zenon

\* The integers of a packet are those of an int32_t.
LEMMA FieldInts ==
  ASSUME NEW p \in Messages,
         NEW n \in {PkLen(p), Len(p.m_msg_id), Len(p.m_method_name), p.m_error_code, Len(p.m_error_info), 0}
  PROVE  NetInt(n) \in Seq(Bytes) /\ Len(NetInt(n)) = 4 /\ HostInt(NetInt(n)) = n
<1>1. PICK a \in Nat, b \in Nat, c \in Nat, d \in Nat :
        /\ a = Len(p.m_msg_id) /\ b = Len(p.m_method_name)
        /\ c = Len(p.m_error_info) /\ d = Len(p.m_rpc_data)
  BY MessageFields, Zenon
<1>2. PkLen(p) = 26 + a + b + c + d /\ PkLen(p) <= INT32_MAX
  BY <1>1, MessageFields, Zenon
<1>3. PICK e \in 0..255 : e = p.m_error_code
  BY MessageFields, BytesAssumption, Zenon
<1>4. n \in {26 + a + b + c + d, a, b, e, c, 0}
  BY <1>1, <1>2, <1>3, Zenon
<1>5. INT32_MAX \in Nat /\ INT32_MAX > 255
  BY SMT DEF INT32_MAX
<1>6. n \in Nat /\ (n <= 255 \/ n <= 26 + a + b + c + d)
  BY <1>4
<1>7. n \in Nat /\ n <= INT32_MAX
  BY <1>2, <1>5, <1>6
<1> QED
  BY <1>7, IntArrives

\* The fields of a packet from the k-th on.
Left(p, k) == SubSeq(Fields(p), k, 12)

LEMMA FieldsType ==
  ASSUME NEW p \in Messages
  PROVE  Fields(p) \in Seq(Seq(Bytes)) /\ Len(Fields(p)) = 12
<1>1. /\ NetInt(PkLen(p)) \in Seq(Bytes) /\ NetInt(Len(p.m_msg_id)) \in Seq(Bytes)
      /\ NetInt(Len(p.m_method_name)) \in Seq(Bytes) /\ NetInt(p.m_error_code) \in Seq(Bytes)
      /\ NetInt(Len(p.m_error_info)) \in Seq(Bytes) /\ NetInt(0) \in Seq(Bytes)
  BY FieldInts
<1>2. /\ p.m_msg_id \in Seq(Bytes) /\ p.m_method_name \in Seq(Bytes)
      /\ p.m_error_info \in Seq(Bytes) /\ p.m_rpc_data \in Seq(Bytes)
  BY MessageFields
<1>3. <<START_FLAG>> \in Seq(Bytes) /\ <<END_FLAG>> \in Seq(Bytes)
  BY BytesAssumption DEF START_FLAG, END_FLAG
<1>4. PICK S : S = Seq(Bytes)
  OBVIOUS
<1>5. PICK f2, f3, f5, f7, f8, f11 :
        /\ f2 = NetInt(PkLen(p)) /\ f3 = NetInt(Len(p.m_msg_id)) /\ f5 = NetInt(Len(p.m_method_name))
        /\ f7 = NetInt(p.m_error_code) /\ f8 = NetInt(Len(p.m_error_info)) /\ f11 = NetInt(0)
  OBVIOUS
<1>6. PICK f1, f4, f6, f9, f10, f12 :
        /\ f1 = <<START_FLAG>> /\ f12 = <<END_FLAG>> /\ f4 = p.m_msg_id /\ f6 = p.m_method_name
        /\ f9 = p.m_error_info /\ f10 = p.m_rpc_data
  OBVIOUS
<1>7. Fields(p) = <<f1, f2, f3, f4, f5, f6, f7, f8, f9, f10, f11, f12>>
  BY <1>5, <1>6 DEF Fields
<1>8. /\ f1 \in S /\ f2 \in S /\ f3 \in S /\ f4 \in S /\ f5 \in S /\ f6 \in S
      /\ f7 \in S /\ f8 \in S /\ f9 \in S /\ f10 \in S /\ f11 \in S /\ f12 \in S
  BY <1>1, <1>2, <1>3, <1>4, <1>5, <1>6
<1>9. Fields(p) \in Seq(S) /\ Len(Fields(p)) = 12
  BY <1>7, <1>8
<1> QED
  BY <1>4, <1>9

\* What is left of a packet begins with its k-th field.
LEMMA LeftUnfolds ==
  ASSUME NEW p \in Messages, NEW k \in 1..12
  PROVE  /\ Fields(p)[k] \in Seq(Bytes)
         /\ FlattenSeq(Left(p, k)) \in Seq(Bytes) /\ FlattenSeq(Left(p, k + 1)) \in Seq(Bytes)
         /\ FlattenSeq(Left(p, k)) = Fields(p)[k] \o FlattenSeq(Left(p, k + 1))
<1>1. PICK f \in Seq(Seq(Bytes)) : f = Fields(p) /\ Len(f) = 12
  BY FieldsType
<1>2. PICK T : T = Seq(Bytes)
  OBVIOUS
<1>3. f \in Seq(T) /\ f[k] \in T
  BY <1>1, <1>2, ElementOfSeq
<1>4. PICK a : a = SubSeq(f, k, 12)
  OBVIOUS
<1>5. PICK b : b = SubSeq(f, k + 1, 12)
  OBVIOUS
<1>6. a \in Seq(T) /\ Len(a) = 13 - k /\ \A i \in 1..(13 - k) : a[i] = f[k - 1 + i]
  <2>1. k - 1 \in 0..Len(f) /\ (k - 1) + 1 = k /\ Len(f) - (k - 1) = 13 - k
    BY <1>1
  <2>2. a = SubSeq(f, (k - 1) + 1, Len(f))
    BY <1>1, <1>4, <2>1
  <2>3. a \in Seq(T) /\ Len(a) = Len(f) - (k - 1) /\ \A i \in 1..(Len(f) - (k - 1)) : a[i] = f[k - 1 + i]
    BY <1>3, <2>1, <2>2, Rest
  <2> QED
    BY <2>1, <2>3
<1>7. b \in Seq(T) /\ Len(b) = 12 - k /\ \A i \in 1..(12 - k) : b[i] = f[k + i]
  <2>1. k \in 0..Len(f) /\ Len(f) - k = 12 - k
    BY <1>1
  <2>2. b = SubSeq(f, k + 1, Len(f))
    BY <1>1, <1>5
  <2>3. b \in Seq(T) /\ Len(b) = Len(f) - k /\ \A i \in 1..(Len(f) - k) : b[i] = f[k + i]
    BY <1>3, <2>1, <2>2, Rest
  <2> QED
    BY <2>1, <2>3
<1>8. Len(a) = Len(b) + 1 /\ a[1] = f[k]
  <2>1. 1 \in 1..(13 - k) /\ k - 1 + 1 = k
    OBVIOUS
  <2>2. a[1] = f[k - 1 + 1]
    BY <1>6, <2>1, Zenon
  <2>3. Len(a) = Len(b) + 1
    BY <1>6, <1>7
  <2> QED
    BY <2>1, <2>2, <2>3
<1>9. ASSUME NEW i \in 1..Len(b) PROVE a[i + 1] = b[i]
  <2>1. i \in 1..(12 - k) /\ i + 1 \in 1..(13 - k) /\ k - 1 + (i + 1) = k + i
    BY <1>7
  <2> QED
    BY <1>6, <1>7, <2>1
<1>10. FlattenSeq(a) = f[k] \o FlattenSeq(b)
  BY <1>2, <1>3, <1>6, <1>7, <1>8, <1>9, FlattenFirst
<1>11. FlattenSeq(a) \in Seq(Bytes) /\ FlattenSeq(b) \in Seq(Bytes)
  BY <1>2, <1>6, <1>7, FlattenIsSeq
<1> QED
  BY <1>1, <1>2, <1>3, <1>4, <1>5, <1>10, <1>11 DEF Left

\* The whole packet, and nothing.
LEMMA LeftEnds ==
  ASSUME NEW p \in Messages
  PROVE  /\ Encoded(p) = FlattenSeq(Left(p, 1)) /\ Encoded(p) \in Seq(Bytes)
         /\ FlattenSeq(Left(p, 13)) = <<>>
<1>1. PICK f \in Seq(Seq(Bytes)) : f = Fields(p) /\ Len(f) = 12
  BY FieldsType
<1>2. SubSeq(f, 1, 12) = f
  BY <1>1, SubSeqFull
<1>3. SubSeq(f, 13, 12) = <<>>
  BY SubSeqEmpty
<1>4. FlattenSeq(f) \in Seq(Bytes)
  BY FlattenIsSeq
<1> QED
  BY <1>1, <1>2, <1>3, <1>4, FlattenNothing DEF Left, Encoded

\* The packets of s from the i-th on, and their bytes.
Packets(s, i) == [j \in 1..(Len(s) + 1 - i) |-> Encoded(s[i - 1 + j])]
From(s, i) == FlattenSeq(Packets(s, i))

LEMMA EncodedIsFrom ==
  ASSUME NEW i
  PROVE  EncodedFrom(i) = From(sent, i)
BY Zenon DEF EncodedFrom, From, Packets

LEMMA PacketsType ==
  ASSUME NEW s \in Seq(Messages), NEW n \in Nat, n = Len(s), NEW i \in 1..(n + 2)
  PROVE  /\ i <= n + 1 => Packets(s, i) \in Seq(Seq(Bytes)) /\ Len(Packets(s, i)) = n + 1 - i
         /\ \A j \in 1..(n + 1 - i) : Packets(s, i)[j] = Encoded(s[i - 1 + j])
<1>1. ASSUME NEW j \in 1..(n + 1 - i) PROVE Encoded(s[i - 1 + j]) \in Seq(Bytes)
  <2>1. i - 1 + j \in 1..n
    OBVIOUS
  <2>2. s[i - 1 + j] \in Messages
    BY <2>1, ElementOfSeq
  <2> QED
    BY <2>2, LeftEnds
<1>2. PICK q : q = Packets(s, i)
  OBVIOUS
<1>3. q = [j \in 1..(n + 1 - i) |-> Encoded(s[i - 1 + j])]
  BY <1>2 DEF Packets
<1>4. PICK T : T = Seq(Bytes)
  OBVIOUS
<1>5. \A j \in 1..(n + 1 - i) : q[j] = Encoded(s[i - 1 + j]) /\ q[j] \in T
  BY <1>1, <1>3, <1>4
<1>6. CASE i <= n + 1
  <2>1. PICK m \in Nat : m = n + 1 - i
    BY <1>6
  <2>2. q \in [1..m -> T]
    BY <1>1, <1>3, <1>4, <2>1
  <2>3. q \in Seq(T) /\ Len(q) = m
    BY <2>2
  <2> QED
    BY <1>2, <1>4, <1>5, <2>1, <2>3
<1>7. CASE ~(i <= n + 1)
  BY <1>2, <1>5, <1>7
<1> QED
  BY <1>6, <1>7

LEMMA FromType ==
  ASSUME NEW s \in Seq(Messages), NEW i \in 1..(Len(s) + 1)
  PROVE  From(s, i) \in Seq(Bytes)
<1>1. PICK n \in Nat : n = Len(s)
  BY LenProperties
<1>2. Packets(s, i) \in Seq(Seq(Bytes))
  <2>1. i \in 1..(n + 2) /\ i <= n + 1
    BY <1>1
  <2> QED
    BY <1>1, <2>1, PacketsType
<1> QED
  BY <1>2, FlattenIsSeq DEF From

\* One more packet is sent.
LEMMA FromAppend ==
  ASSUME NEW s \in Seq(Messages), NEW p \in Messages, NEW i \in 1..(Len(s) + 1)
  PROVE  From(Append(s, p), i) = From(s, i) \o Encoded(p)
<1>1. PICK n \in Nat : n = Len(s)
  BY LenProperties
<1>2. PICK t \in Seq(Messages) :
        t = Append(s, p) /\ Len(t) = n + 1 /\ t[n + 1] = p /\ \A j \in 1..n : t[j] = s[j]
  <2>1. /\ Append(s, p) \in Seq(Messages) /\ Len(Append(s, p)) = n + 1
        /\ Append(s, p)[n + 1] = p /\ \A j \in 1..n : Append(s, p)[j] = s[j]
    BY <1>1, AppendProperties
  <2> QED
    BY <2>1
<1>3. PICK q : q = Packets(s, i)
  OBVIOUS
<1>4. PICK r : r = Packets(t, i)
  OBVIOUS
<1>5. PICK m \in Nat : m = n + 1 - i /\ i - 1 \in Nat /\ i - 1 + m = n
  <2>1. n + 1 - i \in Nat /\ i - 1 \in Nat /\ i - 1 + (n + 1 - i) = n
    BY <1>1
  <2> QED
    BY <2>1
<1>6. q \in Seq(Seq(Bytes)) /\ Len(q) = m /\ \A j \in 1..m : q[j] = Encoded(s[i - 1 + j])
  <2>1. i \in 1..(n + 2) /\ i <= n + 1
    BY <1>1
  <2> QED
    BY <1>1, <1>3, <1>5, <2>1, PacketsType
<1>7. r \in Seq(Seq(Bytes)) /\ Len(r) = m + 1 /\ \A j \in 1..(m + 1) : r[j] = Encoded(t[i - 1 + j])
  <2>1. i \in 1..((n + 1) + 2) /\ i <= (n + 1) + 1 /\ (n + 1) + 1 - i = m + 1
    BY <1>1, <1>5
  <2>2. PICK k \in Nat : k = n + 1 /\ k = Len(t)
    BY <1>2
  <2>3. i \in 1..(k + 2) /\ i <= k + 1 /\ k + 1 - i = m + 1
    BY <2>1, <2>2
  <2>4. /\ Packets(t, i) \in Seq(Seq(Bytes)) /\ Len(Packets(t, i)) = k + 1 - i
        /\ \A j \in 1..(k + 1 - i) : Packets(t, i)[j] = Encoded(t[i - 1 + j])
    BY <2>2, <2>3, PacketsType
  <2> QED
    BY <1>4, <2>3, <2>4
<1>8. Encoded(p) \in Seq(Bytes)
  BY LeftEnds
<1>9. r = Append(q, Encoded(p))
  <2>1. PICK T : T = Seq(Bytes)
    OBVIOUS
  <2>2. PICK e \in T : e = Encoded(p)
    BY <1>8, <2>1
  <2>3. PICK a : a = Append(q, e)
    OBVIOUS
  <2>4. a \in Seq(T) /\ Len(a) = m + 1 /\ a[m + 1] = e /\ \A j \in 1..m : a[j] = q[j]
    BY <1>6, <2>1, <2>3, AppendProperties
  <2>5. ASSUME NEW j \in 1..(m + 1) PROVE r[j] = a[j]
    <3>1. CASE j = m + 1
      <4>1. i - 1 + j = n + 1
        BY <1>1, <1>5, <3>1
      <4> QED
        BY <1>2, <1>7, <2>2, <2>4, <3>1, <4>1
    <3>2. CASE j # m + 1
      <4>1. j \in 1..m /\ i - 1 + j \in 1..n
        BY <1>1, <1>5, <3>2
      <4>2. r[j] = Encoded(t[i - 1 + j]) /\ q[j] = Encoded(s[i - 1 + j]) /\ a[j] = q[j]
        BY <1>6, <1>7, <2>4, <4>1
      <4>3. t[i - 1 + j] = s[i - 1 + j]
        BY <1>2, <4>1
      <4> QED
        BY <4>2, <4>3
    <3> QED
      BY <3>1, <3>2
  <2>6. r = a
    BY <1>7, <2>1, <2>4, <2>5, SeqEqual
  <2> QED
    BY <2>2, <2>3, <2>6
<1>10. FlattenSeq(r) = FlattenSeq(q) \o Encoded(p)
  BY <1>6, <1>8, <1>9, FlattenAppend
<1> QED
  BY <1>2, <1>3, <1>4, <1>10 DEF From

\* The first packet, and the others.
LEMMA FromFirst ==
  ASSUME NEW s \in Seq(Messages), NEW i \in 1..Len(s)
  PROVE  /\ s[i] \in Messages
         /\ From(s, i) = Encoded(s[i]) \o From(s, i + 1)
<1>1. PICK n \in Nat : n = Len(s) /\ i \in 1..n
  BY LenProperties
<1>2. s[i] \in Messages
  BY ElementOfSeq
<1>3. PICK q : q = Packets(s, i + 1)
  OBVIOUS
<1>4. PICK r : r = Packets(s, i)
  OBVIOUS
<1>5. PICK m \in Nat : m = n - i
  <2>1. n - i \in Nat
    BY <1>1
  <2> QED
    BY <2>1
<1>6. q \in Seq(Seq(Bytes)) /\ Len(q) = m /\ \A j \in 1..m : q[j] = Encoded(s[i + j])
  <2>1. i + 1 \in 1..(n + 2) /\ i + 1 <= n + 1 /\ n + 1 - (i + 1) = m /\ (i + 1) - 1 = i
    BY <1>1, <1>5
  <2>2. /\ Packets(s, i + 1) \in Seq(Seq(Bytes)) /\ Len(Packets(s, i + 1)) = n + 1 - (i + 1)
        /\ \A j \in 1..(n + 1 - (i + 1)) : Packets(s, i + 1)[j] = Encoded(s[(i + 1) - 1 + j])
    BY <1>1, <2>1, PacketsType
  <2> QED
    BY <1>3, <2>1, <2>2
<1>7. r \in Seq(Seq(Bytes)) /\ Len(r) = m + 1 /\ \A j \in 1..(m + 1) : r[j] = Encoded(s[i - 1 + j])
  <2>1. i \in 1..(n + 2) /\ i <= n + 1 /\ n + 1 - i = m + 1
    BY <1>1, <1>5
  <2> QED
    BY <1>1, <1>4, <2>1, PacketsType
<1>8. r[1] = Encoded(s[i]) /\ Encoded(s[i]) \in Seq(Bytes)
  <2>1. 1 \in 1..(m + 1) /\ i - 1 + 1 = i
    BY <1>1
  <2>2. r[1] = Encoded(s[i - 1 + 1])
    BY <1>7, <2>1, Zenon
  <2> QED
    BY <1>2, <2>1, <2>2, LeftEnds
<1>9. \A j \in 1..Len(q) : r[j + 1] = q[j]
  <2>1. TAKE j \in 1..Len(q)
  <2>2. j \in 1..m /\ j + 1 \in 1..(m + 1) /\ i - 1 + (j + 1) = i + j
    BY <1>1, <1>6
  <2> QED
    BY <1>6, <1>7, <2>2
<1>10. Len(r) = Len(q) + 1
  BY <1>6, <1>7
<1>11. FlattenSeq(r) = Encoded(s[i]) \o FlattenSeq(q)
  BY <1>6, <1>7, <1>8, <1>9, <1>10, FlattenFirst
<1> QED
  BY <1>2, <1>3, <1>4, <1>11 DEF From

LEMMA FromEnd ==
  ASSUME NEW s \in Seq(Messages)
  PROVE  From(s, Len(s) + 1) = <<>>
<1>1. PICK n \in Nat : n = Len(s)
  BY LenProperties
<1>2. PICK q : q = Packets(s, n + 1)
  OBVIOUS
<1>3. n + 1 \in 1..(n + 2) /\ n + 1 - (n + 1) = 0
  BY <1>1
<1>4. q \in Seq(Seq(Bytes)) /\ Len(q) = 0
  BY <1>1, <1>2, <1>3, PacketsType
<1>5. q = <<>>
  BY <1>4, EmptySeq
<1> QED
  BY <1>1, <1>2, <1>5, FlattenNothing DEF From

\* A packet begins with the start flag, so packets that are left are not nothing.
LEMMA FromBegins ==
  ASSUME NEW s \in Seq(Messages), NEW i \in 1..Len(s)
  PROVE  From(s, i) # <<>>
<1>1. PICK p \in Messages : p = s[i] /\ From(s, i) = Encoded(p) \o From(s, i + 1)
  BY FromFirst
<1>2. From(s, i + 1) \in Seq(Bytes)
  <2>1. PICK n \in Nat : n = Len(s)
    BY LenProperties
  <2>2. i + 1 \in 1..(Len(s) + 1)
    BY <2>1
  <2> QED
    BY <2>2, FromType
<1>3. PICK rest \in Seq(Bytes) : Encoded(p) = Fields(p)[1] \o rest
  <2>1. /\ FlattenSeq(Left(p, 1)) = Fields(p)[1] \o FlattenSeq(Left(p, 1 + 1))
        /\ FlattenSeq(Left(p, 1 + 1)) \in Seq(Bytes)
    <3>1. 1 \in 1..12
      OBVIOUS
    <3> QED
      BY <3>1, LeftUnfolds, Zenon
  <2> QED
    BY <2>1, LeftEnds
<1>4. Fields(p)[1] = <<START_FLAG>>
  BY DEF Fields
<1>5. PICK a, b : a = Encoded(p) /\ b = From(s, i + 1)
  OBVIOUS
<1>6. a \in Seq(Bytes) /\ b \in Seq(Bytes) /\ Len(a) > 0
  <2>1. PICK f \in Seq(Bytes) : f = Fields(p)[1] /\ Len(f) = 1
    <3>1. <<START_FLAG>> \in Seq(Bytes)
      BY BytesAssumption DEF START_FLAG
    <3> QED
      BY <1>4, <3>1
  <2>2. a = f \o rest /\ Len(rest) \in Nat
    BY <1>3, <1>5, <2>1, LenProperties
  <2>3. a \in Seq(Bytes) /\ b \in Seq(Bytes)
    BY <1>2, <1>5, LeftEnds
  <2>4. Len(f \o rest) = Len(f) + Len(rest)
    BY ConcatProperties
  <2>5. Len(f) + Len(rest) > 0
    BY <2>1, <2>2
  <2> QED
    BY <2>2, <2>3, <2>4, <2>5, Zenon
<1>7. Len(a \o b) > 0
  BY <1>6
<1> QED
  BY <1>1, <1>5, <1>7, EmptySeq

-----------------------------------------------------------------------------
(* The decoder's states and the protocol it fills in.                      *)

\* The place of the decoder's state among the states, which is that of the field
\* it takes among the fields.
Stage == PlaceIn(Order, m_state)

LEMMA OrderPlaces ==
  /\ Range(Order) =
       {"WAITING_START_FLAG", "PARSE_PK_LEN", "PARSE_MSG_ID_LEN", "PARSE_MSG_ID",
        "PARSE_METHOD_NAME_LEN", "PARSE_METHOD_NAME", "PARSE_ERROR_CODE",
        "PARSE_ERROR_INFO_LEN", "PARSE_ERROR_INFO", "PARSE_RPC_DATA", "PARSE_CHECK_SUM",
        "WAITING_END_FLAG", "PARSE_SUCCESS"}
  /\ PlaceIn(Order, "WAITING_START_FLAG") = 1 /\ PlaceIn(Order, "PARSE_PK_LEN") = 2
  /\ PlaceIn(Order, "PARSE_MSG_ID_LEN") = 3 /\ PlaceIn(Order, "PARSE_MSG_ID") = 4
  /\ PlaceIn(Order, "PARSE_METHOD_NAME_LEN") = 5 /\ PlaceIn(Order, "PARSE_METHOD_NAME") = 6
  /\ PlaceIn(Order, "PARSE_ERROR_CODE") = 7 /\ PlaceIn(Order, "PARSE_ERROR_INFO_LEN") = 8
  /\ PlaceIn(Order, "PARSE_ERROR_INFO") = 9 /\ PlaceIn(Order, "PARSE_RPC_DATA") = 10
  /\ PlaceIn(Order, "PARSE_CHECK_SUM") = 11 /\ PlaceIn(Order, "WAITING_END_FLAG") = 12
  /\ PlaceIn(Order, "PARSE_SUCCESS") = 13
<1>1. /\ Order[1] = "WAITING_START_FLAG" /\ Order[2] = "PARSE_PK_LEN"
      /\ Order[3] = "PARSE_MSG_ID_LEN" /\ Order[4] = "PARSE_MSG_ID"
      /\ Order[5] = "PARSE_METHOD_NAME_LEN" /\ Order[6] = "PARSE_METHOD_NAME"
      /\ Order[7] = "PARSE_ERROR_CODE" /\ Order[8] = "PARSE_ERROR_INFO_LEN"
      /\ Order[9] = "PARSE_ERROR_INFO" /\ Order[10] = "PARSE_RPC_DATA"
      /\ Order[11] = "PARSE_CHECK_SUM" /\ Order[12] = "WAITING_END_FLAG"
      /\ Order[13] = "PARSE_SUCCESS"
  BY DEF Order
<1>0. Order \in Seq({Order[i] : i \in 1..13}) /\ Len(Order) = 13
  BY DEF Order
<1>2. DOMAIN Order = 1..13 /\ Order \in Seq({Order[i] : i \in 1..13}) /\ Len(Order) = 13
  BY <1>0, LenProperties, Zenon
<1>3. \A i \in 1..13 : i \in {1, 2, 3, 4, 5, 6, 7, 8, 9, 10, 11, 12, 13}
  OBVIOUS
<1>4. \A i, j \in 1..13 : Order[i] = Order[j] => i = j
  <2>1. TAKE i, j \in 1..13
  <2>2. i \in {1, 2, 3, 4, 5, 6, 7, 8, 9, 10, 11, 12, 13} /\ j \in {1, 2, 3, 4, 5, 6, 7, 8, 9, 10, 11, 12, 13}
    BY <1>3
  <2> QED
    BY <1>1, <2>2
<1>5. IsRing(Order, {Order[i] : i \in 1..13})
  BY <1>2, <1>4 DEF IsRing, IsInjective
<1>6. \A i \in 1..13 : PlaceIn(Order, Order[i]) = i
  BY <1>2, <1>5, RingPlaces
<1>7. Range(Order) = {Order[i] : i \in 1..13}
  BY <1>2 DEF Range
<1>8. \A x \in Range(Order) : \E i \in {1, 2, 3, 4, 5, 6, 7, 8, 9, 10, 11, 12, 13} : x = Order[i]
  BY <1>3, <1>7
<1>9. \A i \in {1, 2, 3, 4, 5, 6, 7, 8, 9, 10, 11, 12, 13} : Order[i] \in Range(Order) /\ PlaceIn(Order, Order[i]) = i
  BY <1>6, <1>7
<1> QED
  BY <1>1, <1>8, <1>9

LEMMA NextStates ==
  ASSUME m_state \in Range(Order), m_state # "PARSE_SUCCESS"
  PROVE  NextState \in Range(Order) /\ PlaceIn(Order, NextState) = Stage + 1 /\ Stage \in 1..12
<1>1. NextState = Order[Stage + 1]
  BY Zenon DEF NextState, Stage, PlaceIn
<1>2. Stage \in {1, 2, 3, 4, 5, 6, 7, 8, 9, 10, 11, 12}
  BY OrderPlaces DEF Stage
<1>3. Order[Stage + 1] \in Range(Order) /\ PlaceIn(Order, Order[Stage + 1]) = Stage + 1
  BY <1>2, OrderPlaces DEF Order
<1> QED
  BY <1>1, <1>2, <1>3

\* The members of a protocol that the decoder sets.
IntMembers ==
  {"m_pk_len", "m_msg_id_len", "m_method_name_len", "m_error_code", "m_error_info_len", "m_check_sum"}
StringMembers == {"m_msg_id", "m_method_name", "m_error_info", "m_rpc_data"}

Protocol ==
  {m \in [IntMembers \cup StringMembers -> Nat \cup Seq(Bytes)] :
     /\ \A member \in IntMembers : m[member] \in Nat
     /\ \A member \in StringMembers : m[member] \in Seq(Bytes)}

LEMMA MembersAre ==
  /\ Range(IntMember) = IntMembers /\ Range(StringMember) = StringMembers
  /\ DOMAIN IntMember =
       {"PARSE_PK_LEN", "PARSE_MSG_ID_LEN", "PARSE_METHOD_NAME_LEN", "PARSE_ERROR_CODE",
        "PARSE_ERROR_INFO_LEN", "PARSE_CHECK_SUM"}
  /\ DOMAIN StringMember = {"PARSE_MSG_ID", "PARSE_METHOD_NAME", "PARSE_ERROR_INFO", "PARSE_RPC_DATA"}
<1>1. DOMAIN IntMember =
       {"PARSE_PK_LEN", "PARSE_MSG_ID_LEN", "PARSE_METHOD_NAME_LEN", "PARSE_ERROR_CODE",
        "PARSE_ERROR_INFO_LEN", "PARSE_CHECK_SUM"}
  BY DEF IntMember
<1>2. DOMAIN StringMember = {"PARSE_MSG_ID", "PARSE_METHOD_NAME", "PARSE_ERROR_INFO", "PARSE_RPC_DATA"}
  BY DEF StringMember
<1>3. /\ IntMember["PARSE_PK_LEN"] = "m_pk_len" /\ IntMember["PARSE_MSG_ID_LEN"] = "m_msg_id_len"
      /\ IntMember["PARSE_METHOD_NAME_LEN"] = "m_method_name_len"
      /\ IntMember["PARSE_ERROR_CODE"] = "m_error_code"
      /\ IntMember["PARSE_ERROR_INFO_LEN"] = "m_error_info_len"
      /\ IntMember["PARSE_CHECK_SUM"] = "m_check_sum"
  BY DEF IntMember
<1>4. /\ StringMember["PARSE_MSG_ID"] = "m_msg_id" /\ StringMember["PARSE_METHOD_NAME"] = "m_method_name"
      /\ StringMember["PARSE_ERROR_INFO"] = "m_error_info" /\ StringMember["PARSE_RPC_DATA"] = "m_rpc_data"
  BY DEF StringMember
<1>5. Range(IntMember) = {IntMember[x] : x \in DOMAIN IntMember}
  BY DEF Range
<1>6. Range(StringMember) = {StringMember[x] : x \in DOMAIN StringMember}
  BY DEF Range
<1>7. Range(IntMember) = IntMembers
  BY <1>1, <1>3, <1>5 DEF IntMembers
<1>8. Range(StringMember) = StringMembers
  BY <1>2, <1>4, <1>6 DEF StringMembers
<1> QED
  BY <1>1, <1>2, <1>7, <1>8

LEMMA ClearedType == Cleared \in Protocol
<1>2. Cleared = [member \in IntMembers \cup StringMembers |-> IF member \in IntMembers THEN 0 ELSE <<>>]
  BY MembersAre, Zenon DEF Cleared
<1>3. <<>> \in Seq(Bytes)
  BY EmptySeq
<1>4. Cleared \in [IntMembers \cup StringMembers -> Nat \cup Seq(Bytes)]
  BY <1>2, <1>3
<1>5. \A member \in IntMembers : Cleared[member] \in Nat
  BY <1>2
<1>6. \A member \in StringMembers : Cleared[member] \in Seq(Bytes)
  BY <1>2, <1>3 DEF IntMembers, StringMembers
<1> QED
  BY <1>4, <1>5, <1>6 DEF Protocol

LEMMA ProtocolExcept ==
  ASSUME NEW m \in Protocol, NEW v
  PROVE  /\ \A member \in IntMembers : v \in Nat => [m EXCEPT ![member] = v] \in Protocol
         /\ \A member \in StringMembers : v \in Seq(Bytes) => [m EXCEPT ![member] = v] \in Protocol
         /\ \A x \in IntMembers \cup StringMembers, y \in IntMembers \cup StringMembers :
              [m EXCEPT ![x] = v][y] = IF y = x THEN v ELSE m[y]
<1>1. /\ m \in [IntMembers \cup StringMembers -> Nat \cup Seq(Bytes)]
      /\ \A member \in IntMembers : m[member] \in Nat
      /\ \A member \in StringMembers : m[member] \in Seq(Bytes)
  BY DEF Protocol
<1>2. \A x \in IntMembers \cup StringMembers, y \in IntMembers \cup StringMembers :
        [m EXCEPT ![x] = v][y] = IF y = x THEN v ELSE m[y]
  BY <1>1
<1>3. IntMembers \cap StringMembers = {}
  BY DEF IntMembers, StringMembers
<1>4. ASSUME NEW x \in IntMembers \cup StringMembers,
             x \in IntMembers => v \in Nat, x \in StringMembers => v \in Seq(Bytes)
      PROVE  [m EXCEPT ![x] = v] \in Protocol
  <2>1. PICK w : w = [m EXCEPT ![x] = v]
    OBVIOUS
  <2>2. \A y \in IntMembers \cup StringMembers : w[y] = IF y = x THEN v ELSE m[y]
    BY <1>2, <2>1
  <2>3. w \in [IntMembers \cup StringMembers -> Nat \cup Seq(Bytes)]
    BY <1>1, <1>4, <2>1
  <2>4. \A member \in IntMembers : w[member] \in Nat
    BY <1>1, <1>4, <2>2
  <2>5. \A member \in StringMembers : w[member] \in Seq(Bytes)
    BY <1>1, <1>4, <2>2
  <2> QED
    BY <2>1, <2>3, <2>4, <2>5 DEF Protocol
<1> QED
  BY <1>2, <1>3, <1>4

\* The fields of a packet that are not integers, and what the integers are.
LEMMA FieldsAre ==
  ASSUME NEW p \in Messages
  PROVE  /\ Fields(p)[1] = <<START_FLAG>> /\ Fields(p)[2] = NetInt(PkLen(p))
         /\ Fields(p)[3] = NetInt(Len(p.m_msg_id)) /\ Fields(p)[4] = p.m_msg_id
         /\ Fields(p)[5] = NetInt(Len(p.m_method_name)) /\ Fields(p)[6] = p.m_method_name
         /\ Fields(p)[7] = NetInt(p.m_error_code)
         /\ Fields(p)[8] = NetInt(Len(p.m_error_info)) /\ Fields(p)[9] = p.m_error_info
         /\ Fields(p)[10] = p.m_rpc_data /\ Fields(p)[11] = NetInt(0) /\ Fields(p)[12] = <<END_FLAG>>
BY DEF Fields

\* How many bytes there are from the k-th field on.
Rem(p, k) == Len(FlattenSeq(Left(p, k)))

LEMMA RemIs ==
  ASSUME NEW p \in Messages
  PROVE  /\ \A k \in 1..13 : Rem(p, k) \in Nat
         /\ \A k \in 1..12 : Len(Fields(p)[k]) \in Nat /\ Rem(p, k) = Len(Fields(p)[k]) + Rem(p, k + 1)
         /\ Rem(p, 13) = 0
<1>1. ASSUME NEW k \in 1..12
      PROVE  /\ Rem(p, k) \in Nat /\ Rem(p, k + 1) \in Nat /\ Len(Fields(p)[k]) \in Nat
             /\ Rem(p, k) = Len(Fields(p)[k]) + Rem(p, k + 1)
  <2>1. PICK f, a, b : f = Fields(p)[k] /\ a = FlattenSeq(Left(p, k)) /\ b = FlattenSeq(Left(p, k + 1))
    OBVIOUS
  <2>2. f \in Seq(Bytes) /\ a \in Seq(Bytes) /\ b \in Seq(Bytes) /\ a = f \o b
    BY <2>1, LeftUnfolds, Zenon
  <2>3. Len(a) = Len(f) + Len(b) /\ Len(a) \in Nat /\ Len(f) \in Nat /\ Len(b) \in Nat
    BY <2>2, ConcatProperties, LenProperties
  <2> QED
    BY <2>1, <2>3 DEF Rem
<1>2. Rem(p, 13) = 0
  BY LeftEnds, EmptySeq DEF Rem
<1>3. \A k \in 1..13 : Rem(p, k) \in Nat
  <2>1. TAKE k \in 1..13
  <2>2. CASE k = 13
    BY <1>2, <2>2
  <2>3. CASE k # 13
    <3>1. k \in 1..12
      BY <2>3
    <3> QED
      BY <1>1, <3>1
  <2> QED
    BY <2>2, <2>3
<1> QED
  BY <1>1, <1>2, <1>3

LEMMA FieldLens ==
  ASSUME NEW p \in Messages
  PROVE  /\ Len(Fields(p)[1]) = 1 /\ Len(Fields(p)[12]) = 1
         /\ \A k \in {2, 3, 5, 7, 8, 11} : Len(Fields(p)[k]) = 4
         /\ Rem(p, 3) = PkLen(p) - 5 /\ PkLen(p) - 5 \in Nat
         /\ Rem(p, 10) = Len(p.m_rpc_data) + 5
<1>1. /\ Len(NetInt(PkLen(p))) = 4 /\ Len(NetInt(Len(p.m_msg_id))) = 4
      /\ Len(NetInt(Len(p.m_method_name))) = 4 /\ Len(NetInt(p.m_error_code)) = 4
      /\ Len(NetInt(Len(p.m_error_info))) = 4 /\ Len(NetInt(0)) = 4
  BY FieldInts
<1>2. /\ Len(Fields(p)[2]) = 4 /\ Len(Fields(p)[3]) = 4 /\ Len(Fields(p)[5]) = 4
      /\ Len(Fields(p)[7]) = 4 /\ Len(Fields(p)[8]) = 4 /\ Len(Fields(p)[11]) = 4
  BY <1>1, FieldsAre, Zenon
<1>3. Len(Fields(p)[1]) = 1 /\ Len(Fields(p)[12]) = 1
  <2>1. Len(<<START_FLAG>>) = 1 /\ Len(<<END_FLAG>>) = 1
    OBVIOUS
  <2> QED
    BY <2>1, FieldsAre, Zenon
<1>4. PICK a \in Nat, b \in Nat, c \in Nat, d \in Nat :
        /\ a = Len(p.m_msg_id) /\ b = Len(p.m_method_name)
        /\ c = Len(p.m_error_info) /\ d = Len(p.m_rpc_data)
  BY MessageFields, Zenon
<1>5. PkLen(p) = 26 + a + b + c + d
  BY <1>4, MessageFields, Zenon
<1>6. /\ Len(Fields(p)[4]) = a /\ Len(Fields(p)[6]) = b /\ Len(Fields(p)[9]) = c /\ Len(Fields(p)[10]) = d
  BY <1>4, FieldsAre, Zenon
<1>7. /\ Rem(p, 3) = Len(Fields(p)[3]) + Rem(p, 4) /\ Rem(p, 4) = Len(Fields(p)[4]) + Rem(p, 5)
      /\ Rem(p, 5) = Len(Fields(p)[5]) + Rem(p, 6) /\ Rem(p, 6) = Len(Fields(p)[6]) + Rem(p, 7)
      /\ Rem(p, 7) = Len(Fields(p)[7]) + Rem(p, 8) /\ Rem(p, 8) = Len(Fields(p)[8]) + Rem(p, 9)
      /\ Rem(p, 9) = Len(Fields(p)[9]) + Rem(p, 10) /\ Rem(p, 10) = Len(Fields(p)[10]) + Rem(p, 11)
      /\ Rem(p, 11) = Len(Fields(p)[11]) + Rem(p, 12) /\ Rem(p, 12) = Len(Fields(p)[12]) + Rem(p, 13)
  <2>1. \A k \in 1..12 : Rem(p, k) = Len(Fields(p)[k]) + Rem(p, k + 1)
    BY RemIs
  <2> QED
    BY <2>1
<1>8. /\ Rem(p, 3) = 4 + Rem(p, 4) /\ Rem(p, 4) = a + Rem(p, 5) /\ Rem(p, 5) = 4 + Rem(p, 6)
      /\ Rem(p, 6) = b + Rem(p, 7) /\ Rem(p, 7) = 4 + Rem(p, 8) /\ Rem(p, 8) = 4 + Rem(p, 9)
      /\ Rem(p, 9) = c + Rem(p, 10) /\ Rem(p, 10) = d + Rem(p, 11) /\ Rem(p, 11) = 4 + Rem(p, 12)
      /\ Rem(p, 12) = 1 + Rem(p, 13)
  BY <1>2, <1>3, <1>6, <1>7, Zenon
<1>9. Rem(p, 13) = 0
  BY RemIs
<1>10. Rem(p, 10) = d + 5
  BY <1>8, <1>9
<1>11. Rem(p, 3) = a + b + c + d + 21
  BY <1>8, <1>10
<1>12. \A k \in {2, 3, 5, 7, 8, 11} : Len(Fields(p)[k]) = 4
  BY <1>2, Zenon
<1>13. Rem(p, 3) = PkLen(p) - 5 /\ PkLen(p) - 5 \in Nat
  BY <1>5, <1>11
<1> QED
  BY <1>3, <1>4, <1>10, <1>12, <1>13, Zenon

\* The protocol m has taken the fields of p before the k-th.  An empty string is
\* not taken as one: substr(0, 0) is all there is.
Took(m, p, k) ==
  /\ k > 3 => m["m_msg_id_len"] = Len(p.m_msg_id)
  /\ k > 4 => m["m_msg_id"] = p.m_msg_id
  /\ k > 5 => m["m_method_name_len"] = Len(p.m_method_name)
  /\ k > 6 => m["m_method_name"] = p.m_method_name
  /\ k > 7 => m["m_error_code"] = p.m_error_code
  /\ k > 8 => m["m_error_info_len"] = Len(p.m_error_info)
  /\ k > 9 /\ p.m_error_info # <<>> => m["m_error_info"] = p.m_error_info
  /\ k > 10 /\ p.m_rpc_data # <<>> => m["m_rpc_data"] = p.m_rpc_data

\* The decoder takes as many bytes as the field has that it comes to.
LEMMA TakesField ==
  ASSUME NEW p \in Messages, m_state \in Range(Order), m_state # "PARSE_SUCCESS",
         Took(m_req_protocol, p, Stage), Stage \in 3..12 => m_remain_len = Rem(p, Stage)
  PROVE  Taken = Len(Fields(p)[Stage])
<1>1. PICK k : k = Stage
  OBVIOUS
<1>2. CASE m_state \in {"WAITING_START_FLAG", "WAITING_END_FLAG"}
  <2>1. Stage \in {1, 12}
    BY <1>2, OrderPlaces DEF Stage
  <2>2. Taken = 1
    BY <1>2, MembersAre DEF Taken
  <2> QED
    BY <2>1, <2>2, FieldLens
<1>3. CASE m_state \in DOMAIN IntMember
  <2>1. Stage \in {2, 3, 5, 7, 8, 11}
    BY <1>3, OrderPlaces, MembersAre DEF Stage
  <2>2. Taken = 4
    BY <1>3, MembersAre DEF Taken
  <2> QED
    BY <2>1, <2>2, FieldLens
<1>4. CASE m_state \in DOMAIN StringMember
  <2>1. Taken = StringLen
    BY <1>4, MembersAre DEF Taken
  <2>2. CASE m_state = "PARSE_MSG_ID"
    <3>1. Stage = 4
      BY <2>2, OrderPlaces DEF Stage
    <3>2. StringLen = m_req_protocol["m_msg_id_len"]
      BY <2>2 DEF StringLen
    <3> QED
      BY <2>1, <3>1, <3>2, FieldsAre DEF Took
  <2>3. CASE m_state = "PARSE_METHOD_NAME"
    <3>1. Stage = 6
      BY <2>3, OrderPlaces DEF Stage
    <3>2. StringLen = m_req_protocol["m_method_name_len"]
      BY <2>3 DEF StringLen
    <3> QED
      BY <2>1, <3>1, <3>2, FieldsAre DEF Took
  <2>4. CASE m_state = "PARSE_ERROR_INFO"
    <3>1. Stage = 9
      BY <2>4, OrderPlaces DEF Stage
    <3>2. StringLen = m_req_protocol["m_error_info_len"]
      BY <2>4 DEF StringLen
    <3> QED
      BY <2>1, <3>1, <3>2, FieldsAre DEF Took
  <2>5. CASE m_state = "PARSE_RPC_DATA"
    <3>1. Stage = 10 /\ m_remain_len = Rem(p, 10)
      BY <2>5, OrderPlaces DEF Stage
    <3>2. StringLen = m_remain_len - 5
      BY <2>5 DEF StringLen
    <3>3. Len(p.m_rpc_data) \in Nat
      BY MessageFields
    <3> QED
      BY <2>1, <3>1, <3>2, <3>3, FieldsAre, FieldLens
  <2> QED
    BY <1>4, <2>2, <2>3, <2>4, <2>5, MembersAre
<1>5. \/ m_state \in {"WAITING_START_FLAG", "WAITING_END_FLAG"}
      \/ m_state \in DOMAIN IntMember \/ m_state \in DOMAIN StringMember
  BY OrderPlaces, MembersAre
<1> QED
  BY <1>2, <1>3, <1>4, <1>5

\* A buffer that has all of the field: it is at the front, and what is behind it
\* stays.
LEMMA TakeField ==
  ASSUME NEW p \in Messages, NEW k \in 1..12, NEW buf \in Buffer, NEW b \in Seq(Bytes),
         NEW more \in Seq(Bytes),
         Contents(buf) \o b = FlattenSeq(Left(p, k)) \o more,
         Len(Fields(p)[k]) <= Size(buf)
  PROVE  /\ SubSeq(Contents(buf), 1, Len(Fields(p)[k])) = Fields(p)[k]
         /\ MoveForward(buf, Len(Fields(p)[k])) \in Buffer
         /\ Contents(MoveForward(buf, Len(Fields(p)[k]))) \o b = FlattenSeq(Left(p, k + 1)) \o more
<1>1. PICK c \in Seq(Bytes) : c = Contents(buf) /\ Len(c) = Size(buf) /\ Size(buf) \in Nat
  BY ContentsType
<1>2. PICK f \in Seq(Bytes), x \in Seq(Bytes) :
        /\ f = Fields(p)[k] /\ x = FlattenSeq(Left(p, k + 1))
        /\ FlattenSeq(Left(p, k)) = f \o x
  BY LeftUnfolds, Zenon
<1>3. PICK r \in Seq(Bytes) : r = x \o more
  BY ConcatProperties
<1>4. c \o b = f \o r
  <2>1. PICK fx : fx = f \o x
    OBVIOUS
  <2>2. IsJoin(Bytes, fx, f, x) /\ IsJoin(Bytes, r, x, more) /\ IsJoin(Bytes, c \o b, fx, more)
    <3>1. fx \in Seq(Bytes)
      BY <2>1, ConcatProperties
    <3>2. c \o b = fx \o more
      BY <1>1, <1>2, <2>1, Zenon
    <3> QED
      BY <1>3, <2>1, <3>1, <3>2 DEF IsJoin
  <2>3. IsJoin(Bytes, c \o b, f, r)
    BY <2>2, JoinThree, Zenon
  <2> QED
    BY <2>3 DEF IsJoin
<1>5. PICK n \in Nat : n = Len(f) /\ n <= Len(c)
  <2>1. Len(f) \in Nat
    BY LenProperties
  <2>2. Len(f) <= Len(c)
    BY <1>1, <1>2, Zenon
  <2> QED
    BY <2>1, <2>2
<1>6. /\ SubSeq(c, 1, Len(f)) = f /\ SubSeq(c, Len(f) + 1, Len(c)) \o b = r
  <2>1. Len(f) <= Len(c)
    BY <1>5
  <2>2. IsJoin(Bytes, c \o b, c, b) /\ IsJoin(Bytes, c \o b, f, r)
    BY <1>4, Zenon DEF IsJoin
  <2>3. SubSeq(c, 1, Len(f)) = f /\ IsJoin(Bytes, r, SubSeq(c, Len(f) + 1, Len(c)), b)
    BY <2>1, <2>2, TakeFront, Zenon
  <2> QED
    BY <2>3, Zenon DEF IsJoin
<1>7. n \in 0..Size(buf)
  BY <1>1, <1>5
<1>8. MoveForward(buf, n) \in Buffer /\ Contents(MoveForward(buf, n)) = SubSeq(c, n + 1, Len(c))
  BY <1>1, <1>7, MoveForwardTakes
<1> QED
  BY <1>1, <1>2, <1>3, <1>5, <1>6, <1>8, Zenon

\* The member the k-th field of p goes to, and what goes there.
Fills(x, v, p, k) ==
  /\ k = 2 => x = "m_pk_len" /\ v = PkLen(p)
  /\ k = 3 => x = "m_msg_id_len" /\ v = Len(p.m_msg_id)
  /\ k = 4 => x = "m_msg_id" /\ v = p.m_msg_id
  /\ k = 5 => x = "m_method_name_len" /\ v = Len(p.m_method_name)
  /\ k = 6 => x = "m_method_name" /\ v = p.m_method_name
  /\ k = 7 => x = "m_error_code" /\ v = p.m_error_code
  /\ k = 8 => x = "m_error_info_len" /\ v = Len(p.m_error_info)
  /\ k = 9 => x = "m_error_info" /\ (p.m_error_info # <<>> => v = p.m_error_info)
  /\ k = 10 => x = "m_rpc_data" /\ (p.m_rpc_data # <<>> => v = p.m_rpc_data)
  /\ k = 11 => x = "m_check_sum" /\ v = 0

LEMMA TookMore ==
  ASSUME NEW p, NEW m \in Protocol, NEW k \in 2..11, NEW x \in IntMembers \cup StringMembers, NEW v,
         Took(m, p, k), Fills(x, v, p, k)
  PROVE  Took([m EXCEPT ![x] = v], p, k + 1)
<1>1. PICK w : w = [m EXCEPT ![x] = v]
  OBVIOUS
<1>2. \A y \in IntMembers \cup StringMembers : w[y] = IF y = x THEN v ELSE m[y]
  BY <1>1 DEF Protocol
<1>3. /\ w["m_msg_id_len"] = IF x = "m_msg_id_len" THEN v ELSE m["m_msg_id_len"]
      /\ w["m_msg_id"] = IF x = "m_msg_id" THEN v ELSE m["m_msg_id"]
      /\ w["m_method_name_len"] = IF x = "m_method_name_len" THEN v ELSE m["m_method_name_len"]
      /\ w["m_method_name"] = IF x = "m_method_name" THEN v ELSE m["m_method_name"]
      /\ w["m_error_code"] = IF x = "m_error_code" THEN v ELSE m["m_error_code"]
      /\ w["m_error_info_len"] = IF x = "m_error_info_len" THEN v ELSE m["m_error_info_len"]
      /\ w["m_error_info"] = IF x = "m_error_info" THEN v ELSE m["m_error_info"]
      /\ w["m_rpc_data"] = IF x = "m_rpc_data" THEN v ELSE m["m_rpc_data"]
  BY <1>2 DEF IntMembers, StringMembers
<1>4. k \in {2, 3, 4, 5, 6, 7, 8, 9, 10, 11}
  OBVIOUS
<1>5. Took(w, p, k + 1)
  BY <1>3, <1>4 DEF Took, Fills
<1> QED
  BY <1>1, <1>5

\* The first bytes of a buffer.
LEMMA FirstBytes ==
  ASSUME NEW buf \in Buffer, NEW n \in 1..Size(buf)
  PROVE  Substr(buf, n) = SubSeq(Contents(buf), 1, n) /\ At(buf, 1) = SubSeq(Contents(buf), 1, n)[1]
<1>1. PICK s \in Seq(Bytes), k \in Nat :
        /\ s = buf.m_buffer /\ k = buf.m_start_index /\ k <= Len(s) /\ Len(s) \in Nat
        /\ Size(buf) = Len(s) - k
  BY BufferFields DEF Size
<1>2. PICK l \in Nat : l = Len(s) /\ k + n <= l
  BY <1>1
<1>3. PICK c : c = SubSeq(s, k + 1, l)
  OBVIOUS
<1>4. c \in Seq(Bytes) /\ Len(c) = l - k /\ \A i \in 1..(l - k) : c[i] = s[k + i]
  <2>1. k \in 0..Len(s) /\ c = SubSeq(s, k + 1, Len(s))
    BY <1>1, <1>2, <1>3
  <2>2. c \in Seq(Bytes) /\ Len(c) = Len(s) - k /\ \A i \in 1..(Len(s) - k) : c[i] = s[k + i]
    BY <2>1, Rest
  <2> QED
    BY <1>2, <2>2
<1>5. PICK a : a = SubSeq(c, 1, n)
  OBVIOUS
<1>6. a \in Seq(Bytes) /\ Len(a) = n /\ \A i \in 1..n : a[i] = c[i]
  BY <1>2, <1>4, <1>5
<1>7. PICK b : b = SubSeq(s, k + 1, k + n)
  OBVIOUS
<1>8. b \in Seq(Bytes) /\ Len(b) = n /\ \A i \in 1..n : b[i] = s[k + i]
  <2>1. Len(b) = n /\ b \in Seq(Bytes)
    BY <1>2, <1>7
  <2>2. \A i \in 1..n : b[i] = s[(k + 1) + i - 1] /\ (k + 1) + i - 1 = k + i
    BY <1>2, <1>7
  <2> QED
    BY <2>1, <2>2
<1>9. \A i \in 1..n : i \in 1..(l - k)
  BY <1>2
<1>10. a = b
  BY <1>4, <1>6, <1>8, <1>9, SeqEqual
<1>11. Substr(buf, n) = b
  <2>1. n # 0
    OBVIOUS
  <2> QED
    BY <1>1, <1>7, <2>1, Zenon DEF Substr
<1>12. At(buf, 1) = b[1]
  <2>1. At(buf, 1) = s[k + 1]
    BY <1>1, Zenon DEF At
  <2>2. 1 \in 1..n
    OBVIOUS
  <2> QED
    BY <1>8, <2>1, <2>2
<1>13. Contents(buf) = c
  BY <1>1, <1>2, <1>3, Zenon DEF Contents
<1> QED
  BY <1>5, <1>10, <1>11, <1>12, <1>13

-----------------------------------------------------------------------------
(* The inductive invariant of the wire.                                    *)

\* The packet whose bytes the decoder takes.
Current == sent[Len(received) + 1]

\* Within a packet, what is left on the way is what is left of it and then the
\* packets behind it, m_remain_len is what is left of it, and the protocol has the
\* fields that were taken.
UnderWay ==
  /\ Len(received) < Len(sent)
  /\ Unread = FlattenSeq(Left(Current, Stage)) \o EncodedFrom(Len(received) + 2)
  /\ Stage \in 3..12 => m_remain_len = Rem(Current, Stage)
  /\ Took(m_req_protocol, Current, Stage)

\* What is on the way is what the decoder comes to.
WaysAgree ==
  IF m_state = "WAITING_START_FLAG" THEN Unread = EncodedFrom(Len(received) + 1) ELSE UnderWay

\* The receiver does not wait with a packet to return or bytes to take.
WaitsForMore == ~decoding => m_state # "PARSE_SUCCESS" /\ Starved

WireInv ==
  /\ TypeOK /\ m_req_protocol \in Protocol /\ received \in Seq(Protocol)
  /\ m_state # "PARSE_FAILED"
  /\ WaysAgree /\ WaitsForMore /\ FieldsArrive

LEMMA WireFacts ==
  ASSUME WireInv
  PROVE  /\ m_state \in Range(Order) /\ sent \in Seq(Messages)
         /\ Len(sent) \in Nat /\ Len(received) \in Nat /\ Len(received) <= Len(sent)
         /\ m_in_buffer \in Buffer /\ m_out_buffer \in Buffer
         /\ Contents(m_in_buffer) \in Seq(Bytes) /\ Contents(m_out_buffer) \in Seq(Bytes)
         /\ Len(Contents(m_in_buffer)) = Size(m_in_buffer) /\ Size(m_in_buffer) \in Nat
         /\ stream \in Seq(Bytes) /\ stream \o Contents(m_out_buffer) \in Seq(Bytes)
<1>1. /\ m_state \in Range(Order) /\ sent \in Seq(Messages) /\ received \in Seq(Protocol)
      /\ Len(received) <= Len(sent) /\ stream \in Seq(Bytes)
      /\ m_in_buffer \in Buffer /\ m_out_buffer \in Buffer
  BY DEF WireInv, TypeOK, FieldsArrive
<1>2. Len(sent) \in Nat /\ Len(received) \in Nat
  BY <1>1, LenProperties
<1>3. /\ Contents(m_in_buffer) \in Seq(Bytes) /\ Contents(m_out_buffer) \in Seq(Bytes)
      /\ Len(Contents(m_in_buffer)) = Size(m_in_buffer) /\ Size(m_in_buffer) \in Nat
  BY <1>1, ContentsType
<1>4. stream \o Contents(m_out_buffer) \in Seq(Bytes)
  BY <1>1, <1>3, ConcatProperties
<1> QED
  BY <1>1, <1>2, <1>3, <1>4

LEMMA CurrentIs ==
  ASSUME WireInv, Len(received) < Len(sent)
  PROVE  /\ Current \in Messages
         /\ From(sent, Len(received) + 1) = Encoded(Current) \o From(sent, Len(received) + 2)
         /\ From(sent, Len(received) + 2) \in Seq(Bytes)
<1>1. PICK n \in Nat, k \in Nat : n = Len(received) /\ k = Len(sent) /\ n < k
  BY WireFacts
<1>2. n + 1 \in 1..Len(sent) /\ (n + 1) + 1 = n + 2 /\ n + 2 \in 1..(Len(sent) + 1)
  BY <1>1
<1>3. sent \in Seq(Messages)
  BY WireFacts
<1>4. /\ sent[n + 1] \in Messages
      /\ From(sent, n + 1) = Encoded(sent[n + 1]) \o From(sent, (n + 1) + 1)
  BY <1>2, <1>3, FromFirst
<1>5. From(sent, n + 2) \in Seq(Bytes)
  BY <1>2, <1>3, FromType
<1> QED
  BY <1>1, <1>2, <1>4, <1>5 DEF Current

\* The decoder goes on with a packet, or begins one.
LEMMA GoesOn ==
  ASSUME WireInv, m_state # "PARSE_SUCCESS", ~Starved
  PROVE  /\ UnderWay /\ Current \in Messages /\ Stage \in 1..12
         /\ From(sent, Len(received) + 2) \in Seq(Bytes)
         /\ Taken = Len(Fields(Current)[Stage]) /\ Taken \in Nat /\ Taken <= Size(m_in_buffer)
<1>1. m_state \in Range(Order)
  BY WireFacts
<1>2. UnderWay
  <2>1. CASE m_state = "WAITING_START_FLAG"
    <3>1. Unread = From(sent, Len(received) + 1)
      BY <2>1, EncodedIsFrom DEF WireInv, WaysAgree
    <3>2. Size(m_in_buffer) >= 1
      <4>1. Taken = 1
        BY <2>1, MembersAre DEF Taken
      <4> QED
        BY <4>1, WireFacts DEF Starved
    <3>3. Unread # <<>>
      <4>1. PICK c \in Seq(Bytes), d \in Seq(Bytes) :
              c = Contents(m_in_buffer) /\ d = stream \o Contents(m_out_buffer) /\ Len(c) >= 1
        BY <3>2, WireFacts
      <4>2. Len(c \o d) >= 1
        BY <4>1
      <4>3. c \o d # <<>>
        BY <4>2, EmptySeq
      <4> QED
        BY <4>1, <4>3 DEF Unread
    <3>4. Len(received) < Len(sent)
      <4> SUFFICES ASSUME Len(received) = Len(sent) PROVE FALSE
        BY WireFacts
      <4>1. From(sent, Len(sent) + 1) = <<>>
        BY WireFacts, FromEnd
      <4> QED
        BY <3>1, <3>3, <4>1
    <3>5. Stage = 1
      BY <2>1, OrderPlaces DEF Stage
    <3>6. Unread = FlattenSeq(Left(Current, Stage)) \o EncodedFrom(Len(received) + 2)
      BY <3>1, <3>4, <3>5, CurrentIs, LeftEnds, EncodedIsFrom, Zenon
    <3>7. Took(m_req_protocol, Current, Stage)
      BY <3>5 DEF Took
    <3> QED
      BY <3>4, <3>5, <3>6, <3>7 DEF UnderWay
  <2>2. CASE m_state # "WAITING_START_FLAG"
    BY <2>2 DEF WireInv, WaysAgree
  <2> QED
    BY <2>1, <2>2
<1>3. Current \in Messages /\ From(sent, Len(received) + 2) \in Seq(Bytes)
  BY <1>2, CurrentIs DEF UnderWay
<1>4. Stage \in 1..12
  BY <1>1, NextStates
<1>5. Taken = Len(Fields(Current)[Stage])
  BY <1>1, <1>2, <1>3, TakesField DEF UnderWay
<1>6. Taken \in Nat
  BY <1>3, <1>4, <1>5, RemIs
<1> QED
  BY <1>2, <1>3, <1>4, <1>5, <1>6, WireFacts DEF Starved

\* The field is taken.
LEMMA TakeStep ==
  ASSUME WireInv, m_state # "PARSE_SUCCESS", Take
  PROVE  /\ m_in_buffer' \in Buffer /\ m_state' \in Range(Order) /\ Stage' = Stage + 1
         /\ m_state' # "WAITING_START_FLAG"
         /\ SubSeq(Contents(m_in_buffer), 1, Taken) = Fields(Current)[Stage]
         /\ Unread' = FlattenSeq(Left(Current, Stage + 1)) \o EncodedFrom(Len(received) + 2)
<1>0. ~Starved
  BY DEF Take
<1>1. PICK p \in Messages, k \in 1..12 : p = Current /\ k = Stage
  BY <1>0, GoesOn
<1>2. PICK more \in Seq(Bytes) : more = EncodedFrom(Len(received) + 2)
  BY <1>0, GoesOn, EncodedIsFrom
<1>3. PICK b \in Seq(Bytes) : b = stream \o Contents(m_out_buffer)
  BY WireFacts
<1>4. Contents(m_in_buffer) \o b = FlattenSeq(Left(p, k)) \o more
  BY <1>0, <1>1, <1>2, <1>3, GoesOn DEF UnderWay, Unread
<1>5. Taken = Len(Fields(p)[k]) /\ Taken <= Size(m_in_buffer) /\ m_in_buffer \in Buffer
  BY <1>0, <1>1, GoesOn, WireFacts
<1>6. /\ SubSeq(Contents(m_in_buffer), 1, Taken) = Fields(p)[k]
      /\ MoveForward(m_in_buffer, Taken) \in Buffer
      /\ Contents(MoveForward(m_in_buffer, Taken)) \o b = FlattenSeq(Left(p, k + 1)) \o more
  BY <1>4, <1>5, TakeField
<1>7. /\ m_in_buffer' = MoveForward(m_in_buffer, Taken) /\ m_state' = NextState
      /\ stream' = stream /\ m_out_buffer' = m_out_buffer
  BY DEF Take
<1>8. NextState \in Range(Order) /\ PlaceIn(Order, NextState) = Stage + 1
  BY WireFacts, NextStates
<1>9. Stage' = Stage + 1
  BY <1>7, <1>8 DEF Stage
<1>10. NextState # "WAITING_START_FLAG"
  <2>1. Stage + 1 # 1
    BY <1>1
  <2> QED
    BY <1>8, <2>1, OrderPlaces
<1>11. Unread' = Contents(m_in_buffer') \o (stream' \o Contents(m_out_buffer'))
  BY DEF Unread
<1> QED
  BY <1>1, <1>2, <1>3, <1>6, <1>7, <1>8, <1>9, <1>10, <1>11

\* All else of the invariant after a field was taken.
LEMMA AfterTake ==
  ASSUME WireInv, m_state # "PARSE_SUCCESS", Take,
         m_remain_len' \in Nat, m_req_protocol' \in Protocol,
         Stage + 1 \in 3..12 => m_remain_len' = Rem(Current, Stage + 1),
         Took(m_req_protocol', Current, Stage + 1)
  PROVE  WireInv'
<1>1. /\ m_out_buffer' = m_out_buffer /\ stream' = stream /\ decoding' = decoding
      /\ sent' = sent /\ received' = received /\ decoding /\ ~Starved
  BY DEF Take
<1>2. Current' = Current /\ EncodedFrom(Len(received) + 2)' = EncodedFrom(Len(received) + 2)
  BY <1>1 DEF Current, EncodedFrom
<1>3. Len(received) < Len(sent)
  BY <1>1, GoesOn DEF UnderWay
<1>4. UnderWay'
  <2>1. Unread' = FlattenSeq(Left(Current, Stage))' \o EncodedFrom(Len(received) + 2)'
    BY <1>2, TakeStep
  <2>2. (Stage \in 3..12 => m_remain_len = Rem(Current, Stage))' /\ Took(m_req_protocol, Current, Stage)'
    BY <1>2, TakeStep
  <2>3. (Len(received) < Len(sent))'
    BY <1>1, <1>3
  <2> QED
    BY <2>1, <2>2, <2>3 DEF UnderWay
<1>5. m_state' \in Range(Order) /\ m_state' # "WAITING_START_FLAG" /\ m_in_buffer' \in Buffer
  BY TakeStep
<1>6. WaysAgree'
  BY <1>4, <1>5 DEF WaysAgree
<1>7. WaitsForMore'
  BY <1>1 DEF WaitsForMore
<1>8. FieldsArrive'
  BY <1>1 DEF WireInv, FieldsArrive
<1>9. m_state' # "PARSE_FAILED"
  BY <1>5, OrderPlaces
<1>10. TypeOK'
  <2>1. \A member \in Range(IntMember) : m_req_protocol'[member] \in Nat
    BY MembersAre DEF Protocol
  <2>2. \A member \in Range(StringMember) : m_req_protocol'[member] \in Seq(Bytes)
    BY MembersAre DEF Protocol
  <2> QED
    BY <1>1, <1>5, <2>1, <2>2 DEF WireInv, TypeOK
<1>11. received' \in Seq(Protocol)
  BY <1>1 DEF WireInv
<1> QED
  BY <1>6, <1>7, <1>8, <1>9, <1>10, <1>11 DEF WireInv

\* ParseInt: the four bytes are the integer the member is to have.
LEMMA IntFills ==
  ASSUME NEW p \in Messages, m_state \in DOMAIN IntMember
  PROVE  /\ Stage \in {2, 3, 5, 7, 8, 11} /\ IntMember[m_state] \in IntMembers /\ Taken = 4
         /\ HostInt(Fields(p)[Stage]) \in Nat
         /\ Fills(IntMember[m_state], HostInt(Fields(p)[Stage]), p, Stage)
         /\ Stage = 2 => HostInt(Fields(p)[Stage]) = PkLen(p)
         /\ Stage = 2 <=> m_state = "PARSE_PK_LEN"
<1>1. /\ Stage \in {2, 3, 5, 7, 8, 11} /\ (Stage = 2 <=> m_state = "PARSE_PK_LEN")
      /\ Taken = 4
  <2>1. /\ Stage \in {2, 3, 5, 7, 8, 11} /\ (Stage = 2 <=> m_state = "PARSE_PK_LEN")
    BY OrderPlaces, MembersAre DEF Stage
  <2>2. Taken = 4
    BY MembersAre DEF Taken
  <2> QED
    BY <2>1, <2>2
<1>2. /\ Stage = 2 => IntMember[m_state] = "m_pk_len"
      /\ Stage = 3 => IntMember[m_state] = "m_msg_id_len"
      /\ Stage = 5 => IntMember[m_state] = "m_method_name_len"
      /\ Stage = 7 => IntMember[m_state] = "m_error_code"
      /\ Stage = 8 => IntMember[m_state] = "m_error_info_len"
      /\ Stage = 11 => IntMember[m_state] = "m_check_sum"
  <2>1. /\ IntMember["PARSE_PK_LEN"] = "m_pk_len" /\ IntMember["PARSE_MSG_ID_LEN"] = "m_msg_id_len"
        /\ IntMember["PARSE_METHOD_NAME_LEN"] = "m_method_name_len"
        /\ IntMember["PARSE_ERROR_CODE"] = "m_error_code"
        /\ IntMember["PARSE_ERROR_INFO_LEN"] = "m_error_info_len"
        /\ IntMember["PARSE_CHECK_SUM"] = "m_check_sum"
    BY DEF IntMember
  <2> QED
    BY <2>1, OrderPlaces, MembersAre DEF Stage
<1>3. /\ Stage = 2 => HostInt(Fields(p)[Stage]) = PkLen(p)
      /\ Stage = 3 => HostInt(Fields(p)[Stage]) = Len(p.m_msg_id)
      /\ Stage = 5 => HostInt(Fields(p)[Stage]) = Len(p.m_method_name)
      /\ Stage = 7 => HostInt(Fields(p)[Stage]) = p.m_error_code
      /\ Stage = 8 => HostInt(Fields(p)[Stage]) = Len(p.m_error_info)
      /\ Stage = 11 => HostInt(Fields(p)[Stage]) = 0
  <2>1. /\ HostInt(NetInt(PkLen(p))) = PkLen(p) /\ HostInt(NetInt(Len(p.m_msg_id))) = Len(p.m_msg_id)
        /\ HostInt(NetInt(Len(p.m_method_name))) = Len(p.m_method_name)
        /\ HostInt(NetInt(p.m_error_code)) = p.m_error_code
        /\ HostInt(NetInt(Len(p.m_error_info))) = Len(p.m_error_info) /\ HostInt(NetInt(0)) = 0
    BY FieldInts, Zenon
  <2> QED
    BY <2>1, FieldsAre, Zenon
<1>4. /\ PkLen(p) \in Nat /\ Len(p.m_msg_id) \in Nat /\ Len(p.m_method_name) \in Nat
      /\ p.m_error_code \in Nat /\ Len(p.m_error_info) \in Nat
  <2>1. PICK a \in Nat, b \in Nat, c \in Nat, d \in Nat :
          /\ a = Len(p.m_msg_id) /\ b = Len(p.m_method_name)
          /\ c = Len(p.m_error_info) /\ d = Len(p.m_rpc_data)
    BY MessageFields, Zenon
  <2>2. PkLen(p) = 26 + a + b + c + d
    BY <2>1, MessageFields, Zenon
  <2>3. PICK e \in 0..255 : e = p.m_error_code
    BY MessageFields, BytesAssumption, Zenon
  <2>4. 26 + a + b + c + d \in Nat /\ e \in Nat
    OBVIOUS
  <2> QED
    BY <2>1, <2>2, <2>3, <2>4, Zenon
<1>5. HostInt(Fields(p)[Stage]) \in Nat
  BY <1>1, <1>3, <1>4
<1>6. Fills(IntMember[m_state], HostInt(Fields(p)[Stage]), p, Stage)
  BY <1>1, <1>2, <1>3 DEF Fills
<1>7. IntMember[m_state] \in IntMembers
  BY <1>1, <1>2 DEF IntMembers
<1> QED
  BY <1>1, <1>3, <1>5, <1>6, <1>7

LEMMA ParseIntKeeps ==
  ASSUME WireInv, ParseInt
  PROVE  WireInv'
<1>1. m_state \in DOMAIN IntMember /\ Take /\ m_state # "PARSE_SUCCESS" /\ ~Starved
  BY MembersAre DEF ParseInt, Take
<1>2. PICK p \in Messages, k \in 1..12 : p = Current /\ k = Stage
  BY <1>1, GoesOn
<1>3. /\ k \in {2, 3, 5, 7, 8, 11} /\ IntMember[m_state] \in IntMembers /\ Taken = 4
      /\ HostInt(Fields(p)[k]) \in Nat /\ Fills(IntMember[m_state], HostInt(Fields(p)[k]), p, k)
      /\ k = 2 => HostInt(Fields(p)[k]) = PkLen(p)
      /\ k = 2 <=> m_state = "PARSE_PK_LEN"
  BY <1>1, <1>2, IntFills
<1>4. Substr(m_in_buffer, 4) = Fields(p)[k]
  <2>1. 4 \in 1..Size(m_in_buffer) /\ m_in_buffer \in Buffer
    BY <1>1, <1>3, GoesOn, WireFacts
  <2>2. Substr(m_in_buffer, 4) = SubSeq(Contents(m_in_buffer), 1, 4)
    BY <2>1, FirstBytes
  <2> QED
    BY <1>1, <1>2, <1>3, <2>2, TakeStep
<1>5. PICK n \in Nat, x \in IntMembers : n = HostInt(Fields(p)[k]) /\ x = IntMember[m_state]
  BY <1>3
<1>6. /\ m_req_protocol' = [m_req_protocol EXCEPT ![x] = n]
      /\ m_remain_len' = IF m_state = "PARSE_PK_LEN" THEN n - 5 ELSE m_remain_len - 4
  BY <1>4, <1>5, Zenon DEF ParseInt
<1>7. m_req_protocol \in Protocol /\ Took(m_req_protocol, p, k) /\ (k \in 3..12 => m_remain_len = Rem(p, k))
  BY <1>1, <1>2, GoesOn DEF WireInv, UnderWay
<1>8. m_req_protocol' \in Protocol
  BY <1>5, <1>6, <1>7, ProtocolExcept
<1>9. Took(m_req_protocol', p, k + 1)
  <2>1. k \in 2..11 /\ x \in IntMembers \cup StringMembers /\ Fills(x, n, p, k)
    BY <1>3, <1>5
  <2>2. Took([m_req_protocol EXCEPT ![x] = n], p, k + 1)
    BY <1>7, <2>1, TookMore
  <2> QED
    BY <1>6, <2>2
<1>10. m_remain_len' \in Nat /\ m_remain_len' = Rem(p, k + 1)
  <2>1. CASE k = 2
    <3>1. m_remain_len' = PkLen(p) - 5
      BY <1>3, <1>5, <1>6, <2>1
    <3> QED
      BY <2>1, <3>1, FieldLens
  <2>2. CASE k # 2
    <3>1. k \in 3..12 /\ k + 1 \in 1..13 /\ Len(Fields(p)[k]) = 4
      BY <1>3, <2>2, FieldLens
    <3>2. Rem(p, k + 1) \in Nat /\ Rem(p, k) = 4 + Rem(p, k + 1)
      BY <3>1, RemIs, Zenon
    <3>3. m_remain_len' = m_remain_len - 4
      BY <1>3, <1>6, <2>2
    <3> QED
      BY <1>7, <3>1, <3>2, <3>3
  <2> QED
    BY <2>1, <2>2
<1> QED
  BY <1>1, <1>2, <1>8, <1>9, <1>10, AfterTake

\* ParseString: so is the string, and substr(0, 0) is some string.
LEMMA StringFills ==
  ASSUME NEW p \in Messages, m_state \in DOMAIN StringMember
  PROVE  /\ Stage \in {4, 6, 9, 10} /\ StringMember[m_state] \in StringMembers /\ Taken = StringLen
         /\ \A s : (Fields(p)[Stage] # <<>> => s = Fields(p)[Stage]) => Fills(StringMember[m_state], s, p, Stage)
<1>1. Stage \in {4, 6, 9, 10} /\ Taken = StringLen
  <2>1. Stage \in {4, 6, 9, 10}
    BY OrderPlaces, MembersAre DEF Stage
  <2>2. Taken = StringLen
    BY MembersAre DEF Taken
  <2> QED
    BY <2>1, <2>2
<1>2. /\ Stage = 4 => StringMember[m_state] = "m_msg_id"
      /\ Stage = 6 => StringMember[m_state] = "m_method_name"
      /\ Stage = 9 => StringMember[m_state] = "m_error_info"
      /\ Stage = 10 => StringMember[m_state] = "m_rpc_data"
  <2>1. /\ StringMember["PARSE_MSG_ID"] = "m_msg_id" /\ StringMember["PARSE_METHOD_NAME"] = "m_method_name"
        /\ StringMember["PARSE_ERROR_INFO"] = "m_error_info" /\ StringMember["PARSE_RPC_DATA"] = "m_rpc_data"
    BY DEF StringMember
  <2> QED
    BY <2>1, OrderPlaces, MembersAre DEF Stage
<1>3. p.m_msg_id # <<>> /\ p.m_method_name # <<>>
  BY MessageFields
<1>4. ASSUME NEW s, Fields(p)[Stage] # <<>> => s = Fields(p)[Stage]
      PROVE  Fills(StringMember[m_state], s, p, Stage)
  <2>1. /\ Stage = 4 => s = p.m_msg_id
        /\ Stage = 6 => s = p.m_method_name
        /\ Stage = 9 => (p.m_error_info # <<>> => s = p.m_error_info)
        /\ Stage = 10 => (p.m_rpc_data # <<>> => s = p.m_rpc_data)
    BY <1>3, <1>4, FieldsAre, Zenon
  <2> QED
    BY <1>1, <1>2, <2>1 DEF Fills
<1>5. StringMember[m_state] \in StringMembers
  BY <1>1, <1>2 DEF StringMembers
<1> QED
  BY <1>1, <1>4, <1>5

LEMMA ParseStringKeeps ==
  ASSUME WireInv, ParseString
  PROVE  WireInv'
<1>1. m_state \in DOMAIN StringMember /\ Take /\ m_state # "PARSE_SUCCESS" /\ ~Starved
  BY MembersAre DEF ParseString, Take
<1>2. PICK p \in Messages, k \in 1..12 : p = Current /\ k = Stage
  BY <1>1, GoesOn
<1>3. /\ k \in {4, 6, 9, 10} /\ StringMember[m_state] \in StringMembers /\ Taken = StringLen
      /\ \A s : (Fields(p)[k] # <<>> => s = Fields(p)[k]) => Fills(StringMember[m_state], s, p, k)
  BY <1>1, <1>2, StringFills
<1>4. PICK n \in Nat : n = StringLen /\ n = Len(Fields(p)[k]) /\ n <= Size(m_in_buffer)
  BY <1>1, <1>2, <1>3, GoesOn
<1>5. PICK s : s = Substr(m_in_buffer, n)
  OBVIOUS
<1>6. s \in Seq(Bytes) /\ (Fields(p)[k] # <<>> => s = Fields(p)[k])
  <2>1. m_in_buffer \in Buffer /\ Fields(p)[k] \in Seq(Bytes)
    BY WireFacts, LeftUnfolds
  <2>2. CASE n = 0
    <3>1. Fields(p)[k] = <<>>
      BY <1>4, <2>1, <2>2, EmptySeq
    <3>2. s = Contents(m_in_buffer)
      BY <1>5, <2>2 DEF Substr, Contents
    <3> QED
      BY <3>1, <3>2, WireFacts
  <2>3. CASE n # 0
    <3>1. n \in 1..Size(m_in_buffer)
      BY <1>4, <2>3, WireFacts
    <3>2. s = SubSeq(Contents(m_in_buffer), 1, n)
      BY <1>5, <2>1, <3>1, FirstBytes
    <3>3. s = Fields(p)[k]
      BY <1>1, <1>2, <1>3, <1>4, <3>2, TakeStep
    <3> QED
      BY <2>1, <3>3
  <2> QED
    BY <2>2, <2>3
<1>7. PICK x \in StringMembers : x = StringMember[m_state]
  BY <1>3
<1>8. m_req_protocol' = [m_req_protocol EXCEPT ![x] = s] /\ m_remain_len' = m_remain_len - n
  BY <1>4, <1>5, <1>7, Zenon DEF ParseString
<1>9. m_req_protocol \in Protocol /\ Took(m_req_protocol, p, k) /\ (k \in 3..12 => m_remain_len = Rem(p, k))
  BY <1>1, <1>2, GoesOn DEF WireInv, UnderWay
<1>10. m_req_protocol' \in Protocol
  BY <1>6, <1>7, <1>8, <1>9, ProtocolExcept
<1>11. Took(m_req_protocol', p, k + 1)
  <2>1. k \in 2..11 /\ x \in IntMembers \cup StringMembers /\ Fills(x, s, p, k)
    BY <1>3, <1>6, <1>7
  <2>2. Took([m_req_protocol EXCEPT ![x] = s], p, k + 1)
    BY <1>9, <2>1, TookMore
  <2> QED
    BY <1>8, <2>2
<1>12. m_remain_len' \in Nat /\ m_remain_len' = Rem(p, k + 1)
  <2>1. k \in 3..12 /\ k + 1 \in 1..13
    BY <1>3
  <2>2. Rem(p, k + 1) \in Nat /\ Rem(p, k) = n + Rem(p, k + 1)
    BY <1>4, <2>1, RemIs, Zenon
  <2> QED
    BY <1>8, <1>9, <2>1, <2>2
<1> QED
  BY <1>1, <1>2, <1>10, <1>11, <1>12, AfterTake

\* ParseFlag: the byte is the flag.
LEMMA ParseFlagKeeps ==
  ASSUME WireInv, ParseFlag
  PROVE  WireInv'
<1>1. m_state \in {"WAITING_START_FLAG", "WAITING_END_FLAG"} /\ m_state # "PARSE_SUCCESS" /\ ~Starved
  BY DEF ParseFlag
<1>2. PICK p \in Messages, k \in 1..12 : p = Current /\ k = Stage
  BY <1>1, GoesOn
<1>3. /\ k = 1 <=> m_state = "WAITING_START_FLAG"
      /\ k = 12 <=> m_state = "WAITING_END_FLAG"
      /\ Taken = 1 /\ k \in {1, 12}
  <2>1. k = 1 <=> m_state = "WAITING_START_FLAG"
    BY <1>1, <1>2, OrderPlaces DEF Stage
  <2>2. k = 12 <=> m_state = "WAITING_END_FLAG"
    BY <1>1, <1>2, OrderPlaces DEF Stage
  <2>3. Taken = 1
    BY <1>1, MembersAre DEF Taken
  <2> QED
    BY <1>1, <2>1, <2>2, <2>3
<1>4. Fields(p)[k][1] = Flag
  <2>1. <<START_FLAG>>[1] = START_FLAG /\ <<END_FLAG>>[1] = END_FLAG
    OBVIOUS
  <2>2. Fields(p)[1][1] = START_FLAG /\ Fields(p)[12][1] = END_FLAG
    BY <2>1, FieldsAre, Zenon
  <2> QED
    BY <1>1, <1>3, <2>2 DEF Flag
<1>5. PICK c \in Seq(Bytes), b \in Seq(Bytes), more \in Seq(Bytes) :
        /\ c = Contents(m_in_buffer) /\ b = stream \o Contents(m_out_buffer)
        /\ more = EncodedFrom(Len(received) + 2)
        /\ c \o b = FlattenSeq(Left(p, k)) \o more
  BY <1>1, <1>2, WireFacts, GoesOn, EncodedIsFrom DEF UnderWay, Unread
<1>6. m_in_buffer \in Buffer /\ 1 \in 1..Size(m_in_buffer) /\ Len(Fields(p)[k]) = 1
  BY <1>1, <1>2, <1>3, GoesOn, WireFacts
<1>7. SubSeq(c, 1, 1) = Fields(p)[k]
  <2>1. Len(Fields(p)[k]) <= Size(m_in_buffer)
    BY <1>6
  <2> QED
    BY <1>5, <1>6, <2>1, TakeField
<1>8. At(m_in_buffer, 1) = Flag
  BY <1>4, <1>5, <1>6, <1>7, FirstBytes
<1>9. Take /\ m_remain_len' = m_remain_len /\ m_req_protocol' = m_req_protocol
  BY <1>8 DEF ParseFlag
<1>10. m_remain_len' \in Nat /\ m_req_protocol' \in Protocol
  BY <1>9 DEF WireInv, TypeOK
<1>11. k + 1 \notin 3..12
  BY <1>3
<1>12. Took(m_req_protocol', p, k + 1)
  <2>1. Took(m_req_protocol, p, k)
    BY <1>1, <1>2, GoesOn DEF UnderWay
  <2> QED
    BY <1>3, <1>9, <2>1 DEF Took
<1> QED
  BY <1>1, <1>2, <1>9, <1>10, <1>11, <1>12, AfterTake

-----------------------------------------------------------------------------
(* The steps that take no field.                                           *)

\* Nothing is on the way at first.
LEMMA InitWire ==
  ASSUME Init
  PROVE  WireInv
<1>1. EmptyBuffer \in Buffer /\ Contents(EmptyBuffer) = <<>> /\ Size(EmptyBuffer) = 0
  <2>1. <<>> \in Seq(Bytes) /\ Len(<<>>) = 0
    BY EmptySeq
  <2>2. EmptyBuffer = [m_buffer |-> <<>>, m_start_index |-> 0]
    BY DEF EmptyBuffer
  <2>3. EmptyBuffer \in Buffer
    BY <2>1, <2>2 DEF Buffer
  <2>4. Contents(EmptyBuffer) = <<>>
    BY <2>2, SubSeqEmpty, ContentsOf
  <2>5. Size(EmptyBuffer) = 0
    BY <2>1, <2>3, <2>4, ContentsType
  <2> QED
    BY <2>3, <2>4, <2>5
<1>2. /\ m_out_buffer = EmptyBuffer /\ stream = <<>> /\ m_in_buffer = EmptyBuffer
      /\ m_state = "WAITING_START_FLAG" /\ m_remain_len = 0 /\ m_req_protocol = Cleared
      /\ decoding = FALSE /\ sent = <<>> /\ received = <<>>
  BY DEF Init
<1>3. m_req_protocol \in Protocol
  BY <1>2, ClearedType
<1>4. sent \in Seq(Messages) /\ received \in Seq(Protocol) /\ stream \in Seq(Bytes) /\ Len(received) = 0
      /\ Len(sent) = 0 /\ DOMAIN received = {}
  BY <1>2, EmptySeq
<1>5. TypeOK
  <2>1. /\ \A member \in Range(IntMember) : m_req_protocol[member] \in Nat
        /\ \A member \in Range(StringMember) : m_req_protocol[member] \in Seq(Bytes)
    BY <1>3, MembersAre DEF Protocol
  <2>2. m_state \in Range(Order)
    BY <1>2, OrderPlaces
  <2> QED
    BY <1>1, <1>2, <1>4, <2>1, <2>2 DEF TypeOK
<1>6. Unread = EncodedFrom(Len(received) + 1)
  <2>1. <<>> \o (<<>> \o <<>>) = <<>>
    BY EmptySeq
  <2>2. Unread = <<>>
    BY <1>1, <1>2, <2>1 DEF Unread
  <2>3. Len(received) + 1 = Len(sent) + 1
    BY <1>4
  <2>4. From(sent, Len(sent) + 1) = <<>>
    BY <1>4, FromEnd
  <2> QED
    BY <2>2, <2>3, <2>4, EncodedIsFrom
<1>7. Starved
  <2>1. Taken = 1
    BY <1>2, MembersAre DEF Taken
  <2> QED
    BY <1>1, <1>2, <2>1 DEF Starved
<1>8. WaysAgree /\ WaitsForMore
  BY <1>2, <1>6, <1>7 DEF WaysAgree, WaitsForMore
<1>9. FieldsArrive
  BY <1>4 DEF FieldsArrive
<1>10. m_state # "PARSE_FAILED"
  BY <1>2
<1> QED
  BY <1>3, <1>4, <1>5, <1>8, <1>9, <1>10 DEF WireInv

\* What is on the way is only moved along it.
LEMMA WayKeeps ==
  ASSUME WireInv, Unread' = Unread, UNCHANGED <<decoder_vars, sent, received>>,
         m_in_buffer' \in Buffer, m_out_buffer' \in Buffer, stream' \in Seq(Bytes),
         decoding' \in BOOLEAN, WaitsForMore'
  PROVE  WireInv'
<1>1. /\ m_state' = m_state /\ m_remain_len' = m_remain_len /\ m_req_protocol' = m_req_protocol
      /\ sent' = sent /\ received' = received
  BY DEF decoder_vars
<1>2. WaysAgree'
  <2>1. WaysAgree
    BY DEF WireInv
  <2> QED
    BY <1>1, <2>1 DEF WaysAgree, UnderWay, Stage, Current, EncodedFrom
<1>3. FieldsArrive'
  BY <1>1 DEF WireInv, FieldsArrive
<1>4. TypeOK'
  BY <1>1 DEF WireInv, TypeOK
<1> QED
  BY <1>1, <1>2, <1>3, <1>4 DEF WireInv

\* The decoder waits for as many bytes as before.
LEMMA StillStarved ==
  ASSUME UNCHANGED <<decoder_vars, m_in_buffer>>
  PROVE  Starved' = Starved
BY DEF decoder_vars, Starved, Taken, StringLen

LEMMA ReturnNullKeeps ==
  ASSUME WireInv, ReturnNull
  PROVE  WireInv'
<1>1. /\ UNCHANGED <<buffer_vars, decoder_vars, sent, received>> /\ decoding' = FALSE
      /\ m_state # "PARSE_SUCCESS" /\ Starved
  BY DEF ReturnNull
<1>2. /\ m_in_buffer' = m_in_buffer /\ m_out_buffer' = m_out_buffer /\ stream' = stream
      /\ m_state' = m_state
  BY <1>1 DEF buffer_vars, decoder_vars
<1>3. Unread' = Unread
  BY <1>2 DEF Unread
<1>4. WaitsForMore'
  BY <1>1, <1>2, StillStarved DEF WaitsForMore
<1> QED
  BY <1>1, <1>2, <1>3, <1>4, WayKeeps DEF WireInv, TypeOK

LEMMA StutterKeeps ==
  ASSUME WireInv, UNCHANGED vars
  PROVE  WireInv'
<1>1. UNCHANGED <<buffer_vars, decoder_vars, decoding, sent, received>>
  BY DEF vars
<1>2. /\ m_in_buffer' = m_in_buffer /\ m_out_buffer' = m_out_buffer /\ stream' = stream
      /\ m_state' = m_state
  BY <1>1 DEF buffer_vars, decoder_vars
<1>3. Unread' = Unread
  BY <1>2 DEF Unread
<1>4. WaitsForMore'
  BY <1>1, <1>2, StillStarved DEF WireInv, WaitsForMore
<1> QED
  BY <1>1, <1>2, <1>3, <1>4, WayKeeps DEF WireInv, TypeOK

\* The kernel takes bytes from the front of the output.
LEMMA SendKeeps ==
  ASSUME WireInv, Send
  PROVE  WireInv'
<1>1. PICK n : n = Min({Size(m_out_buffer), Room})
  OBVIOUS
<1>2. PICK c \in Seq(Bytes), s \in Seq(Bytes), b \in Seq(Bytes) :
        c = Contents(m_out_buffer) /\ s = stream /\ b = Contents(m_in_buffer)
  BY WireFacts
<1>3. n \in 1..Len(c) /\ Size(m_out_buffer) = Len(c) /\ Len(c) \in Nat
  <2>1. Size(m_out_buffer) = Len(c) /\ Len(c) \in Nat
    BY <1>2, WireFacts, ContentsType
  <2>2. Len(c) > 0
    BY <2>1 DEF Send
  <2>3. {Len(c), Room} \in SUBSET Nat /\ {Len(c), Room} # {}
    BY <2>1, BoundsAssumption
  <2>4. n \in {Len(c), Room} /\ \A y \in {Len(c), Room} : n <= y
    BY <1>1, <2>1, <2>3, MinOfNonempty
  <2> QED
    BY <2>1, <2>2, <2>4, BoundsAssumption
<1>4. PICK p \in Seq(Bytes), q \in Seq(Bytes) :
        p = SubSeq(c, 1, n) /\ q = SubSeq(c, n + 1, Len(c)) /\ c = p \o q
  <2>1. PICK k \in Nat : k = Len(c)
    BY <1>3
  <2>2. SubSeq(c, 1, n) \in Seq(Bytes) /\ SubSeq(c, n + 1, k) \in Seq(Bytes)
    BY <1>3, <2>1
  <2>3. 1 \in 1..(Len(c) + 1) /\ n \in (1 - 1)..Len(c) /\ Len(c) \in n..Len(c)
    BY <1>3, <2>1
  <2>4. SubSeq(c, 1, n) \o SubSeq(c, n + 1, Len(c)) = SubSeq(c, 1, Len(c))
    BY <2>3, ConcatAdjacentSubSeq
  <2> QED
    BY <2>1, <2>2, <2>4, SubSeqFull
<1>5. /\ stream' = s \o p /\ m_out_buffer' = MoveForward(Shrink(m_out_buffer), n)
      /\ UNCHANGED <<m_in_buffer, decoder_vars, decoding, sent, received>>
  BY <1>1, <1>2, <1>4 DEF Send
<1>6. m_out_buffer' \in Buffer /\ Contents(m_out_buffer') = q
  <2>1. PICK buf \in Buffer : buf = Shrink(m_out_buffer) /\ Contents(buf) = c
    BY <1>2, WireFacts, ShrinkKeeps
  <2>2. Size(buf) = Len(c)
    BY <2>1, ContentsType
  <2>3. n \in 0..Size(buf)
    BY <1>3, <2>2
  <2> QED
    BY <1>4, <1>5, <2>1, <2>2, <2>3, MoveForwardTakes
<1>7. stream' \in Seq(Bytes)
  BY <1>5, ConcatProperties
<1>8. (s \o p) \o q = s \o c
  <2>1. IsJoin(Bytes, s \o p, s, p) /\ IsJoin(Bytes, c, p, q) /\ IsJoin(Bytes, (s \o p) \o q, s \o p, q)
    BY <1>4, <1>5, <1>7 DEF IsJoin
  <2>2. IsJoin(Bytes, (s \o p) \o q, s, c)
    BY <2>1, JoinThree, Zenon
  <2> QED
    BY <2>2 DEF IsJoin
<1>9. Unread' = Unread
  <2>1. Unread' = Contents(m_in_buffer') \o (stream' \o Contents(m_out_buffer'))
    BY DEF Unread
  <2>2. Unread = b \o (s \o c)
    BY <1>2 DEF Unread
  <2> QED
    BY <1>2, <1>5, <1>6, <1>8, <2>1, <2>2
<1>10. WaitsForMore'
  <2>1. m_state' = m_state /\ decoding' = decoding
    BY <1>5 DEF decoder_vars
  <2> QED
    BY <1>5, <2>1, StillStarved DEF WireInv, WaitsForMore
<1> QED
  BY <1>5, <1>6, <1>7, <1>9, <1>10, WayKeeps DEF WireInv, TypeOK

\* recv() moves bytes from the front of the stream to the end of the input.
LEMMA ReceiveKeeps ==
  ASSUME WireInv, Receive
  PROVE  WireInv'
<1>1. PICK c \in Seq(Bytes), s \in Seq(Bytes), b \in Seq(Bytes) :
        c = Contents(m_out_buffer) /\ s = stream /\ b = Contents(m_in_buffer)
  BY WireFacts
<1>2. PICK n \in 1..Len(s) :
        m_in_buffer' = AppendBytes(m_in_buffer, SubSeq(s, 1, n)) /\ stream' = SubSeq(s, n + 1, Len(s))
  BY <1>1 DEF Receive
<1>3. PICK p \in Seq(Bytes), q \in Seq(Bytes) :
        p = SubSeq(s, 1, n) /\ q = SubSeq(s, n + 1, Len(s)) /\ s = p \o q
  <2>1. PICK k \in Nat : k = Len(s)
    BY LenProperties
  <2>2. SubSeq(s, 1, n) \in Seq(Bytes) /\ SubSeq(s, n + 1, k) \in Seq(Bytes)
    BY <1>2, <2>1
  <2>3. 1 \in 1..(Len(s) + 1) /\ n \in (1 - 1)..Len(s) /\ Len(s) \in n..Len(s)
    BY <1>2, <2>1
  <2>4. SubSeq(s, 1, n) \o SubSeq(s, n + 1, Len(s)) = SubSeq(s, 1, Len(s))
    BY <2>3, ConcatAdjacentSubSeq
  <2> QED
    BY <2>1, <2>2, <2>4, SubSeqFull
<1>4. m_in_buffer' \in Buffer /\ Contents(m_in_buffer') = b \o p
  BY <1>1, <1>2, <1>3, WireFacts, AppendAppends
<1>5. /\ m_state # "PARSE_FAILED" /\ m_state' = m_state /\ m_req_protocol' = m_req_protocol
      /\ UNCHANGED <<m_out_buffer, m_remain_len, sent, received>> /\ decoding' = TRUE
  BY DEF WireInv, Receive, GoneOnWith
<1>6. PICK sc \in Seq(Bytes), qc \in Seq(Bytes), bp \in Seq(Bytes), all \in Seq(Bytes) :
        sc = s \o c /\ qc = q \o c /\ bp = b \o p /\ all = b \o sc
  <2>1. s \o c \in Seq(Bytes) /\ q \o c \in Seq(Bytes) /\ b \o p \in Seq(Bytes)
    BY ConcatProperties
  <2>2. b \o (s \o c) \in Seq(Bytes)
    BY <2>1, ConcatProperties
  <2> QED
    BY <2>1, <2>2
<1>7. all = bp \o qc
  <2>1. IsJoin(Bytes, s, p, q) /\ IsJoin(Bytes, qc, q, c) /\ IsJoin(Bytes, sc, s, c)
    BY <1>3, <1>6, Zenon DEF IsJoin
  <2>2. IsJoin(Bytes, sc, p, qc)
    BY <2>1, JoinThree, Zenon
  <2>3. IsJoin(Bytes, bp, b, p) /\ IsJoin(Bytes, all, b, sc)
    BY <1>6, Zenon DEF IsJoin
  <2>4. IsJoin(Bytes, all, bp, qc)
    BY <2>2, <2>3, JoinApart, Zenon
  <2> QED
    BY <2>4, Zenon DEF IsJoin
<1>8. Unread' = Unread
  <2>1. Unread' = Contents(m_in_buffer') \o (stream' \o Contents(m_out_buffer'))
    BY DEF Unread
  <2>2. Unread = b \o (s \o c)
    BY <1>1 DEF Unread
  <2>3. m_out_buffer' = m_out_buffer
    BY <1>5
  <2> QED
    BY <1>1, <1>2, <1>3, <1>4, <1>6, <1>7, <2>1, <2>2, <2>3, Zenon
<1>9. WaitsForMore'
  BY <1>5 DEF WaitsForMore
<1>10. m_out_buffer' \in Buffer /\ stream' \in Seq(Bytes)
  BY <1>2, <1>3, <1>5, WireFacts
<1> QED
  BY <1>4, <1>5, <1>8, <1>9, <1>10, WayKeeps DEF decoder_vars

\* A packet more is on the way, behind the others.
LEMMA EncodeKeeps ==
  ASSUME WireInv, NEW p \in Messages, Encode(p)
  PROVE  WireInv'
<1>1. /\ m_out_buffer' = AppendBytes(Shrink(m_out_buffer), Encoded(p)) /\ sent' = Append(sent, p)
      /\ UNCHANGED <<stream, m_in_buffer, decoder_vars, decoding, received>>
  BY DEF Encode
<1>2. /\ stream' = stream /\ m_in_buffer' = m_in_buffer /\ decoding' = decoding /\ received' = received
      /\ m_state' = m_state /\ m_remain_len' = m_remain_len /\ m_req_protocol' = m_req_protocol
  BY <1>1 DEF decoder_vars
<1>3. PICK c \in Seq(Bytes), s \in Seq(Bytes), b \in Seq(Bytes), e \in Seq(Bytes) :
        /\ c = Contents(m_out_buffer) /\ s = stream /\ b = Contents(m_in_buffer)
        /\ e = Encoded(p)
  BY WireFacts, LeftEnds
<1>4. m_out_buffer' \in Buffer /\ Contents(m_out_buffer') = c \o e
  <2>1. PICK buf \in Buffer : buf = Shrink(m_out_buffer) /\ Contents(buf) = c
    BY <1>3, WireFacts, ShrinkKeeps
  <2> QED
    BY <1>1, <1>3, <2>1, AppendAppends
<1>5. PICK u \in Seq(Bytes) : u = Unread /\ Unread' = u \o e
  <2>1. PICK ce, sc, sce, bsc, all :
          /\ ce = c \o e /\ sc = s \o c /\ sce = s \o ce /\ bsc = b \o sc /\ all = b \o sce
    OBVIOUS
  <2>2. ce \in Seq(Bytes) /\ sc \in Seq(Bytes)
    BY <2>1, ConcatProperties
  <2>3. sce \in Seq(Bytes) /\ bsc \in Seq(Bytes)
    BY <2>1, <2>2, ConcatProperties
  <2>4. IsJoin(Bytes, sc, s, c) /\ IsJoin(Bytes, ce, c, e) /\ IsJoin(Bytes, sce, s, ce)
    BY <2>1, <2>2, Zenon DEF IsJoin
  <2>5. IsJoin(Bytes, sce, sc, e)
    BY <2>4, JoinApart, Zenon
  <2>6. IsJoin(Bytes, bsc, b, sc) /\ IsJoin(Bytes, all, b, sce)
    BY <2>1, <2>2, <2>3, Zenon DEF IsJoin
  <2>7. IsJoin(Bytes, all, bsc, e)
    BY <2>5, <2>6, JoinApart, Zenon
  <2>8. all = bsc \o e
    BY <2>7, Zenon DEF IsJoin
  <2>9. Unread' = all
    <3>1. Unread' = Contents(m_in_buffer') \o (stream' \o Contents(m_out_buffer'))
      BY DEF Unread
    <3> QED
      BY <1>2, <1>3, <1>4, <2>1, <3>1, Zenon
  <2>10. Unread = bsc
    BY <1>3, <2>1, Zenon DEF Unread
  <2> QED
    BY <2>3, <2>8, <2>9, <2>10, Zenon
<1>6. PICK n \in Nat, k \in Nat : n = Len(received) /\ k = Len(sent) /\ n <= k
  BY WireFacts
<1>7. /\ sent \in Seq(Messages) /\ sent' \in Seq(Messages) /\ Len(sent') = k + 1
      /\ \A i \in 1..k : sent'[i] = sent[i]
  <2>1. sent \in Seq(Messages)
    BY WireFacts
  <2>2. /\ Append(sent, p) \in Seq(Messages) /\ Len(Append(sent, p)) = k + 1
        /\ \A i \in 1..k : Append(sent, p)[i] = sent[i]
    BY <1>6, <2>1, AppendProperties
  <2> QED
    BY <1>1, <2>1, <2>2
<1>8. ASSUME NEW i \in 1..(k + 1)
      PROVE  From(sent', i) = From(sent, i) \o e /\ From(sent, i) \in Seq(Bytes)
  <2>1. i \in 1..(Len(sent) + 1)
    BY <1>6
  <2> QED
    BY <1>1, <1>3, <1>7, <2>1, FromAppend, FromType
<1>9. WaysAgree'
  <2>1. CASE m_state = "WAITING_START_FLAG"
    <3>1. u = From(sent, n + 1)
      BY <1>5, <1>6, <2>1, EncodedIsFrom DEF WireInv, WaysAgree
    <3>2. n + 1 \in 1..(k + 1)
      BY <1>6
    <3>3. Unread' = From(sent', n + 1)
      BY <1>5, <1>8, <3>1, <3>2
    <3>4. From(sent', n + 1) = EncodedFrom(Len(received) + 1)'
      BY <1>2, <1>6 DEF EncodedFrom, From, Packets
    <3> QED
      BY <1>2, <2>1, <3>3, <3>4 DEF WaysAgree
  <2>2. CASE m_state # "WAITING_START_FLAG"
    <3>1. UnderWay
      BY <2>2 DEF WireInv, WaysAgree
    <3>2. n < k /\ n + 1 \in 1..k /\ n + 2 \in 1..(k + 1) /\ Len(received) < Len(sent)
      <4>1. Len(received) < Len(sent)
        BY <3>1 DEF UnderWay
      <4>2. n < k
        BY <1>6, <4>1
      <4> QED
        BY <4>1, <4>2
    <3>3. Current' = Current
      <4>1. sent'[n + 1] = sent[n + 1]
        BY <1>7, <3>2
      <4> QED
        BY <1>2, <1>6, <4>1 DEF Current
    <3>4. Stage' = Stage
      BY <1>2 DEF Stage
    <3>5. FlattenSeq(Left(Current, Stage)) \in Seq(Bytes)
      <4>1. Current \in Messages
        BY <3>2, CurrentIs, Zenon
      <4>2. m_state \in Range(Order)
        BY WireFacts
      <4>3. CASE m_state = "PARSE_SUCCESS"
        <5>1. Stage = 13
          BY <4>3, OrderPlaces DEF Stage
        <5> QED
          BY <4>1, <5>1, LeftEnds, EmptySeq
      <4>4. CASE m_state # "PARSE_SUCCESS"
        <5>1. Stage \in 1..12
          BY <4>2, <4>4, NextStates
        <5> QED
          BY <4>1, <5>1, LeftUnfolds
      <4> QED
        BY <4>3, <4>4
    <3>6. PICK f \in Seq(Bytes), m \in Seq(Bytes) :
            f = FlattenSeq(Left(Current, Stage)) /\ m = From(sent, n + 2)
      <4>1. From(sent, n + 2) \in Seq(Bytes)
        BY <1>8, <3>2, Zenon
      <4> QED
        BY <3>5, <4>1
    <3>7. u = f \o m
      BY <1>5, <1>6, <3>1, <3>6, EncodedIsFrom DEF UnderWay
    <3>8. PICK me \in Seq(Bytes) : me = m \o e /\ me = From(sent', n + 2)
      <4>1. m \o e \in Seq(Bytes)
        BY ConcatProperties
      <4>2. m \o e = From(sent', n + 2)
        BY <1>8, <3>2, <3>6
      <4> QED
        BY <4>1, <4>2
    <3>9. u \o e = f \o me
      <4>1. IsJoin(Bytes, u, f, m) /\ IsJoin(Bytes, me, m, e) /\ IsJoin(Bytes, u \o e, u, e)
        BY <1>3, <3>6, <3>7, <3>8, Zenon DEF IsJoin
      <4>2. IsJoin(Bytes, u \o e, f, me)
        BY <4>1, JoinThree, Zenon
      <4> QED
        BY <4>2, Zenon DEF IsJoin
    <3>10. From(sent', n + 2) = EncodedFrom(Len(received) + 2)'
      BY <1>2, <1>6 DEF EncodedFrom, From, Packets
    <3>11. UnderWay'
      <4>1. Unread' = FlattenSeq(Left(Current, Stage))' \o EncodedFrom(Len(received) + 2)'
        BY <1>5, <3>3, <3>4, <3>6, <3>8, <3>9, <3>10
      <4>2. (Len(received) < Len(sent))'
        BY <1>2, <1>6, <1>7, <3>2
      <4>3. (Stage \in 3..12 => m_remain_len = Rem(Current, Stage))' /\ Took(m_req_protocol, Current, Stage)'
        BY <1>2, <3>1, <3>3, <3>4 DEF UnderWay
      <4> QED
        BY <4>1, <4>2, <4>3 DEF UnderWay
    <3> QED
      BY <1>2, <2>2, <3>11 DEF WaysAgree
  <2> QED
    BY <2>1, <2>2
<1>10. WaitsForMore'
  BY <1>1, <1>2, StillStarved DEF WireInv, WaitsForMore
<1>11. FieldsArrive'
  <2>1. DOMAIN received = 1..n /\ FieldsArrive
    BY <1>6, LenProperties DEF WireInv
  <2>2. \A i \in DOMAIN received : sent'[i] = sent[i]
    BY <1>6, <1>7, <2>1
  <2>3. Len(received') <= Len(sent')
    BY <1>2, <1>6, <1>7
  <2> QED
    BY <1>2, <2>1, <2>2, <2>3 DEF FieldsArrive
<1>12. TypeOK'
  BY <1>2, <1>4, <1>7 DEF WireInv, TypeOK
<1> QED
  BY <1>2, <1>9, <1>10, <1>11, <1>12 DEF WireInv

\* The packet was taken, and the protocol has its fields.
LEMMA ReturnFacts ==
  ASSUME WireInv, m_state = "PARSE_SUCCESS"
  PROVE  /\ Len(received) < Len(sent) /\ Current \in Messages
         /\ Took(m_req_protocol, Current, 13)
         /\ Unread = EncodedFrom(Len(received) + 2)
<1>1. UnderWay /\ Stage = 13
  <2>1. Stage = 13
    BY OrderPlaces DEF Stage
  <2> QED
    BY <2>1 DEF WireInv, WaysAgree
<1>2. Len(received) < Len(sent) /\ Took(m_req_protocol, Current, 13)
  BY <1>1 DEF UnderWay
<1>3. Current \in Messages /\ From(sent, Len(received) + 2) \in Seq(Bytes)
  BY <1>2, CurrentIs
<1>4. FlattenSeq(Left(Current, 13)) = <<>>
  BY <1>3, LeftEnds
<1>5. PICK m \in Seq(Bytes) : m = EncodedFrom(Len(received) + 2)
  BY <1>3, EncodedIsFrom
<1>6. <<>> \o m = m
  BY ConcatEmptySeq
<1>7. Unread = <<>> \o m
  BY <1>1, <1>4, <1>5 DEF UnderWay
<1> QED
  BY <1>2, <1>3, <1>5, <1>6, <1>7

LEMMA ReturnProtocolKeeps ==
  ASSUME WireInv, ReturnProtocol
  PROVE  WireInv'
<1>1. /\ m_state = "PARSE_SUCCESS" /\ received' = Append(received, m_req_protocol)
      /\ m_req_protocol' = Cleared /\ m_state' = "WAITING_START_FLAG" /\ decoding' = TRUE
      /\ m_in_buffer' = m_in_buffer /\ m_out_buffer' = m_out_buffer /\ stream' = stream
      /\ m_remain_len' = m_remain_len /\ sent' = sent
  BY DEF ReturnProtocol, buffer_vars, WireInv, TypeOK
<1>2. PICK n \in Nat, k \in Nat : n = Len(received) /\ k = Len(sent) /\ n < k
  BY <1>1, WireFacts, ReturnFacts
<1>3. received \in Seq(Protocol) /\ m_req_protocol \in Protocol
  BY DEF WireInv
<1>4. /\ received' \in Seq(Protocol) /\ Len(received') = n + 1 /\ received'[n + 1] = m_req_protocol
      /\ \A i \in 1..n : received'[i] = received[i]
  <2>1. /\ Append(received, m_req_protocol) \in Seq(Protocol)
        /\ Len(Append(received, m_req_protocol)) = n + 1
        /\ Append(received, m_req_protocol)[n + 1] = m_req_protocol
        /\ \A i \in 1..n : Append(received, m_req_protocol)[i] = received[i]
    BY <1>2, <1>3, AppendProperties
  <2> QED
    BY <1>1, <2>1
<1>5. WaysAgree'
  <2>1. Unread' = Unread
    BY <1>1 DEF Unread
  <2>2. Unread = EncodedFrom(n + 2)
    BY <1>1, <1>2, ReturnFacts
  <2>3. Len(received') + 1 = n + 2
    BY <1>4
  <2>4. EncodedFrom(Len(received) + 1)' = EncodedFrom(n + 2)
    BY <1>1, <2>3 DEF EncodedFrom
  <2> QED
    BY <1>1, <2>1, <2>2, <2>4 DEF WaysAgree
<1>6. WaitsForMore'
  BY <1>1 DEF WaitsForMore
<1>7. FieldsArrive'
  <2>1. Len(received') <= Len(sent')
    BY <1>1, <1>2, <1>4
  <2>2. DOMAIN received' = 1..(n + 1) /\ DOMAIN received = 1..n
    BY <1>2, <1>3, <1>4, LenProperties
  <2>3. ASSUME NEW i \in 1..(n + 1)
        PROVE  /\ \A member \in {"m_msg_id", "m_method_name", "m_error_code"} :
                    received'[i][member] = sent[i][member]
               /\ \A member \in {"m_error_info", "m_rpc_data"} :
                    sent[i][member] # <<>> => received'[i][member] = sent[i][member]
    <3>1. CASE i = n + 1
      <4>1. Took(m_req_protocol, sent[i], 13)
        BY <1>1, <1>2, <3>1, ReturnFacts DEF Current
      <4>2. PICK m, s : m = m_req_protocol /\ s = sent[i] /\ received'[i] = m
        BY <1>4, <3>1
      <4>3. Took(m, s, 13)
        BY <4>1, <4>2
      <4>4. /\ m["m_msg_id"] = s["m_msg_id"] /\ m["m_method_name"] = s["m_method_name"]
            /\ m["m_error_code"] = s["m_error_code"]
            /\ s["m_error_info"] # <<>> => m["m_error_info"] = s["m_error_info"]
            /\ s["m_rpc_data"] # <<>> => m["m_rpc_data"] = s["m_rpc_data"]
        BY <4>3 DEF Took
      <4> QED
        BY <4>2, <4>4
    <3>2. CASE i # n + 1
      <4>1. i \in 1..n
        BY <3>2
      <4>2. received'[i] = received[i] /\ i \in DOMAIN received
        BY <1>4, <2>2, <4>1
      <4> QED
        BY <4>2 DEF WireInv, FieldsArrive
    <3> QED
      BY <3>1, <3>2
  <2> QED
    BY <1>1, <2>1, <2>2, <2>3 DEF FieldsArrive
<1>8. m_req_protocol' \in Protocol
  BY <1>1, ClearedType
<1>9. TypeOK'
  <2>1. /\ \A member \in Range(IntMember) : m_req_protocol'[member] \in Nat
        /\ \A member \in Range(StringMember) : m_req_protocol'[member] \in Seq(Bytes)
    BY <1>8, MembersAre DEF Protocol
  <2>2. m_state' \in Range(Order)
    BY <1>1, OrderPlaces
  <2> QED
    BY <1>1, <2>1, <2>2 DEF WireInv, TypeOK
<1>10. m_state' # "PARSE_FAILED"
  BY <1>1
<1> QED
  BY <1>4, <1>5, <1>6, <1>7, <1>8, <1>9, <1>10 DEF WireInv

\* So every step of the wire keeps the invariant.
LEMMA WireSteps ==
  ASSUME WireInv, [Next]_vars
  PROVE  WireInv'
<1>1. CASE \E p \in Messages : Encode(p)
  BY <1>1, EncodeKeeps
<1>2. CASE Send
  BY <1>2, SendKeeps
<1>3. CASE Receive
  BY <1>3, ReceiveKeeps
<1>4. CASE ReturnNull
  BY <1>4, ReturnNullKeeps
<1>5. CASE ParseFlag
  BY <1>5, ParseFlagKeeps
<1>6. CASE ParseInt
  BY <1>6, ParseIntKeeps
<1>7. CASE ParseString
  BY <1>7, ParseStringKeeps
<1>8. CASE ReturnProtocol
  BY <1>8, ReturnProtocolKeeps
<1>9. CASE UNCHANGED vars
  BY <1>9, StutterKeeps
<1> QED
  BY <1>1, <1>2, <1>3, <1>4, <1>5, <1>6, <1>7, <1>8, <1>9 DEF Next

\* A receiver that waits with nothing on the way to it has returned all.
LEMMA WireInStep ==
  ASSUME WireInv
  PROVE  InStep
<1>1. m_state # "PARSE_FAILED" /\ (m_state = "WAITING_START_FLAG" => Unread = EncodedFrom(Len(received) + 1))
  BY DEF WireInv, WaysAgree
<1>2. ASSUME ~decoding, m_out_buffer = EmptyBuffer, stream = <<>>, Len(received) < Len(sent)
      PROVE  FALSE
  <2>1. m_state # "PARSE_SUCCESS" /\ Starved /\ m_state \in Range(Order)
    BY <1>2, WireFacts DEF WireInv, WaitsForMore
  <2>2. PICK c \in Seq(Bytes) : c = Contents(m_in_buffer) /\ Len(c) = Size(m_in_buffer) /\ Len(c) \in Nat
    BY WireFacts
  <2>3. Unread = c
    <3>1. Contents(m_out_buffer) = <<>>
      <4>1. EmptyBuffer = [m_buffer |-> <<>>, m_start_index |-> 0] /\ Len(<<>>) = 0
        BY EmptySeq DEF EmptyBuffer
      <4> QED
        BY <1>2, <4>1, SubSeqEmpty, ContentsOf
    <3>2. <<>> \o <<>> = <<>>
      BY EmptySeq
    <3>3. c \o <<>> = c
      BY ConcatEmptySeq
    <3> QED
      BY <1>2, <2>2, <3>1, <3>2, <3>3 DEF Unread
  <2>4. CASE m_state = "WAITING_START_FLAG"
    <3>1. Taken = 1
      BY <2>4, MembersAre DEF Taken
    <3>2. Len(c) = 0
      BY <2>1, <2>2, <3>1 DEF Starved
    <3>3. c = <<>>
      BY <3>2, EmptySeq
    <3>4. From(sent, Len(received) + 1) = <<>>
      BY <1>1, <2>3, <2>4, <3>3, EncodedIsFrom
    <3>5. PICK n \in Nat, k \in Nat : n = Len(received) /\ k = Len(sent) /\ n < k
      BY <1>2, WireFacts
    <3>6. n + 1 \in 1..Len(sent) /\ sent \in Seq(Messages)
      BY <3>5, WireFacts
    <3> QED
      BY <3>4, <3>5, <3>6, FromBegins
  <2>5. CASE m_state # "WAITING_START_FLAG"
    <3>1. UnderWay
      BY <2>5 DEF WireInv, WaysAgree
    <3>2. Current \in Messages /\ From(sent, Len(received) + 2) \in Seq(Bytes)
      BY <1>2, CurrentIs
    <3>3. PICK p \in Messages, k \in 1..12 : p = Current /\ k = Stage
      BY <2>1, <3>2, NextStates
    <3>4. Taken = Len(Fields(p)[k])
      BY <2>1, <3>1, <3>3, TakesField DEF UnderWay
    <3>5. PICK f \in Seq(Bytes), x \in Seq(Bytes), m \in Seq(Bytes) :
            /\ f = Fields(p)[k] /\ FlattenSeq(Left(p, k)) = f \o x
            /\ m = EncodedFrom(Len(received) + 2)
      BY <3>2, LeftUnfolds, EncodedIsFrom
    <3>6. c = (f \o x) \o m
      BY <2>3, <3>1, <3>3, <3>5 DEF UnderWay
    <3>7. PICK fx \in Seq(Bytes) : fx = f \o x /\ Len(fx) = Len(f) + Len(x)
      BY ConcatProperties
    <3>8. Len(c) = Len(fx) + Len(m)
      BY <3>6, <3>7, ConcatProperties
    <3>9. Len(f) \in Nat /\ Len(x) \in Nat /\ Len(m) \in Nat
      BY LenProperties
    <3>10. Len(c) < Len(f)
      BY <2>1, <2>2, <3>4, <3>5 DEF Starved
    <3> QED
      BY <2>2, <3>7, <3>8, <3>9, <3>10
  <2> QED
    BY <2>4, <2>5
<1>3. ~decoding /\ m_out_buffer = EmptyBuffer /\ stream = <<>> => Len(received) = Len(sent)
  BY <1>2, WireFacts
<1> QED
  BY <1>1, <1>3 DEF InStep

\* The bytes that are encoded at one end are decoded at the other, however send()
\* and recv() cut them up (RpcEncoder() and RpcDecoder::decode()).
THEOREM WireStaysInStep == Spec => [](InStep /\ FieldsArrive)
<1>1. Init => WireInv
  BY InitWire
<1>2. WireInv /\ [Next]_vars => WireInv'
  BY WireSteps
<1>3. WireInv => InStep /\ FieldsArrive
  BY WireInStep DEF WireInv
<1> QED
  BY <1>1, <1>2, <1>3, PTL DEF Spec

-----------------------------------------------------------------------------
(* The names of the methods.                                               *)

\* The first dot of a name, or 0.
LEMMA DotIsFirst ==
  ASSUME NEW name \in Seq(Bytes)
  PROVE  /\ DotAt(name) \in 0..Len(name)
         /\ DotAt(name) # 0 =>
              name[DotAt(name)] = Dot /\ \A i \in 1..Len(name) : name[i] = Dot => DotAt(name) <= i
         /\ DotAt(name) = 0 => \A i \in 1..Len(name) : name[i] # Dot
<1>1. PICK I : I = {i \in 1..Len(name) : name[i] = Dot}
  OBVIOUS
<1>2. DotAt(name) = IF I # {} THEN Min(I) ELSE 0
  BY <1>1 DEF DotAt, SelectInSeq
<1>3. Len(name) \in Nat
  BY LenProperties
<1>4. CASE I = {}
  BY <1>1, <1>2, <1>3, <1>4
<1>5. CASE I # {}
  <2>1. I \in SUBSET Nat
    BY <1>1, <1>3
  <2>2. Min(I) \in I /\ \A y \in I : Min(I) <= y
    BY <1>5, <2>1, MinOfNonempty
  <2> QED
    BY <1>1, <1>2, <1>3, <1>5, <2>2
<1> QED
  BY <1>4, <1>5

\* A name with a dot is that of a service, the dot and that of a method.
LEMMA NameSplits ==
  ASSUME NEW name \in Seq(Bytes), DotAt(name) # 0
  PROVE  /\ ServiceName(name) \in Seq(Bytes) /\ MethodName(name) \in Seq(Bytes)
         /\ name = ServiceName(name) \o <<Dot>> \o MethodName(name)
<1>1. PICK d \in Nat, l \in Nat : d = DotAt(name) /\ l = Len(name) /\ d \in 1..l /\ name[d] = Dot
  BY DotIsFirst, LenProperties
<1>2. PICK s : s = SubSeq(name, 1, d - 1)
  OBVIOUS
<1>3. PICK m : m = SubSeq(name, d + 1, l)
  OBVIOUS
<1>4. s \in Seq(Bytes) /\ Len(s) = d - 1 /\ \A i \in 1..(d - 1) : s[i] = name[i]
  BY <1>1, <1>2
<1>5. m \in Seq(Bytes) /\ Len(m) = l - d /\ \A i \in 1..(l - d) : m[i] = name[d + i]
  <2>1. d \in 0..Len(name)
    BY <1>1
  <2> QED
    BY <1>1, <1>3, <2>1, Rest
<1>6. Dot \in Bytes
  BY BytesAssumption DEF Dot
<1>7. PICK t : t = s \o <<Dot>>
  OBVIOUS
<1>8. /\ t \in Seq(Bytes) /\ Len(t) = d /\ t[d] = Dot /\ \A i \in 1..(d - 1) : t[i] = s[i]
  <2>1. <<Dot>> \in Seq(Bytes) /\ Len(<<Dot>>) = 1 /\ <<Dot>>[1] = Dot
    BY <1>6
  <2> QED
    BY <1>1, <1>4, <1>7, <2>1, ConcatProperties
<1>9. PICK w : w = t \o m
  OBVIOUS
<1>10. /\ w \in Seq(Bytes) /\ Len(w) = l
       /\ \A i \in 1..l : w[i] = IF i <= d THEN t[i] ELSE m[i - d]
  <2>1. /\ w \in Seq(Bytes) /\ Len(w) = Len(t) + Len(m)
        /\ \A i \in 1..(Len(t) + Len(m)) : w[i] = IF i <= Len(t) THEN t[i] ELSE m[i - Len(t)]
    BY <1>5, <1>8, <1>9, ConcatProperties
  <2>2. Len(t) + Len(m) = l
    BY <1>1, <1>5, <1>8
  <2> QED
    BY <1>8, <2>1, <2>2
<1>11. \A i \in 1..l : w[i] = name[i]
  <2>1. TAKE i \in 1..l
  <2>2. CASE i < d
    BY <1>1, <1>4, <1>8, <1>10, <2>2
  <2>3. CASE i = d
    BY <1>1, <1>8, <1>10, <2>3
  <2>4. CASE i > d
    <3>1. i - d \in 1..(l - d) /\ d + (i - d) = i
      BY <1>1, <2>4
    <3>2. m[i - d] = name[d + (i - d)]
      BY <1>5, <3>1, Zenon
    <3> QED
      BY <1>1, <1>10, <2>4, <3>1, <3>2
  <2> QED
    BY <1>1, <2>2, <2>3, <2>4
<1>12. w = name
  BY <1>1, <1>10, <1>11, SeqEqual
<1> QED
  BY <1>1, <1>2, <1>3, <1>4, <1>5, <1>7, <1>9, <1>12 DEF ServiceName, MethodName

\* And the other way round, unless the service is in a package.
LEMMA NameJoins ==
  ASSUME NEW s \in Seq(Bytes), NEW m \in Seq(Bytes), Dot \notin Range(s),
         NEW name, name = s \o <<Dot>> \o m
  PROVE  name \in Seq(Bytes) /\ DotAt(name) # 0 /\ ServiceName(name) = s /\ MethodName(name) = m
<1>1. Dot \in Bytes
  BY BytesAssumption DEF Dot
<1>2. PICK k \in Nat, l \in Nat : k = Len(s) /\ l = Len(m)
  BY LenProperties
<1>3. PICK t : t = s \o <<Dot>>
  OBVIOUS
<1>4. /\ t \in Seq(Bytes) /\ Len(t) = k + 1 /\ t[k + 1] = Dot /\ \A i \in 1..k : t[i] = s[i]
  <2>1. <<Dot>> \in Seq(Bytes) /\ Len(<<Dot>>) = 1 /\ <<Dot>>[1] = Dot
    BY <1>1
  <2> QED
    BY <1>2, <1>3, <2>1, ConcatProperties
<1>5. name = t \o m
  BY <1>3
<1>6. /\ name \in Seq(Bytes) /\ Len(name) = k + 1 + l
      /\ \A i \in 1..(k + 1 + l) : name[i] = IF i <= k + 1 THEN t[i] ELSE m[i - (k + 1)]
  BY <1>2, <1>4, <1>5, ConcatProperties
<1>7. \A i \in 1..k : name[i] = s[i] /\ name[i] # Dot
  <2>1. \A i \in 1..k : s[i] # Dot
    <3>1. DOMAIN s = 1..k
      BY <1>2, LenProperties
    <3> QED
      BY <3>1 DEF Range
  <2> QED
    BY <1>2, <1>4, <1>6, <2>1
<1>8. name[k + 1] = Dot
  BY <1>2, <1>4, <1>6
<1>9. PICK d \in Nat : d = DotAt(name) /\ d <= Len(name)
  <2>1. DotAt(name) \in 0..Len(name)
    BY <1>6, DotIsFirst
  <2> QED
    BY <1>6, <2>1
<1>10. d = k + 1
  <2>1. k + 1 \in 1..Len(name)
    BY <1>2, <1>6
  <2>2. d # 0
    BY <1>6, <1>8, <1>9, <2>1, DotIsFirst
  <2>3. d <= k + 1 /\ name[d] = Dot
    BY <1>6, <1>8, <1>9, <2>1, <2>2, DotIsFirst
  <2>4. ~(d \in 1..k)
    BY <1>7, <2>3
  <2> QED
    BY <2>2, <2>3, <2>4
<1>11. ServiceName(name) = s
  <2>1. PICK r : r = SubSeq(name, 1, k)
    OBVIOUS
  <2>2. r \in Seq(Bytes) /\ Len(r) = k /\ \A i \in 1..k : r[i] = name[i]
    BY <1>6, <2>1
  <2>3. r = s
    BY <1>2, <1>7, <2>2, SeqEqual
  <2>4. d - 1 = k
    BY <1>10
  <2> QED
    BY <1>9, <2>1, <2>3, <2>4 DEF ServiceName
<1>12. MethodName(name) = m
  <2>1. PICK r : r = SubSeq(name, d + 1, Len(name))
    OBVIOUS
  <2>2. d \in 0..Len(name) /\ Len(name) - d = l
    BY <1>6, <1>9, <1>10
  <2>3. r \in Seq(Bytes) /\ Len(r) = Len(name) - d /\ \A i \in 1..(Len(name) - d) : r[i] = name[d + i]
    BY <1>6, <2>1, <2>2, Rest
  <2>4. \A i \in 1..l : r[i] = m[i]
    <3>1. TAKE i \in 1..l
    <3>2. d + i \in 1..(k + 1 + l) /\ ~(d + i <= k + 1) /\ (d + i) - (k + 1) = i
      BY <1>10
    <3>3. name[d + i] = m[i]
      BY <1>6, <3>2
    <3> QED
      BY <2>2, <2>3, <3>3
  <2>5. r = m
    BY <1>2, <2>2, <2>3, <2>4, SeqEqual
  <2> QED
    BY <1>9, <2>1, <2>5 DEF MethodName
<1> QED
  BY <1>6, <1>9, <1>10, <1>11, <1>12

-----------------------------------------------------------------------------
(* The inductive invariant of the service.                                 *)

\* The parts of AnswersMatch.
InOrder(f) == \A j, k \in DOMAIN responses : j < k => f[j] < f[k]

EachMatches(f) ==
  \A k \in DOMAIN responses :
    \E service \in DOMAIN Services : \E method \in DOMAIN Services[service] :
      /\ Names(sent[f[k]], service, method)
      /\ responses[k] = Response(sent[f[k]], Services[service][method])

\* The i-th request need not be answered.
Excused(i) ==
  \A service \in DOMAIN Services : \A method \in DOMAIN Services[service] :
    Names(sent[i], service, method) =>
      \/ Dot \in Range(service)
      \/ Services[service][method] = "silent"
      \/ sent[i].m_rpc_data \notin Serialized \ {<<>>}

Match(f) ==
  /\ InOrder(f) /\ EachMatches(f)
  /\ \A i \in DOMAIN received \ Range(f) : Excused(i)

SomeMatch == \E f \in [DOMAIN responses -> DOMAIN received] : Match(f)

LEMMA AnswersAre == AnswersMatch <=> SomeMatch
BY DEF AnswersMatch, SomeMatch, Match, InOrder, EachMatches, Excused

LEMMA AnswersThen == AnswersMatch' <=> SomeMatch'
BY AnswersAre, PTL

ServiceInv == WireInv /\ ServiceTypeOK /\ AnswersMatch

\* The requests and the responses are as before.
LEMMA AnswersKeep ==
  ASSUME ServiceInv, WireInv', UNCHANGED service_vars, received' = received,
         \A i \in DOMAIN received : sent'[i] = sent[i]
  PROVE  ServiceInv'
<1>1. m_service_map' = m_service_map /\ responses' = responses
  BY DEF service_vars
<1>2. ServiceTypeOK'
  <2>1. TypeOK'
    BY DEF WireInv
  <2> QED
    BY <1>1, <2>1 DEF ServiceInv, ServiceTypeOK
<1>3. PICK f \in [DOMAIN responses -> DOMAIN received] : Match(f)
  BY AnswersAre DEF ServiceInv, SomeMatch
<1>4. \A i \in DOMAIN received : \A service, method :
        Names(sent[i], service, method)' <=> Names(sent[i], service, method)
  BY <1>1 DEF Names
<1>5. InOrder(f)'
  BY <1>1, <1>3 DEF Match, InOrder
<1>6. EachMatches(f)'
  <2>1. \A k \in DOMAIN responses : f[k] \in DOMAIN received
    BY <1>3
  <2>2. ASSUME NEW k \in DOMAIN responses
        PROVE  \E service \in DOMAIN Services : \E method \in DOMAIN Services[service] :
                 /\ Names(sent[f[k]], service, method)'
                 /\ responses'[k] = Response(sent'[f[k]], Services[service][method])
    <3>0. PICK service \in DOMAIN Services :
            \E method \in DOMAIN Services[service] :
              /\ Names(sent[f[k]], service, method)
              /\ responses[k] = Response(sent[f[k]], Services[service][method])
      BY <1>3 DEF Match, EachMatches
    <3>1. PICK method \in DOMAIN Services[service] :
            /\ Names(sent[f[k]], service, method)
            /\ responses[k] = Response(sent[f[k]], Services[service][method])
      BY <3>0
    <3>2. Names(sent[f[k]], service, method)'
      BY <1>4, <2>1, <3>1
    <3> QED
      BY <1>1, <2>1, <3>1, <3>2
  <2> QED
    BY <1>1, <2>2 DEF EachMatches
<1>7. \A i \in DOMAIN received' \ Range(f) : Excused(i)'
  <2>1. TAKE i \in DOMAIN received' \ Range(f)
  <2>2. Excused(i) /\ i \in DOMAIN received /\ sent'[i] = sent[i]
    BY <1>3 DEF Match
  <2> QED
    BY <1>4, <2>2 DEF Excused
<1>8. f \in [DOMAIN responses' -> DOMAIN received']
  BY <1>1, <1>3
<1>9. AnswersMatch'
  BY <1>5, <1>6, <1>7, <1>8, AnswersThen DEF SomeMatch, Match
<1> QED
  BY <1>2, <1>9 DEF ServiceInv

\* A service is registered before there are requests.
LEMMA RegisterServiceKeeps ==
  ASSUME ServiceInv, NEW service \in DOMAIN Services, RegisterService(service)
  PROVE  ServiceInv'
<1>1. /\ sent = <<>> /\ UNCHANGED vars /\ responses' = responses
      /\ m_service_map' = [name \in DOMAIN m_service_map \cup {service} |->
                            IF name \in DOMAIN m_service_map THEN m_service_map[name] ELSE Services[name]]
  BY DEF RegisterService
<1>2. WireInv'
  BY <1>1, StutterKeeps DEF ServiceInv
<1>3. received' = received /\ sent' = sent
  BY <1>1 DEF vars
<1>4. DOMAIN received = {}
  <2>1. received \in Seq(Protocol) /\ Len(received) <= Len(sent)
    BY DEF ServiceInv, WireInv, FieldsArrive
  <2>2. Len(received) = 0
    BY <1>1, <2>1, LenProperties, EmptySeq
  <2> QED
    BY <2>1, <2>2, LenProperties
<1>5. PICK f \in [DOMAIN responses -> DOMAIN received] : Match(f)
  BY AnswersAre DEF ServiceInv, SomeMatch
<1>6. DOMAIN responses = {}
  BY <1>4, <1>5
<1>7. AnswersMatch'
  <2>1. InOrder(f)' /\ EachMatches(f)' /\ (\A i \in DOMAIN received' \ Range(f) : Excused(i)')
    BY <1>1, <1>3, <1>4, <1>6 DEF InOrder, EachMatches
  <2>2. f \in [DOMAIN responses' -> DOMAIN received']
    BY <1>1, <1>3, <1>5
  <2> QED
    BY <2>1, <2>2, AnswersThen DEF SomeMatch, Match
<1>8. ServiceTypeOK'
  <2>1. TypeOK'
    BY <1>2 DEF WireInv
  <2>2. /\ DOMAIN m_service_map \subseteq DOMAIN Services
        /\ \A name \in DOMAIN m_service_map : m_service_map[name] = Services[name]
    BY DEF ServiceInv, ServiceTypeOK
  <2>3. DOMAIN m_service_map' \subseteq DOMAIN Services
    BY <1>1, <2>2
  <2>4. \A name \in DOMAIN m_service_map' : m_service_map'[name] = Services[name]
    BY <1>1, <2>2
  <2> QED
    BY <1>1, <2>1, <2>3, <2>4 DEF ServiceInv, ServiceTypeOK
<1> QED
  BY <1>2, <1>7, <1>8 DEF ServiceInv

\* What decode() returns is the request that was sent.
LEMMA RequestIs ==
  ASSUME WireInv, m_state = "PARSE_SUCCESS"
  PROVE  /\ m_req_protocol.m_msg_id = Current.m_msg_id
         /\ m_req_protocol.m_method_name = Current.m_method_name
         /\ Current.m_rpc_data # <<>> => m_req_protocol.m_rpc_data = Current.m_rpc_data
         /\ m_req_protocol.m_msg_id \in Seq(Bytes) /\ m_req_protocol.m_method_name \in Seq(Bytes)
<1>1. Took(m_req_protocol, Current, 13)
  BY ReturnFacts
<1>2. m_req_protocol \in Protocol
  BY DEF WireInv
<1>3. \A member \in StringMembers : m_req_protocol[member] \in Seq(Bytes)
  BY <1>2 DEF Protocol
<1>4. m_req_protocol["m_msg_id"] \in Seq(Bytes) /\ m_req_protocol["m_method_name"] \in Seq(Bytes)
  BY <1>3 DEF StringMembers
<1>5. /\ m_req_protocol["m_msg_id"] = Current.m_msg_id
      /\ m_req_protocol["m_method_name"] = Current.m_method_name
      /\ Current.m_rpc_data # <<>> => m_req_protocol["m_rpc_data"] = Current.m_rpc_data
  BY <1>1 DEF Took
<1> QED
  BY <1>4, <1>5

\* A request that can be called names what is called.
LEMMA CalledIsNamed ==
  ASSUME ServiceInv, m_state = "PARSE_SUCCESS", Callable(m_req_protocol)
  PROVE  \E service \in DOMAIN Services : \E method \in DOMAIN Services[service] :
           /\ Names(Current, service, method)
           /\ Outcome(m_req_protocol.m_method_name) = Services[service][method]
<1>1. PICK name \in Seq(Bytes) : name = m_req_protocol.m_method_name /\ name = Current.m_method_name
  BY RequestIs DEF ServiceInv
<1>2. /\ DotAt(name) # 0 /\ ServiceName(name) \in DOMAIN m_service_map
      /\ MethodName(name) \in DOMAIN m_service_map[ServiceName(name)]
  BY <1>1 DEF Callable
<1>3. PICK service, method : service = ServiceName(name) /\ method = MethodName(name)
  OBVIOUS
<1>4. service \in DOMAIN Services /\ m_service_map[service] = Services[service]
  BY <1>2, <1>3 DEF ServiceInv, ServiceTypeOK
<1>5. method \in DOMAIN Services[service]
  BY <1>2, <1>3, <1>4
<1>6. name = service \o <<Dot>> \o method
  BY <1>2, <1>3, NameSplits
<1>7. Names(Current, service, method)
  BY <1>1, <1>2, <1>3, <1>6, Zenon DEF Names
<1>8. Outcome(name) = Services[service][method]
  BY <1>3, <1>4, Zenon DEF Outcome
<1> QED
  BY <1>1, <1>4, <1>5, <1>7, <1>8

\* A request that is not called, or whose method is silent, is excused.
LEMMA UncalledIsExcused ==
  ASSUME ServiceInv, m_state = "PARSE_SUCCESS",
         ~(Callable(m_req_protocol) /\ Outcome(m_req_protocol.m_method_name) # "silent")
  PROVE  Excused(Len(received) + 1)
<1>1. PICK name \in Seq(Bytes) : name = m_req_protocol.m_method_name /\ name = Current.m_method_name
  BY RequestIs DEF ServiceInv
<1>2. SUFFICES ASSUME NEW service \in DOMAIN Services, NEW method \in DOMAIN Services[service],
                      Names(Current, service, method), Dot \notin Range(service),
                      Services[service][method] # "silent",
                      Current.m_rpc_data \in Serialized \ {<<>>}
               PROVE  FALSE
  BY DEF Excused, Current
<1>3. /\ service \in DOMAIN m_service_map /\ method \in DOMAIN m_service_map[service]
      /\ name = service \o <<Dot>> \o method
  BY <1>1, <1>2, Zenon DEF Names
<1>4. service \in Seq(Bytes) /\ method \in Seq(Bytes)
  BY ServicesAssumption
<1>5. DotAt(name) # 0 /\ ServiceName(name) = service /\ MethodName(name) = method
  BY <1>2, <1>3, <1>4, NameJoins
<1>6. m_service_map[service] = Services[service]
  BY <1>3 DEF ServiceInv, ServiceTypeOK
<1>7. m_req_protocol.m_rpc_data \in Serialized
  <2>1. WireInv
    BY DEF ServiceInv
  <2>2. m_req_protocol.m_rpc_data = Current.m_rpc_data
    BY <1>2, <2>1, RequestIs
  <2> QED
    BY <1>2, <2>2
<1>8. Callable(m_req_protocol)
  BY <1>1, <1>3, <1>5, <1>7, Zenon DEF Callable
<1>9. Outcome(name) = Services[service][method]
  BY <1>5, <1>6, Zenon DEF Outcome
<1> QED
  BY <1>1, <1>2, <1>8, <1>9

\* The request that was returned is answered, or need not be.
LEMMA ProcessMatches ==
  ASSUME ServiceInv, Process
  PROVE  AnswersMatch'
<1>1. /\ ReturnProtocol /\ m_state = "PARSE_SUCCESS" /\ received' = Append(received, m_req_protocol)
      /\ sent' = sent /\ m_service_map' = m_service_map
  BY DEF Process, ReturnProtocol
<1>2. PICK n \in Nat, r \in Nat : n = Len(received) /\ r = Len(responses)
  <2>1. Len(received) \in Nat
    BY WireFacts DEF ServiceInv
  <2>2. Len(responses) \in Nat
    BY LenProperties DEF ServiceInv, ServiceTypeOK
  <2> QED
    BY <2>1, <2>2
<1>3. DOMAIN received = 1..n /\ DOMAIN responses = 1..r /\ DOMAIN received' = 1..(n + 1)
  <2>1. received \in Seq(Protocol) /\ m_req_protocol \in Protocol
    BY DEF ServiceInv, WireInv
  <2>2. received' \in Seq(Protocol) /\ Len(received') = n + 1
    BY <1>1, <1>2, <2>1, AppendProperties
  <2>3. DOMAIN received = 1..n /\ DOMAIN received' = 1..(n + 1)
    BY <1>2, <2>1, <2>2, LenProperties
  <2>4. DOMAIN responses = 1..r
    BY <1>2, LenProperties DEF ServiceInv, ServiceTypeOK
  <2> QED
    BY <2>3, <2>4
<1>4. PICK f \in [1..r -> 1..n] : Match(f)
  BY <1>3, AnswersAre DEF ServiceInv, SomeMatch
<1>5. \A i, service, method : Names(sent[i], service, method)' <=> Names(sent[i], service, method)
  BY <1>1 DEF Names
<1>6. \A i : Excused(i)' <=> Excused(i)
  BY <1>1, <1>5 DEF Excused
<1>7. CASE ~(Callable(m_req_protocol) /\ Outcome(m_req_protocol.m_method_name) # "silent")
  <2>1. responses' = responses
    BY <1>7 DEF Process
  <2>2. InOrder(f)'
    BY <1>4, <2>1 DEF Match, InOrder
  <2>3. EachMatches(f)'
    BY <1>1, <1>4, <1>5, <2>1 DEF Match, EachMatches
  <2>4. \A i \in DOMAIN received' \ Range(f) : Excused(i)'
    <3>1. Excused(n + 1)
      BY <1>1, <1>2, <1>7, UncalledIsExcused
    <3>2. TAKE i \in DOMAIN received' \ Range(f)
    <3>3. i = n + 1 \/ i \in DOMAIN received \ Range(f)
      BY <1>3
    <3> QED
      BY <1>4, <1>6, <3>1, <3>3 DEF Match
  <2>5. f \in [DOMAIN responses' -> DOMAIN received']
    <3>1. 1..n \subseteq 1..(n + 1)
      OBVIOUS
    <3> QED
      BY <1>3, <1>4, <2>1, <3>1
  <2> QED
    BY <2>2, <2>3, <2>4, <2>5, AnswersThen DEF SomeMatch, Match
<1>8. CASE Callable(m_req_protocol) /\ Outcome(m_req_protocol.m_method_name) # "silent"
  <2>1. PICK a : a = Response(m_req_protocol, Outcome(m_req_protocol.m_method_name))
    OBVIOUS
  <2>2. responses' = Append(responses, a)
    BY <1>8, <2>1 DEF Process
  <2>3. PICK S : responses \in Seq(S)
    BY DEF ServiceInv, ServiceTypeOK
  <2>4. /\ DOMAIN responses' = 1..(r + 1) /\ responses'[r + 1] = a
        /\ \A k \in 1..r : responses'[k] = responses[k]
    <3>1. responses \in Seq(S \cup {a}) /\ a \in S \cup {a}
      BY <2>3
    <3>2. /\ responses' \in Seq(S \cup {a}) /\ Len(responses') = r + 1 /\ responses'[r + 1] = a
          /\ \A k \in 1..r : responses'[k] = responses[k]
      BY <1>2, <2>2, <3>1, AppendProperties
    <3> QED
      BY <3>2, LenProperties
  <2>5. PICK g : g = [k \in 1..(r + 1) |-> IF k = r + 1 THEN n + 1 ELSE f[k]]
    OBVIOUS
  <2>6. g \in [1..(r + 1) -> 1..(n + 1)] /\ g[r + 1] = n + 1 /\ \A k \in 1..r : g[k] = f[k] /\ f[k] \in 1..n
    <3>1. \A k \in 1..(r + 1) : k = r + 1 \/ k \in 1..r
      OBVIOUS
    <3>2. r + 1 \in 1..(r + 1) /\ \A k \in 1..r : k \in 1..(r + 1) /\ k # r + 1
      OBVIOUS
    <3>3. \A k \in 1..r : f[k] \in 1..n /\ f[k] \in 1..(n + 1)
      BY <1>4
    <3> QED
      BY <2>5, <3>1, <3>2, <3>3
  <2>7. InOrder(g)'
    <3>1. SUFFICES ASSUME NEW j \in 1..(r + 1), NEW k \in 1..(r + 1), j < k PROVE g[j] < g[k]
      BY <2>4 DEF InOrder
    <3>2. j \in 1..r
      BY <3>1
    <3>3. CASE k = r + 1
      BY <2>6, <3>2, <3>3
    <3>4. CASE k # r + 1
      <4>1. k \in 1..r
        BY <3>4
      <4>2. f[j] < f[k]
        BY <1>3, <1>4, <3>1, <3>2, <4>1 DEF Match, InOrder
      <4> QED
        BY <2>6, <3>2, <4>1, <4>2
    <3> QED
      BY <3>3, <3>4
  <2>8. EachMatches(g)'
    <3>1. SUFFICES ASSUME NEW k \in 1..(r + 1)
                   PROVE  \E service \in DOMAIN Services : \E method \in DOMAIN Services[service] :
                            /\ Names(sent[g[k]], service, method)
                            /\ responses'[k] = Response(sent[g[k]], Services[service][method])
      BY <1>1, <1>5, <2>4 DEF EachMatches
    <3>2. CASE k = r + 1
      <4>1. PICK service \in DOMAIN Services :
              \E method \in DOMAIN Services[service] :
                /\ Names(Current, service, method)
                /\ Outcome(m_req_protocol.m_method_name) = Services[service][method]
        BY <1>1, <1>8, CalledIsNamed
      <4>2. PICK method \in DOMAIN Services[service] :
              /\ Names(Current, service, method)
              /\ Outcome(m_req_protocol.m_method_name) = Services[service][method]
        BY <4>1
      <4>3. a = Response(Current, Services[service][method])
        <5>1. /\ m_req_protocol.m_msg_id = Current.m_msg_id
              /\ m_req_protocol.m_method_name = Current.m_method_name
          BY <1>1, RequestIs DEF ServiceInv
        <5> QED
          BY <2>1, <4>2, <5>1, Zenon DEF Response
      <4>4. Current = sent[g[k]]
        BY <1>2, <2>6, <3>2 DEF Current
      <4> QED
        BY <2>4, <3>2, <4>2, <4>3, <4>4
    <3>3. CASE k # r + 1
      <4>1. k \in 1..r
        BY <3>3
      <4>2. \E service \in DOMAIN Services : \E method \in DOMAIN Services[service] :
              /\ Names(sent[f[k]], service, method)
              /\ responses[k] = Response(sent[f[k]], Services[service][method])
        BY <1>3, <1>4, <4>1 DEF Match, EachMatches
      <4> QED
        BY <2>4, <2>6, <4>1, <4>2, Zenon
    <3> QED
      BY <3>2, <3>3
  <2>9. \A i \in DOMAIN received' \ Range(g) : Excused(i)'
    <3>1. TAKE i \in DOMAIN received' \ Range(g)
    <3>2. DOMAIN g = 1..(r + 1) /\ DOMAIN f = 1..r
      BY <1>4, <2>6
    <3>3. \A k \in 1..(r + 1) : g[k] \in Range(g)
      BY <3>2 DEF Range
    <3>4. i # n + 1
      BY <2>6, <3>1, <3>3
    <3>5. i \in DOMAIN received
      BY <1>3, <3>1, <3>4
    <3>6. i \notin Range(f)
      <4>1. SUFFICES ASSUME i \in Range(f) PROVE FALSE
        OBVIOUS
      <4>2. PICK k \in 1..r : i = f[k]
        BY <3>2, <4>1 DEF Range
      <4>3. k \in 1..(r + 1) /\ g[k] = i
        BY <2>6, <4>2
      <4> QED
        BY <3>1, <3>3, <4>3
    <3> QED
      BY <1>4, <1>6, <3>5, <3>6 DEF Match
  <2>10. g \in [DOMAIN responses' -> DOMAIN received']
    BY <1>3, <2>4, <2>6
  <2> QED
    BY <2>7, <2>8, <2>9, <2>10, AnswersThen DEF SomeMatch, Match
<1> QED
  BY <1>7, <1>8

LEMMA ProcessKeeps ==
  ASSUME ServiceInv, Process
  PROVE  ServiceInv'
<1>1. ReturnProtocol /\ m_state = "PARSE_SUCCESS" /\ m_service_map' = m_service_map
  BY DEF Process, ReturnProtocol
<1>2. WireInv'
  BY <1>1, ReturnProtocolKeeps DEF ServiceInv
<1>3. responses' \in
        Seq([m_msg_id : Seq(Bytes), m_method_name : Seq(Bytes),
             m_error_code : {ERROR_NONE, ERROR_SERIALIZE_FAILED}, m_rpc_data : {Reply, <<>>}])
  <2>1. PICK S : S = [m_msg_id : Seq(Bytes), m_method_name : Seq(Bytes),
                      m_error_code : {ERROR_NONE, ERROR_SERIALIZE_FAILED}, m_rpc_data : {Reply, <<>>}]
    OBVIOUS
  <2>2. responses \in Seq(S)
    BY <2>1 DEF ServiceInv, ServiceTypeOK
  <2>3. m_req_protocol.m_msg_id \in Seq(Bytes) /\ m_req_protocol.m_method_name \in Seq(Bytes)
    BY <1>1, RequestIs DEF ServiceInv
  <2>4. \A outcome : Response(m_req_protocol, outcome) \in S
    BY <2>1, <2>3 DEF Response
  <2>5. responses' = responses \/ \E outcome : responses' = Append(responses, Response(m_req_protocol, outcome))
    BY DEF Process
  <2>6. responses' \in Seq(S)
    BY <2>2, <2>4, <2>5, AppendProperties
  <2> QED
    BY <2>1, <2>6
<1>4. ServiceTypeOK'
  <2>1. TypeOK'
    BY <1>2 DEF WireInv
  <2> QED
    BY <1>1, <1>3, <2>1 DEF ServiceInv, ServiceTypeOK
<1> QED
  BY <1>2, <1>4, ProcessMatches DEF ServiceInv

\* Every step of the service keeps the invariant.
LEMMA ServiceSteps ==
  ASSUME ServiceInv, [ServiceNext]_<<vars, service_vars>>
  PROVE  ServiceInv'
<1>1. CASE \E service \in DOMAIN Services : RegisterService(service)
  BY <1>1, RegisterServiceKeeps
<1>2. CASE (\E p \in Messages : Encode(p)) /\ UNCHANGED service_vars
  <2>1. PICK p \in Messages : Encode(p)
    BY <1>2
  <2>2. received' = received /\ sent' = Append(sent, p)
    BY <2>1 DEF Encode
  <2>3. WireInv'
    BY <2>1, EncodeKeeps DEF ServiceInv
  <2>4. \A i \in DOMAIN received : sent'[i] = sent[i]
    <3>1. PICK n \in Nat, k \in Nat : n = Len(received) /\ k = Len(sent) /\ n <= k
      BY WireFacts DEF ServiceInv
    <3>2. sent \in Seq(Messages) /\ received \in Seq(Protocol)
      BY WireFacts DEF ServiceInv, WireInv
    <3>3. \A i \in 1..k : sent'[i] = sent[i]
      BY <2>2, <3>1, <3>2, AppendProperties
    <3>4. DOMAIN received = 1..n
      BY <3>1, <3>2, LenProperties
    <3> QED
      BY <3>1, <3>3, <3>4
  <2> QED
    BY <1>2, <2>2, <2>3, <2>4, AnswersKeep
<1>3. CASE (Send \/ Receive \/ Decode \/ UNCHANGED vars) /\ UNCHANGED service_vars
  <2>1. received' = received /\ sent' = sent
    BY <1>3 DEF Send, Receive, Decode, ReturnNull, ParseFlag, ParseInt, ParseString, Take, vars
  <2>2. [Next]_vars
    BY <1>3 DEF Next, Decode
  <2>3. WireInv'
    BY <2>2, WireSteps DEF ServiceInv
  <2> QED
    BY <1>3, <2>1, <2>3, AnswersKeep
<1>4. CASE Process
  BY <1>4, ProcessKeeps
<1>5. UNCHANGED <<vars, service_vars>> => UNCHANGED vars /\ UNCHANGED service_vars
  OBVIOUS
<1> QED
  BY <1>1, <1>2, <1>3, <1>4, <1>5 DEF ServiceNext

LEMMA InitService ==
  ASSUME ServiceInit
  PROVE  ServiceInv
<1>1. WireInv /\ received = <<>> /\ m_service_map = <<>> /\ responses = <<>>
  BY InitWire DEF ServiceInit, Init
<1>2. DOMAIN received = {} /\ DOMAIN m_service_map = {} /\ DOMAIN responses = {}
  BY <1>1
<1>3. ServiceTypeOK
  BY <1>1, <1>2, EmptySeq DEF WireInv, ServiceTypeOK
<1>4. AnswersMatch
  <2>1. PICK f : f = [k \in {} |-> k]
    OBVIOUS
  <2>2. f \in [DOMAIN responses -> DOMAIN received]
    BY <1>2, <2>1
  <2>3. Match(f)
    BY <1>2 DEF Match, InOrder, EachMatches
  <2> QED
    BY <2>2, <2>3, AnswersAre DEF SomeMatch
<1> QED
  BY <1>1, <1>3, <1>4 DEF ServiceInv

LEMMA ServiceInvariant == ServiceSpec => []ServiceInv
<1>1. ServiceInit => ServiceInv
  BY InitService
<1>2. ServiceInv /\ [ServiceNext]_<<vars, service_vars>> => ServiceInv'
  BY ServiceSteps
<1> QED
  BY <1>1, <1>2, PTL DEF ServiceSpec

\* The decoder, the registered services and the responses have their types
\* (rpc_protocol.h and rpc_service.h).
THEOREM ServiceTypeCorrect == ServiceSpec => []ServiceTypeOK
<1>1. ServiceInv => ServiceTypeOK
  BY DEF ServiceInv
<1> QED
  BY <1>1, ServiceInvariant, PTL

\* decode() never fails, is where the packets are, and waits for nothing that has
\* come, however the bytes are cut up on the way (RpcDecoder::decode()).
THEOREM StaysInStep == ServiceSpec => []InStep
<1>1. ServiceInv => InStep
  BY WireInStep DEF ServiceInv
<1> QED
  BY <1>1, ServiceInvariant, PTL

\* The requests come as they were sent and in that order, but for strings that
\* are empty (RpcEncoder() and RpcDecoder::decode()).
THEOREM FieldsDoArrive == ServiceSpec => []FieldsArrive
<1>1. ServiceInv => FieldsArrive
  BY DEF ServiceInv, WireInv
<1> QED
  BY <1>1, ServiceInvariant, PTL

\* Each response is that of the method its request named, in the order of the
\* requests, and no request goes without one that should not
\* (RpcService::process() and its closure).
THEOREM AnswersDoMatch == ServiceSpec => []AnswersMatch
<1>1. ServiceInv => AnswersMatch
  BY DEF ServiceInv
<1> QED
  BY <1>1, ServiceInvariant, PTL
=============================================================================

------------------------- MODULE AsyncLoggingProofs -------------------------
(***************************************************************************)
(* Proofs about AsyncLogging for every size of a buffer and of the ring,   *)
(* every size of the log file and every number and length of lines.        *)
(***************************************************************************)
EXTENDS AsyncLogging, Lemmas

RingBuffers == Range(m_buffers)

\* The buffers the backend works on are in the ring, which never gets smaller
\* than it was at first.
BackendInRing ==
  /\ Len(m_buffers) >= Initial
  /\ m_next_to_flush \in RingBuffers
  /\ pc = "waiting" => CurrentInRing
  /\ pc \in {"measure", "flush", "reset", "relock"} => cur \in RingBuffers
  /\ pc \in {"flush", "reset"} => next_to_flush \in RingBuffers
  /\ pc = "relock" => next_to_flush = cur
  /\ pc \in {"flush_last", "reset_last", "advance"} => next_to_flush = m_next_to_flush

\* The buffer is written and about to be emptied.
BeingEmptied(b) == pc \in {"reset", "reset_last"} /\ b = next_to_flush

\* Lines have the numbers of their calls, and a line is in one place.
EachOnce ==
  /\ \A i \in DOMAIN accepted : accepted[i].no = i
  /\ \A i \in DOMAIN Written : Written[i].no <= Len(accepted)
  /\ \A b \in Buffers : \A i \in DOMAIN data[b] : data[b][i].no <= Len(accepted)
  /\ \A b, c \in Buffers : \A i \in DOMAIN data[b], j \in DOMAIN data[c] :
       data[b][i] = data[c][j] => b = c /\ i = j
  /\ IsInjective(Written)
  /\ pc # "done" =>
       /\ m_cur_file_size = Len(Written)
       /\ \A b \in Buffers : ~BeingEmptied(b) =>
            \A i \in DOMAIN data[b], j \in DOMAIN Written : data[b][i] # Written[j]

SafeInv == TypeOK /\ BackendInRing /\ EachOnce

\* How far each buffer of the ring is ahead of the one to flush next.
Aheads == [b \in RingBuffers |-> Distance(m_next_to_flush, b)]

\* The buffers from u to f, both included.
Stretch(A, u, f) == {b \in DOMAIN A : A[u] <= A[b] /\ A[b] <= A[f]}

\* The buffers whose lines are not written, the front end's the last of them.
Pending == Stretch(Aheads, Unwritten, m_current_itr)

\* The backend is behind the front end.
BackendBehind ==
  /\ pc \in {"measure", "flush", "reset", "relock"} => Aheads[cur] <= Aheads[m_current_itr]
  /\ pc = "flush" => Aheads[next_to_flush] <= Aheads[cur]
  /\ pc = "reset" => Aheads[next_to_flush] < Aheads[cur]
  /\ pc \in {"flush_last", "reset_last", "advance"} => m_current_itr # m_next_to_flush

\* And it has left no line behind.
NoneLeft ==
  /\ \A b \in Buffers : b \notin Pending /\ ~BeingEmptied(b) => data[b] = <<>>
  /\ pc = "advance" => data[m_next_to_flush] = <<>>

\* start[b] lines of acc come before those in d[b], which follow one another.
Pieces(P, A, d, acc, start) ==
  /\ \A b \in P :
       /\ start[b] + Len(d[b]) <= Len(acc)
       /\ d[b] = SubSeq(acc, start[b] + 1, start[b] + Len(d[b]))
  /\ \A b, c \in P : A[c] = A[b] + 1 => start[c] = start[b] + Len(d[b])

\* The same with the types of its parts.
IsPieces(P, A, d, acc, start) ==
  /\ P \subseteq Buffers /\ \A b \in P : A[b] \in Int
  /\ d \in [Buffers -> Seq(Line)] /\ acc \in Seq(Line) /\ start \in [Buffers -> Nat]
  /\ Pieces(P, A, d, acc, start)

IsFirst(P, A, u) == u \in P /\ \A b \in P : A[u] <= A[b] /\ (A[b] = A[u] => b = u)
IsLast(P, A, f) == f \in P /\ \A b \in P : A[b] <= A[f] /\ (A[b] = A[f] => b = f)

\* Counted from a buffer that is k ahead.
CountedFrom(P, A, B, k) == k \in Int /\ \A b \in P : B[b] = A[b] - k

\* The lines that are not written are in the ring in the order of the calls.
Consecutive(start) ==
  /\ start[Unwritten] = Len(Written)
  /\ Pieces(Pending, Aheads, data, accepted, start)
  /\ start[m_current_itr] + Len(data[m_current_itr]) = Len(accepted)

InOrder ==
  /\ CurrentInRing
  /\ Written = SubSeq(accepted, 1, Len(Written)) /\ Len(Written) <= Len(accepted)
  /\ pc # "done" => BackendBehind /\ NoneLeft /\ \E start \in [Buffers -> Nat] : Consecutive(start)

IInv == SafeInv /\ (~saturated => InOrder)

-----------------------------------------------------------------------------
(* The ring.                                                               *)

\* The operators of AsyncLogging are those of rings.
LEMMA RingOperators ==
  /\ \A b : Place(b) = PlaceIn(m_buffers, b) /\ After(b) = NextIn(m_buffers, b)
  /\ \A b, c : Distance(b, c) = StepsIn(m_buffers, b, c)
  /\ \A b : Place(b)' = PlaceIn(m_buffers', b) /\ After(b)' = NextIn(m_buffers', b)
  /\ \A b, c : Distance(b, c)' = StepsIn(m_buffers', b, c)
BY DEF Place, After, Distance, PlaceIn, NextIn, StepsIn

LEMMA ItIsARing ==
  ASSUME TypeOK, Len(m_buffers) >= Initial
  PROVE  IsRing(m_buffers, Buffers) /\ Len(m_buffers) > 1 /\ Len(m_buffers) \in Nat /\ RingBuffers \subseteq Buffers
<1>1. IsRing(m_buffers, Buffers) /\ Len(m_buffers) > 1 /\ Len(m_buffers) \in Nat
  BY DEF TypeOK, IsRing, Initial
<1> QED
  BY <1>1, RingPlaces DEF RingBuffers

LEMMA AfterIsInRing ==
  ASSUME TypeOK, BackendInRing, NEW b \in RingBuffers
  PROVE  After(b) \in RingBuffers
<1>1. IsRing(m_buffers, Buffers)
  BY ItIsARing DEF BackendInRing
<1> QED
  BY <1>1, RingSteps, RingOperators DEF RingBuffers

\* There is a buffer to allocate.
LEMMA OneIsFree ==
  ASSUME TypeOK, BackendInRing, Len(m_buffers) < MaxBuffers
  PROVE  (CHOOSE b \in Buffers : b \notin Range(m_buffers)) \in Buffers \ RingBuffers
<1>1. IsRing(m_buffers, Buffers) /\ Len(m_buffers) \in Nat
  BY ItIsARing DEF BackendInRing
<1>2. \E b \in Buffers : b \notin RingBuffers
  <2> SUFFICES ASSUME Buffers \subseteq RingBuffers PROVE FALSE
    OBVIOUS
  <2>1. PICK n \in Nat : n = Len(m_buffers)
    BY <1>1
  <2>2. PICK f : f = [b \in Buffers |-> PlaceIn(m_buffers, b)]
    OBVIOUS
  <2>3. f \in [Buffers -> 1..n]
    BY <1>1, <2>1, <2>2, RingPlaces DEF RingBuffers
  <2>4. ASSUME NEW b \in Buffers, NEW c \in Buffers, f[b] = f[c] PROVE b = c
    <3>1. m_buffers[f[b]] = b /\ m_buffers[f[c]] = c
      BY <1>1, <2>2, RingPlaces DEF RingBuffers
    <3> QED
      BY <2>4, <3>1
  <2>5. MaxBuffers \in Nat /\ Buffers = 1..(4 + MaxBuffers)
    BY SizesAssumption DEF Buffers, Initial
  <2>6. IsFiniteSet(Buffers) /\ Cardinality(Buffers) = 4 + MaxBuffers
    BY <2>5, FS_Interval
  <2>7. IsFiniteSet(1..n) /\ Cardinality(1..n) = n
    BY FS_Interval
  <2>8. Cardinality(1..n) < Cardinality(Buffers)
    BY <2>1, <2>5, <2>6, <2>7
  <2> QED
    BY <2>3, <2>4, <2>6, <2>7, <2>8, FS_PigeonHole
<1> QED
  BY <1>2 DEF RingBuffers

-----------------------------------------------------------------------------
(* Lines are written once.                                                 *)

\* A line has a number and the number's length.
LEMMA LinesAreNumbered ==
  ASSUME NEW x \in Line
  PROVE  x.no \in 1..MaxLines /\ x = [no |-> x.no, len |-> LineLen[x.no]]
BY DEF Line

LEMMA NoMoreThanMaxLines ==
  ASSUME NEW s \in Seq(Line), IsInjective(s)
  PROVE  Len(s) \in 0..MaxLines
<1>1. PICK n \in Nat : n = Len(s) /\ DOMAIN s = 1..n /\ \A i \in 1..n : s[i] \in Line
  OBVIOUS
<1>2. SUFFICES ASSUME n > MaxLines PROVE FALSE
  BY <1>1, SizesAssumption
<1>3. PICK f : f = [i \in 1..n |-> s[i].no]
  OBVIOUS
<1>4. f \in [1..n -> 1..MaxLines]
  BY <1>1, <1>3, LinesAreNumbered
<1>5. ASSUME NEW i \in 1..n, NEW j \in 1..n, f[i] = f[j] PROVE i = j
  <2>1. s[i] = s[j]
    BY <1>1, <1>3, <1>5, LinesAreNumbered
  <2> QED
    BY <1>1, <2>1 DEF IsInjective
<1>6. IsFiniteSet(1..n) /\ Cardinality(1..n) = n
  BY FS_Interval
<1>7. IsFiniteSet(1..MaxLines) /\ Cardinality(1..MaxLines) = MaxLines
  <2>1. MaxLines \in Nat
    BY SizesAssumption
  <2> QED
    BY <2>1, FS_Interval
<1> QED
  BY <1>2, <1>4, <1>5, <1>6, <1>7, FS_PigeonHole, SizesAssumption

LEMMA WrittenIsSeq ==
  ASSUME TypeOK
  PROVE  Written \in Seq(Line) /\ Len(Written) \in Nat /\ DOMAIN Written = 1..Len(Written)
<1>1. Written \in Seq(Line)
  BY ConcatProperties DEF TypeOK, Written
<1> QED
  BY <1>1

\* append() puts a new line into a buffer, or drops it.
LEMMA StoreOnce ==
  ASSUME TypeOK, EachOnce, NEW b \in Buffers, NEW line \in Line, line.no = Len(accepted) + 1,
         accepted' = Append(accepted, line), UNCHANGED <<pc, next_to_flush, file_vars>>,
         data' = data \/ data' = [data EXCEPT ![b] = Append(@, line)]
  PROVE  data' \in [Buffers -> Seq(Line)] /\ accepted' \in Seq(Line) /\ EachOnce'
<1>1. accepted \in Seq(Line) /\ data \in [Buffers -> Seq(Line)] /\ Len(accepted) \in Nat
  BY DEF TypeOK
<1>2. /\ accepted' \in Seq(Line) /\ Len(accepted') = Len(accepted) + 1
      /\ accepted'[Len(accepted) + 1] = line /\ \A i \in 1..Len(accepted) : accepted'[i] = accepted[i]
      /\ DOMAIN accepted' = 1..(Len(accepted) + 1) /\ DOMAIN accepted = 1..Len(accepted)
  BY <1>1, AppendProperties, LenProperties
<1>3. Written' = Written /\ m_cur_file_size' = m_cur_file_size /\ \A c : BeingEmptied(c)' <=> BeingEmptied(c)
  BY DEF file_vars, Written, BeingEmptied
<1>4. PICK d \in [Buffers -> Seq(Line)] : d = data'
  BY <1>1, AppendProperties
<1>5. \A c \in Buffers : Len(data[c]) \in Nat /\ DOMAIN data[c] = 1..Len(data[c]) /\ DOMAIN d[c] = 1..Len(d[c])
  BY <1>1, LenProperties
<1>6. ASSUME NEW c \in Buffers, NEW i \in DOMAIN d[c]
      PROVE  (i \in DOMAIN data[c] /\ d[c][i] = data[c][i]) \/ (c = b /\ i = Len(data[b]) + 1 /\ d[c][i] = line)
  <2>1. CASE d = data
    BY <1>6, <2>1
  <2>2. CASE d = [data EXCEPT ![b] = Append(@, line)]
    <3>1. CASE c = b
      <4>1. d[c] = Append(data[b], line)
        BY <1>1, <2>2, <3>1
      <4>2. /\ Len(d[c]) = Len(data[b]) + 1 /\ d[c][Len(data[b]) + 1] = line
            /\ \A j \in 1..Len(data[b]) : d[c][j] = data[b][j]
        BY <1>1, <4>1, AppendProperties
      <4> QED
        BY <1>5, <1>6, <3>1, <4>2
    <3>2. CASE c # b
      BY <1>1, <1>6, <2>2, <3>2
    <3> QED
      BY <3>1, <3>2
  <2> QED
    BY <1>4, <2>1, <2>2
<1>7. \A c \in Buffers : \A i \in DOMAIN data[c] : data[c][i].no <= Len(accepted) /\ data[c][i] # line
  <2>1. ASSUME NEW c \in Buffers, NEW i \in DOMAIN data[c]
        PROVE  data[c][i].no <= Len(accepted) /\ data[c][i] # line
    <3>1. data[c][i].no <= Len(accepted)
      BY DEF EachOnce
    <3>2. data[c][i] \in Line
      BY <1>1, <1>5
    <3> QED
      BY <1>1, <3>1, <3>2, LinesAreNumbered
  <2> QED
    BY <2>1
<1>8. \A i \in DOMAIN Written : Written[i].no <= Len(accepted) /\ Written[i] # line
  <2>1. ASSUME NEW i \in DOMAIN Written PROVE Written[i].no <= Len(accepted) /\ Written[i] # line
    <3>1. Written[i].no <= Len(accepted) /\ Written[i] \in Line
      BY WrittenIsSeq DEF EachOnce
    <3> QED
      BY <1>1, <3>1, LinesAreNumbered
  <2> QED
    BY <2>1
<1>9. \A i \in DOMAIN accepted' : accepted'[i].no = i
  BY <1>2 DEF EachOnce
<1>10. \A i \in DOMAIN Written : Written[i].no <= Len(accepted) + 1
  <2>1. ASSUME NEW i \in DOMAIN Written PROVE Written[i].no <= Len(accepted) + 1
    <3>1. Written[i].no <= Len(accepted) /\ Written[i].no \in 1..MaxLines
      BY <1>8, WrittenIsSeq, LinesAreNumbered
    <3> QED
      BY <1>1, <3>1
  <2> QED
    BY <2>1
<1>11. ASSUME NEW c \in Buffers, NEW i \in DOMAIN d[c] PROVE d[c][i].no <= Len(accepted) + 1
  <2>1. d[c][i].no \in 1..MaxLines
    BY <1>4, <1>5, LinesAreNumbered
  <2> QED
    BY <1>1, <1>6, <1>7, <2>1
<1>12. ASSUME NEW c \in Buffers, NEW e \in Buffers, NEW i \in DOMAIN d[c], NEW j \in DOMAIN d[e], d[c][i] = d[e][j]
       PROVE  c = e /\ i = j
  <2>1. CASE d[c][i] = line
    <3>1. c = b /\ i = Len(data[b]) + 1
      BY <1>6, <1>7, <2>1
    <3>2. e = b /\ j = Len(data[b]) + 1
      BY <1>6, <1>7, <1>12, <2>1
    <3> QED
      BY <3>1, <3>2
  <2>2. CASE d[c][i] # line
    <3>1. i \in DOMAIN data[c] /\ j \in DOMAIN data[e] /\ data[c][i] = data[e][j]
      BY <1>6, <1>12, <2>2
    <3> QED
      BY <3>1 DEF EachOnce
  <2> QED
    BY <2>1, <2>2
<1>13. ASSUME pc # "done", NEW c \in Buffers, ~BeingEmptied(c), NEW i \in DOMAIN d[c], NEW j \in DOMAIN Written
       PROVE  d[c][i] # Written[j]
  <2>1. CASE d[c][i] = line
    BY <1>8, <2>1
  <2>2. CASE d[c][i] # line
    <3>1. i \in DOMAIN data[c] /\ d[c][i] = data[c][i]
      BY <1>6, <2>2
    <3> QED
      BY <1>13, <3>1 DEF EachOnce
  <2> QED
    BY <2>1, <2>2
<1>14. IsInjective(Written) /\ (pc # "done" => m_cur_file_size = Len(Written))
  BY DEF EachOnce
<1>15. EachOnce'
  BY <1>2, <1>3, <1>4, <1>9, <1>10, <1>11, <1>12, <1>13, <1>14 DEF EachOnce
<1> QED
  BY <1>2, <1>4, <1>15

\* A buffer is written.
LEMMA WriteOnce ==
  ASSUME TypeOK, EachOnce, NEW b \in Buffers, pc \in {"flush", "flush_last"}, WriteOut(b),
         pc' \in {"reset", "reset_last"}, next_to_flush' = b, UNCHANGED <<data, accepted>>
  PROVE  /\ EachOnce' /\ Written' = Written \o data[b]
         /\ m_file' \in Seq(Line) /\ closed' \in Seq(Line) /\ m_cur_file_size' \in 0..MaxLines
<1>1. Written \in Seq(Line) /\ DOMAIN Written = 1..Len(Written) /\ Len(Written) \in Nat
  BY WrittenIsSeq
<1>2. /\ data[b] \in Seq(Line) /\ Len(data[b]) \in Nat /\ DOMAIN data[b] = 1..Len(data[b])
      /\ m_file \in Seq(Line) /\ closed \in Seq(Line)
  BY DEF TypeOK
<1>3. m_file' = m_file \o data[b] /\ closed' = closed /\ m_cur_file_size' = m_cur_file_size + Len(data[b])
  BY DEF WriteOut
<1>4. m_file' \in Seq(Line) /\ closed' \in Seq(Line)
  BY <1>2, <1>3, ConcatProperties
<1>5. Written' = Written \o data[b]
  <2>1. Written = closed \o m_file /\ Written' = closed' \o m_file'
    BY DEF Written
  <2>2. (closed \o m_file) \o data[b] = closed \o (m_file \o data[b])
    <3>1. \A s, t, u \in Seq(Line) : (s \o t) \o u = s \o (t \o u)
      BY ConcatAssociative
    <3> QED
      BY <1>2, <3>1, Zenon
  <2> QED
    BY <1>3, <2>1, <2>2
<1>6. PICK w : w = Written'
  OBVIOUS
<1>7. IsInjective(data[b])
  BY DEF EachOnce, IsInjective
<1>8. \A i \in DOMAIN Written, j \in DOMAIN data[b] : Written[i] # data[b][j]
  BY DEF EachOnce, BeingEmptied
<1>9. w \in Seq(Line) /\ IsInjective(w)
  BY <1>1, <1>2, <1>5, <1>6, <1>7, <1>8, InjectiveConcat DEF EachOnce
<1>10. /\ Len(w) = Len(Written) + Len(data[b]) /\ DOMAIN w = 1..(Len(Written) + Len(data[b]))
       /\ \A i \in 1..(Len(Written) + Len(data[b])) :
            w[i] = IF i <= Len(Written) THEN Written[i] ELSE data[b][i - Len(Written)]
  BY <1>1, <1>2, <1>5, <1>6, ConcatProperties, LenProperties
<1>11. \A i \in DOMAIN w : (\E j \in DOMAIN Written : w[i] = Written[j]) \/ (\E j \in DOMAIN data[b] : w[i] = data[b][j])
  <2>1. ASSUME NEW i \in DOMAIN w
        PROVE  (\E j \in DOMAIN Written : w[i] = Written[j]) \/ (\E j \in DOMAIN data[b] : w[i] = data[b][j])
    <3>1. CASE i <= Len(Written)
      BY <1>1, <1>10, <3>1
    <3>2. CASE ~(i <= Len(Written))
      <4>1. i - Len(Written) \in DOMAIN data[b]
        BY <1>1, <1>2, <1>10, <3>2
      <4> QED
        BY <1>10, <3>2, <4>1
    <3> QED
      BY <3>1, <3>2
  <2> QED
    BY <2>1
<1>12. m_cur_file_size' = Len(w)
  BY <1>3, <1>10 DEF EachOnce
<1>13. m_cur_file_size' \in 0..MaxLines
  BY <1>9, <1>12, NoMoreThanMaxLines
<1>14. \A c : BeingEmptied(c)' <=> c = b
  BY DEF BeingEmptied
<1>15. \A i \in DOMAIN w : w[i].no <= Len(accepted)
  BY <1>11 DEF EachOnce
<1>16. ASSUME NEW c \in Buffers, c # b, NEW i \in DOMAIN data[c], NEW j \in DOMAIN w PROVE data[c][i] # w[j]
  <2>1. \A k \in DOMAIN Written : data[c][i] # Written[k]
    BY DEF EachOnce, BeingEmptied
  <2>2. \A k \in DOMAIN data[b] : data[c][i] # data[b][k]
    BY <1>16 DEF EachOnce
  <2>3. CASE \E k \in DOMAIN Written : w[j] = Written[k]
    BY <2>1, <2>3
  <2>4. CASE \E k \in DOMAIN data[b] : w[j] = data[b][k]
    BY <2>2, <2>4
  <2> QED
    BY <1>11, <2>3, <2>4
<1>17. EachOnce'
  BY <1>6, <1>9, <1>12, <1>14, <1>15, <1>16 DEF EachOnce
<1> QED
  BY <1>4, <1>5, <1>13, <1>17

\* A buffer that was written is emptied.
LEMMA EmptyOnce ==
  ASSUME TypeOK, EachOnce, NEW b \in Buffers, pc \in {"reset", "reset_last"}, next_to_flush = b,
         pc' \in {"flush", "advance"}, data' = Emptied(b), UNCHANGED <<accepted, file_vars>>
  PROVE  data' \in [Buffers -> Seq(Line)] /\ EachOnce'
<1>1. data \in [Buffers -> Seq(Line)]
  BY DEF TypeOK
<1>2. PICK d \in [Buffers -> Seq(Line)] : d = data' /\ d[b] = <<>> /\ \A c \in Buffers : c # b => d[c] = data[c]
  <2>1. <<>> \in Seq(Line)
    OBVIOUS
  <2>2. PICK d : d = [data EXCEPT ![b] = <<>>]
    OBVIOUS
  <2>3. d \in [Buffers -> Seq(Line)] /\ d[b] = <<>> /\ \A c \in Buffers : c # b => d[c] = data[c]
    BY <1>1, <2>1, <2>2
  <2>4. d = data'
    BY <2>2 DEF Emptied
  <2> QED
    BY <2>3, <2>4
<1>3. \A c \in Buffers : \A i \in DOMAIN d[c] : c # b /\ d[c] = data[c] /\ i \in DOMAIN data[c]
  BY <1>2
<1>4. Written' = Written /\ m_cur_file_size' = m_cur_file_size /\ accepted' = accepted
  BY DEF Written, file_vars
<1>5. /\ \A i \in DOMAIN accepted : accepted[i].no = i
      /\ \A i \in DOMAIN Written : Written[i].no <= Len(accepted)
      /\ IsInjective(Written) /\ m_cur_file_size = Len(Written)
  BY DEF EachOnce
<1>6. \A c \in Buffers : \A i \in DOMAIN d[c] : d[c][i].no <= Len(accepted)
  BY <1>3 DEF EachOnce
<1>7. ASSUME NEW c \in Buffers, NEW e \in Buffers, NEW i \in DOMAIN d[c], NEW j \in DOMAIN d[e], d[c][i] = d[e][j]
      PROVE  c = e /\ i = j
  <2>1. i \in DOMAIN data[c] /\ j \in DOMAIN data[e] /\ data[c][i] = data[e][j]
    BY <1>3, <1>7
  <2> QED
    BY <2>1 DEF EachOnce
<1>8. ASSUME NEW c \in Buffers, NEW i \in DOMAIN d[c], NEW j \in DOMAIN Written PROVE d[c][i] # Written[j]
  <2>1. c # b /\ d[c] = data[c] /\ i \in DOMAIN data[c]
    BY <1>3
  <2>2. ~BeingEmptied(c)
    BY <2>1 DEF BeingEmptied
  <2> QED
    BY <2>1, <2>2 DEF EachOnce
<1>9. EachOnce'
  BY <1>2, <1>4, <1>5, <1>6, <1>7, <1>8 DEF EachOnce
<1> QED
  BY <1>2, <1>9

\* Nothing happens to the lines.
LEMMA SameOnce ==
  ASSUME EachOnce, UNCHANGED <<data, accepted>>, Written' = Written, m_cur_file_size' = m_cur_file_size,
         pc # "done",
         pc \notin {"reset", "reset_last"} \/ UNCHANGED <<pc, next_to_flush>>
  PROVE  EachOnce'
<1>1. /\ \A i \in DOMAIN accepted : accepted[i].no = i
      /\ \A i \in DOMAIN Written : Written[i].no <= Len(accepted)
      /\ \A b \in Buffers : \A i \in DOMAIN data[b] : data[b][i].no <= Len(accepted)
      /\ \A b, c \in Buffers : \A i \in DOMAIN data[b], j \in DOMAIN data[c] :
           data[b][i] = data[c][j] => b = c /\ i = j
      /\ IsInjective(Written) /\ m_cur_file_size = Len(Written)
  BY DEF EachOnce
<1>2. ASSUME NEW c \in Buffers, ~BeingEmptied(c)', NEW i \in DOMAIN data[c], NEW j \in DOMAIN Written
      PROVE  data[c][i] # Written[j]
  <2>1. ~BeingEmptied(c)
    BY <1>2 DEF BeingEmptied
  <2> QED
    BY <2>1 DEF EachOnce
<1> QED
  BY <1>1, <1>2 DEF EachOnce

\* The stretch of the ring from one buffer up to another.
LEMMA BetweenBuffers ==
  ASSUME TypeOK, Len(m_buffers) >= Initial, NEW x \in RingBuffers, NEW y \in RingBuffers
  PROVE  /\ Distance(x, y) \in Nat /\ Between(x, y) \in [1..Distance(x, y) -> RingBuffers]
         /\ \A i \in 1..Distance(x, y) : Distance(x, Between(x, y)[i]) = i - 1
<1>1. IsRing(m_buffers, Buffers)
  BY ItIsARing
<1>2. Distance(x, y) \in Nat
  <2>1. StepsIn(m_buffers, x, y) \in 0..(Len(m_buffers) - 1) /\ Len(m_buffers) \in Nat
    BY <1>1, RingFrom, RingPlaces DEF RingBuffers
  <2> QED
    BY <2>1, RingOperators
<1>3. ASSUME NEW i \in 1..Distance(x, y)
      PROVE  Between(x, y)[i] \in RingBuffers /\ Distance(x, Between(x, y)[i]) = i - 1
  <2>1. i \in 1..StepsIn(m_buffers, x, y)
    BY RingOperators
  <2>2. PICK z : z = m_buffers[((PlaceIn(m_buffers, x) + i - 2) % Len(m_buffers)) + 1]
    OBVIOUS
  <2>3. z \in Range(m_buffers) /\ StepsIn(m_buffers, x, z) = i - 1
    BY <1>1, <2>1, <2>2, RingStretch DEF RingBuffers
  <2>4. Between(x, y)[i] = z
    BY <2>2, RingOperators DEF Between
  <2> QED
    BY <2>3, <2>4, RingOperators DEF RingBuffers
<1>4. DOMAIN Between(x, y) = 1..Distance(x, y)
  BY DEF Between
<1>5. Between(x, y) \in [1..Distance(x, y) -> RingBuffers]
  <2>1. Between(x, y) = [i \in 1..Distance(x, y) |-> Between(x, y)[i]]
    BY DEF Between
  <2> QED
    BY <1>3, <2>1
<1> QED
  BY <1>2, <1>3, <1>5

\* What is left is written at the end.
LEMMA FinalOnce ==
  ASSUME TypeOK, BackendInRing, EachOnce, Final
  PROVE  m_file' \in Seq(Line) /\ EachOnce'
<1>1. /\ pc = "final" /\ pc' = "done" /\ CurrentInRing
      /\ UNCHANGED <<data, accepted, closed, next_to_flush>>
  BY DEF Final, history
<1>2. PICK e : e = After(m_current_itr)
  OBVIOUS
<1>3. e \in RingBuffers /\ m_next_to_flush \in RingBuffers /\ Len(m_buffers) >= Initial
  BY <1>1, <1>2, AfterIsInRing DEF CurrentInRing, RingBuffers, BackendInRing
<1>4. PICK left : left = Between(m_next_to_flush, e)
  OBVIOUS
<1>5. PICK n \in Nat : n = Distance(m_next_to_flush, e)
  BY <1>3, BetweenBuffers
<1>6. left \in [1..n -> RingBuffers] /\ \A i \in 1..n : Distance(m_next_to_flush, left[i]) = i - 1
  BY <1>3, <1>4, <1>5, BetweenBuffers
<1>7. RingBuffers \subseteq Buffers
  BY <1>3, ItIsARing
<1>8. PICK seqs : seqs = [i \in DOMAIN left |-> data[left[i]]]
  OBVIOUS
<1>9. m_file' = m_file \o FlattenSeq(seqs)
  <2>1. m_file' = m_file \o FlattenSeq([i \in DOMAIN Between(m_next_to_flush, m_current_itr')
                                          |-> data[Between(m_next_to_flush, m_current_itr')[i]]])
    BY DEF Final
  <2>2. m_current_itr' = e
    BY <1>2 DEF Final
  <2> QED
    BY <1>4, <1>8, <2>1, <2>2
<1>10. data \in [Buffers -> Seq(Line)] /\ m_file \in Seq(Line) /\ closed \in Seq(Line) /\ Written \in Seq(Line)
  BY WrittenIsSeq DEF TypeOK
<1>11. seqs \in [1..n -> Seq(Line)] /\ \A i \in 1..n : seqs[i] = data[left[i]] /\ left[i] \in Buffers
  BY <1>6, <1>7, <1>8, <1>10
<1>12. seqs \in Seq(Seq(Line)) /\ Len(seqs) = n /\ DOMAIN seqs = 1..n
  BY <1>11
<1>13. AllDifferent(seqs)
  <2>1. ASSUME NEW i \in 1..n, NEW j \in 1..n, NEW k \in DOMAIN seqs[i], NEW l \in DOMAIN seqs[j], seqs[i][k] = seqs[j][l]
        PROVE  i = j /\ k = l
    <3>1. left[i] = left[j] /\ k = l
      BY <1>11, <2>1 DEF EachOnce
    <3>2. i - 1 = j - 1
      BY <1>6, <3>1
    <3> QED
      BY <3>1, <3>2
  <2> QED
    BY <1>12, <2>1 DEF AllDifferent
<1>14. PICK t : t = FlattenSeq(seqs)
  OBVIOUS
<1>15. t \in Seq(Line) /\ IsInjective(t) /\ \A p \in DOMAIN t : \E j \in 1..n : \E k \in DOMAIN seqs[j] : t[p] = seqs[j][k]
  <2>1. CASE seqs = <<>>
    <3>1. t = <<>>
      BY <1>14, <2>1 DEF FlattenSeq
    <3> QED
      BY <3>1 DEF IsInjective
  <2>2. CASE seqs # <<>>
    <3>1. t \in Seq(Line) /\ IsInjective(t) /\ DrawnFrom(t, seqs, Len(seqs))
      BY <1>12, <1>13, <1>14, <2>2, FlattenOfDifferent
    <3> QED
      BY <1>12, <3>1 DEF DrawnFrom
  <2> QED
    BY <2>1, <2>2
<1>16. \A p \in DOMAIN t : \E b \in Buffers : \E k \in DOMAIN data[b] : t[p] = data[b][k]
  <2>1. ASSUME NEW p \in DOMAIN t PROVE \E b \in Buffers : \E k \in DOMAIN data[b] : t[p] = data[b][k]
    <3>1. PICK j \in 1..n : \E k \in DOMAIN seqs[j] : t[p] = seqs[j][k]
      BY <1>15
    <3> QED
      BY <1>11, <3>1
  <2> QED
    BY <2>1
<1>17. \A i \in DOMAIN Written, p \in DOMAIN t : Written[i] # t[p]
  BY <1>1, <1>16 DEF EachOnce, BeingEmptied
<1>18. PICK w : w = Written'
  OBVIOUS
<1>19. w = Written \o t /\ m_file' \in Seq(Line)
  <2>1. m_file' = m_file \o t /\ Written' = closed \o m_file'
    BY <1>1, <1>9, <1>14 DEF Written
  <2>2. \A s, u, v \in Seq(Line) : (s \o u) \o v = s \o (u \o v)
    BY ConcatAssociative
  <2>3. (closed \o m_file) \o t = closed \o (m_file \o t)
    BY <1>10, <1>15, <2>2, Zenon
  <2>4. m_file \o t \in Seq(Line)
    BY <1>10, <1>15, ConcatProperties
  <2> QED
    BY <1>18, <2>1, <2>3, <2>4 DEF Written
<1>20. w \in Seq(Line) /\ IsInjective(w)
  BY <1>10, <1>15, <1>17, <1>19, InjectiveConcat DEF EachOnce
<1>21. \A i \in DOMAIN w : w[i].no <= Len(accepted)
  <2>1. ASSUME NEW i \in DOMAIN w PROVE w[i].no <= Len(accepted)
    <3>1. /\ Len(Written) \in Nat /\ Len(t) \in Nat /\ i \in 1..(Len(Written) + Len(t))
          /\ DOMAIN Written = 1..Len(Written) /\ DOMAIN t = 1..Len(t)
          /\ w[i] = IF i <= Len(Written) THEN Written[i] ELSE t[i - Len(Written)]
      BY <1>10, <1>15, <1>19, ConcatProperties, LenProperties
    <3>2. CASE i <= Len(Written)
      BY <3>1, <3>2 DEF EachOnce
    <3>3. CASE ~(i <= Len(Written))
      <4>1. i - Len(Written) \in DOMAIN t /\ w[i] = t[i - Len(Written)]
        BY <3>1, <3>3
      <4>2. PICK b \in Buffers : \E k \in DOMAIN data[b] : w[i] = data[b][k]
        BY <1>16, <4>1
      <4> QED
        BY <4>2 DEF EachOnce
    <3> QED
      BY <3>2, <3>3
  <2> QED
    BY <2>1
<1>22. /\ \A i \in DOMAIN accepted : accepted[i].no = i
       /\ \A b \in Buffers : \A i \in DOMAIN data[b] : data[b][i].no <= Len(accepted)
       /\ \A b, c \in Buffers : \A i \in DOMAIN data[b], j \in DOMAIN data[c] :
            data[b][i] = data[c][j] => b = c /\ i = j
  BY DEF EachOnce
<1>23. EachOnce'
  BY <1>1, <1>18, <1>20, <1>21, <1>22 DEF EachOnce
<1> QED
  BY <1>19, <1>23

-----------------------------------------------------------------------------
(* The invariant that holds whether or not lines are dropped.              *)

\* The line a call of append() is given.
NextLine == [no |-> Len(accepted) + 1, len |-> LineLen[Len(accepted) + 1]]

LEMMA AppendTakesALine ==
  ASSUME TypeOK, AppendLine
  PROVE  /\ NextLine \in Line /\ NextLine.no = Len(accepted) + 1 /\ NextLine.len \in 1..Capacity
         /\ AppendHere(NextLine) \/ AppendNext(NextLine) \/ AppendNew(NextLine) \/ AppendDrops(NextLine)
         /\ accepted' = Append(accepted, NextLine) /\ CurrentInRing
         /\ UNCHANGED <<m_next_to_flush, m_running, pc, cur, next_to_flush, reduce, m_file, closed, m_cur_file_size>>
<1>1. Len(accepted) \in Nat /\ Len(accepted) < MaxLines
  BY DEF TypeOK, AppendLine
<1>2. Len(accepted) + 1 \in 1..MaxLines
  BY <1>1, SizesAssumption
<1>3. NextLine \in Line /\ NextLine.no = Len(accepted) + 1 /\ NextLine.len \in 1..Capacity
  BY <1>2, LineLenAssumption DEF NextLine, Line
<1> QED
  BY <1>3 DEF AppendLine, NextLine, backend_vars, file_vars

\* append() makes the ring longer in front of the buffer to flush next.
LEMMA NewBuffer ==
  ASSUME TypeOK, BackendInRing, NEW line, AppendNew(line)
  PROVE  /\ m_current_itr' \in Buffers \ RingBuffers
         /\ IsRing(m_buffers', Buffers) /\ Len(m_buffers') = Len(m_buffers) + 1
         /\ Range(m_buffers') = RingBuffers \cup {m_current_itr'}
         /\ \A b \in RingBuffers : StepsIn(m_buffers', m_next_to_flush, b) = Distance(m_next_to_flush, b)
         /\ StepsIn(m_buffers', m_next_to_flush, m_current_itr') = Len(m_buffers)
         /\ ~Enough(m_current_itr, line) /\ After(m_current_itr) = m_next_to_flush
         /\ Store(m_current_itr', line) /\ saturated' = saturated
<1>1. PICK b : b = CHOOSE x \in Buffers : x \notin Range(m_buffers)
  OBVIOUS
<1>2. m_current_itr' = b /\ m_buffers' = InsertBefore(b) /\ Store(b, line) /\ Len(m_buffers) < MaxBuffers
  BY <1>1 DEF AppendNew
<1>3. b \in Buffers \ RingBuffers
  BY <1>1, <1>2, OneIsFree
<1>4. IsRing(m_buffers, Buffers) /\ m_next_to_flush \in Range(m_buffers)
  BY ItIsARing DEF BackendInRing, RingBuffers
<1>5. PICK q : q = InsertAt(m_buffers, PlaceIn(m_buffers, m_next_to_flush), b)
  OBVIOUS
<1>6. m_buffers' = q
  BY <1>2, <1>5, RingOperators DEF InsertBefore
<1>7. /\ IsRing(q, Buffers) /\ Len(q) = Len(m_buffers) + 1 /\ Range(q) = Range(m_buffers) \cup {b}
      /\ \A y \in Range(m_buffers) : StepsIn(q, m_next_to_flush, y) = StepsIn(m_buffers, m_next_to_flush, y)
      /\ StepsIn(q, m_next_to_flush, b) = Len(m_buffers)
  BY <1>3, <1>4, <1>5, RingInsert DEF RingBuffers
<1>8. \A y \in RingBuffers : StepsIn(q, m_next_to_flush, y) = Distance(m_next_to_flush, y)
  BY <1>7, RingOperators DEF RingBuffers
<1>9. ~Enough(m_current_itr, line) /\ After(m_current_itr) = m_next_to_flush /\ saturated' = saturated
  BY DEF AppendNew
<1> QED
  BY <1>2, <1>3, <1>6, <1>7, <1>8, <1>9 DEF RingBuffers

LEMMA AppendSafe ==
  ASSUME SafeInv, AppendLine
  PROVE  SafeInv'
<1>0. TypeOK /\ BackendInRing /\ EachOnce
  BY DEF SafeInv
<1>1. PICK line \in Line : line = NextLine
  BY <1>0, AppendTakesALine
<1>2. /\ line.no = Len(accepted) + 1 /\ accepted' = Append(accepted, line) /\ CurrentInRing
      /\ UNCHANGED <<m_next_to_flush, m_running, pc, cur, next_to_flush, reduce, m_file, closed, m_cur_file_size>>
      /\ AppendHere(line) \/ AppendNext(line) \/ AppendNew(line) \/ AppendDrops(line)
  BY <1>0, <1>1, AppendTakesALine
<1>3. /\ IsRing(m_buffers, Buffers) /\ Len(m_buffers) \in Nat /\ RingBuffers \subseteq Buffers
      /\ m_current_itr \in RingBuffers /\ m_next_to_flush \in RingBuffers
  BY <1>0, <1>2, ItIsARing DEF BackendInRing, CurrentInRing, RingBuffers
<1>4. /\ IsRing(m_buffers', Buffers) /\ Len(m_buffers') >= Len(m_buffers) /\ RingBuffers \subseteq Range(m_buffers')
      /\ m_current_itr' \in Range(m_buffers') /\ saturated' \in BOOLEAN
      /\ \E b \in Buffers : data' = data \/ data' = [data EXCEPT ![b] = Append(@, line)]
  <2>1. saturated \in BOOLEAN /\ Len(m_buffers) >= Len(m_buffers) /\ Len(m_buffers) + 1 >= Len(m_buffers)
    BY <1>0, <1>3 DEF TypeOK
  <2>2. \A b : Store(b, line) => data' = data \/ data' = [data EXCEPT ![b] = Append(@, line)]
    BY DEF Store
  <2>3. CASE AppendHere(line)
    <3>1. Store(m_current_itr, line) /\ UNCHANGED <<m_buffers, m_current_itr, saturated>>
      BY <2>3 DEF AppendHere
    <3>2. data' = data \/ data' = [data EXCEPT ![m_current_itr] = Append(@, line)]
      BY <2>2, <3>1
    <3> QED
      BY <1>3, <2>1, <3>1, <3>2 DEF RingBuffers
  <2>4. CASE AppendNext(line)
    <3>1. PICK b : b = After(m_current_itr)
      OBVIOUS
    <3>2. b \in RingBuffers
      BY <1>0, <1>3, <3>1, AfterIsInRing
    <3>3. m_current_itr' = b /\ Store(b, line) /\ UNCHANGED <<m_buffers, saturated>>
      BY <2>4, <3>1 DEF AppendNext
    <3>4. data' = data \/ data' = [data EXCEPT ![b] = Append(@, line)]
      BY <2>2, <3>3
    <3> QED
      BY <1>3, <2>1, <3>2, <3>3, <3>4 DEF RingBuffers
  <2>5. CASE AppendNew(line)
    <3>1. PICK b : b = m_current_itr'
      OBVIOUS
    <3>2. /\ b \in Buffers /\ IsRing(m_buffers', Buffers) /\ Len(m_buffers') = Len(m_buffers) + 1
          /\ Range(m_buffers') = RingBuffers \cup {b} /\ Store(b, line) /\ saturated' = saturated
      BY <1>0, <2>5, <3>1, NewBuffer
    <3>3. data' = data \/ data' = [data EXCEPT ![b] = Append(@, line)]
      BY <2>2, <3>2
    <3> QED
      BY <2>1, <3>1, <3>2, <3>3
  <2>6. CASE AppendDrops(line)
    <3>1. m_current_itr' = m_next_to_flush /\ saturated' = TRUE /\ UNCHANGED <<m_buffers, data>>
      BY <2>6 DEF AppendDrops
    <3> QED
      BY <1>3, <2>1, <3>1 DEF RingBuffers
  <2> QED
    BY <1>2, <2>3, <2>4, <2>5, <2>6
<1>5. PICK to \in Buffers : data' = data \/ data' = [data EXCEPT ![to] = Append(@, line)]
  BY <1>4
<1>6. UNCHANGED <<pc, next_to_flush, file_vars>>
  BY <1>2 DEF file_vars
<1>7. data' \in [Buffers -> Seq(Line)] /\ accepted' \in Seq(Line) /\ EachOnce'
  BY <1>0, <1>2, <1>5, <1>6, StoreOnce
<1>8. m_current_itr' \in Buffers
  <2>1. Range(m_buffers') \subseteq Buffers
    BY <1>4, RingPlaces
  <2> QED
    BY <1>4, <2>1
<1>9. TypeOK'
  <2>1. m_buffers' \in Seq(Buffers) /\ IsInjective(m_buffers)'
    BY <1>4 DEF IsRing, IsInjective
  <2>2. {m_next_to_flush, cur, next_to_flush} \subseteq Buffers /\ m_cur_file_size \in 0..MaxLines /\ m_running \in BOOLEAN
    BY <1>0 DEF TypeOK
  <2>3. /\ pc \in {"check", "waiting", "measure", "flush", "reset", "relock", "flush_last", "reset_last",
                   "advance", "rotate", "final", "done"}
        /\ reduce \in BOOLEAN /\ m_file \in Seq(Line) /\ closed \in Seq(Line)
    BY <1>0 DEF TypeOK
  <2> QED
    BY <1>2, <1>4, <1>7, <1>8, <2>1, <2>2, <2>3 DEF TypeOK
<1>10. BackendInRing'
  <2>1. Len(m_buffers') >= Initial
    <3>1. Len(m_buffers') \in Nat
      BY <1>4, RingPlaces
    <3> QED
      BY <1>0, <1>3, <1>4, <3>1 DEF BackendInRing, Initial
  <2>2. \A b \in RingBuffers : b \in Range(m_buffers')
    BY <1>4
  <2> QED
    BY <1>0, <1>2, <1>4, <2>1, <2>2 DEF BackendInRing, CurrentInRing, RingBuffers
<1> QED
  BY <1>7, <1>9, <1>10 DEF SafeInv

LEMMA BackendSafe ==
  ASSUME SafeInv, Backend
  PROVE  SafeInv'
<1>0. TypeOK /\ BackendInRing /\ EachOnce
  BY DEF SafeInv
<1>1. /\ m_buffers \in Seq(Buffers) /\ IsInjective(m_buffers)
      /\ data \in [Buffers -> Seq(Line)]
      /\ {m_current_itr, m_next_to_flush, cur, next_to_flush} \subseteq Buffers
      /\ m_cur_file_size \in 0..MaxLines
      /\ m_running \in BOOLEAN /\ reduce \in BOOLEAN /\ saturated \in BOOLEAN
      /\ accepted \in Seq(Line) /\ m_file \in Seq(Line) /\ closed \in Seq(Line)
  BY <1>0 DEF TypeOK
<1>2. /\ IsRing(m_buffers, Buffers) /\ Len(m_buffers) \in Nat /\ Len(m_buffers) > 1 /\ Len(m_buffers) >= Initial
      /\ RingBuffers \subseteq Buffers /\ m_next_to_flush \in RingBuffers
  BY <1>0, ItIsARing DEF BackendInRing
<1>3. \A b \in RingBuffers : After(b) \in RingBuffers /\ After(b) \in Buffers
  BY <1>0, <1>2, AfterIsInRing
<1>4. CASE Check
  <2>1. /\ pc = "check" /\ CurrentInRing /\ cur' = m_current_itr
        /\ pc' = IF m_current_itr = m_next_to_flush THEN "waiting" ELSE "measure"
        /\ UNCHANGED <<m_buffers, data, m_current_itr, m_next_to_flush, m_running, next_to_flush, reduce,
                       m_file, closed, m_cur_file_size, accepted, saturated>>
    BY <1>4 DEF Check, file_vars, history
  <2>2. TypeOK'
    BY <1>1, <2>1 DEF TypeOK, IsInjective
  <2>3. BackendInRing'
    BY <1>2, <2>1 DEF BackendInRing, RingBuffers, CurrentInRing
  <2>4. EachOnce'
    BY <1>0, <2>1, SameOnce DEF Written
  <2> QED
    BY <2>2, <2>3, <2>4 DEF SafeInv
<1>5. CASE Awake
  <2>1. /\ pc = "waiting" /\ pc' = "measure" /\ cur' = m_current_itr
        /\ UNCHANGED <<m_buffers, data, m_current_itr, m_next_to_flush, m_running, next_to_flush, reduce,
                       m_file, closed, m_cur_file_size, accepted, saturated>>
    BY <1>5 DEF Awake, file_vars, history
  <2>2. TypeOK'
    BY <1>1, <2>1 DEF TypeOK, IsInjective
  <2>3. BackendInRing'
    BY <1>0, <1>2, <2>1 DEF BackendInRing, RingBuffers, CurrentInRing
  <2>4. EachOnce'
    BY <1>0, <2>1, SameOnce DEF Written
  <2> QED
    BY <2>2, <2>3, <2>4 DEF SafeInv
<1>6. CASE Measure
  <2>1. /\ pc = "measure" /\ pc' = "flush" /\ next_to_flush' = m_next_to_flush /\ reduce' \in BOOLEAN
        /\ UNCHANGED <<m_buffers, data, m_current_itr, m_next_to_flush, m_running, cur,
                       m_file, closed, m_cur_file_size, accepted, saturated>>
    BY <1>6 DEF Measure, file_vars, history
  <2>2. TypeOK'
    BY <1>1, <2>1 DEF TypeOK, IsInjective
  <2>3. BackendInRing'
    BY <1>0, <1>2, <2>1 DEF BackendInRing, RingBuffers, CurrentInRing
  <2>4. EachOnce'
    BY <1>0, <2>1, SameOnce DEF Written
  <2> QED
    BY <2>2, <2>3, <2>4 DEF SafeInv
<1>7. CASE Flush
  <2>1. /\ pc = "flush"
        /\ \/ next_to_flush = cur /\ pc' = "relock" /\ UNCHANGED <<m_file, closed, m_cur_file_size>>
           \/ next_to_flush # cur /\ pc' = "reset" /\ WriteOut(next_to_flush)
        /\ UNCHANGED <<m_buffers, data, m_current_itr, m_next_to_flush, m_running, cur, next_to_flush, reduce,
                       accepted, saturated>>
    BY <1>7 DEF Flush, file_vars, history
  <2>2. m_file' \in Seq(Line) /\ closed' \in Seq(Line) /\ m_cur_file_size' \in 0..MaxLines /\ EachOnce'
    <3>1. CASE pc' = "relock" /\ UNCHANGED <<m_file, closed, m_cur_file_size>>
      BY <1>0, <1>1, <2>1, <3>1, SameOnce DEF Written
    <3>2. CASE pc' = "reset" /\ WriteOut(next_to_flush)
      <4>1. next_to_flush \in Buffers
        BY <1>1
      <4> QED
        BY <1>0, <2>1, <3>2, <4>1, WriteOnce
    <3> QED
      BY <2>1, <3>1, <3>2
  <2>3. TypeOK'
    BY <1>1, <2>1, <2>2 DEF TypeOK, IsInjective
  <2>4. BackendInRing'
    BY <1>0, <1>2, <2>1 DEF BackendInRing, RingBuffers, CurrentInRing
  <2> QED
    BY <2>2, <2>3, <2>4 DEF SafeInv
<1>8. CASE Reset
  <2>1. /\ pc = "reset" /\ pc' = "flush" /\ data' = Emptied(next_to_flush) /\ next_to_flush' = After(next_to_flush)
        /\ UNCHANGED <<m_buffers, m_current_itr, m_next_to_flush, m_running, cur, reduce,
                       m_file, closed, m_cur_file_size, accepted, saturated>>
    BY <1>8 DEF Reset, file_vars, history
  <2>2. next_to_flush \in RingBuffers /\ cur \in RingBuffers
    BY <1>0, <2>1 DEF BackendInRing
  <2>3. next_to_flush' \in RingBuffers /\ next_to_flush' \in Buffers
    BY <1>3, <2>1, <2>2
  <2>4. data' \in [Buffers -> Seq(Line)] /\ EachOnce'
    <3>1. next_to_flush \in Buffers
      BY <1>1
    <3> QED
      BY <1>0, <2>1, <3>1, EmptyOnce DEF file_vars
  <2>5. TypeOK'
    BY <1>1, <2>1, <2>3, <2>4 DEF TypeOK, IsInjective
  <2>6. BackendInRing'
    BY <1>2, <2>1, <2>2, <2>3 DEF BackendInRing, RingBuffers, CurrentInRing
  <2> QED
    BY <2>4, <2>5, <2>6 DEF SafeInv
<1>9. CASE Relock
  <2>1. /\ pc = "relock" /\ pc' = "flush_last" /\ m_next_to_flush' = next_to_flush /\ m_current_itr' = LeaveCur
        /\ UNCHANGED <<m_buffers, data, m_running, cur, next_to_flush, reduce,
                       m_file, closed, m_cur_file_size, accepted, saturated>>
    BY <1>9 DEF Relock, file_vars, history
  <2>2. next_to_flush \in RingBuffers /\ cur \in RingBuffers
    BY <1>0, <2>1 DEF BackendInRing
  <2>3. m_current_itr' \in Buffers
    BY <1>1, <1>3, <2>1, <2>2 DEF LeaveCur
  <2>4. TypeOK'
    BY <1>1, <2>1, <2>3 DEF TypeOK, IsInjective
  <2>5. BackendInRing'
    BY <1>2, <2>1, <2>2 DEF BackendInRing, RingBuffers, CurrentInRing
  <2>6. EachOnce'
    BY <1>0, <2>1, SameOnce DEF Written
  <2> QED
    BY <2>4, <2>5, <2>6 DEF SafeInv
<1>10. CASE FlushLast
  <2>1. /\ pc = "flush_last" /\ pc' = "reset_last" /\ WriteOut(next_to_flush)
        /\ UNCHANGED <<m_buffers, data, m_current_itr, m_next_to_flush, m_running, cur, next_to_flush, reduce,
                       accepted, saturated>>
    BY <1>10 DEF FlushLast, history
  <2>2. m_file' \in Seq(Line) /\ closed' \in Seq(Line) /\ m_cur_file_size' \in 0..MaxLines /\ EachOnce'
    <3>1. next_to_flush \in Buffers
      BY <1>1
    <3> QED
      BY <1>0, <2>1, <3>1, WriteOnce
  <2>3. TypeOK'
    BY <1>1, <2>1, <2>2 DEF TypeOK, IsInjective
  <2>4. BackendInRing'
    BY <1>0, <1>2, <2>1 DEF BackendInRing, RingBuffers, CurrentInRing
  <2> QED
    BY <2>2, <2>3, <2>4 DEF SafeInv
<1>11. CASE ResetLast
  <2>1. /\ pc = "reset_last" /\ pc' = "advance" /\ data' = Emptied(next_to_flush)
        /\ UNCHANGED <<m_buffers, m_current_itr, m_next_to_flush, m_running, cur, next_to_flush, reduce,
                       m_file, closed, m_cur_file_size, accepted, saturated>>
    BY <1>11 DEF ResetLast, file_vars, history
  <2>2. data' \in [Buffers -> Seq(Line)] /\ EachOnce'
    <3>1. next_to_flush \in Buffers
      BY <1>1
    <3> QED
      BY <1>0, <2>1, <3>1, EmptyOnce DEF file_vars
  <2>3. TypeOK'
    BY <1>1, <2>1, <2>2 DEF TypeOK, IsInjective
  <2>4. BackendInRing'
    BY <1>0, <1>2, <2>1 DEF BackendInRing, RingBuffers, CurrentInRing
  <2> QED
    BY <2>2, <2>3, <2>4 DEF SafeInv
<1>12. CASE Advance
  <2>1. /\ pc = "advance" /\ pc' = "rotate" /\ m_next_to_flush' = After(m_next_to_flush)
        /\ \/ m_buffers' = m_buffers
           \/ Len(m_buffers) > Initial /\ m_buffers' = RemoveAt(m_buffers, Place(m_next_to_flush))
        /\ UNCHANGED <<data, m_current_itr, m_running, cur, next_to_flush, reduce,
                       m_file, closed, m_cur_file_size, accepted, saturated>>
    BY <1>12 DEF Advance, file_vars, history
  <2>2. m_next_to_flush' \in RingBuffers /\ m_next_to_flush' \in Buffers
    BY <1>2, <1>3, <2>1
  <2>3. IsRing(m_buffers', Buffers) /\ Len(m_buffers') >= Initial /\ m_next_to_flush' \in Range(m_buffers')
    <3>1. CASE m_buffers' = m_buffers
      BY <1>2, <2>2, <3>1 DEF RingBuffers
    <3>2. CASE Len(m_buffers) > Initial /\ m_buffers' = RemoveAt(m_buffers, Place(m_next_to_flush))
      <4>1. PICK q : q = RemoveAt(m_buffers, PlaceIn(m_buffers, m_next_to_flush))
        OBVIOUS
      <4>2. IsRing(q, Buffers) /\ Len(q) = Len(m_buffers) - 1 /\ NextIn(m_buffers, m_next_to_flush) \in Range(q)
        BY <1>2, <4>1, RingRemove DEF RingBuffers
      <4>3. m_buffers' = q /\ m_next_to_flush' = NextIn(m_buffers, m_next_to_flush)
        BY <2>1, <3>2, <4>1, RingOperators
      <4> QED
        BY <1>2, <3>2, <4>2, <4>3 DEF Initial
    <3> QED
      BY <2>1, <3>1, <3>2
  <2>4. TypeOK'
    <3>1. m_buffers' \in Seq(Buffers) /\ IsInjective(m_buffers)'
      BY <2>3 DEF IsRing, IsInjective
    <3> QED
      BY <1>1, <2>1, <2>2, <3>1 DEF TypeOK
  <2>5. BackendInRing'
    BY <2>1, <2>3 DEF BackendInRing, RingBuffers
  <2>6. EachOnce'
    BY <1>0, <2>1, SameOnce DEF Written
  <2> QED
    BY <2>4, <2>5, <2>6 DEF SafeInv
<1>13. CASE Rotate
  <2>1. /\ pc = "rotate" /\ pc' \in {"check", "final"}
        /\ \/ closed' = closed \o m_file /\ m_file' = <<>>
           \/ UNCHANGED <<closed, m_file>>
        /\ UNCHANGED <<m_buffers, data, m_current_itr, m_next_to_flush, m_cur_file_size, m_running, cur,
                       next_to_flush, reduce, accepted, saturated>>
    BY <1>13 DEF Rotate, history
  <2>2. closed' \in Seq(Line) /\ m_file' \in Seq(Line) /\ Written' = Written
    <3>1. CASE closed' = closed \o m_file /\ m_file' = <<>>
      <4>1. closed \o m_file \in Seq(Line) /\ (closed \o m_file) \o <<>> = closed \o m_file
        BY <1>1, ConcatProperties, ConcatEmptySeq
      <4> QED
        BY <3>1, <4>1 DEF Written
    <3>2. CASE UNCHANGED <<closed, m_file>>
      BY <1>1, <3>2 DEF Written
    <3> QED
      BY <2>1, <3>1, <3>2
  <2>3. TypeOK'
    BY <1>1, <2>1, <2>2 DEF TypeOK, IsInjective
  <2>4. BackendInRing'
    BY <1>2, <2>1 DEF BackendInRing, RingBuffers
  <2>5. EachOnce'
    BY <1>0, <2>1, <2>2, SameOnce
  <2> QED
    BY <2>3, <2>4, <2>5 DEF SafeInv
<1>14. CASE Final
  <2>1. /\ CurrentInRing /\ pc' = "done" /\ m_current_itr' = After(m_current_itr) /\ m_next_to_flush' = m_current_itr'
        /\ UNCHANGED <<m_buffers, data, m_running, cur, next_to_flush, reduce, closed, m_cur_file_size,
                       accepted, saturated>>
    BY <1>14 DEF Final, history
  <2>2. m_file' \in Seq(Line) /\ EachOnce'
    BY <1>0, <1>14, FinalOnce
  <2>3. m_current_itr' \in RingBuffers /\ m_current_itr' \in Buffers
    BY <1>3, <2>1 DEF CurrentInRing, RingBuffers
  <2>4. TypeOK'
    BY <1>1, <2>1, <2>2, <2>3 DEF TypeOK, IsInjective
  <2>5. BackendInRing'
    BY <1>2, <2>1, <2>3 DEF BackendInRing, RingBuffers
  <2> QED
    BY <2>2, <2>4, <2>5 DEF SafeInv
<1> QED
  BY <1>4, <1>5, <1>6, <1>7, <1>8, <1>9, <1>10, <1>11, <1>12, <1>13, <1>14 DEF Backend

LEMMA SafeInit == Init => SafeInv
<1> SUFFICES ASSUME Init PROVE SafeInv
  OBVIOUS
<1>1. MaxBuffers \in Nat /\ MaxLines \in Nat
  BY SizesAssumption
<1>2. 1..4 \subseteq Buffers /\ 1 \in Buffers
  BY <1>1 DEF Buffers, Initial
<1>3. /\ m_buffers = [i \in 1..4 |-> i] /\ data = [b \in Buffers |-> <<>>]
      /\ m_current_itr = 1 /\ m_next_to_flush = 1 /\ cur = 1 /\ next_to_flush = 1
      /\ m_cur_file_size = 0 /\ m_running = TRUE /\ pc = "check" /\ reduce = FALSE /\ saturated = FALSE
      /\ accepted = <<>> /\ m_file = <<>> /\ closed = <<>>
  BY DEF Init, Initial
<1>4. m_buffers \in Seq(Buffers) /\ IsInjective(m_buffers) /\ Len(m_buffers) = 4 /\ RingBuffers = 1..4
  BY <1>2, <1>3 DEF IsInjective, RingBuffers, Range
<1>5. <<>> \in Seq(Line) /\ data \in [Buffers -> Seq(Line)] /\ \A b \in Buffers : DOMAIN data[b] = {}
  BY <1>3
<1>6. TypeOK
  <2>1. m_cur_file_size \in 0..MaxLines /\ {m_current_itr, m_next_to_flush, cur, next_to_flush} \subseteq Buffers
    BY <1>1, <1>2, <1>3
  <2>2. accepted \in Seq(Line) /\ m_file \in Seq(Line) /\ closed \in Seq(Line)
    BY <1>3, <1>5
  <2>3. /\ m_running \in BOOLEAN /\ reduce \in BOOLEAN /\ saturated \in BOOLEAN
        /\ pc \in {"check", "waiting", "measure", "flush", "reset", "relock", "flush_last", "reset_last",
                   "advance", "rotate", "final", "done"}
    BY <1>3
  <2> QED
    BY <1>4, <1>5, <2>1, <2>2, <2>3, Zenon DEF TypeOK
<1>7. BackendInRing
  BY <1>3, <1>4 DEF BackendInRing, Initial
<1>8. EachOnce
  <2>1. Written = <<>> /\ IsInjective(Written) /\ Len(Written) = 0 /\ DOMAIN Written = {} /\ DOMAIN accepted = {}
    BY <1>3 DEF Written, IsInjective
  <2> QED
    BY <1>3, <1>5, <2>1 DEF EachOnce
<1> QED
  BY <1>6, <1>7, <1>8 DEF SafeInv

LEMMA SafeStep == SafeInv /\ [Next]_vars => SafeInv'
<1> SUFFICES ASSUME SafeInv, [Next]_vars PROVE SafeInv'
  OBVIOUS
<1>1. CASE AppendLine
  BY <1>1, AppendSafe
<1>2. CASE Backend
  BY <1>2, BackendSafe
<1>3. CASE Destroy \/ UNCHANGED vars
  <2>1. /\ m_running' \in {m_running, FALSE}
        /\ UNCHANGED <<m_buffers, data, m_current_itr, m_next_to_flush, pc, cur, next_to_flush, reduce, m_file, closed,
                       m_cur_file_size, accepted, saturated>>
    BY <1>3 DEF Destroy, vars, backend_vars, file_vars, history
  <2>2. TypeOK'
    BY <2>1 DEF SafeInv, TypeOK, IsInjective
  <2>3. BackendInRing'
    BY <2>1 DEF SafeInv, BackendInRing, RingBuffers, CurrentInRing
  <2>4. EachOnce'
    BY <2>1 DEF SafeInv, EachOnce, Written, BeingEmptied, IsInjective
  <2> QED
    BY <2>2, <2>3, <2>4 DEF SafeInv
<1> QED
  BY <1>1, <1>2, <1>3 DEF Next

\* Every variable keeps its type.
THEOREM TypeCorrect == Spec => []TypeOK
<1>1. SafeInv => TypeOK
  BY DEF SafeInv
<1> QED
  BY <1>1, SafeInit, SafeStep, PTL DEF Spec

-----------------------------------------------------------------------------
(* Lines that follow one another.                                          *)

LEMMA AppendedSubSeq ==
  ASSUME NEW S, NEW s \in Seq(S), NEW x \in S, NEW i \in 1..(Len(s) + 1)
  PROVE  /\ Append(s, x) \in Seq(S) /\ Len(Append(s, x)) = Len(s) + 1
         /\ \A j \in 0..Len(s) : SubSeq(Append(s, x), i, j) = SubSeq(s, i, j)
         /\ Append(SubSeq(s, i, Len(s)), x) = SubSeq(Append(s, x), i, Len(s) + 1)
OBVIOUS

\* Some of the buffers, counted from another one.
LEMMA PiecesFewer ==
  ASSUME NEW P, NEW A, NEW d, NEW acc, NEW start, Pieces(P, A, d, acc, start),
         NEW Q \in SUBSET P, NEW B, NEW k \in Int, NEW e,
         \A b \in Q : A[b] \in Int /\ B[b] = A[b] - k /\ e[b] = d[b]
  PROVE  Pieces(Q, B, e, acc, start)
<1>1. ASSUME NEW b \in Q
      PROVE  start[b] + Len(e[b]) <= Len(acc) /\ e[b] = SubSeq(acc, start[b] + 1, start[b] + Len(e[b]))
  BY DEF Pieces
<1>2. ASSUME NEW b \in Q, NEW c \in Q, B[c] = B[b] + 1 PROVE start[c] = start[b] + Len(e[b])
  <2>1. A[c] = A[b] + 1
    BY <1>2
  <2> QED
    BY <2>1 DEF Pieces
<1> QED
  BY <1>1, <1>2 DEF Pieces

IsStored(e, d, f, line) == e = [d EXCEPT ![f] = Append(@, line)]

\* A line goes to the last buffer.
LEMMA PiecesAppend ==
  ASSUME NEW P, NEW A, NEW d, NEW acc, NEW start, IsPieces(P, A, d, acc, start), NEW f, IsLast(P, A, f),
         start[f] + Len(d[f]) = Len(acc), NEW line, line \in Line, NEW e, IsStored(e, d, f, line)
  PROVE  IsPieces(P, A, e, Append(acc, line), start) /\ start[f] + Len(e[f]) = Len(acc) + 1
<1>0. /\ P \subseteq Buffers /\ \A b \in P : A[b] \in Int /\ A[b] <= A[f]
      /\ d \in [Buffers -> Seq(Line)] /\ acc \in Seq(Line) /\ start \in [Buffers -> Nat]
      /\ Pieces(P, A, d, acc, start) /\ f \in P /\ e = [d EXCEPT ![f] = Append(@, line)]
  BY DEF IsPieces, IsLast, IsStored
<1> USE <1>0
<1>1. e[f] = Append(d[f], line) /\ \A b \in P : b # f => e[b] = d[b]
  OBVIOUS
<1>2. \A b \in P : d[b] \in Seq(Line) /\ Len(d[b]) \in Nat /\ start[b] \in Nat
  OBVIOUS
<1>3. Len(acc) \in Nat /\ Len(Append(acc, line)) = Len(acc) + 1
  OBVIOUS
<1>4. Len(e[f]) = Len(d[f]) + 1
  BY <1>1, <1>2
<1>5. ASSUME NEW b \in P
      PROVE  /\ start[b] + Len(e[b]) <= Len(acc) + 1
             /\ e[b] = SubSeq(Append(acc, line), start[b] + 1, start[b] + Len(e[b]))
  <2>1. start[b] + Len(d[b]) <= Len(acc) /\ d[b] = SubSeq(acc, start[b] + 1, start[b] + Len(d[b]))
    BY DEF Pieces
  <2>2. start[b] + 1 \in 1..(Len(acc) + 1) /\ start[b] + Len(d[b]) \in 0..Len(acc)
    <3>1. \A x, y, z \in Nat : x + y <= z => x + 1 \in 1..(z + 1) /\ x + y \in 0..z
      OBVIOUS
    <3>2. start[b] \in Nat /\ Len(d[b]) \in Nat /\ Len(acc) \in Nat
      BY <1>2, <1>3
    <3> QED
      BY <2>1, <3>1, <3>2, Zenon
  <2>3. CASE b = f
    <3>1. e[b] = Append(SubSeq(acc, start[b] + 1, Len(acc)), line)
      BY <1>1, <2>1, <2>3
    <3>2. e[b] = SubSeq(Append(acc, line), start[b] + 1, Len(acc) + 1)
      <4>1. PICK i \in 1..(Len(acc) + 1) : i = start[b] + 1
        BY <2>2, Zenon
      <4>2. acc \in Seq(Line) /\ line \in Line
        BY Zenon
      <4>3. Append(SubSeq(acc, i, Len(acc)), line) = SubSeq(Append(acc, line), i, Len(acc) + 1)
        BY <4>2, AppendedSubSeq
      <4> QED
        BY <3>1, <4>1, <4>3, Zenon
    <3>3. start[b] + Len(e[b]) = Len(acc) + 1
      BY <1>2, <1>3, <1>4, <2>3
    <3>4. Len(acc) + 1 <= Len(acc) + 1
      BY <1>3
    <3> QED
      BY <3>2, <3>3, <3>4, Zenon
  <2>4. CASE b # f
    <3>1. e[b] = d[b]
      BY <1>1, <2>4
    <3>2. SubSeq(Append(acc, line), start[b] + 1, start[b] + Len(d[b])) = SubSeq(acc, start[b] + 1, start[b] + Len(d[b]))
      <4>1. acc \in Seq(Line) /\ line \in Line
        BY Zenon
      <4>2. \A i \in 1..(Len(acc) + 1) : \A j \in 0..Len(acc) : SubSeq(Append(acc, line), i, j) = SubSeq(acc, i, j)
        BY <4>1, AppendedSubSeq
      <4> QED
        BY <2>2, <4>2, Zenon
    <3>3. start[b] + Len(d[b]) <= Len(acc) + 1
      BY <1>2, <1>3, <2>1
    <3> QED
      BY <2>1, <3>1, <3>2, <3>3, Zenon
  <2> QED
    BY <2>3, <2>4
<1>6. ASSUME NEW b \in P, NEW c \in P, A[c] = A[b] + 1 PROVE start[c] = start[b] + Len(e[b])
  <2>1. b # f
    BY <1>6
  <2> QED
    BY <1>1, <1>6, <2>1 DEF Pieces
<1>7. start[f] + Len(e[f]) = Len(acc) + 1
  BY <1>2, <1>3, <1>4
<1>8. Pieces(P, A, e, Append(acc, line), start)
  BY <1>3, <1>5, <1>6 DEF Pieces
<1>9. e \in [Buffers -> Seq(Line)] /\ Append(acc, line) \in Seq(Line)
  <2>1. Append(d[f], line) \in Seq(Line) /\ Append(acc, line) \in Seq(Line)
    BY <1>2, AppendProperties
  <2> QED
    BY <2>1
<1> QED
  BY <1>7, <1>8, <1>9 DEF IsPieces

\* An empty buffer behind the last one.
LEMMA PiecesMore ==
  ASSUME NEW P, NEW A, NEW d, NEW acc, NEW start, IsPieces(P, A, d, acc, start), NEW f, IsLast(P, A, f),
         start[f] + Len(d[f]) = Len(acc), NEW e, e \in Buffers \ P, d[e] = <<>>,
         NEW B, NEW k, CountedFrom(P, A, B, k), B[e] = B[f] + 1
  PROVE  IsPieces(P \cup {e}, B, d, acc, [start EXCEPT ![e] = Len(acc)])
<1>0. /\ P \subseteq Buffers /\ \A b \in P : A[b] \in Int /\ A[b] <= A[f] /\ (A[b] = A[f] => b = f)
      /\ d \in [Buffers -> Seq(Line)] /\ acc \in Seq(Line) /\ start \in [Buffers -> Nat]
      /\ Pieces(P, A, d, acc, start) /\ f \in P /\ k \in Int /\ \A b \in P : B[b] = A[b] - k
  BY DEF IsPieces, IsLast, CountedFrom
<1> USE <1>0
<1>1. Len(acc) \in Nat /\ Len(d[e]) = 0 /\ \A b \in P : Len(d[b]) \in Nat /\ start[b] \in Nat
  OBVIOUS
<1>2. PICK st : st = [start EXCEPT ![e] = Len(acc)]
  OBVIOUS
<1>3. st \in [Buffers -> Nat] /\ st[e] = Len(acc) /\ \A b \in P : st[b] = start[b]
  BY <1>1, <1>2
<1>4. ASSUME NEW b \in P \cup {e}
      PROVE  st[b] + Len(d[b]) <= Len(acc) /\ d[b] = SubSeq(acc, st[b] + 1, st[b] + Len(d[b]))
  <2>1. CASE b \in P
    BY <1>3, <2>1 DEF Pieces
  <2>2. CASE b = e
    <3>1. SubSeq(acc, Len(acc) + 1, Len(acc) + 0) = <<>>
      BY <1>1
    <3> QED
      BY <1>1, <1>3, <2>2, <3>1
  <2> QED
    BY <2>1, <2>2
<1>5. ASSUME NEW b \in P \cup {e}, NEW c \in P \cup {e}, B[c] = B[b] + 1 PROVE st[c] = st[b] + Len(d[b])
  <2>1. B[e] \in Int /\ \A x \in P : B[x] \in Int /\ B[x] <= B[f] /\ (B[x] = B[f] => x = f)
    <3>1. ASSUME NEW x \in P PROVE B[x] \in Int /\ B[x] <= B[f] /\ (B[x] = B[f] => x = f)
      <4>1. A[x] \in Int /\ A[f] \in Int /\ A[x] <= A[f] /\ (A[x] = A[f] => x = f)
        OBVIOUS
      <4>2. B[x] = A[x] - k /\ B[f] = A[f] - k
        OBVIOUS
      <4> QED
        BY <4>1, <4>2
    <3> QED
      BY <3>1
  <2>2. CASE b \in P /\ c \in P
    <3>1. A[b] \in Int /\ A[c] \in Int /\ B[b] = A[b] - k /\ B[c] = A[c] - k
      BY <2>2
    <3>2. \A x, y, z \in Int : x - z = (y - z) + 1 => x = y + 1
      OBVIOUS
    <3>3. A[c] - k = (A[b] - k) + 1
      BY <1>5, <3>1, Zenon
    <3>4. A[c] = A[b] + 1
      BY <3>1, <3>2, <3>3, Zenon
    <3> QED
      BY <1>3, <2>2, <3>4 DEF Pieces
  <2>3. CASE c = e
    <3>1. b = f
      BY <1>5, <2>1, <2>3
    <3> QED
      BY <1>3, <2>3, <3>1
  <2>4. CASE b = e /\ c \in P
    BY <1>5, <2>1, <2>4
  <2> QED
    BY <2>2, <2>3, <2>4
<1>6. Pieces(P \cup {e}, B, d, acc, st)
  BY <1>4, <1>5 DEF Pieces
<1>7. \A b \in P \cup {e} : B[b] \in Int
  <2>1. ASSUME NEW b \in P PROVE B[b] \in Int
    <3>1. A[b] \in Int /\ B[b] = A[b] - k
      OBVIOUS
    <3> QED
      BY <3>1
  <2>2. B[e] \in Int
    BY <2>1
  <2> QED
    BY <2>1, <2>2
<1>8. IsPieces(P \cup {e}, B, d, acc, st)
  BY <1>3, <1>6, <1>7 DEF IsPieces
<1> QED
  BY <1>2, <1>8

\* An empty buffer before the first one.
LEMMA PiecesBefore ==
  ASSUME NEW P, NEW A, NEW d, NEW acc, NEW start, IsPieces(P, A, d, acc, start), NEW u, IsFirst(P, A, u),
         NEW e, e \in Buffers \ P, d[e] = <<>>, A[u] = A[e] + 1, A[e] \in Int
  PROVE  IsPieces(P \cup {e}, A, d, acc, [start EXCEPT ![e] = start[u]])
<1>0. /\ P \subseteq Buffers /\ \A b \in P : A[b] \in Int /\ A[u] <= A[b] /\ (A[b] = A[u] => b = u)
      /\ d \in [Buffers -> Seq(Line)] /\ acc \in Seq(Line) /\ start \in [Buffers -> Nat]
      /\ Pieces(P, A, d, acc, start) /\ u \in P
  BY DEF IsPieces, IsFirst
<1> USE <1>0
<1>1. Len(acc) \in Nat /\ Len(d[e]) = 0 /\ \A b \in P : Len(d[b]) \in Nat /\ start[b] \in Nat
  OBVIOUS
<1>2. PICK st : st = [start EXCEPT ![e] = start[u]]
  OBVIOUS
<1>3. st \in [Buffers -> Nat] /\ st[e] = start[u] /\ \A b \in P : st[b] = start[b]
  BY <1>1, <1>2
<1>4. ASSUME NEW b \in P \cup {e}
      PROVE  st[b] + Len(d[b]) <= Len(acc) /\ d[b] = SubSeq(acc, st[b] + 1, st[b] + Len(d[b]))
  <2>1. CASE b \in P
    BY <1>3, <2>1 DEF Pieces
  <2>2. CASE b = e
    <3>1. start[u] + Len(d[u]) <= Len(acc)
      BY DEF Pieces
    <3>2. start[u] <= Len(acc) /\ start[u] + 0 = start[u]
      BY <1>1, <3>1
    <3>3. SubSeq(acc, start[u] + 1, start[u] + 0) = <<>>
      BY <1>1
    <3> QED
      BY <1>1, <1>3, <2>2, <3>2, <3>3
  <2> QED
    BY <2>1, <2>2
<1>5. ASSUME NEW b \in P \cup {e}, NEW c \in P \cup {e}, A[c] = A[b] + 1 PROVE st[c] = st[b] + Len(d[b])
  <2>1. CASE b \in P /\ c \in P
    BY <1>3, <1>5, <2>1 DEF Pieces
  <2>2. CASE b = e
    <3>1. c = u
      BY <1>5, <2>2
    <3> QED
      BY <1>1, <1>3, <2>2, <3>1
  <2>3. CASE c = e /\ b \in P
    BY <1>5, <2>3
  <2> QED
    BY <2>1, <2>2, <2>3
<1>6. Pieces(P \cup {e}, A, d, acc, st)
  BY <1>4, <1>5 DEF Pieces
<1>7. IsPieces(P \cup {e}, A, d, acc, st)
  BY <1>3, <1>6 DEF IsPieces
<1> QED
  BY <1>2, <1>7

-----------------------------------------------------------------------------
(* How far the backend and the front end are.                              *)

\* Aheads, of a ring and one of its buffers.
AheadsIn(r, m) == [b \in Range(r) |-> StepsIn(r, m, b)]

LEMMA AheadsAre ==
  Aheads = AheadsIn(m_buffers, m_next_to_flush) /\ Aheads' = AheadsIn(m_buffers', m_next_to_flush')
BY RingOperators DEF Aheads, AheadsIn, RingBuffers

\* What A says of the ring: a buffer is in each place, and the next one is
\* further ahead.
RingView(r, m, A) ==
  /\ DOMAIN A = Range(r) /\ A[m] = 0
  /\ \A x \in Range(r) : A[x] \in 0..(Len(r) - 1)
  /\ \A x, y \in Range(r) : A[x] = A[y] => x = y
  /\ \A x \in Range(r) :
       NextIn(r, x) \in Range(r) /\ A[NextIn(r, x)] = IF A[x] = Len(r) - 1 THEN 0 ELSE A[x] + 1
  /\ \A x, y \in Range(r) :
       StepsIn(r, x, y) = IF A[x] <= A[y] THEN A[y] - A[x] ELSE A[y] + Len(r) - A[x]

LEMMA AheadsInRing ==
  ASSUME NEW S, NEW r, IsRing(r, S), NEW m \in Range(r), NEW A, A = AheadsIn(r, m)
  PROVE  RingView(r, m, A)
<1>1. DOMAIN A = Range(r) /\ \A x \in Range(r) : A[x] = StepsIn(r, m, x)
  BY DEF AheadsIn
<1>2. /\ \A x \in Range(r) : StepsIn(r, m, x) \in 0..(Len(r) - 1)
      /\ StepsIn(r, m, m) = 0
      /\ \A x, y \in Range(r) : StepsIn(r, m, x) = StepsIn(r, m, y) => x = y
      /\ \A x \in Range(r) :
           /\ NextIn(r, x) \in Range(r)
           /\ StepsIn(r, m, NextIn(r, x)) =
                IF StepsIn(r, m, x) = Len(r) - 1 THEN 0 ELSE StepsIn(r, m, x) + 1
      /\ \A x, y \in Range(r) :
           StepsIn(r, x, y) = IF StepsIn(r, m, x) <= StepsIn(r, m, y)
                                THEN StepsIn(r, m, y) - StepsIn(r, m, x)
                                ELSE StepsIn(r, m, y) + Len(r) - StepsIn(r, m, x)
  BY RingFrom
<1>3. A[m] = 0 /\ \A x \in Range(r) : A[x] \in 0..(Len(r) - 1)
  BY <1>1, <1>2
<1>4. \A x, y \in Range(r) : A[x] = A[y] => x = y
  BY <1>1, <1>2
<1>5. ASSUME NEW x \in Range(r)
      PROVE  NextIn(r, x) \in Range(r) /\ A[NextIn(r, x)] = IF A[x] = Len(r) - 1 THEN 0 ELSE A[x] + 1
  <2>1. NextIn(r, x) \in Range(r)
    BY <1>2
  <2>2. A[NextIn(r, x)] = StepsIn(r, m, NextIn(r, x)) /\ A[x] = StepsIn(r, m, x)
    BY <1>1, <2>1
  <2>3. StepsIn(r, m, NextIn(r, x)) = IF StepsIn(r, m, x) = Len(r) - 1 THEN 0 ELSE StepsIn(r, m, x) + 1
    BY <1>2
  <2> QED
    BY <2>1, <2>2, <2>3
<1>6. ASSUME NEW x \in Range(r), NEW y \in Range(r)
      PROVE  StepsIn(r, x, y) = IF A[x] <= A[y] THEN A[y] - A[x] ELSE A[y] + Len(r) - A[x]
  <2>1. A[x] = StepsIn(r, m, x) /\ A[y] = StepsIn(r, m, y)
    BY <1>1
  <2>2. StepsIn(r, x, y) = IF StepsIn(r, m, x) <= StepsIn(r, m, y)
                             THEN StepsIn(r, m, y) - StepsIn(r, m, x)
                             ELSE StepsIn(r, m, y) + Len(r) - StepsIn(r, m, x)
    BY <1>2
  <2> QED
    BY <2>1, <2>2
<1> QED
  BY <1>1, <1>3, <1>4, <1>5, <1>6 DEF RingView

\* The same of the ring as it is, and where the buffers are that the two ends
\* work on.
RingSound ==
  /\ Len(m_buffers) \in Nat /\ Len(m_buffers) > 1 /\ RingBuffers \subseteq Buffers
  /\ DOMAIN Aheads = RingBuffers /\ m_next_to_flush \in RingBuffers /\ Aheads[m_next_to_flush] = 0
  /\ \A x \in RingBuffers : Aheads[x] \in 0..(Len(m_buffers) - 1)
  /\ \A x, y \in RingBuffers : Aheads[x] = Aheads[y] => x = y
  /\ \A x \in RingBuffers :
       /\ After(x) \in RingBuffers
       /\ Aheads[After(x)] = IF Aheads[x] = Len(m_buffers) - 1 THEN 0 ELSE Aheads[x] + 1
  /\ \A x, y \in RingBuffers :
       Distance(x, y) = IF Aheads[x] <= Aheads[y]
                          THEN Aheads[y] - Aheads[x]
                          ELSE Aheads[y] + Len(m_buffers) - Aheads[x]

LEMMA RingIsSound == TypeOK /\ BackendInRing => RingSound
<1> SUFFICES ASSUME TypeOK, BackendInRing PROVE RingSound
  OBVIOUS
<1>1. /\ IsRing(m_buffers, Buffers) /\ Len(m_buffers) \in Nat /\ Len(m_buffers) > 1
      /\ RingBuffers \subseteq Buffers /\ m_next_to_flush \in RingBuffers
  BY ItIsARing DEF BackendInRing
<1>2. PICK A : A = Aheads
  OBVIOUS
<1>3. A = AheadsIn(m_buffers, m_next_to_flush)
  BY <1>2, AheadsAre
<1>4. /\ DOMAIN A = Range(m_buffers) /\ A[m_next_to_flush] = 0
      /\ \A x \in Range(m_buffers) : A[x] \in 0..(Len(m_buffers) - 1)
      /\ \A x, y \in Range(m_buffers) : A[x] = A[y] => x = y
      /\ \A x \in Range(m_buffers) :
           /\ NextIn(m_buffers, x) \in Range(m_buffers)
           /\ A[NextIn(m_buffers, x)] = IF A[x] = Len(m_buffers) - 1 THEN 0 ELSE A[x] + 1
      /\ \A x, y \in Range(m_buffers) :
           StepsIn(m_buffers, x, y) = IF A[x] <= A[y] THEN A[y] - A[x] ELSE A[y] + Len(m_buffers) - A[x]
  <2>1. m_next_to_flush \in Range(m_buffers)
    BY <1>1 DEF RingBuffers
  <2>2. RingView(m_buffers, m_next_to_flush, A)
    BY <1>1, <1>3, <2>1, AheadsInRing, Zenon
  <2> QED
    BY <2>2 DEF RingView
<1>5. RingBuffers = Range(m_buffers)
  BY DEF RingBuffers
<1> QED
  BY <1>1, <1>2, <1>4, <1>5, RingOperators, Zenon DEF RingSound

\* And in the next state.
LEMMA RingStaysSound == (TypeOK /\ BackendInRing)' => RingSound'
BY RingIsSound, PTL

\* The first buffer that is not written is not ahead of the front end, and comes
\* right after the one that is being emptied.
UnwrittenBehind ==
  /\ m_current_itr \in RingBuffers /\ Unwritten \in RingBuffers
  /\ Aheads[Unwritten] <= Aheads[m_current_itr]
  /\ Unwritten \in Pending /\ m_current_itr \in Pending /\ Pending \subseteq RingBuffers
  /\ \A b \in Pending : Aheads[Unwritten] <= Aheads[b] /\ Aheads[b] <= Aheads[m_current_itr]
  /\ \A b : BeingEmptied(b) => b \in RingBuffers /\ Aheads[Unwritten] = Aheads[b] + 1

LEMMA UnwrittenIsBehind ==
  ASSUME TypeOK, BackendInRing, CurrentInRing, BackendBehind, pc # "done"
  PROVE  UnwrittenBehind
<1>1. /\ Len(m_buffers) \in Nat /\ Len(m_buffers) > 1
      /\ DOMAIN Aheads = RingBuffers /\ m_next_to_flush \in RingBuffers /\ Aheads[m_next_to_flush] = 0
      /\ \A x \in RingBuffers : Aheads[x] \in 0..(Len(m_buffers) - 1)
      /\ \A x, y \in RingBuffers : Aheads[x] = Aheads[y] => x = y
      /\ \A x \in RingBuffers :
           /\ After(x) \in RingBuffers
           /\ Aheads[After(x)] = IF Aheads[x] = Len(m_buffers) - 1 THEN 0 ELSE Aheads[x] + 1
  BY RingIsSound DEF RingSound
<1>2. m_current_itr \in RingBuffers
  BY DEF CurrentInRing, RingBuffers
<1>3. /\ Unwritten \in RingBuffers /\ Aheads[Unwritten] <= Aheads[m_current_itr]
      /\ \A b : BeingEmptied(b) => b \in RingBuffers /\ Aheads[Unwritten] = Aheads[b] + 1
  <2>1. CASE pc = "flush"
    <3>1. Unwritten = next_to_flush /\ next_to_flush \in RingBuffers /\ cur \in RingBuffers
      BY <2>1 DEF Unwritten, BackendInRing
    <3>2. Aheads[next_to_flush] <= Aheads[cur] /\ Aheads[cur] <= Aheads[m_current_itr]
      BY <2>1 DEF BackendBehind
    <3>3. Aheads[next_to_flush] <= Aheads[m_current_itr]
      BY <1>1, <1>2, <3>1, <3>2
    <3> QED
      BY <2>1, <3>1, <3>3 DEF BeingEmptied
  <2>2. CASE pc = "relock"
    <3>1. Unwritten = next_to_flush /\ next_to_flush = cur /\ cur \in RingBuffers
      BY <2>2 DEF Unwritten, BackendInRing
    <3>2. Aheads[cur] <= Aheads[m_current_itr]
      BY <2>2 DEF BackendBehind
    <3> QED
      BY <2>2, <3>1, <3>2 DEF BeingEmptied
  <2>3. CASE pc = "reset"
    <3>1. Unwritten = After(next_to_flush) /\ next_to_flush \in RingBuffers /\ cur \in RingBuffers
      BY <2>3 DEF Unwritten, BackendInRing
    <3>2. Aheads[next_to_flush] < Aheads[cur] /\ Aheads[cur] <= Aheads[m_current_itr]
      BY <2>3 DEF BackendBehind
    <3>3. Unwritten \in RingBuffers /\ Aheads[Unwritten] = Aheads[next_to_flush] + 1
      BY <1>1, <3>1, <3>2
    <3>4. Aheads[Unwritten] <= Aheads[m_current_itr]
      BY <1>1, <1>2, <3>1, <3>2, <3>3
    <3> QED
      BY <2>3, <3>1, <3>3, <3>4 DEF BeingEmptied
  <2>4. CASE pc = "reset_last"
    <3>1. Unwritten = After(m_next_to_flush) /\ next_to_flush = m_next_to_flush
      BY <2>4, <1>1 DEF Unwritten, BackendInRing
    <3>2. m_current_itr # m_next_to_flush
      BY <2>4 DEF BackendBehind
    <3>3. Unwritten \in RingBuffers /\ Aheads[Unwritten] = 1 /\ Aheads[m_next_to_flush] = 0
      BY <1>1, <3>1
    <3>4. Aheads[m_current_itr] # 0
      BY <1>1, <1>2, <3>2
    <3>5. 1 <= Aheads[m_current_itr]
      BY <1>1, <1>2, <3>4
    <3> QED
      BY <1>1, <2>4, <3>1, <3>3, <3>5 DEF BeingEmptied
  <2>5. CASE pc \notin {"flush", "relock", "reset", "reset_last"}
    <3>1. Unwritten = m_next_to_flush
      BY <2>5 DEF Unwritten
    <3> QED
      BY <1>1, <1>2, <2>5, <3>1 DEF BeingEmptied
  <2> QED
    BY <2>1, <2>2, <2>3, <2>4, <2>5
<1>4. Unwritten \in Pending /\ m_current_itr \in Pending
  <2>1. Aheads[Unwritten] \in Nat /\ Aheads[m_current_itr] \in Nat
    BY <1>1, <1>2, <1>3
  <2>2. Aheads[Unwritten] <= Aheads[Unwritten] /\ Aheads[m_current_itr] <= Aheads[m_current_itr]
    BY <2>1
  <2> QED
    BY <1>1, <1>2, <1>3, <2>2 DEF Pending, Stretch
<1>5. Pending \subseteq RingBuffers /\ \A b \in Pending : Aheads[Unwritten] <= Aheads[b] /\ Aheads[b] <= Aheads[m_current_itr]
  BY <1>1 DEF Pending, Stretch
<1> QED
  BY <1>2, <1>3, <1>4, <1>5 DEF UnwrittenBehind

-----------------------------------------------------------------------------
(* Every step keeps the order as long as no line is dropped.               *)

\* Of what is known of the ring the two ends do not move.
LEMMA SameRing ==
  ASSUME UNCHANGED <<m_buffers, m_next_to_flush>>
  PROVE  RingBuffers' = RingBuffers /\ Aheads' = Aheads /\ \A b : After(b)' = After(b)
BY RingOperators, AheadsAre DEF RingBuffers

LEMMA OrderSame ==
  ASSUME InOrder, pc # "done", pc \notin {"reset", "reset_last"}, pc' # "advance", BackendBehind',
         UNCHANGED <<m_buffers, data, m_current_itr, m_next_to_flush, accepted>>,
         Written' = Written, Unwritten' = Unwritten
  PROVE  InOrder'
<1>1. RingBuffers' = RingBuffers /\ Aheads' = Aheads
  BY SameRing
<1>2. Pending' = Pending
  BY <1>1 DEF Pending, Stretch
<1>3. CurrentInRing' /\ Written' = SubSeq(accepted', 1, Len(Written')) /\ Len(Written') <= Len(accepted')
  BY DEF InOrder, CurrentInRing
<1>4. NoneLeft'
  BY <1>2 DEF NoneLeft, InOrder, BeingEmptied
<1>5. PICK start \in [Buffers -> Nat] : Consecutive(start)
  BY DEF InOrder
<1>6. Consecutive(start)'
  BY <1>1, <1>2, <1>5 DEF Consecutive
<1> QED
  BY <1>3, <1>4, <1>6 DEF InOrder

\* A buffer is written.
LEMMA OrderWritten ==
  ASSUME TypeOK, BackendInRing, InOrder, pc \in {"flush", "flush_last"}, Unwritten = next_to_flush,
         next_to_flush # m_current_itr, BackendBehind', pc' \in {"reset", "reset_last"},
         Unwritten' = After(next_to_flush), Written' = Written \o data[next_to_flush],
         UNCHANGED <<m_buffers, data, m_current_itr, m_next_to_flush, next_to_flush, accepted>>
  PROVE  InOrder'
<1>1. RingBuffers' = RingBuffers /\ Aheads' = Aheads
  BY SameRing
<1>2. CurrentInRing /\ BackendBehind /\ NoneLeft
  BY DEF InOrder
<1>3. RingSound /\ UnwrittenBehind
  BY <1>2, RingIsSound, UnwrittenIsBehind
<1>4. PICK u : u = next_to_flush
  OBVIOUS
<1>5. PICK start \in [Buffers -> Nat] : Consecutive(start)
  BY DEF InOrder
<1>6. /\ u \in Pending /\ u \in RingBuffers /\ u \in Buffers /\ m_current_itr \in RingBuffers /\ u # m_current_itr
      /\ Aheads[u] <= Aheads[m_current_itr] /\ Pending \subseteq RingBuffers
  BY <1>3, <1>4 DEF UnwrittenBehind, RingSound
<1>7. /\ Len(m_buffers) \in Nat /\ DOMAIN Aheads = RingBuffers
      /\ \A x \in RingBuffers : Aheads[x] \in 0..(Len(m_buffers) - 1)
      /\ \A x, y \in RingBuffers : Aheads[x] = Aheads[y] => x = y
      /\ Aheads[After(u)] = IF Aheads[u] = Len(m_buffers) - 1 THEN 0 ELSE Aheads[u] + 1
      /\ After(u) \in RingBuffers
  BY <1>3, <1>6 DEF RingSound
<1>8. PICK e : e = After(u)
  OBVIOUS
<1>9. Aheads[u] < Aheads[m_current_itr]
  BY <1>6, <1>7
<1>10. Aheads[e] = Aheads[u] + 1 /\ Aheads[e] <= Aheads[m_current_itr] /\ e \in RingBuffers
  <2>1. Aheads[u] \in 0..(Len(m_buffers) - 1) /\ Aheads[m_current_itr] \in 0..(Len(m_buffers) - 1)
    BY <1>6, <1>7
  <2>2. Aheads[u] # Len(m_buffers) - 1
    BY <1>7, <1>9, <2>1
  <2> QED
    BY <1>7, <1>8, <1>9, <2>1, <2>2
<1>11. Pending' = {b \in RingBuffers : Aheads[e] <= Aheads[b] /\ Aheads[b] <= Aheads[m_current_itr]}
  BY <1>1, <1>4, <1>7, <1>8 DEF Pending, Stretch
<1>12. Pending = {b \in RingBuffers : Aheads[u] <= Aheads[b] /\ Aheads[b] <= Aheads[m_current_itr]}
  BY <1>4, <1>7 DEF Pending, Stretch
<1>13. Pending' \subseteq Pending /\ \A b \in Pending : b # u => b \in Pending'
  <2>1. ASSUME NEW b \in RingBuffers PROVE (Aheads[e] <= Aheads[b] => Aheads[u] <= Aheads[b])
                                           /\ (Aheads[u] <= Aheads[b] /\ b # u => Aheads[e] <= Aheads[b])
    <3>1. Aheads[b] \in Nat /\ Aheads[u] \in Nat /\ (Aheads[b] = Aheads[u] => b = u)
      BY <1>6, <1>7
    <3> QED
      BY <1>10, <3>1
  <2> QED
    BY <1>11, <1>12, <2>1
<1>14. e \in Pending /\ e \in Pending'
  BY <1>6, <1>7, <1>10, <1>11, <1>12
<1>15. /\ start[u] = Len(Written) /\ start[u] + Len(data[u]) <= Len(accepted)
       /\ data[u] = SubSeq(accepted, start[u] + 1, start[u] + Len(data[u]))
       /\ start[e] = start[u] + Len(data[u])
       /\ start[m_current_itr] + Len(data[m_current_itr]) = Len(accepted)
  BY <1>4, <1>5, <1>6, <1>10, <1>14 DEF Consecutive, Pieces
<1>16. /\ Written \in Seq(Line) /\ accepted \in Seq(Line) /\ data[u] \in Seq(Line) /\ Len(accepted) \in Nat
       /\ Len(Written) \in Nat /\ Len(data[u]) \in Nat
  BY <1>6, WrittenIsSeq DEF TypeOK
<1>17. PICK w \in Nat, k \in Nat : w = Len(Written) /\ k = Len(data[u])
  BY <1>16
<1>18. Written = SubSeq(accepted, 1, w) /\ data[u] = SubSeq(accepted, w + 1, w + k) /\ w + k <= Len(accepted)
  BY <1>15, <1>17 DEF InOrder
<1>19. Len(Written') = w + k
  BY <1>4, <1>16, <1>17, ConcatProperties
<1>20. Written' = SubSeq(accepted, 1, w + k)
  <2>1. Len(accepted) \in Nat /\ w + k <= Len(accepted)
    BY <1>16, <1>18
  <2>2. 1 \in 1..(Len(accepted) + 1) /\ w \in (1 - 1)..Len(accepted) /\ w + k \in w..Len(accepted)
    BY <2>1
  <2>3. SubSeq(accepted, 1, w) \o SubSeq(accepted, w + 1, w + k) = SubSeq(accepted, 1, w + k)
    BY <1>16, <2>2, ConcatAdjacentSubSeq
  <2> QED
    BY <1>4, <1>18, <2>3
<1>21. CurrentInRing' /\ Written' = SubSeq(accepted', 1, Len(Written')) /\ Len(Written') <= Len(accepted')
  BY <1>2, <1>18, <1>19, <1>20 DEF CurrentInRing
<1>22. NoneLeft'
  <2>1. ASSUME NEW b \in Buffers, b \notin Pending', b # u PROVE data[b] = <<>>
    <3>1. b \notin Pending
      BY <1>13, <2>1
    <3> QED
      BY <1>2, <2>1, <3>1 DEF NoneLeft, BeingEmptied
  <2>2. \A b : BeingEmptied(b)' <=> b = u
    BY <1>4 DEF BeingEmptied
  <2>3. data' = data /\ pc' # "advance"
    OBVIOUS
  <2> QED
    BY <2>1, <2>2, <2>3, Zenon DEF NoneLeft
<1>23. Pieces(Pending', Aheads, data, accepted, start)
  <2>1. \A b \in Pending' : Aheads[b] \in Int /\ Aheads[b] = Aheads[b] - 0
    BY <1>6, <1>7, <1>13
  <2> QED
    BY <1>5, <1>13, <2>1, PiecesFewer DEF Consecutive
<1>24. Consecutive(start)'
  BY <1>1, <1>4, <1>8, <1>15, <1>17, <1>19, <1>23 DEF Consecutive
<1> QED
  BY <1>21, <1>22, <1>24 DEF InOrder

\* The buffer that was written is emptied.
LEMMA OrderReset ==
  ASSUME TypeOK, BackendInRing, InOrder, Reset, BackendBehind'
  PROVE  InOrder'
<1>1. /\ pc = "reset" /\ pc' = "flush" /\ data' = Emptied(next_to_flush) /\ next_to_flush' = After(next_to_flush)
      /\ UNCHANGED <<m_buffers, m_current_itr, m_next_to_flush, cur, m_file, closed, accepted>>
  BY DEF Reset, file_vars, history
<1>2. RingBuffers' = RingBuffers /\ Aheads' = Aheads
  BY <1>1, SameRing
<1>3. CurrentInRing /\ BackendBehind /\ NoneLeft
  BY <1>1 DEF InOrder
<1>4. RingSound /\ UnwrittenBehind
  BY <1>1, <1>3, RingIsSound, UnwrittenIsBehind
<1>5. PICK u : u = next_to_flush
  OBVIOUS
<1>6. u \in Buffers /\ u \notin Pending
  <2>1. BeingEmptied(u)
    BY <1>1, <1>5 DEF BeingEmptied
  <2>2. u \in RingBuffers /\ Aheads[Unwritten] = Aheads[u] + 1
    BY <1>4, <2>1 DEF UnwrittenBehind
  <2>3. u \in Buffers /\ Aheads[u] \in Nat
    BY <1>4, <2>2 DEF RingSound
  <2>4. ~(Aheads[Unwritten] <= Aheads[u])
    BY <2>2, <2>3
  <2> QED
    BY <1>4, <2>3, <2>4 DEF UnwrittenBehind
<1>7. Unwritten' = Unwritten /\ Written' = Written
  BY <1>1 DEF Unwritten, Written
<1>8. Pending' = Pending
  BY <1>1, <1>2, <1>7 DEF Pending, Stretch
<1>9. data \in [Buffers -> Seq(Line)]
  BY DEF TypeOK
<1>10. PICK d : d = data' /\ d[u] = <<>> /\ \A b \in Buffers : b # u => d[b] = data[b]
  <2>1. PICK d : d = [data EXCEPT ![u] = <<>>]
    OBVIOUS
  <2>2. d[u] = <<>> /\ \A b \in Buffers : b # u => d[b] = data[b]
    BY <1>6, <1>9, <2>1
  <2>3. d = data'
    BY <1>1, <1>5, <2>1 DEF Emptied
  <2> QED
    BY <2>2, <2>3
<1>11. PICK start \in [Buffers -> Nat] : Consecutive(start)
  BY <1>1 DEF InOrder
<1>12. m_current_itr \in Pending /\ Pending \subseteq RingBuffers /\ RingBuffers \subseteq Buffers
       /\ \A b \in RingBuffers : Aheads[b] \in Int
  <2>1. RingBuffers \subseteq Buffers /\ \A b \in RingBuffers : Aheads[b] \in 0..(Len(m_buffers) - 1)
    BY <1>4 DEF RingSound
  <2>2. \A b \in RingBuffers : Aheads[b] \in Int
    BY <2>1
  <2> QED
    BY <1>4, <2>1, <2>2 DEF UnwrittenBehind
<1>13. CurrentInRing' /\ Written' = SubSeq(accepted', 1, Len(Written')) /\ Len(Written') <= Len(accepted')
  BY <1>1, <1>7 DEF CurrentInRing, InOrder
<1>14. NoneLeft'
  <2>1. ASSUME NEW b \in Buffers, b \notin Pending PROVE d[b] = <<>>
    <3>1. CASE b = u
      BY <1>10, <3>1
    <3>2. CASE b # u
      <4>1. ~BeingEmptied(b)
        BY <1>5, <3>2 DEF BeingEmptied
      <4> QED
        BY <1>3, <1>10, <2>1, <3>2, <4>1 DEF NoneLeft
    <3> QED
      BY <3>1, <3>2
  <2>2. pc' # "advance"
    BY <1>1
  <2> QED
    BY <1>8, <1>10, <2>1, <2>2, Zenon DEF NoneLeft
<1>15. Pieces(Pending, Aheads, d, accepted, start)
  <2>1. \A b \in Pending : Aheads[b] \in Int /\ Aheads[b] = Aheads[b] - 0 /\ d[b] = data[b]
    BY <1>6, <1>10, <1>12
  <2>2. Pieces(Pending, Aheads, data, accepted, start)
    BY <1>11 DEF Consecutive
  <2> QED
    BY <2>1, <2>2, PiecesFewer
<1>16. d[m_current_itr] = data[m_current_itr]
  BY <1>6, <1>10, <1>12
<1>17. Consecutive(start)'
  BY <1>1, <1>2, <1>7, <1>8, <1>10, <1>11, <1>15, <1>16 DEF Consecutive
<1> QED
  BY <1>13, <1>14, <1>17 DEF InOrder

\* The last one that was written is emptied, and is the next one to write until
\* the backend goes on.
LEMMA OrderResetLast ==
  ASSUME TypeOK, BackendInRing, InOrder, ResetLast, BackendBehind'
  PROVE  InOrder'
<1>1. /\ pc = "reset_last" /\ pc' = "advance" /\ data' = Emptied(next_to_flush)
      /\ UNCHANGED <<m_buffers, m_current_itr, m_next_to_flush, next_to_flush, cur, m_file, closed, accepted>>
  BY DEF ResetLast, file_vars, history
<1>2. RingBuffers' = RingBuffers /\ Aheads' = Aheads
  BY <1>1, SameRing
<1>3. CurrentInRing /\ BackendBehind /\ NoneLeft
  BY <1>1 DEF InOrder
<1>4. RingSound /\ UnwrittenBehind
  BY <1>1, <1>3, RingIsSound, UnwrittenIsBehind
<1>5. PICK m : m = m_next_to_flush
  OBVIOUS
<1>6. next_to_flush = m
  BY <1>1, <1>5 DEF BackendInRing
<1>7. m \in RingBuffers /\ m \in Buffers /\ Aheads[m] = 0 /\ Aheads[Unwritten] = 1
  <2>1. BeingEmptied(m)
    BY <1>1, <1>6 DEF BeingEmptied
  <2> QED
    BY <1>4, <1>5, <2>1 DEF UnwrittenBehind, RingSound
<1>8. m \notin Pending
  BY <1>4, <1>7 DEF UnwrittenBehind
<1>9. Unwritten' = m /\ Written' = Written
  BY <1>1, <1>5 DEF Unwritten, Written
<1>10. /\ DOMAIN Aheads = RingBuffers /\ m_current_itr \in Pending /\ Unwritten \in Pending
       /\ Pending \subseteq RingBuffers /\ RingBuffers \subseteq Buffers
       /\ \A b \in RingBuffers : Aheads[b] \in Nat /\ (Aheads[b] = 0 => b = m)
       /\ \A b \in Pending : Aheads[Unwritten] <= Aheads[b] /\ (Aheads[b] = Aheads[Unwritten] => b = Unwritten)
  <2>1. /\ m_current_itr \in Pending /\ Unwritten \in Pending /\ Pending \subseteq RingBuffers
        /\ \A b \in Pending : Aheads[Unwritten] <= Aheads[b]
    BY <1>4 DEF UnwrittenBehind
  <2>2. /\ DOMAIN Aheads = RingBuffers /\ RingBuffers \subseteq Buffers
        /\ \A b \in RingBuffers : Aheads[b] \in 0..(Len(m_buffers) - 1)
        /\ \A b, c \in RingBuffers : Aheads[b] = Aheads[c] => b = c
    BY <1>4 DEF RingSound
  <2>3. \A b \in RingBuffers : Aheads[b] \in Nat /\ (Aheads[b] = 0 => b = m)
    BY <1>7, <2>2
  <2>4. \A b \in Pending : Aheads[b] = Aheads[Unwritten] => b = Unwritten
    BY <2>1, <2>2
  <2> QED
    BY <2>1, <2>2, <2>3, <2>4
<1>11. Pending' = Pending \cup {m}
  <2>1. Pending' = {b \in RingBuffers : Aheads[m] <= Aheads[b] /\ Aheads[b] <= Aheads[m_current_itr]}
    BY <1>1, <1>2, <1>9, <1>10 DEF Pending, Stretch
  <2>2. Pending = {b \in RingBuffers : Aheads[Unwritten] <= Aheads[b] /\ Aheads[b] <= Aheads[m_current_itr]}
    BY <1>10 DEF Pending, Stretch
  <2>3. ASSUME NEW b \in RingBuffers
        PROVE  /\ Aheads[m] <= Aheads[b] /\ (b # m => Aheads[Unwritten] <= Aheads[b])
    BY <1>7, <1>10
  <2>4. Aheads[m] <= Aheads[m_current_itr]
    BY <1>7, <1>10
  <2> QED
    BY <1>7, <2>1, <2>2, <2>3, <2>4
<1>12. PICK d \in [Buffers -> Seq(Line)] : d = data' /\ d[m] = <<>> /\ \A b \in Buffers : b # m => d[b] = data[b]
  <2>1. data \in [Buffers -> Seq(Line)] /\ <<>> \in Seq(Line)
    BY DEF TypeOK
  <2>2. PICK d : d = [data EXCEPT ![m] = <<>>]
    OBVIOUS
  <2>3. d \in [Buffers -> Seq(Line)] /\ d[m] = <<>> /\ \A b \in Buffers : b # m => d[b] = data[b]
    BY <1>7, <2>1, <2>2
  <2>4. d = data'
    BY <1>1, <1>6, <2>2 DEF Emptied
  <2> QED
    BY <2>3, <2>4
<1>13. PICK start \in [Buffers -> Nat] : Consecutive(start)
  BY <1>1 DEF InOrder
<1>14. Pieces(Pending, Aheads, d, accepted, start)
  <2>1. \A b \in Pending : Aheads[b] \in Int /\ Aheads[b] = Aheads[b] - 0 /\ d[b] = data[b]
    BY <1>8, <1>10, <1>12
  <2>2. Pieces(Pending, Aheads, data, accepted, start)
    BY <1>13 DEF Consecutive
  <2> QED
    BY <2>1, <2>2, PiecesFewer
<1>15. PICK st : st = [start EXCEPT ![m] = start[Unwritten]] /\ IsPieces(Pending \cup {m}, Aheads, d, accepted, st)
  <2>1. IsPieces(Pending, Aheads, d, accepted, start)
    <3>1. accepted \in Seq(Line)
      BY DEF TypeOK
    <3>2. Pending \subseteq Buffers /\ \A b \in Pending : Aheads[b] \in Int
      BY <1>10
    <3> QED
      BY <1>12, <1>14, <3>1, <3>2 DEF IsPieces
  <2>2. m \in Buffers \ Pending /\ d[m] = <<>>
    BY <1>7, <1>8, <1>12
  <2>3. IsFirst(Pending, Aheads, Unwritten)
    BY <1>10 DEF IsFirst
  <2>4. Aheads[Unwritten] = Aheads[m] + 1 /\ Aheads[m] \in Int
    BY <1>7
  <2>5. IsPieces(Pending \cup {m}, Aheads, d, accepted, [start EXCEPT ![m] = start[Unwritten]])
    BY <2>1, <2>2, <2>3, <2>4, PiecesBefore
  <2> QED
    BY <2>5
<1>16. d[m_current_itr] = data[m_current_itr] /\ st[m_current_itr] = start[m_current_itr]
  BY <1>8, <1>10, <1>12, <1>15
<1>17. CurrentInRing' /\ Written' = SubSeq(accepted', 1, Len(Written')) /\ Len(Written') <= Len(accepted')
  BY <1>1, <1>9 DEF CurrentInRing, InOrder
<1>18. NoneLeft'
  <2>1. ASSUME NEW b \in Buffers, b \notin Pending, b # m PROVE d[b] = <<>>
    <3>1. ~BeingEmptied(b)
      BY <1>6, <2>1 DEF BeingEmptied
    <3> QED
      BY <1>3, <1>12, <2>1, <3>1 DEF NoneLeft
  <2>2. m_next_to_flush' = m
    BY <1>1, <1>5
  <2> QED
    BY <1>11, <1>12, <2>1, <2>2, Zenon DEF NoneLeft
<1>19. st[m] = Len(Written) /\ st \in [Buffers -> Nat] /\ Pieces(Pending \cup {m}, Aheads, d, accepted, st)
  BY <1>13, <1>15 DEF Consecutive, IsPieces
<1>20. Consecutive(st)'
  BY <1>1, <1>2, <1>9, <1>11, <1>12, <1>13, <1>16, <1>19 DEF Consecutive
<1> QED
  BY <1>17, <1>18, <1>19, <1>20 DEF InOrder

\* How far the buffers are ahead of another one.
LEMMA MovedAheads ==
  ASSUME RingSound, m_buffers' = m_buffers, m_next_to_flush' \in RingBuffers
  PROVE  /\ RingBuffers' = RingBuffers /\ DOMAIN Aheads' = RingBuffers
         /\ \A b \in RingBuffers :
              Aheads'[b] = IF Aheads[m_next_to_flush'] <= Aheads[b]
                             THEN Aheads[b] - Aheads[m_next_to_flush']
                             ELSE Aheads[b] + Len(m_buffers) - Aheads[m_next_to_flush']
<1>1. RingBuffers' = RingBuffers
  BY DEF RingBuffers
<1>2. PICK k \in RingBuffers : k = m_next_to_flush'
  OBVIOUS
<1>3. DOMAIN Aheads' = RingBuffers /\ \A b \in RingBuffers : Aheads'[b] = Distance(k, b)
  <2>1. Aheads' = [b \in Range(m_buffers) |-> StepsIn(m_buffers, k, b)]
    BY <1>2, AheadsAre DEF AheadsIn
  <2> QED
    BY <2>1, RingOperators DEF RingBuffers
<1>4. \A b \in RingBuffers : Distance(k, b) = IF Aheads[k] <= Aheads[b]
                                                THEN Aheads[b] - Aheads[k]
                                                ELSE Aheads[b] + Len(m_buffers) - Aheads[k]
  BY DEF RingSound
<1> QED
  BY <1>1, <1>2, <1>3, <1>4

\* The front end leaves the buffer that is written last.
LEMMA OrderRelock ==
  ASSUME TypeOK, BackendInRing, InOrder, Relock, TypeOK', BackendInRing'
  PROVE  InOrder'
<1>1. /\ pc = "relock" /\ pc' = "flush_last" /\ m_next_to_flush' = next_to_flush /\ m_current_itr' = LeaveCur
      /\ UNCHANGED <<m_buffers, data, next_to_flush, cur, m_file, closed, accepted>>
  BY DEF Relock, file_vars, history
<1>2. CurrentInRing /\ BackendBehind /\ NoneLeft
  BY <1>1 DEF InOrder
<1>3. RingSound /\ UnwrittenBehind
  BY <1>1, <1>2, RingIsSound, UnwrittenIsBehind
<1>4. RingSound'
  BY RingStaysSound
<1>5. PICK c : c = cur
  OBVIOUS
<1>6. next_to_flush = c /\ m_next_to_flush' = c /\ Unwritten = c /\ Unwritten' = c
  BY <1>1, <1>5 DEF BackendInRing, Unwritten
<1>7. PICK n \in Nat : n = Len(m_buffers)
  BY <1>3 DEF RingSound
<1>8. PICK A : A = Aheads
  OBVIOUS
<1>9. PICK f : f = m_current_itr
  OBVIOUS
<1>10. /\ n > 1 /\ c \in RingBuffers /\ f \in RingBuffers /\ RingBuffers \subseteq Buffers
       /\ \A x \in RingBuffers : A[x] \in 0..(n - 1)
       /\ \A x, y \in RingBuffers : A[x] = A[y] => x = y
       /\ After(c) \in RingBuffers /\ A[c] <= A[f]
  BY <1>3, <1>6, <1>7, <1>8, <1>9, Zenon DEF RingSound, UnwrittenBehind
<1>11. PICK B : B = Aheads'
  OBVIOUS
<1>12. /\ RingBuffers' = RingBuffers /\ DOMAIN B = RingBuffers
       /\ \A b \in RingBuffers : B[b] = IF A[c] <= A[b] THEN A[b] - A[c] ELSE A[b] + n - A[c]
  BY <1>1, <1>3, <1>6, <1>7, <1>8, <1>10, <1>11, MovedAheads
<1>13. PICK g : g = After(c)
  OBVIOUS
<1>14. B[c] = 0 /\ B[g] = 1 /\ g \in RingBuffers /\ g # c
  <2>1. A[c] \in 0..(n - 1)
    BY <1>10
  <2>2. B[c] = 0
    BY <1>10, <1>12, <2>1
  <2>3. \A x \in RingBuffers' : Aheads'[After(x)'] = IF Aheads'[x] = Len(m_buffers') - 1 THEN 0 ELSE Aheads'[x] + 1
    BY <1>4 DEF RingSound
  <2>4. After(c)' = After(c)
    BY <1>1, RingOperators
  <2>5. B[g] = IF B[c] = n - 1 THEN 0 ELSE B[c] + 1
    BY <1>1, <1>7, <1>10, <1>11, <1>12, <1>13, <2>3, <2>4
  <2>6. B[g] = 1
    BY <1>10, <2>2, <2>5
  <2> QED
    BY <1>10, <1>13, <2>2, <2>6
<1>15. Pending = {b \in RingBuffers : A[c] <= A[b] /\ A[b] <= A[f]}
  BY <1>3, <1>6, <1>8, <1>9 DEF Pending, Stretch, RingSound
<1>16. Pending' = {b \in RingBuffers : B[c] <= B[b] /\ B[b] <= B[m_current_itr']}
  BY <1>6, <1>11, <1>12 DEF Pending, Stretch
<1>17. Written' = Written /\ CurrentInRing'
  <2>1. m_current_itr' \in RingBuffers
    BY <1>5, <1>9, <1>10, <1>1 DEF LeaveCur
  <2> QED
    BY <1>1, <2>1 DEF Written, CurrentInRing, RingBuffers
<1>18. PICK start \in [Buffers -> Nat] : Consecutive(start)
  BY <1>1 DEF InOrder
<1>19. /\ IsPieces(Pending, A, data, accepted, start) /\ start[c] = Len(Written)
       /\ start[f] + Len(data[f]) = Len(accepted)
  <2>1. Pieces(Pending, A, data, accepted, start)
    BY <1>8, <1>18 DEF Consecutive
  <2>2. Pending \subseteq Buffers /\ \A b \in Pending : A[b] \in Int
    BY <1>10, <1>15
  <2> QED
    BY <1>6, <1>9, <1>18, <2>1, <2>2 DEF IsPieces, TypeOK, Consecutive
<1>20. CASE f # c
  <2>1. m_current_itr' = f
    BY <1>1, <1>5, <1>9, <1>20 DEF LeaveCur
  <2>2. ASSUME NEW b \in RingBuffers PROVE B[c] <= B[b] /\ B[b] <= B[f] <=> A[c] <= A[b] /\ A[b] <= A[f]
    <3>1. A[b] \in 0..(n - 1) /\ A[c] \in 0..(n - 1) /\ A[f] \in 0..(n - 1)
      BY <1>10
    <3>2. B[f] = A[f] - A[c] /\ B[b] = IF A[c] <= A[b] THEN A[b] - A[c] ELSE A[b] + n - A[c]
      BY <1>10, <1>12
    <3> QED
      BY <1>10, <1>14, <3>1, <3>2
  <2>3. Pending' = Pending
    BY <1>15, <1>16, <2>1, <2>2
  <2>4. Pieces(Pending, B, data, accepted, start)
    <3>1. A[c] \in Int /\ \A b \in Pending : A[b] \in Int /\ B[b] = A[b] - A[c] /\ data[b] = data[b]
      BY <1>10, <1>12, <1>15
    <3>2. Pieces(Pending, A, data, accepted, start)
      BY <1>19 DEF IsPieces
    <3> QED
      BY <3>1, <3>2, PiecesFewer
  <2>5. Consecutive(start)'
    BY <1>1, <1>6, <1>11, <1>17, <1>19, <2>1, <2>3, <2>4 DEF Consecutive
  <2>6. NoneLeft'
    BY <1>1, <1>2, <2>3 DEF NoneLeft, BeingEmptied
  <2>7. BackendBehind'
    BY <1>1, <1>6, <1>20, <2>1 DEF BackendBehind
  <2> QED
    BY <1>1, <1>17, <2>5, <2>6, <2>7 DEF InOrder
<1>21. CASE f = c
  <2>1. m_current_itr' = g
    BY <1>1, <1>5, <1>9, <1>13, <1>21 DEF LeaveCur
  <2>2. Pending = {c}
    <3>1. \A b \in RingBuffers : A[c] <= A[b] /\ A[b] <= A[c] <=> b = c
      BY <1>10
    <3> QED
      BY <1>10, <1>15, <1>21, <3>1
  <2>3. Pending' = Pending \cup {g}
    <3>1. ASSUME NEW b \in RingBuffers PROVE B[c] <= B[b] /\ B[b] <= B[g] <=> b = c \/ b = g
      <4>1. \A x, y \in RingBuffers : B[x] = B[y] => x = y
        BY <1>4, <1>11, <1>12 DEF RingSound
      <4>2. B[b] \in 0..(n - 1)
        BY <1>1, <1>4, <1>7, <1>11, <1>12 DEF RingSound
      <4>3. B[c] <= B[b] /\ B[b] <= B[g] <=> B[b] = 0 \/ B[b] = 1
        BY <1>14, <4>2
      <4> QED
        BY <1>10, <1>14, <4>1, <4>3
    <3> QED
      BY <1>10, <1>14, <1>16, <2>1, <2>2, <3>1
  <2>4. g \in Buffers \ Pending /\ data[g] = <<>>
    BY <1>1, <1>2, <1>10, <1>14, <2>2 DEF NoneLeft, BeingEmptied
  <2>5. PICK st : st = [start EXCEPT ![g] = Len(accepted)] /\ IsPieces(Pending \cup {g}, B, data, accepted, st)
    <3>1. IsLast(Pending, A, c)
      BY <1>10, <2>2 DEF IsLast
    <3>2. CountedFrom(Pending, A, B, A[c])
      BY <1>10, <1>12, <2>2 DEF CountedFrom
    <3>3. B[g] = B[c] + 1
      BY <1>14
    <3>4. start[c] + Len(data[c]) = Len(accepted)
      BY <1>19, <1>21
    <3>5. IsPieces(Pending \cup {g}, B, data, accepted, [start EXCEPT ![g] = Len(accepted)])
      BY <1>19, <2>4, <3>1, <3>2, <3>3, <3>4, PiecesMore
    <3> QED
      BY <3>5
  <2>6. /\ st \in [Buffers -> Nat] /\ Pieces(Pending \cup {g}, B, data, accepted, st) /\ st[g] = Len(accepted)
        /\ st[c] = start[c] /\ Len(data[g]) = 0 /\ Len(accepted) \in Nat
    <3>1. accepted \in Seq(Line)
      BY DEF TypeOK
    <3> QED
      BY <1>10, <1>14, <2>4, <2>5, <3>1 DEF IsPieces
  <2>7. st[g] + Len(data[g]) = Len(accepted)
    BY <2>6
  <2>8. Consecutive(st)'
    BY <1>1, <1>6, <1>11, <1>17, <1>19, <2>1, <2>3, <2>6, <2>7 DEF Consecutive
  <2>9. NoneLeft'
    BY <1>1, <1>2, <2>3 DEF NoneLeft, BeingEmptied
  <2>10. BackendBehind'
    BY <1>1, <1>6, <1>14, <2>1 DEF BackendBehind
  <2> QED
    BY <1>1, <1>17, <2>6, <2>8, <2>9, <2>10 DEF InOrder
<1> QED
  BY <1>20, <1>21

\* The backend goes past the buffer that was written last, whether or not it
\* stays in the ring.
LEMMA OrderAdvance ==
  ASSUME TypeOK, BackendInRing, InOrder, Advance
  PROVE  InOrder'
<1>1. /\ pc = "advance" /\ pc' = "rotate" /\ m_next_to_flush' = After(m_next_to_flush)
      /\ \/ m_buffers' = m_buffers
         \/ Len(m_buffers) > Initial /\ m_buffers' = RemoveAt(m_buffers, Place(m_next_to_flush))
      /\ UNCHANGED <<data, m_current_itr, next_to_flush, m_file, closed, accepted>>
  BY DEF Advance, file_vars, history
<1>2. CurrentInRing /\ BackendBehind /\ NoneLeft
  BY <1>1 DEF InOrder
<1>3. RingSound /\ UnwrittenBehind
  BY <1>1, <1>2, RingIsSound, UnwrittenIsBehind
<1>4. PICK n \in Nat : n = Len(m_buffers)
  BY <1>3 DEF RingSound
<1>5. PICK A : A = Aheads
  OBVIOUS
<1>6. PICK f : f = m_current_itr
  OBVIOUS
<1>7. PICK m : m = m_next_to_flush
  OBVIOUS
<1>8. PICK e : e = After(m)
  OBVIOUS
<1>9. /\ n > 1 /\ m \in RingBuffers /\ f \in RingBuffers /\ RingBuffers \subseteq Buffers /\ A[m] = 0
      /\ \A x \in RingBuffers : A[x] \in 0..(n - 1)
      /\ \A x, y \in RingBuffers : A[x] = A[y] => x = y
      /\ e \in RingBuffers /\ A[e] = IF A[m] = n - 1 THEN 0 ELSE A[m] + 1
  BY <1>3, <1>4, <1>5, <1>6, <1>7, <1>8, Zenon DEF RingSound, UnwrittenBehind
<1>10. A[e] = 1 /\ e # m
  BY <1>9
<1>11. f # m /\ Unwritten = m /\ Unwritten' = e /\ m_next_to_flush' = e
  BY <1>1, <1>2, <1>6, <1>7, <1>8 DEF BackendBehind, Unwritten
<1>12. PICK B : B = Aheads'
  OBVIOUS
<1>13. /\ RingBuffers' \subseteq RingBuffers /\ DOMAIN B = RingBuffers'
       /\ \A b \in RingBuffers : b # m => b \in RingBuffers' /\ B[b] = A[b] - 1
       /\ m \in RingBuffers' => B[m] = n - 1
  <2>1. CASE m_buffers' = m_buffers
    <3>1. /\ RingBuffers' = RingBuffers /\ DOMAIN B = RingBuffers
          /\ \A b \in RingBuffers : B[b] = IF A[e] <= A[b] THEN A[b] - A[e] ELSE A[b] + n - A[e]
      BY <1>3, <1>4, <1>5, <1>9, <1>11, <1>12, <2>1, MovedAheads
    <3>2. ASSUME NEW b \in RingBuffers, b # m PROVE B[b] = A[b] - 1
      <4>1. A[b] \in 0..(n - 1) /\ A[b] # 0
        BY <1>9, <3>2
      <4> QED
        BY <1>10, <3>1, <4>1
    <3>3. B[m] = n - 1
      BY <1>9, <1>10, <3>1
    <3> QED
      BY <3>1, <3>2, <3>3
  <2>2. CASE Len(m_buffers) > Initial /\ m_buffers' = RemoveAt(m_buffers, Place(m_next_to_flush))
    <3>1. IsRing(m_buffers, Buffers) /\ Len(m_buffers) > 1 /\ m \in Range(m_buffers)
      BY <1>9, ItIsARing DEF BackendInRing, RingBuffers
    <3>2. PICK q : q = RemoveAt(m_buffers, PlaceIn(m_buffers, m))
      OBVIOUS
    <3>3. m_buffers' = q /\ e = NextIn(m_buffers, m)
      BY <1>7, <1>8, <2>2, <3>2, RingOperators
    <3>4. /\ Range(q) = Range(m_buffers) \ {m}
          /\ \A y \in Range(q) : StepsIn(q, e, y) = StepsIn(m_buffers, e, y)
      BY <3>1, <3>2, <3>3, RingRemove
    <3>5. B = [b \in Range(q) |-> StepsIn(q, e, b)]
      BY <1>11, <1>12, <3>3, AheadsAre DEF AheadsIn
    <3>6. ASSUME NEW b \in RingBuffers, b # m PROVE b \in Range(q) /\ B[b] = A[b] - 1
      <4>1. b \in Range(q) /\ B[b] = Distance(e, b)
        BY <3>4, <3>5, <3>6, RingOperators DEF RingBuffers
      <4>2. Distance(e, b) = IF A[e] <= A[b] THEN A[b] - A[e] ELSE A[b] + n - A[e]
        BY <1>3, <1>4, <1>5, <1>9 DEF RingSound
      <4>3. A[b] \in 0..(n - 1) /\ A[b] # 0
        BY <1>9, <3>6
      <4> QED
        BY <1>10, <4>1, <4>2, <4>3
    <3>7. RingBuffers' = Range(q) /\ m \notin Range(q) /\ Range(q) \subseteq RingBuffers
      BY <3>3, <3>4 DEF RingBuffers
    <3> QED
      BY <3>5, <3>6, <3>7
  <2> QED
    BY <1>1, <2>1, <2>2
<1>14. B[e] = 0 /\ B[f] = A[f] - 1 /\ f \in RingBuffers' /\ e \in RingBuffers'
  BY <1>9, <1>10, <1>11, <1>13
<1>15. Pending = {b \in RingBuffers : A[m] <= A[b] /\ A[b] <= A[f]}
  BY <1>3, <1>5, <1>6, <1>11 DEF Pending, Stretch, RingSound
<1>16. Pending' = {b \in RingBuffers' : B[e] <= B[b] /\ B[b] <= B[f]}
  BY <1>1, <1>6, <1>11, <1>12, <1>13 DEF Pending, Stretch
<1>17. Pending' = Pending \ {m}
  <2>1. ASSUME NEW b \in RingBuffers, b # m
        PROVE  B[e] <= B[b] /\ B[b] <= B[f] <=> A[m] <= A[b] /\ A[b] <= A[f]
    <3>1. A[b] \in 0..(n - 1) /\ A[b] # 0 /\ A[f] \in 0..(n - 1) /\ B[b] = A[b] - 1
      BY <1>9, <1>13, <2>1
    <3> QED
      BY <1>9, <1>14, <3>1
  <2>2. m \in RingBuffers' => ~(B[m] <= B[f])
    <3>1. A[f] \in 0..(n - 1)
      BY <1>9
    <3> QED
      BY <1>13, <1>14, <3>1
  <2> QED
    BY <1>13, <1>15, <1>16, <2>1, <2>2
<1>18. Written' = Written /\ CurrentInRing'
  BY <1>1, <1>6, <1>14 DEF Written, CurrentInRing, RingBuffers
<1>19. PICK start \in [Buffers -> Nat] : Consecutive(start)
  BY <1>1 DEF InOrder
<1>20. /\ Pieces(Pending, A, data, accepted, start) /\ start[m] = Len(Written)
       /\ start[f] + Len(data[f]) = Len(accepted)
  BY <1>5, <1>6, <1>11, <1>19 DEF Consecutive
<1>21. data[m] = <<>>
  BY <1>1, <1>2, <1>7 DEF NoneLeft
<1>22. m \in Pending /\ e \in Pending
  <2>1. A[f] \in 0..(n - 1) /\ A[f] # 0
    BY <1>9, <1>11
  <2> QED
    BY <1>9, <1>10, <1>15, <2>1
<1>23. start[e] = Len(Written)
  <2>1. start[e] = start[m] + Len(data[m])
    <3>1. A[e] = A[m] + 1
      BY <1>9, <1>10
    <3> QED
      BY <1>20, <1>22, <3>1 DEF Pieces
  <2>2. Len(data[m]) = 0 /\ start[m] \in Nat
    BY <1>9, <1>21
  <2> QED
    BY <1>20, <2>1, <2>2
<1>24. Pieces(Pending', B, data, accepted, start)
  <2>1. \A b \in Pending' : A[b] \in Int /\ B[b] = A[b] - 1 /\ data[b] = data[b]
    BY <1>9, <1>13, <1>15, <1>17
  <2>2. Pending' \in SUBSET Pending
    BY <1>17
  <2> QED
    BY <1>20, <2>1, <2>2, PiecesFewer
<1>25. Consecutive(start)'
  BY <1>1, <1>6, <1>11, <1>12, <1>18, <1>20, <1>23, <1>24 DEF Consecutive
<1>26. NoneLeft'
  <2>1. ASSUME NEW b \in Buffers, b \notin Pending' PROVE data[b] = <<>>
    <3>1. CASE b = m
      BY <1>21, <3>1
    <3>2. CASE b # m
      BY <1>1, <1>2, <1>17, <2>1, <3>2 DEF NoneLeft, BeingEmptied
    <3> QED
      BY <3>1, <3>2
  <2>2. data' = data /\ pc' # "advance"
    BY <1>1
  <2> QED
    BY <2>1, <2>2, Zenon DEF NoneLeft
<1>27. BackendBehind'
  BY <1>1 DEF BackendBehind
<1> QED
  BY <1>1, <1>18, <1>25, <1>26, <1>27 DEF InOrder

\* One after the other the buffers hold the lines that are not written.
InARow(P, A, ring, n) == ring \in [1..n -> P] /\ \A i \in 1..n : A[ring[i]] = A[ring[1]] + i - 1

LinesOf(d, ring, n) == [i \in 1..n |-> d[ring[i]]]

LEMMA PiecesFlatten ==
  ASSUME NEW P, NEW A, NEW d, NEW acc, NEW start, IsPieces(P, A, d, acc, start),
         NEW n \in Nat \ {0}, NEW ring, InARow(P, A, ring, n),
         start[ring[n]] + Len(d[ring[n]]) = Len(acc)
  PROVE  FlattenSeq(LinesOf(d, ring, n)) = SubSeq(acc, start[ring[1]] + 1, Len(acc))
<1>13. PICK seqs : seqs = LinesOf(d, ring, n)
  OBVIOUS
<1>14. seqs = [i \in 1..n |-> d[ring[i]]]
  BY <1>13 DEF LinesOf
<1>0. ring \in [1..n -> P] /\ \A i \in 1..n : A[ring[i]] = A[ring[1]] + i - 1
  BY DEF InARow
<1> USE <1>0
<1>1. /\ P \subseteq Buffers /\ \A b \in P : A[b] \in Int
      /\ d \in [Buffers -> Seq(Line)] /\ acc \in Seq(Line) /\ start \in [Buffers -> Nat]
      /\ Pieces(P, A, d, acc, start)
  BY DEF IsPieces
<1>2. PICK up : up = [i \in 0..n |-> IF i = 0 THEN start[ring[1]] ELSE start[ring[i]] + Len(d[ring[i]])]
  OBVIOUS
<1>3. \A i \in 1..n : /\ ring[i] \in P /\ d[ring[i]] \in Seq(Line) /\ Len(d[ring[i]]) \in Nat /\ start[ring[i]] \in Nat
                      /\ A[ring[i]] \in Int
  BY <1>1
<1>4. Len(acc) \in Nat
  BY <1>1
<1>5. up[0] = start[ring[1]] /\ \A i \in 1..n : up[i] = start[ring[i]] + Len(d[ring[i]])
  BY <1>2
<1>6. \A i \in 1..n : /\ start[ring[i]] + Len(d[ring[i]]) <= Len(acc)
                      /\ d[ring[i]] = SubSeq(acc, start[ring[i]] + 1, start[ring[i]] + Len(d[ring[i]]))
  BY <1>1, <1>3 DEF Pieces
<1>7. ASSUME NEW i \in 1..n PROVE up[i - 1] = start[ring[i]]
  <2>1. CASE i = 1
    BY <1>5, <2>1
  <2>2. CASE i # 1
    <3>1. i - 1 \in 1..n
      BY <2>2
    <3>2. A[ring[i]] = A[ring[1]] + i - 1 /\ A[ring[i - 1]] = A[ring[1]] + (i - 1) - 1 /\ A[ring[1]] \in Int
      BY <1>3, <3>1
    <3>3. \A a \in Int : a + i - 1 = (a + (i - 1) - 1) + 1
      BY <3>1
    <3>4. A[ring[i]] = A[ring[i - 1]] + 1
      BY <3>2, <3>3, Zenon
    <3>5. start[ring[i]] = start[ring[i - 1]] + Len(d[ring[i - 1]])
      BY <1>1, <1>3, <3>1, <3>4 DEF Pieces
    <3> QED
      BY <1>5, <3>1, <3>5
  <2> QED
    BY <2>1, <2>2
<1>8. up \in [0..n -> 0..Len(acc)]
  <2>1. ASSUME NEW i \in 0..n PROVE up[i] \in 0..Len(acc)
    <3>1. CASE i = 0
      <4>1. start[ring[1]] \in Nat /\ Len(d[ring[1]]) \in Nat /\ start[ring[1]] + Len(d[ring[1]]) <= Len(acc)
        BY <1>3, <1>6
      <4> QED
        BY <1>4, <1>5, <3>1, <4>1
    <3>2. CASE i # 0
      <4>1. i \in 1..n
        BY <3>2
      <4>2. /\ start[ring[i]] \in Nat /\ Len(d[ring[i]]) \in Nat /\ start[ring[i]] + Len(d[ring[i]]) <= Len(acc)
            /\ up[i] = start[ring[i]] + Len(d[ring[i]])
        BY <1>3, <1>5, <1>6, <4>1
      <4> QED
        BY <1>4, <4>2
    <3> QED
      BY <3>1, <3>2
  <2> QED
    BY <1>2, <2>1
<1>9. seqs \in Seq(Seq(Line)) /\ Len(seqs) = n /\ seqs # <<>>
  <2>1. seqs \in [1..n -> Seq(Line)] /\ n \in Nat /\ n # 0
    BY <1>3, <1>14
  <2>2. seqs \in Seq(Seq(Line)) /\ DOMAIN seqs = 1..n
    BY <2>1, FunctionIsSeq
  <2>3. Len(seqs) = n
    BY <2>1, <2>2, LenProperties
  <2> QED
    BY <2>1, <2>2, <2>3, EmptySeq
<1>10. ASSUME NEW i \in 1..n PROVE up[i - 1] <= up[i] /\ seqs[i] = SubSeq(acc, up[i - 1] + 1, up[i])
  <2>1. seqs[i] = d[ring[i]] /\ up[i] = start[ring[i]] + Len(d[ring[i]]) /\ up[i - 1] = start[ring[i]]
    BY <1>5, <1>7, <1>14
  <2>2. start[ring[i]] <= start[ring[i]] + Len(d[ring[i]])
    <3>1. start[ring[i]] \in Nat /\ Len(d[ring[i]]) \in Nat
      BY <1>3
    <3>2. \A a, b \in Nat : a <= a + b
      OBVIOUS
    <3> QED
      BY <3>1, <3>2, Zenon
  <2> QED
    BY <1>6, <2>1, <2>2
<1>11. FlattenSeq(seqs) = SubSeq(acc, up[0] + 1, up[n])
  <2>1. up \in [0..Len(seqs) -> 0..Len(acc)]
    BY <1>8, <1>9
  <2>2. \A i \in 1..Len(seqs) : up[i - 1] <= up[i] /\ seqs[i] = SubSeq(acc, up[i - 1] + 1, up[i])
    BY <1>9, <1>10
  <2>3. PiecesOf(acc, seqs, up)
    BY <2>1, <2>2 DEF PiecesOf
  <2>4. FlattenSeq(seqs) = SubSeq(acc, up[0] + 1, up[Len(seqs)])
    <3>1. acc \in Seq(Line) /\ seqs \in Seq(Seq(Line)) /\ seqs # <<>>
      BY <1>1, <1>9
    <3> QED
      BY <3>1, <2>3, FlattenOfPieces
  <2> QED
    BY <1>9, <2>4
<1>12. up[n] = Len(acc)
  BY <1>5
<1> QED
  BY <1>5, <1>11, <1>12, <1>13

\* All buffers of the stretch that is not written, in the order of the ring.
LEMMA StretchFlattens ==
  ASSUME TypeOK, BackendInRing, InOrder, pc # "done",
         NEW k \in Nat \ {0}, NEW ring \in [1..k -> RingBuffers],
         k = Aheads[m_current_itr] - Aheads[Unwritten] + 1,
         \A i \in 1..k : Aheads[ring[i]] = Aheads[Unwritten] + i - 1
  PROVE  FlattenSeq(LinesOf(data, ring, k)) = SubSeq(accepted, Len(Written) + 1, Len(accepted))
<1>1. CurrentInRing /\ BackendBehind
  BY DEF InOrder
<1>2. RingSound /\ UnwrittenBehind
  BY <1>1, RingIsSound, UnwrittenIsBehind
<1>3. PICK A : A = Aheads
  OBVIOUS
<1>4. PICK u, f : u = Unwritten /\ f = m_current_itr
  OBVIOUS
<1>5. PICK n \in Nat : n = Len(m_buffers)
  BY <1>2 DEF RingSound
<1>6. /\ u \in RingBuffers /\ f \in RingBuffers /\ RingBuffers \subseteq Buffers /\ DOMAIN A = RingBuffers
      /\ \A x \in RingBuffers : A[x] \in 0..(n - 1)
      /\ \A x, y \in RingBuffers : A[x] = A[y] => x = y
  BY <1>2, <1>3, <1>4, <1>5, Zenon DEF RingSound, UnwrittenBehind
<1>7. Pending = {b \in RingBuffers : A[u] <= A[b] /\ A[b] <= A[f]}
  BY <1>3, <1>4, <1>6 DEF Pending, Stretch
<1>8. A[u] \in Nat /\ A[f] \in Nat /\ k = A[f] - A[u] + 1 /\ \A i \in 1..k : A[ring[i]] = A[u] + i - 1
  BY <1>3, <1>4, <1>6
<1>9. ring[1] = u /\ ring[k] = f
  <2>1. A[ring[1]] = A[u] /\ A[ring[k]] = A[f] /\ ring[1] \in RingBuffers /\ ring[k] \in RingBuffers
    <3>1. 1 \in 1..k /\ k \in 1..k
      OBVIOUS
    <3>2. A[ring[1]] = A[u] + 1 - 1 /\ A[ring[k]] = A[u] + k - 1
      BY <1>8, <3>1
    <3>3. A[u] + 1 - 1 = A[u] /\ A[u] + k - 1 = A[f]
      BY <1>8
    <3> QED
      BY <3>1, <3>2, <3>3
  <2> QED
    BY <1>6, <2>1
<1>10. ring \in [1..k -> Pending]
  <2>1. ASSUME NEW i \in 1..k PROVE ring[i] \in Pending
    <3>1. A[u] <= A[ring[i]] /\ A[ring[i]] <= A[f]
      BY <1>8
    <3> QED
      BY <1>7, <3>1
  <2> QED
    BY <2>1
<1>11. PICK start \in [Buffers -> Nat] : Consecutive(start)
  BY DEF InOrder
<1>12. IsPieces(Pending, A, data, accepted, start)
  <2>1. Pieces(Pending, A, data, accepted, start)
    BY <1>3, <1>11 DEF Consecutive
  <2>2. Pending \subseteq Buffers /\ \A b \in Pending : A[b] \in Int
    BY <1>6, <1>7
  <2> QED
    BY <1>11, <2>1, <2>2 DEF IsPieces, TypeOK
<1>13. start[ring[1]] = Len(Written) /\ start[ring[k]] + Len(data[ring[k]]) = Len(accepted)
  BY <1>4, <1>9, <1>11 DEF Consecutive
<1>14. \A i \in 1..k : A[ring[i]] = A[ring[1]] + i - 1
  BY <1>8, <1>9
<1>16. FlattenSeq(LinesOf(data, ring, k)) = SubSeq(accepted, start[ring[1]] + 1, Len(accepted))
  <2>1. start[ring[k]] + Len(data[ring[k]]) = Len(accepted)
    BY <1>13
  <2>2. InARow(Pending, A, ring, k)
    BY <1>10, <1>14 DEF InARow
  <2>3. k \in Nat \ {0}
    OBVIOUS
  <2> QED
    BY <1>12, <2>1, <2>2, <2>3, PiecesFlatten, SMTT(60)
<1> QED
  BY <1>13, <1>16

\* What waits in the ring are the lines accepted and not written.
LEMMA WaitingIs ==
  ASSUME TypeOK, BackendInRing, InOrder
  PROVE  Waiting = SubSeq(accepted, Len(Written) + 1, Len(accepted))
<1>1. SUFFICES ASSUME pc # "done" PROVE Waiting = SubSeq(accepted, Len(Written) + 1, Len(accepted))
  BY DEF Waiting
<1>2. CurrentInRing /\ BackendBehind
  BY <1>1 DEF InOrder
<1>3. RingSound /\ UnwrittenBehind
  BY <1>1, <1>2, RingIsSound, UnwrittenIsBehind
<1>4. PICK A : A = Aheads
  OBVIOUS
<1>5. PICK u, f : u = Unwritten /\ f = m_current_itr
  OBVIOUS
<1>6. PICK n \in Nat : n = Len(m_buffers)
  BY <1>3 DEF RingSound
<1>7. /\ u \in RingBuffers /\ f \in RingBuffers /\ A[u] <= A[f]
      /\ \A x \in RingBuffers : A[x] \in 0..(n - 1)
      /\ \A x, y \in RingBuffers : Distance(x, y) = IF A[x] <= A[y] THEN A[y] - A[x] ELSE A[y] + n - A[x]
  BY <1>3, <1>4, <1>5, <1>6, Zenon DEF RingSound, UnwrittenBehind
<1>8. PICK D \in Nat : D = A[f] - A[u]
  BY <1>7
<1>9. Distance(u, f) = D
  BY <1>7, <1>8
<1>10. PICK stretch : stretch = Between(u, f)
  OBVIOUS
<1>11. stretch \in [1..D -> RingBuffers] /\ \A i \in 1..D : Distance(u, stretch[i]) = i - 1
  <2>1. Len(m_buffers) >= Initial
    BY DEF BackendInRing
  <2> QED
    BY <1>7, <1>9, <1>10, <2>1, BetweenBuffers
<1>12. PICK ring : ring = Append(stretch, f)
  OBVIOUS
<1>13. stretch \in Seq(RingBuffers) /\ Len(stretch) = D
  BY <1>11
<1>14. /\ ring \in [1..(D + 1) -> RingBuffers] /\ ring[D + 1] = f
       /\ \A i \in 1..D : ring[i] = stretch[i]
  <2>1. /\ ring \in Seq(RingBuffers) /\ Len(ring) = D + 1 /\ ring[D + 1] = f
        /\ \A i \in 1..D : ring[i] = stretch[i]
    BY <1>7, <1>12, <1>13, AppendProperties
  <2> QED
    BY <2>1, LenProperties
<1>15. ASSUME NEW i \in 1..(D + 1) PROVE A[ring[i]] = A[u] + i - 1
  <2>1. CASE i = D + 1
    BY <1>7, <1>8, <1>14, <2>1
  <2>2. CASE i # D + 1
    <3>1. i \in 1..D
      BY <2>2
    <3>2. ring[i] = stretch[i] /\ stretch[i] \in RingBuffers /\ Distance(u, stretch[i]) = i - 1
      BY <1>11, <1>14, <3>1
    <3>3. PICK z \in RingBuffers : z = stretch[i]
      BY <3>2
    <3>4. A[u] \in 0..(n - 1) /\ A[f] \in 0..(n - 1) /\ A[z] \in 0..(n - 1)
      BY <1>7
    <3>5. i - 1 = IF A[u] <= A[z] THEN A[z] - A[u] ELSE A[z] + n - A[u]
      BY <1>7, <3>2, <3>3
    <3>6. A[z] = A[u] + i - 1
      BY <1>8, <3>1, <3>4, <3>5
    <3> QED
      BY <3>2, <3>3, <3>6
  <2> QED
    BY <2>1, <2>2
<1>16. FlattenSeq(LinesOf(data, ring, D + 1)) = SubSeq(accepted, Len(Written) + 1, Len(accepted))
  <2>1. PICK k \in Nat \ {0} : k = D + 1
    OBVIOUS
  <2>2. k = Aheads[m_current_itr] - Aheads[Unwritten] + 1
    BY <1>4, <1>5, <1>8, <2>1
  <2>3. ring \in [1..k -> RingBuffers] /\ \A i \in 1..k : Aheads[ring[i]] = Aheads[Unwritten] + i - 1
    BY <1>4, <1>5, <1>14, <1>15, <2>1
  <2>4. FlattenSeq(LinesOf(data, ring, k)) = SubSeq(accepted, Len(Written) + 1, Len(accepted))
    BY <1>1, <2>2, <2>3, StretchFlattens
  <2> QED
    BY <2>1, <2>4
<1>17. Waiting = FlattenSeq(LinesOf(data, ring, D + 1))
  <2>1. Waiting = FlattenSeq([i \in DOMAIN ring |-> data[ring[i]]])
    BY <1>1, <1>5, <1>10, <1>12 DEF Waiting
  <2>2. DOMAIN ring = 1..(D + 1)
    BY <1>14
  <2> QED
    BY <2>1, <2>2 DEF LinesOf
<1> QED
  BY <1>16, <1>17

\* What is written and what is not make the lines accepted.
LEMMA WrittenAndTheRest ==
  ASSUME TypeOK, InOrder
  PROVE  Written \o SubSeq(accepted, Len(Written) + 1, Len(accepted)) = accepted
<1>1. PICK w \in Nat : w = Len(Written)
  BY WrittenIsSeq
<1>2. accepted \in Seq(Line) /\ Len(accepted) \in Nat /\ Written = SubSeq(accepted, 1, w) /\ w <= Len(accepted)
  BY <1>1 DEF TypeOK, InOrder
<1>3. 1 \in 1..(Len(accepted) + 1) /\ w \in (1 - 1)..Len(accepted) /\ Len(accepted) \in w..Len(accepted)
  BY <1>2
<1>4. SubSeq(accepted, 1, w) \o SubSeq(accepted, w + 1, Len(accepted)) = SubSeq(accepted, 1, Len(accepted))
  BY <1>2, <1>3, ConcatAdjacentSubSeq
<1>5. SubSeq(accepted, 1, Len(accepted)) = accepted
  BY <1>2, SubSeqFull
<1> QED
  BY <1>1, <1>2, <1>4, <1>5

\* The last flush writes all, or nothing.
LEMMA OrderFinal ==
  ASSUME TypeOK, BackendInRing, InOrder, Final
  PROVE  InOrder' /\ Written' = IF After(m_current_itr) # m_next_to_flush THEN accepted ELSE Written
<1>1. /\ pc = "final" /\ pc' = "done" /\ m_current_itr' = After(m_current_itr)
      /\ UNCHANGED <<m_buffers, data, accepted, closed>>
  BY DEF Final, history
<1>2. CurrentInRing /\ BackendBehind
  BY <1>1 DEF InOrder
<1>3. RingSound /\ UnwrittenBehind
  BY <1>1, <1>2, RingIsSound, UnwrittenIsBehind
<1>4. PICK N \in Nat : N = Len(m_buffers)
  BY <1>3 DEF RingSound
<1>5. PICK A : A = Aheads
  OBVIOUS
<1>6. PICK f, m, e : f = m_current_itr /\ m = m_next_to_flush /\ e = After(f)
  OBVIOUS
<1>7. /\ m \in RingBuffers /\ f \in RingBuffers /\ A[m] = 0
      /\ \A x \in RingBuffers : A[x] \in 0..(N - 1)
      /\ \A x, y \in RingBuffers : A[x] = A[y] => x = y
      /\ e \in RingBuffers /\ A[e] = IF A[f] = N - 1 THEN 0 ELSE A[f] + 1
      /\ \A x, y \in RingBuffers : Distance(x, y) = IF A[x] <= A[y] THEN A[y] - A[x] ELSE A[y] + N - A[x]
  BY <1>3, <1>4, <1>5, <1>6, Zenon DEF RingSound, UnwrittenBehind
<1>8. PICK left : left = Between(m, e)
  OBVIOUS
<1>9. PICK n \in Nat : n = Distance(m, e)
  <2>1. Len(m_buffers) >= Initial
    BY DEF BackendInRing
  <2> QED
    BY <1>7, <2>1, BetweenBuffers
<1>10. left \in [1..n -> RingBuffers] /\ \A i \in 1..n : Distance(m, left[i]) = i - 1
  <2>1. Len(m_buffers) >= Initial
    BY DEF BackendInRing
  <2> QED
    BY <1>7, <1>8, <1>9, <2>1, BetweenBuffers
<1>11. m_file' = m_file \o FlattenSeq(LinesOf(data, left, n))
  <2>1. m_file' = m_file \o FlattenSeq([i \in DOMAIN Between(m_next_to_flush, m_current_itr')
                                          |-> data[Between(m_next_to_flush, m_current_itr')[i]]])
    BY DEF Final
  <2>2. m_current_itr' = e
    BY <1>1, <1>6
  <2>3. DOMAIN left = 1..n
    BY <1>10
  <2> QED
    BY <1>6, <1>8, <2>1, <2>2, <2>3 DEF LinesOf
<1>12. Written \in Seq(Line) /\ m_file \in Seq(Line) /\ closed \in Seq(Line) /\ accepted \in Seq(Line)
  BY WrittenIsSeq DEF TypeOK
<1>13. n = A[e]
  <2>1. A[e] \in 0..(N - 1)
    BY <1>7
  <2>2. n = IF A[m] <= A[e] THEN A[e] - A[m] ELSE A[e] + N - A[m]
    BY <1>7, <1>9
  <2> QED
    BY <1>7, <2>1, <2>2
<1>14. CASE e = m
  <2>1. n = 0
    BY <1>7, <1>13, <1>14
  <2>2. LinesOf(data, left, n) = <<>>
    BY <2>1 DEF LinesOf
  <2>3. FlattenSeq(LinesOf(data, left, n)) = <<>>
    BY <2>2 DEF FlattenSeq
  <2>4. m_file' = m_file
    BY <1>11, <1>12, <2>3, ConcatEmptySeq
  <2>5. Written' = Written
    BY <1>1, <2>4 DEF Written
  <2>6. CurrentInRing'
    BY <1>1, <1>6, <1>7 DEF CurrentInRing, RingBuffers
  <2> QED
    BY <1>1, <1>6, <1>14, <2>5, <2>6 DEF InOrder
<1>15. CASE e # m
  <2>1. A[e] = A[f] + 1 /\ A[f] \in Nat
    <3>1. A[e] # 0
      BY <1>7, <1>15
    <3>2. A[f] \in 0..(N - 1)
      BY <1>7
    <3> QED
      BY <1>7, <3>1, <3>2
  <2>2. n \in Nat \ {0} /\ Unwritten = m
    BY <1>1, <1>6, <1>13, <2>1 DEF Unwritten
  <2>3. n = Aheads[m_current_itr] - Aheads[Unwritten] + 1
    BY <1>5, <1>6, <1>7, <1>13, <2>1, <2>2
  <2>4. ASSUME NEW i \in 1..n PROVE A[left[i]] = A[m] + i - 1
    <3>1. PICK z \in RingBuffers : z = left[i]
      BY <1>10
    <3>2. i - 1 = IF A[m] <= A[z] THEN A[z] - A[m] ELSE A[z] + N - A[m]
      BY <1>7, <1>10, <3>1
    <3>3. A[z] \in 0..(N - 1)
      BY <1>7
    <3> QED
      BY <1>7, <3>1, <3>2, <3>3
  <2>5. \A i \in 1..n : Aheads[left[i]] = Aheads[Unwritten] + i - 1
    BY <1>5, <2>2, <2>4
  <2>6. FlattenSeq(LinesOf(data, left, n)) = SubSeq(accepted, Len(Written) + 1, Len(accepted))
    BY <1>1, <1>10, <2>2, <2>3, <2>5, StretchFlattens
  <2>7. PICK t : t = SubSeq(accepted, Len(Written) + 1, Len(accepted))
    OBVIOUS
  <2>8. t \in Seq(Line)
    BY <1>12, <2>7
  <2>9. Written' = Written \o t
    <3>1. Written = closed \o m_file /\ Written' = closed \o (m_file \o t)
      BY <1>1, <1>11, <2>6, <2>7 DEF Written
    <3>2. (closed \o m_file) \o t = closed \o (m_file \o t)
      <4>1. \A x, y, z \in Seq(Line) : (x \o y) \o z = x \o (y \o z)
        BY ConcatAssociative
      <4> QED
        BY <1>12, <2>8, <4>1, Zenon
    <3> QED
      BY <3>1, <3>2
  <2>10. Written' = accepted
    BY <2>7, <2>9, WrittenAndTheRest
  <2>11. CurrentInRing'
    BY <1>1, <1>6, <1>7 DEF CurrentInRing, RingBuffers
  <2>12. Written' = SubSeq(accepted', 1, Len(Written')) /\ Len(Written') <= Len(accepted')
    <3>1. SubSeq(accepted, 1, Len(accepted)) = accepted /\ Len(accepted) \in Nat
      BY <1>12, SubSeqFull
    <3> QED
      BY <1>1, <2>10, <3>1
  <2> QED
    BY <1>1, <1>6, <1>15, <2>10, <2>11, <2>12 DEF InOrder
<1> QED
  BY <1>14, <1>15

\* Nothing is used of an empty buffer ...
LEMMA UsedOfNothing ==
  ASSUME NEW b, data[b] = <<>>
  PROVE  Used(b) = 0
<1>1. PICK it : it = CHOOSE iter :
        iter = [s \in SUBSET DOMAIN data[b] |->
                  IF s = {} THEN 0
                  ELSE iter[s \ {CHOOSE x \in s : TRUE}] + data[b][CHOOSE x \in s : TRUE].len]
  OBVIOUS
<1>2. it[{}] = 0
  <2>1. DOMAIN data[b] = {}
    OBVIOUS
  <2>2. PICK f : f = [s \in SUBSET {} |-> 0]
    OBVIOUS
  <2>3. f = [s \in SUBSET DOMAIN data[b] |->
               IF s = {} THEN 0
               ELSE f[s \ {CHOOSE x \in s : TRUE}] + data[b][CHOOSE x \in s : TRUE].len]
    BY <2>1, <2>2
  <2>4. it = [s \in SUBSET DOMAIN data[b] |->
                IF s = {} THEN 0
                ELSE it[s \ {CHOOSE x \in s : TRUE}] + data[b][CHOOSE x \in s : TRUE].len]
    BY <1>1, <2>3
  <2> QED
    BY <2>1, <2>4
<1>3. Used(b) = it[DOMAIN data[b]]
  BY <1>1 DEF Used, FoldSeq, FoldFunction, FoldFunctionOnSet, MapThenFoldSet
<1> QED
  BY <1>2, <1>3

\* ... so that every line fits.
LEMMA EmptyHasRoom ==
  ASSUME NEW b, data[b] = <<>>, NEW line, line.len \in 1..Capacity
  PROVE  Enough(b, line)
<1>1. line.len \in Int /\ line.len <= Capacity
  OBVIOUS
<1>2. Used(b) + line.len = line.len
  BY <1>1, UsedOfNothing
<1> QED
  BY <1>1, <1>2 DEF Enough

\* append() stays in the ring.
LEMMA AppendInRing ==
  ASSUME TypeOK, BackendInRing, AppendLine
  PROVE  CurrentInRing'
<1>1. /\ CurrentInRing
      /\ AppendHere(NextLine) \/ AppendNext(NextLine) \/ AppendNew(NextLine) \/ AppendDrops(NextLine)
  BY AppendTakesALine
<1>2. m_current_itr \in RingBuffers /\ m_next_to_flush \in RingBuffers
  BY <1>1 DEF CurrentInRing, RingBuffers, BackendInRing
<1>3. CASE AppendHere(NextLine)
  BY <1>2, <1>3 DEF AppendHere, CurrentInRing, RingBuffers
<1>4. CASE AppendNext(NextLine)
  <2>1. After(m_current_itr) \in RingBuffers
    BY <1>2, AfterIsInRing
  <2> QED
    BY <1>4, <2>1 DEF AppendNext, CurrentInRing, RingBuffers
<1>5. CASE AppendNew(NextLine)
  BY <1>5, NewBuffer DEF CurrentInRing
<1>6. CASE AppendDrops(NextLine)
  BY <1>2, <1>6 DEF AppendDrops, CurrentInRing, RingBuffers
<1> QED
  BY <1>1, <1>3, <1>4, <1>5, <1>6

\* What append() has put before the line: the buffers that are not written, its
\* buffer the last of them and open for the line.
Opened(g, st) ==
  /\ Unwritten' = Unwritten /\ st[Unwritten] = Len(Written)
  /\ IsPieces(Pending', Aheads', data, accepted, st) /\ IsLast(Pending', Aheads', g)
  /\ st[g] + Len(data[g]) = Len(accepted)
  /\ \A b \in Buffers : b \notin Pending' /\ ~BeingEmptied(b) => data[b] = <<>>
  /\ pc = "advance" => g # m_next_to_flush /\ data[m_next_to_flush] = <<>>
  /\ BackendBehind'

\* The line is stored there.
LEMMA OrderStored ==
  ASSUME TypeOK, BackendInRing, InOrder, AppendLine, NEW g \in Buffers, g = m_current_itr',
         NEW st, Opened(g, st), Enough(g, NextLine), Store(g, NextLine)
  PROVE  InOrder'
<1>1. /\ NextLine \in Line /\ accepted' = Append(accepted, NextLine) /\ CurrentInRing'
      /\ UNCHANGED <<m_next_to_flush, pc, next_to_flush, m_file, closed>>
  BY AppendTakesALine, AppendInRing
<1>2. /\ accepted \in Seq(Line) /\ Len(accepted) \in Nat /\ data \in [Buffers -> Seq(Line)]
      /\ m_next_to_flush \in Buffers
  BY DEF TypeOK
<1>3. PICK P, B : P = Pending' /\ B = Aheads'
  OBVIOUS
<1>4. PICK d : d = [data EXCEPT ![g] = Append(@, NextLine)]
  OBVIOUS
<1>5. data' = d
  BY <1>4 DEF Store
<1>6. \A b \in Buffers : b # g => d[b] = data[b]
  BY <1>2, <1>4
<1>7. /\ IsPieces(P, B, data, accepted, st) /\ IsLast(P, B, g) /\ st[g] + Len(data[g]) = Len(accepted)
      /\ Unwritten' = Unwritten /\ st[Unwritten] = Len(Written)
      /\ \A b \in Buffers : b \notin P /\ ~BeingEmptied(b) => data[b] = <<>>
      /\ pc = "advance" => g # m_next_to_flush /\ data[m_next_to_flush] = <<>>
      /\ BackendBehind'
  BY <1>3 DEF Opened
<1>8. IsPieces(P, B, d, Append(accepted, NextLine), st) /\ st[g] + Len(d[g]) = Len(accepted) + 1
  <2>1. IsStored(d, data, g, NextLine) /\ NextLine \in Line
    BY <1>1, <1>4 DEF IsStored
  <2> QED
    BY <1>7, <2>1, PiecesAppend
<1>9. Len(accepted') = Len(accepted) + 1
  BY <1>1, <1>2, AppendProperties
<1>10. Written' = Written
  BY <1>1 DEF Written
<1>11. Written' = SubSeq(accepted', 1, Len(Written')) /\ Len(Written') <= Len(accepted')
  <2>1. PICK w \in Nat : w = Len(Written)
    BY WrittenIsSeq
  <2>2. Written = SubSeq(accepted, 1, w) /\ w <= Len(accepted)
    BY <2>1 DEF InOrder
  <2>3. w \in 0..Len(accepted) /\ 1 \in 1..(Len(accepted) + 1) /\ w <= Len(accepted) + 1
    BY <1>2, <2>2
  <2>4. SubSeq(Append(accepted, NextLine), 1, w) = SubSeq(accepted, 1, w)
    BY <1>1, <1>2, <2>3, AppendedSubSeq
  <2> QED
    BY <1>1, <1>9, <1>10, <2>1, <2>2, <2>3, <2>4
<1>12. NoneLeft'
  <2>1. g \in P
    BY <1>7 DEF IsLast
  <2>2. ASSUME NEW b \in Buffers, b \notin P, ~BeingEmptied(b) PROVE d[b] = <<>>
    BY <1>6, <1>7, <2>1, <2>2
  <2>3. pc = "advance" => d[m_next_to_flush] = <<>>
    BY <1>2, <1>6, <1>7
  <2>4. \A b : BeingEmptied(b)' <=> BeingEmptied(b)
    BY <1>1 DEF BeingEmptied
  <2> QED
    BY <1>1, <1>3, <1>5, <2>2, <2>3, <2>4, Zenon DEF NoneLeft
<1>13. st \in [Buffers -> Nat] /\ Pieces(P, B, d, accepted', st)
  BY <1>1, <1>8 DEF IsPieces
<1>14. Consecutive(st)'
  BY <1>3, <1>5, <1>7, <1>8, <1>9, <1>10, <1>13 DEF Consecutive
<1> QED
  BY <1>1, <1>7, <1>11, <1>12, <1>13, <1>14 DEF InOrder

\* The line fits where the front end is.
LEMMA OrderHere ==
  ASSUME TypeOK, BackendInRing, InOrder, pc # "done", AppendLine, AppendHere(NextLine)
  PROVE  InOrder'
<1>1. /\ UNCHANGED <<m_buffers, m_current_itr, m_next_to_flush, pc, cur, next_to_flush, m_file, closed>>
      /\ Enough(m_current_itr, NextLine) /\ Store(m_current_itr, NextLine)
  BY AppendTakesALine DEF AppendHere
<1>2. CurrentInRing /\ BackendBehind /\ NoneLeft
  BY DEF InOrder
<1>3. RingSound /\ UnwrittenBehind
  BY <1>2, RingIsSound, UnwrittenIsBehind
<1>4. RingBuffers' = RingBuffers /\ Aheads' = Aheads /\ \A b : After(b)' = After(b)
  BY <1>1, SameRing
<1>5. Unwritten' = Unwritten
  BY <1>1, <1>4 DEF Unwritten
<1>6. Pending' = Pending
  BY <1>1, <1>4, <1>5 DEF Pending, Stretch
<1>7. PICK g : g = m_current_itr
  OBVIOUS
<1>8. PICK A : A = Aheads
  OBVIOUS
<1>9. /\ g \in Pending /\ Pending \subseteq RingBuffers /\ RingBuffers \subseteq Buffers
      /\ \A b \in Pending : A[b] <= A[g]
      /\ \A b \in RingBuffers : A[b] \in 0..(Len(m_buffers) - 1)
      /\ \A x, y \in RingBuffers : A[x] = A[y] => x = y
  BY <1>3, <1>7, <1>8, Zenon DEF UnwrittenBehind, RingSound
<1>10. PICK st \in [Buffers -> Nat] : Consecutive(st)
  BY DEF InOrder
<1>11. IsPieces(Pending, A, data, accepted, st) /\ IsLast(Pending, A, g)
  <2>1. Pending \subseteq Buffers /\ \A b \in Pending : A[b] \in Int
    BY <1>9
  <2>2. Pieces(Pending, A, data, accepted, st)
    BY <1>8, <1>10 DEF Consecutive
  <2>3. IsLast(Pending, A, g)
    BY <1>9 DEF IsLast
  <2> QED
    BY <1>10, <2>1, <2>2, <2>3 DEF IsPieces, TypeOK
<1>12. BackendBehind'
  BY <1>1, <1>2, <1>4 DEF BackendBehind
<1>13. Opened(g, st)
  <2>1. st[Unwritten] = Len(Written) /\ st[g] + Len(data[g]) = Len(accepted)
    BY <1>7, <1>10 DEF Consecutive
  <2>2. \A b \in Buffers : b \notin Pending /\ ~BeingEmptied(b) => data[b] = <<>>
    BY <1>2 DEF NoneLeft
  <2>3. pc = "advance" => g # m_next_to_flush /\ data[m_next_to_flush] = <<>>
    BY <1>2, <1>7 DEF NoneLeft, BackendBehind
  <2> QED
    BY <1>4, <1>5, <1>6, <1>8, <1>11, <1>12, <2>1, <2>2, <2>3 DEF Opened
<1>14. g \in Buffers /\ g = m_current_itr'
  BY <1>1, <1>7, <1>9
<1> QED
  BY <1>1, <1>7, <1>13, <1>14, OrderStored

\* The front end goes on to another buffer, or to a new one: the ring gets no
\* other.
LEMMA OrderMoved ==
  ASSUME TypeOK, BackendInRing, InOrder, pc # "done", AppendLine, TypeOK', BackendInRing',
         NEW g, g = m_current_itr', RingBuffers' = RingBuffers \cup {g},
         \A b \in RingBuffers : Aheads'[b] = Aheads[b],
         Aheads'[g] = Aheads[m_current_itr] + 1, Store(g, NextLine)
  PROVE  InOrder'
<1>1. /\ UNCHANGED <<m_next_to_flush, pc, cur, next_to_flush, m_file, closed>>
      /\ NextLine.len \in 1..Capacity
  BY AppendTakesALine
<1>2. CurrentInRing /\ BackendBehind /\ NoneLeft
  BY DEF InOrder
<1>3. RingSound /\ UnwrittenBehind /\ RingSound'
  BY <1>2, RingIsSound, UnwrittenIsBehind, RingStaysSound
<1>4. PICK A, B : A = Aheads /\ B = Aheads'
  OBVIOUS
<1>5. PICK u, f, m : u = Unwritten /\ f = m_current_itr /\ m = m_next_to_flush
  OBVIOUS
<1>6. PICK n \in Nat, k \in Nat : n = Len(m_buffers) /\ k = Len(m_buffers')
  BY <1>3 DEF RingSound
<1>7. /\ u \in RingBuffers /\ f \in RingBuffers /\ m \in RingBuffers /\ RingBuffers \subseteq Buffers
      /\ DOMAIN A = RingBuffers /\ A[m] = 0 /\ A[u] <= A[f]
      /\ \A x \in RingBuffers : A[x] \in 0..(n - 1)
      /\ \A b : BeingEmptied(b) => b \in RingBuffers /\ A[u] = A[b] + 1
      /\ \A x, y \in RingBuffers : A[x] = A[y] => x = y
  BY <1>3, <1>4, <1>5, <1>6, Zenon DEF RingSound, UnwrittenBehind
<1>8. PICK R : R = RingBuffers'
  OBVIOUS
<1>9. /\ R = RingBuffers \cup {g} /\ R \subseteq Buffers /\ DOMAIN B = R
      /\ \A x \in R : B[x] \in 0..(k - 1)
      /\ \A x, y \in R : B[x] = B[y] => x = y
      /\ \A x \in R : After(x)' \in R /\ B[After(x)'] = IF B[x] = k - 1 THEN 0 ELSE B[x] + 1
  BY <1>3, <1>4, <1>6, <1>8, Zenon DEF RingSound
<1>10. (\A b \in RingBuffers : B[b] = A[b]) /\ B[g] = A[f] + 1
  BY <1>4, <1>5
<1>11. \A b \in RingBuffers : A[b] \in Nat /\ B[b] = A[b]
  BY <1>7, <1>10
<1>12. g \in RingBuffers => A[g] = A[f] + 1
  BY <1>10
<1>13. Pending = {b \in RingBuffers : A[u] <= A[b] /\ A[b] <= A[f]}
  BY <1>4, <1>5, <1>7 DEF Pending, Stretch
<1>14. g \notin Pending
  BY <1>7, <1>11, <1>12, <1>13
<1>15. Unwritten' = u
  <2>1. CASE pc \in {"reset", "reset_last"}
    <3>1. PICK v : v = next_to_flush
      OBVIOUS
    <3>2. v \in RingBuffers /\ A[u] = A[v] + 1
      BY <1>7, <2>1, <3>1 DEF BeingEmptied
    <3>3. PICK w : w = After(v)'
      OBVIOUS
    <3>4. u \in R /\ v \in R /\ B[u] = B[v] + 1 /\ B[u] \in 0..(k - 1) /\ B[v] \in 0..(k - 1)
      BY <1>7, <1>9, <1>11, <3>2
    <3>5. B[v] # k - 1
      BY <3>4
    <3>6. w \in R /\ B[w] = B[v] + 1
      BY <1>9, <3>3, <3>4, <3>5
    <3>7. w = u
      BY <1>9, <3>4, <3>6
    <3>8. Unwritten' = After(next_to_flush)'
      BY <1>1, <2>1 DEF Unwritten
    <3>9. After(next_to_flush)' = After(v)'
      BY <1>1, <3>1, RingOperators DEF After, Place
    <3> QED
      BY <3>3, <3>7, <3>8, <3>9
  <2>2. CASE pc \notin {"reset", "reset_last"}
    BY <1>1, <1>5, <2>2 DEF Unwritten
  <2> QED
    BY <2>1, <2>2
<1>16. Pending' = Pending \cup {g}
  <2>1. Pending' = {b \in R : B[u] <= B[b] /\ B[b] <= B[g]}
    BY <1>4, <1>9, <1>15 DEF Pending, Stretch
  <2>2. g \in R /\ B[u] <= B[g] /\ B[g] <= B[g]
    BY <1>7, <1>9, <1>10, <1>11
  <2>3. ASSUME NEW b \in RingBuffers, b # g PROVE B[u] <= B[b] /\ B[b] <= B[g] <=> A[u] <= A[b] /\ A[b] <= A[f]
    <3>1. B[b] # B[g]
      BY <1>9, <2>2, <2>3
    <3>2. A[b] \in Nat /\ A[u] \in Nat /\ A[f] \in Nat /\ B[b] = A[b] /\ B[u] = A[u] /\ B[g] = A[f] + 1
      BY <1>7, <1>10, <1>11
    <3>3. \A a, c, e \in Nat : a # c + 1 => (e <= a /\ a <= c + 1 <=> e <= a /\ a <= c)
      OBVIOUS
    <3> QED
      BY <3>1, <3>2, <3>3
  <2> QED
    BY <1>9, <1>13, <2>1, <2>2, <2>3
<1>17. g \in Buffers \ Pending /\ data[g] = <<>>
  <2>1. ~BeingEmptied(g)
    <3> SUFFICES ASSUME BeingEmptied(g) PROVE FALSE
      OBVIOUS
    <3>1. g \in RingBuffers /\ A[u] = A[g] + 1
      BY <1>7
    <3>2. A[u] \in Nat /\ A[f] \in Nat /\ A[u] = (A[f] + 1) + 1 /\ A[u] <= A[f]
      BY <1>7, <1>11, <1>12, <3>1
    <3> QED
      BY <3>2
  <2>2. g \in Buffers
    BY <1>9
  <2> QED
    BY <1>2, <1>14, <2>1, <2>2 DEF NoneLeft
<1>18. PICK start \in [Buffers -> Nat] : Consecutive(start)
  BY DEF InOrder
<1>19. IsPieces(Pending, A, data, accepted, start)
  <2>1. Pending \subseteq Buffers /\ \A b \in Pending : A[b] \in Int
    BY <1>7, <1>11, <1>13
  <2>2. Pieces(Pending, A, data, accepted, start)
    BY <1>4, <1>18 DEF Consecutive
  <2> QED
    BY <1>18, <2>1, <2>2 DEF IsPieces, TypeOK
<1>20. PICK st : st = [start EXCEPT ![g] = Len(accepted)] /\ IsPieces(Pending', B, data, accepted, st)
  <2>1. IsLast(Pending, A, f)
    <3>1. f \in Pending /\ \A b \in Pending : A[b] <= A[f] /\ b \in RingBuffers
      BY <1>7, <1>11, <1>13
    <3> QED
      BY <1>7, <3>1 DEF IsLast
  <2>2. CountedFrom(Pending, A, B, 0)
    BY <1>11, <1>13 DEF CountedFrom
  <2>3. B[g] = B[f] + 1
    BY <1>7, <1>10
  <2>4. start[f] + Len(data[f]) = Len(accepted)
    BY <1>5, <1>18 DEF Consecutive
  <2>5. IsPieces(Pending \cup {g}, B, data, accepted, [start EXCEPT ![g] = Len(accepted)])
    BY <1>17, <1>19, <2>1, <2>2, <2>3, <2>4, PiecesMore
  <2> QED
    BY <1>16, <2>5
<1>21. IsLast(Pending', B, g)
  <2>1. ASSUME NEW b \in Pending' PROVE B[b] <= B[g] /\ (B[b] = B[g] => b = g)
    <3>1. CASE b = g
      BY <1>7, <1>10, <1>11, <3>1
    <3>2. CASE b # g
      <4>1. b \in RingBuffers /\ A[b] <= A[f] /\ B[b] = A[b] /\ A[b] \in Nat /\ A[f] \in Nat /\ B[g] = A[f] + 1
        BY <1>7, <1>10, <1>11, <1>13, <1>16, <2>1, <3>2
      <4> QED
        BY <4>1
    <3> QED
      BY <3>1, <3>2
  <2> QED
    BY <1>16, <2>1 DEF IsLast
<1>22. st[g] + Len(data[g]) = Len(accepted) /\ st[u] = Len(Written)
  <2>1. accepted \in Seq(Line) /\ Len(accepted) \in Nat /\ Len(<<>>) = 0
    BY DEF TypeOK
  <2>2. st[g] = Len(accepted) /\ st[u] = start[u]
    <3>1. u # g
      BY <1>7, <1>11, <1>13, <1>14
    <3> QED
      BY <1>7, <1>17, <1>20, <3>1
  <2>3. start[u] = Len(Written)
    BY <1>5, <1>18 DEF Consecutive
  <2> QED
    BY <1>17, <2>1, <2>2, <2>3
<1>23. \A b \in Buffers : b \notin Pending' /\ ~BeingEmptied(b) => data[b] = <<>>
  BY <1>2, <1>16 DEF NoneLeft
<1>24. g # m
  <2>1. A[f] + 1 # 0
    BY <1>7, <1>11
  <2> QED
    BY <1>7, <1>10, <1>11, <2>1
<1>25. BackendBehind'
  <2>1. pc \in {"measure", "flush", "reset", "relock"} => cur \in RingBuffers /\ A[cur] <= A[f]
    BY <1>2, <1>4, <1>5 DEF BackendInRing, BackendBehind
  <2>2. pc \in {"flush", "reset"} => next_to_flush \in RingBuffers
    BY DEF BackendInRing
  <2>3. pc \in {"measure", "flush", "reset", "relock"} => B[cur] <= B[g]
    <3>1. ASSUME cur \in RingBuffers, A[cur] <= A[f] PROVE B[cur] <= B[g]
      <4>1. A[cur] \in Nat /\ A[f] \in Nat /\ B[cur] = A[cur] /\ B[g] = A[f] + 1
        BY <1>7, <1>10, <1>11, <3>1
      <4> QED
        BY <3>1, <4>1
    <3> QED
      BY <2>1, <3>1
  <2>4. /\ pc = "flush" => B[next_to_flush] <= B[cur]
        /\ pc = "reset" => B[next_to_flush] < B[cur]
    <3>1. /\ pc = "flush" => A[next_to_flush] <= A[cur]
          /\ pc = "reset" => A[next_to_flush] < A[cur]
      BY <1>2, <1>4 DEF BackendBehind
    <3> QED
      BY <1>11, <2>1, <2>2, <3>1
  <2> QED
    BY <1>1, <1>4, <1>5, <1>24, <2>3, <2>4 DEF BackendBehind
<1>26. Opened(g, st)
  <2>1. pc = "advance" => g # m_next_to_flush /\ data[m_next_to_flush] = <<>>
    BY <1>2, <1>5, <1>24 DEF NoneLeft
  <2> QED
    BY <1>4, <1>5, <1>15, <1>20, <1>21, <1>22, <1>23, <1>25, <2>1 DEF Opened
<1>27. Enough(g, NextLine)
  BY <1>1, <1>17, EmptyHasRoom
<1> QED
  BY <1>17, <1>26, <1>27, OrderStored

LEMMA OrderAppend ==
  ASSUME TypeOK, BackendInRing, InOrder, AppendLine, TypeOK', BackendInRing', ~saturated'
  PROVE  InOrder'
<1>1. /\ AppendHere(NextLine) \/ AppendNext(NextLine) \/ AppendNew(NextLine) \/ AppendDrops(NextLine)
      /\ CurrentInRing /\ NextLine \in Line /\ accepted' = Append(accepted, NextLine)
      /\ UNCHANGED <<m_next_to_flush, pc, m_file, closed>>
  BY AppendTakesALine
<1>2. CASE pc = "done"
  <2>1. CurrentInRing'
    BY AppendInRing
  <2>2. accepted \in Seq(Line) /\ Len(accepted) \in Nat
    BY DEF TypeOK
  <2>3. PICK w \in Nat : w = Len(Written)
    BY WrittenIsSeq
  <2>4. Written = SubSeq(accepted, 1, w) /\ w <= Len(accepted) /\ Written' = Written
    BY <1>1, <2>3 DEF InOrder, Written
  <2>5. w \in 0..Len(accepted) /\ 1 \in 1..(Len(accepted) + 1) /\ w <= Len(accepted) + 1
    BY <2>2, <2>4
  <2>6. SubSeq(accepted', 1, w) = SubSeq(accepted, 1, w) /\ Len(accepted') = Len(accepted) + 1
    BY <1>1, <2>2, <2>5, AppendedSubSeq
  <2>7. Written' = SubSeq(accepted', 1, Len(Written')) /\ Len(Written') <= Len(accepted')
    BY <2>3, <2>4, <2>5, <2>6
  <2> QED
    BY <1>1, <1>2, <2>1, <2>7 DEF InOrder
<1>3. CASE pc # "done"
  <2>1. BackendBehind
    BY <1>3 DEF InOrder
  <2>2. RingSound /\ RingSound'
    BY RingIsSound, RingStaysSound
  <2>3. PICK f : f = m_current_itr
    OBVIOUS
  <2>4. f \in RingBuffers /\ Aheads[f] \in 0..(Len(m_buffers) - 1) /\ Len(m_buffers) \in Nat
    BY <1>1, <2>2, <2>3 DEF CurrentInRing, RingBuffers, RingSound
  <2>5. After(f) \in RingBuffers /\ Aheads[After(f)] = IF Aheads[f] = Len(m_buffers) - 1 THEN 0 ELSE Aheads[f] + 1
    BY <2>2, <2>4 DEF RingSound
  <2>6. m_next_to_flush \in RingBuffers /\ Aheads[m_next_to_flush] = 0
        /\ \A x, y \in RingBuffers : Aheads[x] = Aheads[y] => x = y
    BY <2>2 DEF RingSound
  <2>7. CASE AppendHere(NextLine)
    BY <1>3, <2>7, OrderHere
  <2>8. CASE AppendNext(NextLine)
    <3>1. PICK g : g = After(f)
      OBVIOUS
    <3>2. /\ g # m_next_to_flush /\ m_current_itr' = g /\ Store(g, NextLine) /\ m_buffers' = m_buffers
      BY <2>3, <2>8, <3>1 DEF AppendNext
    <3>3. RingBuffers' = RingBuffers /\ Aheads' = Aheads
      BY <1>1, <3>2, SameRing
    <3>4. g \in RingBuffers /\ Aheads[g] = Aheads[f] + 1
      BY <2>5, <2>6, <3>1, <3>2
    <3>5. RingBuffers' = RingBuffers \cup {g} /\ \A b \in RingBuffers : Aheads'[b] = Aheads[b]
      BY <3>3, <3>4
    <3>6. g = m_current_itr' /\ Aheads'[g] = Aheads[m_current_itr] + 1
      BY <2>3, <3>2, <3>3, <3>4
    <3> QED
      BY <1>3, <3>2, <3>5, <3>6, OrderMoved
  <2>9. CASE AppendNew(NextLine)
    <3>1. PICK g : g = m_current_itr'
      OBVIOUS
    <3>2. /\ g \in Buffers \ RingBuffers /\ Range(m_buffers') = RingBuffers \cup {g}
          /\ \A b \in RingBuffers : StepsIn(m_buffers', m_next_to_flush, b) = Distance(m_next_to_flush, b)
          /\ StepsIn(m_buffers', m_next_to_flush, g) = Len(m_buffers)
          /\ After(f) = m_next_to_flush /\ Store(g, NextLine)
      BY <2>3, <2>9, <3>1, NewBuffer
    <3>3. Aheads[f] = Len(m_buffers) - 1
      <4>1. Aheads[f] + 1 # 0
        BY <2>4
      <4> QED
        BY <2>5, <2>6, <3>2, <4>1
    <3>4. PICK q : q = m_buffers'
      OBVIOUS
    <3>5. Aheads' = [b \in Range(q) |-> StepsIn(q, m_next_to_flush, b)]
      BY <1>1, <3>4, AheadsAre DEF AheadsIn
    <3>6. ASSUME NEW b \in RingBuffers PROVE Aheads'[b] = Aheads[b]
      <4>1. Aheads'[b] = Distance(m_next_to_flush, b)
        BY <3>2, <3>4, <3>5
      <4> QED
        BY <4>1 DEF Aheads
    <3>7. Aheads'[g] = Len(m_buffers)
      BY <3>2, <3>4, <3>5
    <3>8. Aheads'[g] = Aheads[m_current_itr] + 1
      BY <2>3, <2>4, <3>3, <3>7
    <3>9. RingBuffers' = RingBuffers \cup {g}
      BY <3>2 DEF RingBuffers
    <3> QED
      BY <1>3, <3>1, <3>2, <3>6, <3>8, <3>9, OrderMoved
  <2>10. CASE AppendDrops(NextLine)
    BY <2>10 DEF AppendDrops
  <2> QED
    BY <1>1, <2>7, <2>8, <2>9, <2>10
<1> QED
  BY <1>2, <1>3

\* The backend's steps that write and empty nothing.
LEMMA OrderWaits ==
  ASSUME TypeOK, BackendInRing, InOrder, Check \/ Awake \/ Measure \/ Rotate
  PROVE  InOrder'
<1>1. UNCHANGED <<m_buffers, data, m_current_itr, m_next_to_flush, accepted>>
  BY DEF Check, Awake, Measure, Rotate, history
<1>2. /\ pc \in {"check", "waiting", "measure", "rotate"}
      /\ pc' \in {"check", "waiting", "measure", "flush", "final"}
  BY DEF Check, Awake, Measure, Rotate
<1>3. RingBuffers' = RingBuffers /\ Aheads' = Aheads
  BY <1>1, SameRing
<1>4. CurrentInRing /\ BackendBehind
  BY <1>2 DEF InOrder
<1>5. RingSound
  BY RingIsSound
<1>6. /\ m_current_itr \in RingBuffers /\ m_next_to_flush \in RingBuffers /\ Aheads[m_next_to_flush] = 0
      /\ \A x \in RingBuffers : Aheads[x] \in Nat
  <2>1. \A x \in RingBuffers : Aheads[x] \in 0..(Len(m_buffers) - 1)
    BY <1>5 DEF RingSound
  <2>2. \A x \in RingBuffers : Aheads[x] \in Nat
    BY <2>1
  <2> QED
    BY <1>4, <1>5, <2>2 DEF RingSound, CurrentInRing, RingBuffers
<1>7. Written' = Written
  <2>1. CASE UNCHANGED <<m_file, closed>>
    BY <2>1 DEF Written
  <2>2. CASE closed' = closed \o m_file /\ m_file' = <<>>
    <3>1. closed \in Seq(Line) /\ m_file \in Seq(Line)
      BY DEF TypeOK
    <3>2. (closed \o m_file) \o <<>> = closed \o m_file
      BY <3>1
    <3> QED
      BY <2>2, <3>2 DEF Written
  <2> QED
    BY <2>1, <2>2 DEF Check, Awake, Measure, Rotate, file_vars
<1>8. Unwritten' = Unwritten /\ BackendBehind'
  <2>1. CASE Check \/ Awake
    <3>1. /\ pc \in {"check", "waiting"} /\ pc' \in {"waiting", "measure"} /\ cur' = m_current_itr
      BY <2>1 DEF Check, Awake
    <3>2. Unwritten' = Unwritten
      BY <1>1, <3>1 DEF Unwritten
    <3>3. Aheads[m_current_itr] <= Aheads[m_current_itr]
      BY <1>6
    <3>4. BackendBehind'
      BY <1>1, <1>3, <3>1, <3>3 DEF BackendBehind
    <3> QED
      BY <3>2, <3>4
  <2>2. CASE Measure
    <3>1. pc = "measure" /\ pc' = "flush" /\ next_to_flush' = m_next_to_flush /\ cur' = cur
      BY <2>2 DEF Measure
    <3>2. Unwritten' = Unwritten
      BY <3>1 DEF Unwritten
    <3>3. cur \in RingBuffers /\ Aheads[cur] <= Aheads[m_current_itr]
      BY <1>4, <3>1 DEF BackendInRing, BackendBehind
    <3>4. Aheads[m_next_to_flush] <= Aheads[cur]
      BY <1>6, <3>3
    <3>5. BackendBehind'
      BY <1>1, <1>3, <3>1, <3>3, <3>4 DEF BackendBehind
    <3> QED
      BY <3>2, <3>5
  <2>3. CASE Rotate
    <3>1. pc = "rotate" /\ pc' \in {"check", "final"}
      BY <2>3 DEF Rotate
    <3>2. Unwritten' = Unwritten
      BY <1>1, <3>1 DEF Unwritten
    <3>3. BackendBehind'
      BY <3>1 DEF BackendBehind
    <3> QED
      BY <3>2, <3>3
  <2> QED
    BY <2>1, <2>2, <2>3
<1> QED
  BY <1>1, <1>2, <1>7, <1>8, OrderSame

\* And those that write a buffer, or find that there is no other.
LEMMA OrderFlush ==
  ASSUME TypeOK, BackendInRing, EachOnce, InOrder, Flush \/ FlushLast
  PROVE  InOrder'
<1>1. UNCHANGED <<m_buffers, data, m_current_itr, m_next_to_flush, cur, next_to_flush, accepted>>
  BY DEF Flush, FlushLast, history
<1>2. pc \in {"flush", "flush_last"}
  BY DEF Flush, FlushLast
<1>3. RingBuffers' = RingBuffers /\ Aheads' = Aheads
  BY <1>1, SameRing
<1>4. CurrentInRing /\ BackendBehind
  BY <1>2 DEF InOrder
<1>5. PICK b : b = next_to_flush
  OBVIOUS
<1>6. b \in Buffers /\ b \in RingBuffers
  BY <1>2, <1>5 DEF TypeOK, BackendInRing
<1>7. ASSUME pc' \in {"reset", "reset_last"}, WriteOut(b), BackendBehind', b # m_current_itr, Unwritten = b
      PROVE  InOrder'
  <2>1. Written' = Written \o data[b]
    BY <1>1, <1>2, <1>5, <1>6, <1>7, WriteOnce
  <2>2. Unwritten' = After(next_to_flush)
    <3>1. After(next_to_flush)' = After(next_to_flush)
      BY <1>1 DEF After, Place
    <3> QED
      BY <1>7, <3>1 DEF Unwritten
  <2> QED
    BY <1>1, <1>2, <1>5, <1>7, <2>1, <2>2, OrderWritten
<1>8. CASE Flush
  <2>1. /\ pc = "flush" /\ cur \in RingBuffers /\ m_current_itr \in RingBuffers
        /\ Aheads[b] <= Aheads[cur] /\ Aheads[cur] <= Aheads[m_current_itr]
    BY <1>4, <1>5, <1>8 DEF Flush, BackendInRing, BackendBehind, CurrentInRing, RingBuffers
  <2>2. Unwritten = b
    BY <1>5, <2>1 DEF Unwritten
  <2>3. CASE next_to_flush = cur
    <3>1. pc' = "relock" /\ Written' = Written
      BY <1>8, <2>3 DEF Flush, file_vars, Written
    <3>2. Unwritten' = Unwritten
      BY <1>1, <2>1, <3>1 DEF Unwritten
    <3>3. BackendBehind'
      BY <1>1, <1>3, <2>1, <3>1 DEF BackendBehind
    <3> QED
      BY <1>1, <2>1, <3>1, <3>2, <3>3, OrderSame
  <2>4. CASE next_to_flush # cur
    <3>1. pc' = "reset" /\ WriteOut(b)
      BY <1>5, <1>8, <2>4 DEF Flush
    <3>2. /\ \A x \in RingBuffers : Aheads[x] \in 0..(Len(m_buffers) - 1)
          /\ \A x, y \in RingBuffers : Aheads[x] = Aheads[y] => x = y
      BY RingIsSound DEF RingSound
    <3>3. Aheads[b] < Aheads[cur]
      <4>1. Aheads[b] # Aheads[cur] /\ Aheads[b] \in Int /\ Aheads[cur] \in Int
        BY <1>5, <1>6, <2>1, <2>4, <3>2
      <4> QED
        BY <2>1, <4>1
    <3>4. b # m_current_itr
      <4>1. Aheads[b] \in Int /\ Aheads[cur] \in Int /\ Aheads[m_current_itr] \in Int
        BY <1>6, <2>1, <3>2
      <4>2. Aheads[b] # Aheads[m_current_itr]
        BY <2>1, <3>3, <4>1
      <4> QED
        BY <4>2
    <3>5. BackendBehind'
      BY <1>1, <1>3, <1>5, <2>1, <3>1, <3>3 DEF BackendBehind
    <3> QED
      BY <1>7, <2>2, <3>1, <3>4, <3>5
  <2> QED
    BY <2>3, <2>4
<1>9. CASE FlushLast
  <2>1. pc = "flush_last" /\ pc' = "reset_last" /\ WriteOut(b)
    BY <1>5, <1>9 DEF FlushLast
  <2>2. b = m_next_to_flush /\ m_current_itr # m_next_to_flush /\ Unwritten = b
    BY <1>4, <1>5, <2>1 DEF BackendInRing, BackendBehind, Unwritten
  <2>3. BackendBehind'
    BY <1>1, <2>1, <2>2 DEF BackendBehind
  <2> QED
    BY <1>7, <2>1, <2>2, <2>3
<1> QED
  BY <1>8, <1>9

LEMMA OrderBackend ==
  ASSUME TypeOK, BackendInRing, EachOnce, InOrder, Backend, TypeOK', BackendInRing'
  PROVE  InOrder'
<1>1. CASE Check \/ Awake \/ Measure \/ Rotate
  BY <1>1, OrderWaits
<1>2. CASE Flush \/ FlushLast
  BY <1>2, OrderFlush
<1>3. CASE Reset
  <2>1. /\ pc = "reset" /\ pc' = "flush" /\ next_to_flush' = After(next_to_flush)
        /\ UNCHANGED <<m_buffers, m_current_itr, m_next_to_flush, cur>>
    BY <1>3 DEF Reset
  <2>2. Aheads' = Aheads
    BY <2>1, SameRing
  <2>3. /\ BackendBehind /\ next_to_flush \in RingBuffers /\ cur \in RingBuffers /\ m_current_itr \in RingBuffers
    BY <2>1 DEF InOrder, BackendInRing, CurrentInRing, RingBuffers
  <2>4. Aheads[next_to_flush] < Aheads[cur] /\ Aheads[cur] <= Aheads[m_current_itr]
    BY <2>1, <2>3 DEF BackendBehind
  <2>5. /\ \A x \in RingBuffers : Aheads[x] \in 0..(Len(m_buffers) - 1)
        /\ Aheads[After(next_to_flush)] =
             IF Aheads[next_to_flush] = Len(m_buffers) - 1 THEN 0 ELSE Aheads[next_to_flush] + 1
    BY <2>3, RingIsSound DEF RingSound
  <2>6. Aheads[After(next_to_flush)] <= Aheads[cur]
    BY <2>3, <2>4, <2>5
  <2>7. BackendBehind'
    BY <2>1, <2>2, <2>4, <2>6 DEF BackendBehind
  <2> QED
    BY <1>3, <2>7, OrderReset
<1>4. CASE Relock
  BY <1>4, OrderRelock
<1>5. CASE ResetLast
  <2>1. pc = "reset_last" /\ pc' = "advance" /\ UNCHANGED <<m_current_itr, m_next_to_flush>>
    BY <1>5 DEF ResetLast
  <2>2. m_current_itr # m_next_to_flush
    BY <2>1 DEF InOrder, BackendBehind
  <2>3. BackendBehind'
    BY <2>1, <2>2 DEF BackendBehind
  <2> QED
    BY <1>5, <2>3, OrderResetLast
<1>6. CASE Advance
  BY <1>6, OrderAdvance
<1>7. CASE Final
  BY <1>7, OrderFinal
<1> QED
  BY <1>1, <1>2, <1>3, <1>4, <1>5, <1>6, <1>7 DEF Backend

LEMMA OrderInit == Init => InOrder
<1> SUFFICES ASSUME Init PROVE InOrder
  OBVIOUS
<1>1. /\ m_buffers = [i \in 1..4 |-> i] /\ data = [b \in Buffers |-> <<>>] /\ m_current_itr = 1
      /\ m_next_to_flush = 1 /\ pc = "check" /\ accepted = <<>> /\ m_file = <<>> /\ closed = <<>>
  BY DEF Init, Initial
<1>2. CurrentInRing
  <2>1. 1 \in DOMAIN m_buffers /\ m_buffers[1] = 1
    BY <1>1
  <2> QED
    BY <1>1, <2>1 DEF CurrentInRing, Range
<1>3. Written = <<>> /\ Len(Written) = 0 /\ Len(accepted) = 0
  BY <1>1 DEF Written
<1>4. Written = SubSeq(accepted, 1, Len(Written)) /\ Len(Written) <= Len(accepted)
  BY <1>1, <1>3
<1>5. BackendBehind /\ NoneLeft
  BY <1>1 DEF BackendBehind, NoneLeft
<1>6. PICK start : start = [b \in Buffers |-> 0]
  OBVIOUS
<1>7. start \in [Buffers -> Nat] /\ 1 \in Buffers /\ Unwritten = 1
  BY <1>1, <1>6, SizesAssumption DEF Buffers, Initial, Unwritten
<1>8. Pending \subseteq Buffers
  <2>1. Range(m_buffers) \subseteq 1..4
    BY <1>1 DEF Range
  <2>2. 1..4 \subseteq Buffers
    BY SizesAssumption DEF Buffers, Initial
  <2> QED
    BY <2>1, <2>2 DEF Pending, Stretch, Aheads, RingBuffers
<1>9. \A b \in Buffers : start[b] = 0 /\ data[b] = <<>> /\ Len(data[b]) = 0
  BY <1>1, <1>6
<1>10. Pieces(Pending, Aheads, data, accepted, start)
  <2>1. SubSeq(accepted, 0 + 1, 0 + 0) = <<>> /\ 0 + 0 <= Len(accepted) /\ 0 = 0 + 0
    BY <1>1, <1>3
  <2> QED
    BY <1>8, <1>9, <2>1 DEF Pieces
<1>11. Consecutive(start)
  BY <1>1, <1>3, <1>7, <1>9, <1>10 DEF Consecutive
<1> QED
  BY <1>2, <1>4, <1>5, <1>7, <1>11 DEF InOrder

\* That a line was dropped is not forgotten.
LEMMA SaturatedStays ==
  ASSUME TypeOK, [Next]_vars, ~saturated'
  PROVE  saturated' = FALSE /\ saturated = FALSE
<1>1. saturated \in BOOLEAN
  BY DEF TypeOK
<1>2. saturated' \in {saturated, TRUE}
  <2>1. CASE AppendLine
    <3>1. AppendHere(NextLine) \/ AppendNext(NextLine) \/ AppendNew(NextLine) \/ AppendDrops(NextLine)
      BY <2>1, AppendTakesALine
    <3> QED
      BY <3>1 DEF AppendHere, AppendNext, AppendNew, AppendDrops
  <2>2. CASE Backend
    BY <2>2 DEF Backend, Check, Awake, Measure, Flush, Reset, Relock, FlushLast, ResetLast, Advance, Rotate,
                Final, history
  <2>3. CASE Destroy \/ UNCHANGED vars
    BY <2>3 DEF Destroy, vars, history
  <2> QED
    BY <2>1, <2>2, <2>3 DEF Next
<1> QED
  BY <1>1, <1>2

LEMMA OrderStep ==
  ASSUME SafeInv, InOrder, [Next]_vars, SafeInv', ~saturated'
  PROVE  InOrder'
<1>0. TypeOK /\ BackendInRing /\ EachOnce /\ TypeOK' /\ BackendInRing'
  BY DEF SafeInv
<1>1. CASE AppendLine
  BY <1>0, <1>1, OrderAppend
<1>2. CASE Backend
  BY <1>0, <1>2, OrderBackend
<1>3. CASE Destroy \/ UNCHANGED vars
  <2>1. UNCHANGED <<m_buffers, data, m_current_itr, m_next_to_flush, pc, cur, next_to_flush, m_file, closed, accepted>>
    BY <1>3 DEF Destroy, vars, backend_vars, file_vars, history
  <2>2. RingBuffers' = RingBuffers /\ Aheads' = Aheads /\ \A b : After(b)' = After(b)
    BY <2>1, SameRing
  <2>3. Written' = Written /\ Unwritten' = Unwritten
    BY <2>1, <2>2 DEF Written, Unwritten
  <2>4. Pending' = Pending
    BY <2>1, <2>2, <2>3 DEF Pending, Stretch
  <2>5. CurrentInRing' /\ Written' = SubSeq(accepted', 1, Len(Written')) /\ Len(Written') <= Len(accepted')
    BY <2>1, <2>3 DEF InOrder, CurrentInRing
  <2>6. CASE pc = "done"
    BY <2>1, <2>5, <2>6 DEF InOrder
  <2>7. CASE pc # "done"
    <3>1. PICK start \in [Buffers -> Nat] : Consecutive(start)
      BY <2>7 DEF InOrder
    <3>2. Consecutive(start)'
      BY <2>1, <2>2, <2>3, <2>4, <3>1 DEF Consecutive
    <3>3. BackendBehind' /\ NoneLeft'
      BY <2>1, <2>2, <2>4, <2>7 DEF InOrder, BackendBehind, NoneLeft, BeingEmptied
    <3> QED
      BY <2>5, <3>1, <3>2, <3>3 DEF InOrder
  <2> QED
    BY <2>6, <2>7
<1> QED
  BY <1>1, <1>2, <1>3 DEF Next

LEMMA LoggingInit == Init => IInv
BY SafeInit, OrderInit DEF IInv

LEMMA LoggingStep == IInv /\ [Next]_vars => IInv'
<1> SUFFICES ASSUME IInv, [Next]_vars PROVE IInv'
  OBVIOUS
<1>1. SafeInv /\ TypeOK
  BY DEF IInv, SafeInv
<1>2. SafeInv'
  BY <1>1, SafeStep
<1>3. ASSUME ~saturated' PROVE InOrder'
  <2>1. ~saturated
    BY <1>1, <1>3, SaturatedStays
  <2> QED
    BY <1>1, <1>2, <1>3, <2>1, OrderStep DEF IInv
<1> QED
  BY <1>2, <1>3 DEF IInv

-----------------------------------------------------------------------------
(* The theorems.                                                           *)

LEMMA NoLineLost == IInv => NothingLost
<1> SUFFICES ASSUME IInv PROVE NothingLost
  OBVIOUS
<1>1. TypeOK /\ BackendInRing /\ IsInjective(Written)
  BY DEF IInv, SafeInv, EachOnce
<1>2. ASSUME ~saturated PROVE Written \o Waiting = accepted
  <2>1. InOrder
    BY <1>2 DEF IInv
  <2> QED
    BY <1>1, <2>1, WaitingIs, WrittenAndTheRest
<1> QED
  BY <1>1, <1>2 DEF NothingLost

\* As long as append() finds room each line it took is in the log file or in the
\* ring, in the order of the calls and once, however the calls fall between the
\* backend's steps without the lock; and dropped lines or not, no line is written
\* twice: for every size of the buffers and of the ring and every length of lines.
THEOREM NoLineIsLost == Spec => []NothingLost
<1>1. IInv => NothingLost
  BY NoLineLost
<1> QED
  BY <1>1, LoggingInit, LoggingStep, PTL DEF Spec

LEMMA EmptyAhead == IInv => RingInOrder
<1> SUFFICES ASSUME IInv, ~saturated
             PROVE  /\ CurrentInRing
                    /\ pc # "done" /\ After(m_current_itr) # m_next_to_flush =>
                         \A b \in Range(Between(After(m_current_itr), m_next_to_flush)) : data[b] = <<>>
  BY DEF RingInOrder
<1>1. TypeOK /\ BackendInRing /\ InOrder /\ CurrentInRing
  BY DEF IInv, SafeInv, InOrder
<1>2. SUFFICES ASSUME pc # "done", After(m_current_itr) # m_next_to_flush,
                      NEW b \in Range(Between(After(m_current_itr), m_next_to_flush))
               PROVE  data[b] = <<>>
  BY <1>1
<1>3. BackendBehind /\ NoneLeft
  BY <1>1, <1>2 DEF InOrder
<1>4. RingSound /\ UnwrittenBehind
  BY <1>1, <1>2, <1>3, RingIsSound, UnwrittenIsBehind
<1>5. PICK A : A = Aheads
  OBVIOUS
<1>6. PICK n \in Nat : n = Len(m_buffers)
  BY <1>4 DEF RingSound
<1>7. PICK f, e, m : f = m_current_itr /\ e = After(f) /\ m = m_next_to_flush
  OBVIOUS
<1>8. /\ f \in RingBuffers /\ m \in RingBuffers /\ e \in RingBuffers /\ RingBuffers \subseteq Buffers /\ A[m] = 0
      /\ \A x \in RingBuffers : A[x] \in 0..(n - 1)
      /\ \A x, y \in RingBuffers : A[x] = A[y] => x = y
      /\ A[e] = IF A[f] = n - 1 THEN 0 ELSE A[f] + 1
      /\ \A x, y \in RingBuffers : Distance(x, y) = IF A[x] <= A[y] THEN A[y] - A[x] ELSE A[y] + n - A[x]
      /\ \A x \in Pending : A[x] <= A[f]
      /\ A[Unwritten] <= A[f]
      /\ \A x : BeingEmptied(x) => A[Unwritten] = A[x] + 1
  BY <1>4, <1>5, <1>6, <1>7, Zenon DEF RingSound, UnwrittenBehind
<1>9. A[e] = A[f] + 1 /\ A[f] \in Nat
  <2>1. A[e] # 0
    BY <1>2, <1>7, <1>8
  <2>2. A[f] \in 0..(n - 1)
    BY <1>8
  <2> QED
    BY <1>8, <2>1, <2>2
<1>10. PICK i \in 1..Distance(e, m) : b = Between(e, m)[i]
  <2>1. Between(e, m) \in [1..Distance(e, m) -> RingBuffers]
    BY <1>1, <1>8, BetweenBuffers DEF BackendInRing
  <2> QED
    BY <1>2, <1>7, <2>1 DEF Range
<1>11. b \in RingBuffers /\ Distance(e, b) = i - 1
  <2>1. PICK k, s : k = Distance(e, m) /\ s = Between(e, m)
    OBVIOUS
  <2>2. s \in [1..k -> RingBuffers] /\ \A j \in 1..k : Distance(e, s[j]) = j - 1
    <3>1. Len(m_buffers) >= Initial /\ e \in RingBuffers /\ m \in RingBuffers /\ TypeOK
      BY <1>1, <1>8 DEF BackendInRing
    <3> QED
      BY <2>1, <3>1, BetweenBuffers
  <2>3. i \in 1..k /\ b = s[i]
    BY <1>10, <2>1
  <2> QED
    BY <2>2, <2>3
<1>12. A[b] > A[f]
  <2>1. A[b] \in 0..(n - 1) /\ A[e] \in 0..(n - 1)
    BY <1>8, <1>11
  <2>2. Distance(e, m) = n - A[e]
    <3>1. Distance(e, m) = IF A[e] <= A[m] THEN A[m] - A[e] ELSE A[m] + n - A[e]
      BY <1>8
    <3> QED
      BY <1>8, <1>9, <3>1
  <2>3. i - 1 = IF A[e] <= A[b] THEN A[b] - A[e] ELSE A[b] + n - A[e]
    BY <1>8, <1>11
  <2>4. i \in Int /\ i <= n - A[e]
    BY <1>8, <2>1, <2>2
  <2>5. A[e] <= A[b]
    BY <2>1, <2>3, <2>4
  <2> QED
    BY <1>9, <2>1, <2>5
<1>13. b \notin Pending /\ ~BeingEmptied(b) /\ b \in Buffers
  <2>1. A[b] \in Int /\ A[f] \in Int
    <3>1. A[b] \in 0..(n - 1) /\ A[f] \in Nat
      BY <1>8, <1>9, <1>11
    <3> QED
      BY <3>1
  <2>2. ~(A[b] <= A[f]) /\ ~(A[b] + 1 <= A[f])
    BY <1>12, <2>1
  <2> QED
    BY <1>8, <1>11, <2>2
<1> QED
  BY <1>3, <1>13 DEF NoneLeft

\* Until a line is dropped append() has a buffer of the ring to write to, and the
\* buffers between it and the one to flush next are empty, so that it may go on to
\* the next one without looking whether a line fits: for every number of buffers,
\* the ring growing and shrinking.
THEOREM RingStaysInOrder == Spec => []RingInOrder
<1>1. IInv => RingInOrder
  BY EmptyAhead
<1> QED
  BY <1>1, LoggingInit, LoggingStep, PTL DEF Spec

LEMMA FinalWritesAll ==
  ASSUME IInv, Final, ~saturated, After(m_current_itr) # m_next_to_flush
  PROVE  closed \o m_file' = accepted
<1>1. TypeOK /\ BackendInRing /\ InOrder
  BY DEF IInv, SafeInv
<1>2. Written' = accepted
  BY <1>1, OrderFinal
<1>3. closed' = closed
  BY DEF Final
<1> QED
  BY <1>2, <1>3 DEF Written

\* When the backend ends, the last flush writes all lines that are left, unless
\* every buffer of the ring is in use.
THEOREM LastFlushWritesAll == Spec => LastFlush
<1>1. IInv /\ [Next]_vars =>
        [Final /\ ~saturated /\ After(m_current_itr) # m_next_to_flush => closed \o m_file' = accepted]_vars
  BY FinalWritesAll
<1> QED
  BY <1>1, LoggingInit, LoggingStep, PTL DEF Spec, LastFlush

\* What waits, seen before and after a step.
WaitingSound == Waiting = SubSeq(accepted, Len(Written) + 1, Len(accepted))

LEMMA WaitingIsSound == TypeOK /\ BackendInRing /\ InOrder => WaitingSound
BY WaitingIs DEF WaitingSound

LEMMA WaitingStaysSound == (TypeOK /\ BackendInRing /\ InOrder)' => WaitingSound'
BY WaitingIsSound, PTL

\* No step but append() accepts a line, and the log file only gets longer.
LEMMA FileGetsLonger ==
  ASSUME SafeInv, InOrder, [Next]_vars, ~AppendLine
  PROVE  accepted' = accepted /\ Len(Written') >= Len(Written)
<1>1. TypeOK /\ BackendInRing /\ EachOnce
  BY DEF SafeInv
<1>2. Len(Written) \in Nat /\ Written \in Seq(Line)
  BY <1>1, WrittenIsSeq
<1>3. CASE Check \/ Awake \/ Measure \/ Reset \/ Relock \/ ResetLast \/ Advance \/ Destroy \/ UNCHANGED vars
  <2>1. UNCHANGED <<m_file, closed, accepted>>
    BY <1>3 DEF Check, Awake, Measure, Reset, Relock, ResetLast, Advance, Destroy, vars, file_vars, history
  <2> QED
    BY <1>2, <2>1 DEF Written
<1>4. CASE Flush \/ FlushLast
  <2>1. /\ pc \in {"flush", "flush_last"} /\ next_to_flush \in Buffers
        /\ UNCHANGED <<data, accepted, next_to_flush>>
    BY <1>1, <1>4 DEF Flush, FlushLast, TypeOK, history
  <2>2. CASE UNCHANGED file_vars
    BY <1>2, <2>1, <2>2 DEF file_vars, Written
  <2>3. CASE WriteOut(next_to_flush) /\ pc' \in {"reset", "reset_last"}
    <3>1. Written' = Written \o data[next_to_flush]
      BY <1>1, <2>1, <2>3, WriteOnce
    <3>2. data[next_to_flush] \in Seq(Line) /\ Len(data[next_to_flush]) \in Nat
      BY <1>1, <2>1 DEF TypeOK
    <3>3. Len(Written') = Len(Written) + Len(data[next_to_flush])
      BY <1>2, <3>1, <3>2, ConcatProperties
    <3> QED
      BY <1>2, <2>1, <3>2, <3>3
  <2> QED
    BY <1>4, <2>2, <2>3 DEF Flush, FlushLast
<1>5. CASE Rotate
  <2>1. Written' = Written
    <3>1. closed \in Seq(Line) /\ m_file \in Seq(Line)
      BY <1>1 DEF TypeOK
    <3>2. (closed \o m_file) \o <<>> = closed \o m_file
      BY <3>1
    <3> QED
      BY <1>5, <3>2 DEF Rotate, Written
  <2> QED
    BY <1>2, <1>5, <2>1 DEF Rotate, history
<1>6. CASE Final
  <2>1. Written' = accepted \/ Written' = Written
    BY <1>1, <1>6, OrderFinal
  <2>2. Len(Written) <= Len(accepted) /\ accepted' = accepted
    BY <1>6 DEF InOrder, Final, history
  <2> QED
    BY <1>1, <1>2, <2>1, <2>2 DEF TypeOK
<1> QED
  BY <1>3, <1>4, <1>5, <1>6 DEF Next, Backend

\* The rest of a sequence, its first n elements and what comes after them.
LEMMA RestOfSeq ==
  ASSUME NEW S, NEW s \in Seq(S), NEW w \in 0..Len(s), NEW n \in 0..(Len(s) - w), NEW t, t = SubSeq(s, w + 1, Len(s))
  PROVE  /\ t \in Seq(S) /\ Len(t) = Len(s) - w
         /\ SubSeq(t, 1, n) = SubSeq(s, w + 1, w + n)
         /\ SubSeq(t, n + 1, Len(t)) = SubSeq(s, w + n + 1, Len(s))
OBVIOUS

LEMMA LogInit == Init => Log!Init
<1> SUFFICES ASSUME Init PROVE Waiting = <<>> /\ Written = <<>> /\ saturated = FALSE
  BY DEF Log!Init
<1>1. TypeOK /\ BackendInRing /\ InOrder
  BY SafeInit, OrderInit DEF SafeInv
<1>2. Written = <<>> /\ accepted = <<>> /\ saturated = FALSE
  BY DEF Init, Written
<1>3. Waiting = SubSeq(accepted, Len(Written) + 1, Len(accepted))
  BY <1>1, WaitingIs
<1> QED
  BY <1>2, <1>3

LEMMA LogStep ==
  ASSUME IInv, [Next]_vars, IInv'
  PROVE  Log!Next \/ UNCHANGED <<Waiting, Written, saturated>>
<1>1. CASE saturated'
  <2>1. saturated' = TRUE
    BY <1>1 DEF IInv, SafeInv, TypeOK
  <2> QED
    BY <2>1 DEF Log!Next, Log!Fill
<1>2. CASE ~saturated'
  <2>1. saturated' = saturated /\ ~saturated
    BY <1>2, SaturatedStays DEF IInv, SafeInv
  <2>2. SafeInv /\ TypeOK /\ BackendInRing /\ InOrder /\ (TypeOK /\ BackendInRing /\ InOrder)'
    BY <1>2, <2>1 DEF IInv, SafeInv
  <2>3. PICK s, t : s = accepted /\ t = accepted'
    OBVIOUS
  <2>4. PICK v, x : v = Written /\ x = Written'
    OBVIOUS
  <2>5. Waiting = SubSeq(s, Len(v) + 1, Len(s)) /\ Waiting' = SubSeq(t, Len(x) + 1, Len(t))
    BY <2>2, <2>3, <2>4, WaitingIsSound, WaitingStaysSound DEF WaitingSound
  <2>6. /\ s \in Seq(Line) /\ Len(s) \in Nat /\ t \in Seq(Line) /\ Len(t) \in Nat /\ Len(v) \in Nat
        /\ v = SubSeq(s, 1, Len(v)) /\ Len(v) <= Len(s) /\ x = SubSeq(t, 1, Len(x)) /\ Len(x) <= Len(t)
    <3>1. Len(Written) \in Nat /\ accepted \in Seq(Line) /\ accepted' \in Seq(Line)
      BY <2>2, WrittenIsSeq DEF TypeOK
    <3> QED
      BY <2>2, <2>3, <2>4, <3>1 DEF InOrder
  <2>7. CASE AppendLine
    <3>1. /\ NextLine \in Line /\ t = Append(s, NextLine) /\ UNCHANGED <<m_file, closed>>
      BY <2>2, <2>3, <2>7, AppendTakesALine
    <3>2. x = v
      BY <2>4, <3>1 DEF Written
    <3>3. Len(v) + 1 \in 1..(Len(s) + 1)
      BY <2>6
    <3>4. Append(SubSeq(s, Len(v) + 1, Len(s)), NextLine) = SubSeq(Append(s, NextLine), Len(v) + 1, Len(s) + 1)
          /\ Len(Append(s, NextLine)) = Len(s) + 1
      BY <2>6, <3>1, <3>3, AppendedSubSeq
    <3>5. Waiting' = Append(Waiting, NextLine)
      BY <2>5, <3>1, <3>2, <3>4
    <3>6. Log!Accept(NextLine)
      BY <2>4, <3>2, <3>5 DEF Log!Accept
    <3> QED
      BY <2>1, <3>1, <3>6 DEF Log!Next
  <2>8. CASE ~AppendLine
    <3>1. t = s /\ Len(x) >= Len(v)
      BY <2>2, <2>3, <2>4, <2>8, FileGetsLonger
    <3>2. CASE Len(x) = Len(v)
      <4>1. x = v /\ Waiting' = Waiting
        BY <2>5, <2>6, <3>1, <3>2
      <4> QED
        BY <2>1, <2>4, <4>1
    <3>3. CASE Len(x) # Len(v)
      <4>1. PICK w, n : w = Len(v) /\ w + n = Len(x) /\ n > 0 /\ w \in 0..Len(s) /\ n \in 0..(Len(s) - w)
        <5>1. Len(v) \in 0..Len(s) /\ Len(x) - Len(v) \in 0..(Len(s) - Len(v)) /\ Len(x) - Len(v) > 0
              /\ Len(v) + (Len(x) - Len(v)) = Len(x)
          <6>1. \A a, b, c \in Nat : a <= c /\ b <= c /\ b >= a /\ b # a =>
                   a \in 0..c /\ b - a \in 0..(c - a) /\ b - a > 0 /\ a + (b - a) = b
            OBVIOUS
          <6>2. Len(v) \in Nat /\ Len(x) \in Nat /\ Len(s) \in Nat
            <7>1. Written' \in Seq(Line)
              <8>1. closed' \in Seq(Line) /\ m_file' \in Seq(Line)
                BY <2>2 DEF TypeOK
              <8>2. closed' \o m_file' \in Seq(Line)
                BY <8>1, ConcatProperties
              <8> QED
                BY <8>2 DEF Written
            <7> QED
              BY <2>4, <2>6, <7>1, LenProperties
          <6> QED
            BY <2>6, <3>1, <3>3, <6>1, <6>2, Zenon
        <5> QED
          BY <5>1
      <4>2. PICK y : y = SubSeq(s, w + 1, Len(s))
        OBVIOUS
      <4>3. /\ Len(y) = Len(s) - w /\ SubSeq(y, 1, n) = SubSeq(s, w + 1, w + n)
            /\ SubSeq(y, n + 1, Len(y)) = SubSeq(s, w + n + 1, Len(s))
        BY <2>6, <4>1, <4>2, RestOfSeq
      <4>4. Waiting = y /\ Waiting' = SubSeq(y, n + 1, Len(y))
        BY <2>5, <3>1, <4>1, <4>2, <4>3
      <4>5. x = v \o SubSeq(y, 1, n)
        <5>1. 1 \in 1..(Len(s) + 1) /\ w \in (1 - 1)..Len(s) /\ w + n \in w..Len(s)
          BY <2>6, <4>1
        <5>2. SubSeq(s, 1, w) \o SubSeq(s, w + 1, w + n) = SubSeq(s, 1, w + n)
          BY <2>6, <5>1, ConcatAdjacentSubSeq
        <5>3. v = SubSeq(s, 1, w) /\ x = SubSeq(s, 1, w + n)
          BY <2>6, <3>1, <4>1
        <5> QED
          BY <4>3, <5>2, <5>3
      <4>6. n \in 1..Len(y)
        BY <2>6, <4>1, <4>3
      <4>7. Log!Write
        BY <2>4, <4>4, <4>5, <4>6 DEF Log!Write
      <4> QED
        BY <2>1, <4>7 DEF Log!Next
    <3> QED
      BY <3>2, <3>3
  <2> QED
    BY <2>7, <2>8
<1> QED
  BY <1>1, <1>2

\* Until a line is dropped the ring and its two threads implement a log file: every
\* step of append() accepts a line, and every step of the backend writes lines that
\* wait, the first ones first, or does nothing that can be seen.
THEOREM ImplementsLogFile == Spec => WritesLogFile
<1>1. IInv /\ [Next]_vars /\ IInv' => [Log!Next]_<<Waiting, Written, saturated>>
  BY LogStep
<1> QED
  BY <1>1, LogInit, LoggingInit, LoggingStep, PTL DEF Spec, WritesLogFile, Log!Spec
=============================================================================

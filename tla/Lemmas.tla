------------------------------- MODULE Lemmas --------------------------------
(***************************************************************************)
(* Facts about numbers and sequences that the proofs of the components     *)
(* need: the least element of a set of numbers, induction, what is left of *)
(* a sequence when elements are taken out of it, what FlattenSeq makes of  *)
(* sequences, and distances in a ring that grows and shrinks.              *)
(***************************************************************************)
EXTENDS FiniteSetsExt, SequencesExt, FiniteSetTheorems, SequenceTheorems, WellFoundedInduction, TLAPS

-----------------------------------------------------------------------------
(* Numbers.                                                                *)

Less == {p \in Nat \X Nat : p[1] < p[2]}

LEMMA LessIsWellFounded == IsWellFoundedOn(Less, Nat)
<1>1. OpToRel(<, Nat) = Less
  BY DEF OpToRel, Less
<1> QED
  BY <1>1, NatLessThanWellFounded

\* Every nonempty set of numbers has a least element, and it is Min.
LEMMA MinOfNonempty ==
  ASSUME NEW S \in SUBSET Nat, S # {}
  PROVE  Min(S) \in S /\ \A y \in S : Min(S) <= y
<1>1. PICK x \in S : \A y \in S : ~(<<y, x>> \in Less)
  BY LessIsWellFounded, WFMin
<1>2. \A y \in S : y < x => <<y, x>> \in Less
  BY DEF Less
<1>3. \A y \in S : ~(y < x)
  BY <1>1, <1>2, Zenon
<1>4. \A y \in S : x <= y
  BY <1>3
<1> QED
  BY <1>4 DEF Min

\* A remainder after at most one turn.
LEMMA ModOfSum ==
  ASSUME NEW n \in Nat \ {0}, NEW a \in 0..(n - 1), NEW b \in 0..n
  PROVE  (a + b) % n = IF a + b < n THEN a + b ELSE a + b - n
OBVIOUS

-----------------------------------------------------------------------------
(* Sequences.                                                              *)

\* The callbacks that are left are among those there were.
LEMMA HeadAndTail ==
  ASSUME NEW S, NEW seq \in Seq(S), seq # <<>>
  PROVE  Head(seq) \in Range(seq) /\ Range(Tail(seq)) \subseteq Range(seq) /\ Tail(seq) \in Seq(S)
BY DEF Range

LEMMA FunctionIsSeq ==
  ASSUME NEW S, NEW n \in Nat, NEW seq \in [1..n -> S]
  PROVE  seq \in Seq(S)
OBVIOUS

\* Without its element i a sequence has the others, moved up behind it.
LEMMA RemoveAtMovesUp ==
  ASSUME NEW S, NEW seq \in Seq(S), NEW i \in 1..Len(seq)
  PROVE  /\ RemoveAt(seq, i) \in Seq(S)
         /\ Len(RemoveAt(seq, i)) = Len(seq) - 1
         /\ \A j \in 1..(Len(seq) - 1) :
              RemoveAt(seq, i)[j] = IF j < i THEN seq[j] ELSE seq[j + 1]
<1>. DEFINE before == SubSeq(seq, 1, i - 1)
            after == SubSeq(seq, i + 1, Len(seq))
<1>1. before \in Seq(S) /\ Len(before) = i - 1 /\ \A j \in 1..(i - 1) : before[j] = seq[j]
  OBVIOUS
<1>2. after \in Seq(S) /\ Len(after) = Len(seq) - i
  OBVIOUS
<1>3. \A j \in 1..(Len(seq) - i) : after[j] = seq[i + j]
  OBVIOUS
<1>4. RemoveAt(seq, i) = before \o after
  BY DEF RemoveAt
<1>. HIDE DEF before, after
<1>5. RemoveAt(seq, i) \in Seq(S) /\ Len(RemoveAt(seq, i)) = Len(seq) - 1
  <2>1. before \o after \in Seq(S)
    BY <1>1, <1>2
  <2>2. Len(before \o after) = Len(before) + Len(after)
    BY <1>1, <1>2
  <2>3. Len(before) + Len(after) = Len(seq) - 1
    BY <1>1, <1>2
  <2> QED
    BY <1>4, <2>1, <2>2, <2>3
<1>6. ASSUME NEW j \in 1..(Len(seq) - 1), j < i PROVE (before \o after)[j] = seq[j]
  <2>1. j \in 1..Len(before) /\ j \in 1..(i - 1)
    BY <1>1, <1>6
  <2>2. (before \o after)[j] = before[j]
    BY <1>1, <1>2, <2>1
  <2> QED
    BY <1>1, <2>1, <2>2
<1>7. ASSUME NEW j \in 1..(Len(seq) - 1), ~(j < i) PROVE (before \o after)[j] = seq[j + 1]
  <2>1. (before \o after)[j] = after[j - (i - 1)]
    BY <1>1, <1>2, <1>7
  <2>2. j - (i - 1) \in 1..(Len(seq) - i) /\ i + (j - (i - 1)) = j + 1
    BY <1>7
  <2> QED
    BY <1>3, <2>1, <2>2
<1> QED
  BY <1>4, <1>5, <1>6, <1>7

\* xy joins x and y.
IsJoin(S, xy, x, y) == x \in Seq(S) /\ y \in Seq(S) /\ xy = x \o y

\* Three sequences are joined in either order.
LEMMA JoinThree ==
  ASSUME NEW S, NEW x, NEW y, NEW z, NEW xy, NEW yz, NEW xyz,
         IsJoin(S, xy, x, y), IsJoin(S, yz, y, z), IsJoin(S, xyz, xy, z)
  PROVE  IsJoin(S, xyz, x, yz)
<1>1. /\ x \in Seq(S) /\ y \in Seq(S) /\ z \in Seq(S) /\ xy \in Seq(S) /\ yz \in Seq(S)
      /\ xy = x \o y /\ yz = y \o z
  BY DEF IsJoin
<1>2. PICK l, r : l = xy \o z /\ r = x \o yz
  OBVIOUS
<1>3. l \in Seq(S) /\ r \in Seq(S)
  BY <1>1, <1>2
<1>4. Len(l) = Len(r)
  BY <1>1, <1>2
<1>5. ASSUME NEW i \in 1..Len(l) PROVE l[i] = r[i]
  BY <1>1, <1>2
<1>6. l = r
  BY <1>3, <1>4, <1>5, SeqEqual
<1> QED
  BY <1>1, <1>2, <1>6 DEF IsJoin

LEMMA JoinApart ==
  ASSUME NEW S, NEW x, NEW y, NEW z, NEW xy, NEW yz, NEW xyz,
         IsJoin(S, xy, x, y), IsJoin(S, yz, y, z), IsJoin(S, xyz, x, yz)
  PROVE  IsJoin(S, xyz, xy, z)
<1>1. PICK w : w = xy \o z
  OBVIOUS
<1>2. xy \in Seq(S) /\ z \in Seq(S)
  BY ConcatProperties DEF IsJoin
<1>3. IsJoin(S, w, xy, z)
  BY <1>1, <1>2 DEF IsJoin
<1>4. IsJoin(S, w, x, yz)
  BY <1>3, JoinThree, Zenon
<1>5. w = xyz
  BY <1>4, Zenon DEF IsJoin
<1> QED
  BY <1>3, <1>5

\* Bytes at the front of a stream that begin with a field have it, and what is
\* behind the field is behind it in the stream.
LEMMA TakeFront ==
  ASSUME NEW S, NEW a, NEW b, NEW f, NEW r, NEW ab,
         IsJoin(S, ab, a, b), IsJoin(S, ab, f, r), Len(f) <= Len(a)
  PROVE  SubSeq(a, 1, Len(f)) = f /\ IsJoin(S, r, SubSeq(a, Len(f) + 1, Len(a)), b)
<1>. a \in Seq(S) /\ b \in Seq(S) /\ f \in Seq(S) /\ r \in Seq(S) /\ a \o b = f \o r
  BY DEF IsJoin
<1>0. PICK n \in Nat : n = Len(a)
  BY LenProperties
<1>1. PICK k \in 0..n : n = Len(a) /\ k = Len(f)
  BY <1>0, LenProperties
<1>. DEFINE p == SubSeq(a, 1, k)
            q == SubSeq(a, k + 1, n)
<1>2. p \in Seq(S) /\ q \in Seq(S) /\ Len(p) = k
  BY <1>1
<1>3. p \o q = a
  <2>1. 1 \in 1..(Len(a) + 1) /\ k \in (1 - 1)..Len(a) /\ n \in k..Len(a)
    BY <1>1
  <2>2. p \o q = SubSeq(a, 1, n)
    BY <2>1, ConcatAdjacentSubSeq
  <2> QED
    BY <1>1, <2>2, SubSeqFull
<1>4. p = f
  <2>1. ASSUME NEW i \in 1..k PROVE p[i] = f[i]
    <3>1. (a \o b)[i] = a[i] /\ (f \o r)[i] = f[i] /\ p[i] = a[i]
      BY <1>1
    <3> QED
      BY <3>1
  <2> QED
    BY <1>1, <1>2, <2>1, SeqEqual
<1>. HIDE DEF p, q
<1>5. PICK qb : qb = q \o b /\ qb \in Seq(S)
  BY <1>2, ConcatProperties
<1>6. a \o b = p \o qb
  <2>1. IsJoin(S, a, p, q) /\ IsJoin(S, qb, q, b) /\ IsJoin(S, a \o b, a, b)
    BY <1>2, <1>3, <1>5 DEF IsJoin
  <2>2. IsJoin(S, a \o b, p, qb)
    BY <2>1, JoinThree, Zenon
  <2> QED
    BY <2>2 DEF IsJoin
<1>7. qb = r
  <2>1. f \o qb = f \o r
    BY <1>4, <1>6
  <2> QED
    BY <1>5, <2>1, ConcatSimplifications, Zenon
<1> QED
  BY <1>1, <1>2, <1>4, <1>5, <1>7 DEF p, q, IsJoin

-----------------------------------------------------------------------------
(* Induction, with sets in the place of predicates.                        *)

LEMMA AllNumbers ==
  ASSUME NEW S \in SUBSET Nat, 0 \in S, \A n \in S : n + 1 \in S
  PROVE  S = Nat
<1> SUFFICES ASSUME Nat \ S # {} PROVE FALSE
  OBVIOUS
<1>. DEFINE x == Min(Nat \ S)
<1>1. x \in Nat \ S /\ \A y \in Nat \ S : x <= y
  BY MinOfNonempty
<1>. HIDE DEF x
<1>2. x # 0 /\ x - 1 \in Nat
  BY <1>1
<1>3. x - 1 \in S
  BY <1>1, <1>2
<1> QED
  BY <1>1, <1>2, <1>3

\* What holds of the first and goes on to the next holds of all up to n.
LEMMA UpTo ==
  ASSUME NEW n \in Nat, NEW S, 1 \in S, \A i \in 1..n : i \in S /\ i + 1 \in 1..n => i + 1 \in S
  PROVE  1..n \subseteq S
<1>. DEFINE T == {k \in Nat : k + 1 \in 1..n => k + 1 \in S}
<1>1. 0 \in T
  OBVIOUS
<1>2. ASSUME NEW k \in T PROVE k + 1 \in T
  <2> SUFFICES ASSUME (k + 1) + 1 \in 1..n PROVE (k + 1) + 1 \in S
    OBVIOUS
  <2>1. k + 1 \in 1..n
    OBVIOUS
  <2> QED
    BY <2>1
<1>3. T = Nat
  <2>. HIDE DEF T
  <2>1. T \in SUBSET Nat
    BY DEF T
  <2> QED
    BY <1>1, <1>2, <2>1, AllNumbers
<1>4. ASSUME NEW i \in 1..n PROVE i \in S
  <2>1. i - 1 \in Nat /\ (i - 1) + 1 = i
    OBVIOUS
  <2>2. i - 1 \in T
    BY <1>3, <2>1
  <2> QED
    BY <2>1, <2>2
<1> QED
  BY <1>4

-----------------------------------------------------------------------------
(* FlattenSeq.                                                             *)

\* What the first i sequences make, for i up to k.
Joins(g, seqs, k) == \A i \in 1..k : g[i] = IF i = 1 THEN seqs[i] ELSE g[i - 1] \o seqs[i]

Joined(g, seqs) == [i \in 1..Len(seqs) |-> IF i = 1 THEN seqs[i] ELSE g[i - 1] \o seqs[i]]

\* The numbers of sequences that can be joined.
Joinable(seqs, S) == {k \in Nat : k <= Len(seqs) => \E g \in [1..k -> Seq(S)] : Joins(g, seqs, k)}

LEMMA JoinableOneMore ==
  ASSUME NEW S, NEW seqs \in Seq(Seq(S)), NEW k \in Joinable(seqs, S)
  PROVE  k + 1 \in Joinable(seqs, S)
<1>1. k \in Nat /\ Len(seqs) \in Nat /\ \A i \in 1..Len(seqs) : seqs[i] \in Seq(S)
  BY DEF Joinable
<1> SUFFICES ASSUME k + 1 <= Len(seqs) PROVE \E g \in [1..(k + 1) -> Seq(S)] : Joins(g, seqs, k + 1)
  BY <1>1 DEF Joinable
<1>2. PICK g \in [1..k -> Seq(S)] : Joins(g, seqs, k)
  BY <1>1 DEF Joinable
<1>3. PICK last \in Seq(S) : last = IF k = 0 THEN seqs[1] ELSE g[k] \o seqs[k + 1]
  <2>1. k + 1 \in 1..Len(seqs) /\ seqs[k + 1] \in Seq(S) /\ seqs[1] \in Seq(S)
    BY <1>1
  <2>2. CASE k = 0
    BY <2>1, <2>2
  <2>3. CASE k # 0
    <3>1. g[k] \in Seq(S)
      BY <1>1, <2>3
    <3> QED
      BY <2>1, <2>3, <3>1, ConcatProperties
  <2> QED
    BY <2>2, <2>3
<1>4. PICK h : h = [i \in 1..(k + 1) |-> IF i = k + 1 THEN last ELSE g[i]]
  OBVIOUS
<1>5. h \in [1..(k + 1) -> Seq(S)] /\ h[k + 1] = last /\ \A i \in 1..k : h[i] = g[i]
  BY <1>1, <1>4
<1>6. ASSUME NEW i \in 1..(k + 1) PROVE h[i] = IF i = 1 THEN seqs[i] ELSE h[i - 1] \o seqs[i]
  <2>1. CASE i = k + 1
    <3>1. k # 0 => k \in 1..k /\ i # 1 /\ i - 1 = k
      BY <1>1, <2>1
    <3> QED
      BY <1>3, <1>5, <2>1, <3>1
  <2>2. CASE i # k + 1
    <3>1. i \in 1..k /\ (i # 1 => i - 1 \in 1..k)
      BY <1>1, <2>2
    <3>2. g[i] = IF i = 1 THEN seqs[i] ELSE g[i - 1] \o seqs[i]
      BY <1>2, <3>1 DEF Joins
    <3> QED
      BY <1>5, <3>1, <3>2
  <2> QED
    BY <2>1, <2>2
<1> QED
  BY <1>5, <1>6 DEF Joins

LEMMA FlattenUnfolds ==
  ASSUME NEW S, NEW seqs \in Seq(Seq(S)), seqs # <<>>
  PROVE  \E g \in [1..Len(seqs) -> Seq(S)] :
           /\ g[1] = seqs[1]
           /\ \A i \in 1..Len(seqs) : i # 1 => g[i] = g[i - 1] \o seqs[i]
           /\ FlattenSeq(seqs) = g[Len(seqs)]
<1>1. PICK n \in Nat : n = Len(seqs) /\ n > 0
  OBVIOUS
<1>2. Joinable(seqs, S) = Nat
  <2>1. PICK g \in [1..0 -> Seq(S)] : TRUE
    <3>1. [i \in 1..0 |-> <<>>] \in [1..0 -> Seq(S)]
      OBVIOUS
    <3> QED
      BY <3>1
  <2>2. 0 \in Joinable(seqs, S)
    <3>1. Joins(g, seqs, 0)
      BY DEF Joins
    <3> QED
      BY <3>1 DEF Joinable
  <2>3. Joinable(seqs, S) \in SUBSET Nat
    BY DEF Joinable
  <2> QED
    BY <2>2, <2>3, JoinableOneMore, AllNumbers
<1>3. PICK g \in [1..n -> Seq(S)] : Joins(g, seqs, n)
  <2>1. n \in Joinable(seqs, S) /\ n <= Len(seqs)
    BY <1>1, <1>2
  <2> QED
    BY <2>1 DEF Joinable
<1>4. g = Joined(g, seqs)
  BY <1>1, <1>3 DEF Joins, Joined
<1>5. PICK h : h = Joined(h, seqs) /\ FlattenSeq(seqs) = h[n]
  <2>1. PICK h : h = (CHOOSE f : f = Joined(f, seqs))
    OBVIOUS
  <2>2. h = Joined(h, seqs)
    BY <1>4, <2>1
  <2>3. FlattenSeq(seqs) = h[n]
    BY <1>1, <2>1 DEF FlattenSeq, Joined
  <2> QED
    BY <2>2, <2>3
<1>6. \A i \in 1..n : h[i] = IF i = 1 THEN seqs[i] ELSE h[i - 1] \o seqs[i]
  BY <1>1, <1>5 DEF Joined
<1>7. \A i \in 1..n : g[i] = IF i = 1 THEN seqs[i] ELSE g[i - 1] \o seqs[i]
  BY <1>3 DEF Joins
<1>10. 1 \in 1..n /\ g[1] = seqs[1] /\ h[1] = seqs[1]
  <2>1. 1 \in 1..n
    BY <1>1
  <2>2. g[1] = IF 1 = 1 THEN seqs[1] ELSE g[1 - 1] \o seqs[1]
    BY <1>7, <2>1, Zenon
  <2>3. h[1] = IF 1 = 1 THEN seqs[1] ELSE h[1 - 1] \o seqs[1]
    BY <1>6, <2>1, Zenon
  <2> QED
    BY <2>1, <2>2, <2>3
<1>8. 1..n \subseteq {i \in 1..n : h[i] = g[i]}
  <2>1. h[1] = g[1] /\ 1 \in 1..n
    BY <1>1, <1>10, Zenon
  <2>2. ASSUME NEW i \in 1..n, h[i] = g[i], i + 1 \in 1..n PROVE h[i + 1] = g[i + 1]
    <3>1. i + 1 # 1 /\ (i + 1) - 1 = i
      OBVIOUS
    <3>2. h[i + 1] = h[i] \o seqs[i + 1] /\ g[i + 1] = g[i] \o seqs[i + 1]
      BY <1>6, <1>7, <2>2, <3>1
    <3> QED
      BY <2>2, <3>2
  <2> QED
    BY <2>1, <2>2, UpTo
<1>9. FlattenSeq(seqs) = g[n]
  BY <1>1, <1>5, <1>8
<1> QED
  BY <1>1, <1>7, <1>9, <1>10

\* A function that joins the sequences one by one ends in FlattenSeq.
LEMMA FlattenIs ==
  ASSUME NEW S, NEW seqs \in Seq(Seq(S)), seqs # <<>>, NEW g,
         g[1] = seqs[1],
         \A i \in 1..Len(seqs) : i # 1 => g[i] = g[i - 1] \o seqs[i]
  PROVE  FlattenSeq(seqs) = g[Len(seqs)]
<1>1. PICK n \in Nat : n = Len(seqs) /\ n > 0
  OBVIOUS
<1>2. PICK h \in [1..n -> Seq(S)] :
        /\ h[1] = seqs[1]
        /\ \A i \in 1..n : i # 1 => h[i] = h[i - 1] \o seqs[i]
        /\ FlattenSeq(seqs) = h[n]
  BY <1>1, FlattenUnfolds
<1>. DEFINE T == {i \in 1..n : g[i] = h[i]}
<1>3. 1 \in T
  BY <1>1, <1>2
<1>4. ASSUME NEW i \in 1..n, i \in T, i + 1 \in 1..n PROVE i + 1 \in T
  <2>1. i + 1 # 1 /\ (i + 1) - 1 = i
    OBVIOUS
  <2>2. g[i + 1] = g[i] \o seqs[i + 1] /\ h[i + 1] = h[i] \o seqs[i + 1]
    BY <1>1, <1>2, <1>4, <2>1
  <2> QED
    BY <1>4, <2>2
<1>5. 1..n \subseteq T
  <2>. HIDE DEF T
  <2> QED
    BY <1>3, <1>4, UpTo
<1>6. n \in T
  BY <1>1, <1>5
<1> QED
  BY <1>1, <1>2, <1>6

LEMMA FlattenNothing == FlattenSeq(<<>>) = <<>>
BY DEF FlattenSeq

LEMMA FlattenIsSeq ==
  ASSUME NEW S, NEW seqs \in Seq(Seq(S))
  PROVE  FlattenSeq(seqs) \in Seq(S)
<1>1. CASE seqs = <<>>
  BY <1>1, FlattenNothing, EmptySeq, Zenon
<1>2. CASE seqs # <<>>
  <2>1. PICK h \in [1..Len(seqs) -> Seq(S)] : FlattenSeq(seqs) = h[Len(seqs)]
    BY <1>2, FlattenUnfolds, Zenon
  <2>2. Len(seqs) \in 1..Len(seqs)
    BY <1>2, EmptySeq
  <2> QED
    BY <2>1, <2>2
<1> QED
  BY <1>1, <1>2

\* One more sequence at the end.
LEMMA FlattenAppend ==
  ASSUME NEW S, NEW seqs \in Seq(Seq(S)), NEW t \in Seq(S)
  PROVE  FlattenSeq(Append(seqs, t)) = FlattenSeq(seqs) \o t
<1>1. PICK n \in Nat : n = Len(seqs)
  OBVIOUS
<1>2. PICK more : more = Append(seqs, t)
  OBVIOUS
<1>3. /\ more \in Seq(Seq(S)) /\ more # <<>> /\ Len(more) = n + 1 /\ more[n + 1] = t
      /\ \A i \in 1..n : more[i] = seqs[i]
  BY <1>1, <1>2, AppendProperties
<1>0. PICK h \in [1..Len(more) -> Seq(S)] :
        /\ h[1] = more[1]
        /\ \A i \in 1..Len(more) : i # 1 => h[i] = h[i - 1] \o more[i]
        /\ FlattenSeq(more) = h[Len(more)]
  BY <1>3, FlattenUnfolds, Zenon
<1>4. /\ h \in [1..(n + 1) -> Seq(S)] /\ h[1] = more[1]
      /\ \A i \in 1..(n + 1) : i # 1 => h[i] = h[i - 1] \o more[i]
      /\ FlattenSeq(more) = h[n + 1]
  BY <1>0, <1>3
<1>5. CASE n = 0
  <2>1. seqs = <<>>
    BY <1>1, <1>5, EmptySeq
  <2>2. FlattenSeq(more) = t
    BY <1>3, <1>4, <1>5
  <2>3. FlattenSeq(seqs) = <<>>
    BY <2>1, FlattenNothing
  <2> QED
    BY <1>2, <2>2, <2>3, ConcatEmptySeq
<1>6. CASE n # 0
  <2>1. seqs # <<>> /\ h[1] = seqs[1]
    BY <1>1, <1>3, <1>4, <1>6
  <2>2. ASSUME NEW i \in 1..n, i # 1 PROVE h[i] = h[i - 1] \o seqs[i]
    <3>1. i \in 1..(n + 1)
      BY <2>2
    <3> QED
      BY <1>3, <1>4, <2>2, <3>1
  <2>3. FlattenSeq(seqs) = h[n]
    BY <1>1, <2>1, <2>2, FlattenIs
  <2>4. n + 1 # 1 /\ (n + 1) - 1 = n /\ n + 1 \in 1..(n + 1)
    BY <1>6
  <2>5. h[n + 1] = h[n] \o more[n + 1]
    BY <1>4, <2>4
  <2> QED
    BY <1>2, <1>3, <1>4, <2>3, <2>5
<1> QED
  BY <1>5, <1>6

\* The first sequence, and the others.
LEMMA FlattenFirst ==
  ASSUME NEW S, NEW seqs \in Seq(Seq(S)), NEW t \in Seq(S), NEW more \in Seq(Seq(S)),
         Len(more) = Len(seqs) + 1, more[1] = t, \A i \in 1..Len(seqs) : more[i + 1] = seqs[i]
  PROVE  FlattenSeq(more) = t \o FlattenSeq(seqs)
<1>1. PICK n \in Nat : n = Len(seqs) /\ Len(more) = n + 1
  OBVIOUS
<1>2. more # <<>>
  BY <1>1
<1>0. PICK h \in [1..Len(more) -> Seq(S)] :
        /\ h[1] = more[1]
        /\ \A i \in 1..Len(more) : i # 1 => h[i] = h[i - 1] \o more[i]
        /\ FlattenSeq(more) = h[Len(more)]
  BY <1>2, FlattenUnfolds, Zenon
<1>3. /\ h \in [1..(n + 1) -> Seq(S)] /\ h[1] = more[1]
      /\ \A i \in 1..(n + 1) : i # 1 => h[i] = h[i - 1] \o more[i]
      /\ FlattenSeq(more) = h[n + 1]
  BY <1>0, <1>1
<1>4. CASE n = 0
  <2>0. seqs = <<>>
    BY <1>1, <1>4, EmptySeq
  <2>1. FlattenSeq(seqs) = <<>>
    BY <2>0, FlattenNothing
  <2> QED
    BY <1>3, <1>4, <2>1, ConcatEmptySeq
<1>5. CASE n # 0
  <2>1. seqs # <<>>
    BY <1>1, <1>5
  <2>2. PICK g \in [1..n -> Seq(S)] :
          /\ g[1] = seqs[1]
          /\ \A i \in 1..n : i # 1 => g[i] = g[i - 1] \o seqs[i]
          /\ FlattenSeq(seqs) = g[n]
    BY <1>1, <2>1, FlattenUnfolds
  <2>. DEFINE T == {i \in 1..n : h[i + 1] = t \o g[i]}
  <2>3. 1 \in T
    <3>1. 1 \in 1..n /\ 2 \in 1..(n + 1) /\ 1 + 1 = 2 /\ 2 - 1 = 1
      BY <1>5
    <3>2. h[2] = h[1] \o more[2]
      <4>1. \A i \in 1..(n + 1) : i # 1 => h[i] = h[i - 1] \o more[i]
        BY <1>3
      <4>2. 2 # 1
        OBVIOUS
      <4>3. h[2] = h[2 - 1] \o more[2]
        BY <3>1, <4>1, <4>2, Zenon
      <4> QED
        BY <3>1, <4>3, Zenon
    <3>3. more[2] = seqs[1]
      BY <1>1, <3>1
    <3> QED
      BY <1>3, <2>2, <3>1, <3>2, <3>3
  <2>4. ASSUME NEW i \in 1..n, i \in T, i + 1 \in 1..n PROVE i + 1 \in T
    <3>1. i + 1 # 1 /\ (i + 1) - 1 = i /\ (i + 1) + 1 \in 1..(n + 1) /\ (i + 1) + 1 # 1 /\ ((i + 1) + 1) - 1 = i + 1
      BY <2>4
    <3>2. g[i + 1] = g[i] \o seqs[i + 1]
      BY <2>2, <2>4, <3>1
    <3>3. h[(i + 1) + 1] = h[i + 1] \o more[(i + 1) + 1]
      BY <1>3, <3>1
    <3>4. more[(i + 1) + 1] = seqs[i + 1]
      BY <1>1, <2>4
    <3>5. h[i + 1] = t \o g[i]
      BY <2>4
    <3>6. g[i] \in Seq(S) /\ seqs[i + 1] \in Seq(S)
      <4>1. seqs[i + 1] \in Seq(S)
        BY <1>1, <2>4, ElementOfSeq
      <4> QED
        BY <2>2, <4>1
    <3>7. h[i + 1] \o seqs[i + 1] = t \o g[i + 1]
      <4>1. /\ IsJoin(S, h[i + 1], t, g[i]) /\ IsJoin(S, g[i + 1], g[i], seqs[i + 1])
            /\ IsJoin(S, h[i + 1] \o seqs[i + 1], h[i + 1], seqs[i + 1])
        BY <3>2, <3>5, <3>6, ConcatProperties DEF IsJoin
      <4>3. IsJoin(S, h[i + 1] \o seqs[i + 1], t, g[i + 1])
        BY <4>1, JoinThree
      <4> QED
        BY <4>3 DEF IsJoin
    <3> QED
      BY <2>4, <3>3, <3>4, <3>7
  <2>5. 1..n \subseteq T
    <3>. HIDE DEF T
    <3> QED
      BY <2>3, <2>4, UpTo
  <2>6. n \in T
    <3>. HIDE DEF T
    <3>1. n \in 1..n
      BY <1>5
    <3> QED
      BY <2>5, <3>1
  <2> QED
    BY <1>3, <2>2, <2>6
<1> QED
  BY <1>4, <1>5

\* Consecutive pieces of a sequence, the piece i up to up[i], make one.
PiecesOf(s, seqs, up) ==
  /\ up \in [0..Len(seqs) -> 0..Len(s)]
  /\ \A i \in 1..Len(seqs) : up[i - 1] <= up[i] /\ seqs[i] = SubSeq(s, up[i - 1] + 1, up[i])

LEMMA FlattenOfPieces ==
  ASSUME NEW S, NEW s \in Seq(S), NEW seqs \in Seq(Seq(S)), seqs # <<>>, NEW up, PiecesOf(s, seqs, up)
  PROVE  /\ up[0] <= up[Len(seqs)]
         /\ FlattenSeq(seqs) = SubSeq(s, up[0] + 1, up[Len(seqs)])
<1>0. /\ up \in [0..Len(seqs) -> 0..Len(s)]
      /\ \A i \in 1..Len(seqs) : up[i - 1] <= up[i] /\ seqs[i] = SubSeq(s, up[i - 1] + 1, up[i])
  BY DEF PiecesOf
<1> USE <1>0
<1>1. PICK n \in Nat : n = Len(seqs) /\ n > 0
  OBVIOUS
<1>2. PICK g \in [1..n -> Seq(S)] :
        /\ g[1] = seqs[1]
        /\ \A i \in 1..n : i # 1 => g[i] = g[i - 1] \o seqs[i]
        /\ FlattenSeq(seqs) = g[n]
  BY <1>1, FlattenUnfolds
<1>3. Len(s) \in Nat /\ \A i \in 0..n : up[i] \in 0..Len(s)
  BY <1>1
<1>4. 1..n \subseteq {i \in 1..n : up[0] <= up[i] /\ g[i] = SubSeq(s, up[0] + 1, up[i])}
  <2>. DEFINE T == {i \in 1..n : up[0] <= up[i] /\ g[i] = SubSeq(s, up[0] + 1, up[i])}
  <2>1. 1 \in 1..n /\ up[0] <= up[1] /\ g[1] = SubSeq(s, up[0] + 1, up[1])
    <3>1. 1 \in 1..n /\ 1 - 1 = 0
      BY <1>1
    <3> QED
      BY <1>1, <1>2, <3>1
  <2>2. ASSUME NEW i \in 1..n, up[0] <= up[i] /\ g[i] = SubSeq(s, up[0] + 1, up[i]), i + 1 \in 1..n
        PROVE  up[0] <= up[i + 1] /\ g[i + 1] = SubSeq(s, up[0] + 1, up[i + 1])
    <3>1. (i + 1) - 1 = i /\ i + 1 # 1 /\ i \in 0..n /\ 0 \in 0..n /\ i + 1 \in 0..n
      BY <2>2
    <3>2. up[i] <= up[i + 1] /\ seqs[i + 1] = SubSeq(s, up[i] + 1, up[i + 1])
      BY <1>1, <2>2, <3>1
    <3>3. g[i + 1] = g[i] \o seqs[i + 1]
      BY <1>2, <2>2, <3>1
    <3>4. PICK a \in 0..Len(s), b \in 0..Len(s), c \in 0..Len(s) : a = up[0] /\ b = up[i] /\ c = up[i + 1]
      BY <1>3, <3>1
    <3>5. a <= b /\ b <= c
      BY <2>2, <3>2, <3>4
    <3>6. a + 1 \in 1..(Len(s) + 1) /\ b \in ((a + 1) - 1)..Len(s) /\ c \in b..Len(s)
      BY <1>3, <3>5
    <3>7. SubSeq(s, a + 1, b) \o SubSeq(s, b + 1, c) = SubSeq(s, a + 1, c)
      BY <3>6, ConcatAdjacentSubSeq
    <3>8. g[i + 1] = SubSeq(s, a + 1, c)
      BY <2>2, <3>2, <3>3, <3>4, <3>7
    <3>9. a <= c
      BY <1>3, <3>5
    <3> QED
      BY <3>4, <3>8, <3>9
  <2>3. 1 \in T
    BY <2>1
  <2>4. \A i \in 1..n : i \in T /\ i + 1 \in 1..n => i + 1 \in T
    BY <2>2
  <2>5. 1..n \subseteq T
    <3>. HIDE DEF T
    <3> QED
      BY <2>3, <2>4, UpTo
  <2> QED
    BY <2>5
<1>5. n \in 1..n
  BY <1>1
<1> QED
  BY <1>1, <1>2, <1>4, <1>5

\* No element is twice in these sequences, together.
AllDifferent(seqs) ==
  \A i, j \in DOMAIN seqs : \A k \in DOMAIN seqs[i], l \in DOMAIN seqs[j] :
    seqs[i][k] = seqs[j][l] => i = j /\ k = l

LEMMA InjectiveConcat ==
  ASSUME NEW S, NEW s \in Seq(S), NEW t \in Seq(S), IsInjective(s), IsInjective(t),
         \A i \in DOMAIN s, j \in DOMAIN t : s[i] # t[j]
  PROVE  s \o t \in Seq(S) /\ IsInjective(s \o t)
<1>1. /\ s \o t \in Seq(S) /\ Len(s) \in Nat /\ Len(t) \in Nat
      /\ DOMAIN s = 1..Len(s) /\ DOMAIN t = 1..Len(t) /\ DOMAIN (s \o t) = 1..(Len(s) + Len(t))
      /\ \A i \in 1..(Len(s) + Len(t)) : (s \o t)[i] = IF i <= Len(s) THEN s[i] ELSE t[i - Len(s)]
  BY ConcatProperties, LenProperties
<1>2. ASSUME NEW i \in DOMAIN (s \o t), NEW j \in DOMAIN (s \o t), (s \o t)[i] = (s \o t)[j] PROVE i = j
  <2>1. CASE i <= Len(s) /\ j <= Len(s)
    BY <1>1, <1>2, <2>1 DEF IsInjective
  <2>2. CASE i > Len(s) /\ j > Len(s)
    <3>1. i - Len(s) \in DOMAIN t /\ j - Len(s) \in DOMAIN t
      BY <1>1, <2>2
    <3>2. t[i - Len(s)] = t[j - Len(s)]
      BY <1>1, <1>2, <2>2
    <3>3. i - Len(s) = j - Len(s)
      BY <3>1, <3>2 DEF IsInjective
    <3> QED
      BY <1>1, <3>3
  <2>3. CASE i <= Len(s) /\ j > Len(s)
    <3>1. i \in DOMAIN s /\ j - Len(s) \in DOMAIN t /\ s[i] = t[j - Len(s)]
      BY <1>1, <1>2, <2>3
    <3> QED
      BY <3>1
  <2>4. CASE i > Len(s) /\ j <= Len(s)
    <3>1. j \in DOMAIN s /\ i - Len(s) \in DOMAIN t /\ s[j] = t[i - Len(s)]
      BY <1>1, <1>2, <2>4
    <3> QED
      BY <3>1
  <2> QED
    BY <1>1, <2>1, <2>2, <2>3, <2>4
<1> QED
  BY <1>1, <1>2 DEF IsInjective

\* Every element of t is one of the first i of the sequences.
DrawnFrom(t, seqs, i) == \A p \in DOMAIN t : \E j \in 1..i : \E k \in DOMAIN seqs[j] : t[p] = seqs[j][k]

LEMMA FlattenOfDifferent ==
  ASSUME NEW S, NEW seqs \in Seq(Seq(S)), seqs # <<>>, AllDifferent(seqs)
  PROVE  /\ FlattenSeq(seqs) \in Seq(S) /\ IsInjective(FlattenSeq(seqs))
         /\ DrawnFrom(FlattenSeq(seqs), seqs, Len(seqs))
<1>1. PICK n \in Nat : n = Len(seqs) /\ n > 0 /\ DOMAIN seqs = 1..n
  OBVIOUS
<1>2. PICK g \in [1..n -> Seq(S)] :
        /\ g[1] = seqs[1]
        /\ \A i \in 1..n : i # 1 => g[i] = g[i - 1] \o seqs[i]
        /\ FlattenSeq(seqs) = g[n]
  BY <1>1, FlattenUnfolds
<1>3. \A i \in 1..n : seqs[i] \in Seq(S) /\ IsInjective(seqs[i])
  <2>1. ASSUME NEW i \in 1..n PROVE IsInjective(seqs[i])
    BY <1>1 DEF AllDifferent, IsInjective
  <2>2. \A i \in 1..n : seqs[i] \in Seq(S)
    BY <1>1
  <2> QED
    BY <2>1, <2>2
<1>4. 1..n \subseteq {i \in 1..n : IsInjective(g[i]) /\ DrawnFrom(g[i], seqs, i)}
  <2>. DEFINE T == {i \in 1..n : IsInjective(g[i]) /\ DrawnFrom(g[i], seqs, i)}
  <2>1. 1 \in 1..n /\ IsInjective(g[1]) /\ DrawnFrom(g[1], seqs, 1)
    <3>1. 1 \in 1..n /\ 1 \in 1..1
      BY <1>1
    <3> QED
      BY <1>2, <1>3, <3>1 DEF DrawnFrom
  <2>2. ASSUME NEW i \in 1..n, IsInjective(g[i]) /\ DrawnFrom(g[i], seqs, i), i + 1 \in 1..n
        PROVE  IsInjective(g[i + 1]) /\ DrawnFrom(g[i + 1], seqs, i + 1)
    <3>1. PICK s \in Seq(S), t \in Seq(S) : s = g[i] /\ t = seqs[i + 1]
      BY <1>3, <2>2
    <3>2. g[i + 1] = s \o t
      <4>1. i + 1 # 1 /\ (i + 1) - 1 = i
        OBVIOUS
      <4> QED
        BY <1>2, <2>2, <3>1, <4>1
    <3>3. \A p \in DOMAIN s, q \in DOMAIN t : s[p] # t[q]
      <4> SUFFICES ASSUME NEW p \in DOMAIN s, NEW q \in DOMAIN t, s[p] = t[q] PROVE FALSE
        OBVIOUS
      <4>1. PICK j \in 1..i : \E k \in DOMAIN seqs[j] : s[p] = seqs[j][k]
        BY <2>2, <3>1 DEF DrawnFrom
      <4>2. PICK k \in DOMAIN seqs[j] : s[p] = seqs[j][k]
        BY <4>1
      <4>3. j \in 1..n /\ j # i + 1
        OBVIOUS
      <4> QED
        <5>1. j \in DOMAIN seqs /\ i + 1 \in DOMAIN seqs
          BY <1>1, <2>2, <4>3
        <5>2. q \in DOMAIN seqs[i + 1] /\ seqs[j][k] = seqs[i + 1][q]
          BY <3>1, <4>2
        <5> QED
          BY <4>3, <5>1, <5>2, Zenon DEF AllDifferent
    <3>4. IsInjective(s \o t)
      BY <1>3, <2>2, <3>1, <3>3, InjectiveConcat
    <3>5. DrawnFrom(s \o t, seqs, i + 1)
      <4> SUFFICES ASSUME NEW p \in DOMAIN (s \o t)
                   PROVE  \E j \in 1..(i + 1) : \E k \in DOMAIN seqs[j] : (s \o t)[p] = seqs[j][k]
        BY DEF DrawnFrom
      <4>1. /\ DOMAIN s = 1..Len(s) /\ DOMAIN t = 1..Len(t) /\ Len(s) \in Nat /\ Len(t) \in Nat
            /\ p \in 1..(Len(s) + Len(t))
            /\ (s \o t)[p] = IF p <= Len(s) THEN s[p] ELSE t[p - Len(s)]
        BY ConcatProperties, LenProperties
      <4>2. CASE p <= Len(s)
        <5>1. PICK j \in 1..i : \E k \in DOMAIN seqs[j] : s[p] = seqs[j][k]
          <6>1. p \in DOMAIN s
            BY <4>1, <4>2
          <6>2. DrawnFrom(s, seqs, i)
            BY <2>2, <3>1
          <6> QED
            BY <6>1, <6>2 DEF DrawnFrom
        <5>2. j \in 1..(i + 1)
          OBVIOUS
        <5> QED
          BY <4>1, <4>2, <5>1, <5>2
      <4>3. CASE ~(p <= Len(s))
        <5>1. p - Len(s) \in DOMAIN t /\ i + 1 \in 1..(i + 1)
          BY <4>1, <4>3
        <5> QED
          BY <3>1, <4>1, <4>3, <5>1
      <4> QED
        BY <4>2, <4>3
    <3> QED
      BY <3>2, <3>4, <3>5
  <2>3. 1 \in T
    BY <2>1
  <2>4. \A i \in 1..n : i \in T /\ i + 1 \in 1..n => i + 1 \in T
    BY <2>2
  <2>5. 1..n \subseteq T
    <3>. HIDE DEF T
    <3> QED
      BY <2>3, <2>4, UpTo
  <2> QED
    BY <2>5
<1>5. n \in 1..n
  BY <1>1
<1> QED
  BY <1>1, <1>2, <1>4, <1>5

-----------------------------------------------------------------------------
(* A sequence without repetitions as a ring.                               *)

PlaceIn(r, x) == CHOOSE i \in DOMAIN r : r[i] = x

NextIn(r, x) == r[(PlaceIn(r, x) % Len(r)) + 1]

StepsIn(r, x, y) == (PlaceIn(r, y) + Len(r) - PlaceIn(r, x)) % Len(r)

IsRing(r, S) == r \in Seq(S) /\ IsInjective(r) /\ Len(r) > 0

LEMMA RingPlaces ==
  ASSUME NEW S, NEW r, IsRing(r, S)
  PROVE  /\ Len(r) \in Nat \ {0} /\ DOMAIN r = 1..Len(r)
         /\ \A x \in Range(r) : PlaceIn(r, x) \in 1..Len(r) /\ r[PlaceIn(r, x)] = x
         /\ \A i \in 1..Len(r) : r[i] \in Range(r) /\ PlaceIn(r, r[i]) = i
         /\ Range(r) \subseteq S
<1>1. Len(r) \in Nat \ {0} /\ DOMAIN r = 1..Len(r) /\ \A i \in 1..Len(r) : r[i] \in S
  BY DEF IsRing
<1>2. ASSUME NEW x \in Range(r) PROVE PlaceIn(r, x) \in 1..Len(r) /\ r[PlaceIn(r, x)] = x
  <2>1. \E i \in DOMAIN r : r[i] = x
    BY DEF Range
  <2>2. PlaceIn(r, x) \in DOMAIN r /\ r[PlaceIn(r, x)] = x
    BY <2>1 DEF PlaceIn
  <2> QED
    BY <1>1, <2>2
<1>3. ASSUME NEW i \in 1..Len(r) PROVE r[i] \in Range(r) /\ PlaceIn(r, r[i]) = i
  <2>1. r[i] \in Range(r)
    BY <1>1 DEF Range
  <2>2. r[PlaceIn(r, r[i])] = r[i] /\ PlaceIn(r, r[i]) \in DOMAIN r
    BY <1>1, <1>2, <2>1
  <2> QED
    BY <1>1, <2>1, <2>2 DEF IsRing, IsInjective
<1>4. Range(r) \subseteq S
  BY <1>1 DEF Range
<1> QED
  BY <1>1, <1>2, <1>3, <1>4

\* The remainders, as numbers.
LEMMA RingSteps ==
  ASSUME NEW S, NEW r, IsRing(r, S), NEW x \in Range(r)
  PROVE  /\ NextIn(r, x) = r[IF PlaceIn(r, x) = Len(r) THEN 1 ELSE PlaceIn(r, x) + 1]
         /\ NextIn(r, x) \in Range(r)
         /\ PlaceIn(r, NextIn(r, x)) = IF PlaceIn(r, x) = Len(r) THEN 1 ELSE PlaceIn(r, x) + 1
         /\ \A y \in Range(r) :
              StepsIn(r, x, y) = IF PlaceIn(r, x) <= PlaceIn(r, y)
                                   THEN PlaceIn(r, y) - PlaceIn(r, x)
                                   ELSE PlaceIn(r, y) + Len(r) - PlaceIn(r, x)
<1>1. PICK n \in Nat \ {0} : n = Len(r) /\ DOMAIN r = 1..n
  BY RingPlaces
<1>2. PICK p \in 1..n : p = PlaceIn(r, x)
  BY <1>1, RingPlaces
<1>3. p % n = IF p = n THEN 0 ELSE p
  <2>1. 0 \in 0..(n - 1) /\ p \in 0..n
    BY <1>1, <1>2
  <2>2. (0 + p) % n = IF 0 + p < n THEN 0 + p ELSE 0 + p - n
    BY <2>1, ModOfSum
  <2> QED
    BY <1>1, <1>2, <2>2
<1>4. (p % n) + 1 = IF p = n THEN 1 ELSE p + 1
  BY <1>1, <1>2, <1>3
<1>5. (IF p = n THEN 1 ELSE p + 1) \in 1..n
  BY <1>1, <1>2
<1>6. NextIn(r, x) = r[IF p = n THEN 1 ELSE p + 1]
  BY <1>1, <1>2, <1>4 DEF NextIn
<1>7. ASSUME NEW y \in Range(r)
      PROVE  StepsIn(r, x, y) = IF PlaceIn(r, x) <= PlaceIn(r, y)
                                  THEN PlaceIn(r, y) - PlaceIn(r, x)
                                  ELSE PlaceIn(r, y) + Len(r) - PlaceIn(r, x)
  <2>1. PICK q \in 1..n : q = PlaceIn(r, y)
    BY <1>1, RingPlaces
  <2>2. q + n - p = (q - 1) + (n - p + 1) /\ q - 1 \in 0..(n - 1) /\ n - p + 1 \in 0..n
    BY <1>1, <1>2, <2>1
  <2>3. (q + n - p) % n = IF (q - 1) + (n - p + 1) < n THEN (q - 1) + (n - p + 1)
                          ELSE (q - 1) + (n - p + 1) - n
    BY <2>2, ModOfSum
  <2>4. (IF (q - 1) + (n - p + 1) < n THEN (q - 1) + (n - p + 1) ELSE (q - 1) + (n - p + 1) - n)
        = IF p <= q THEN q - p ELSE q + n - p
    BY <2>2
  <2> QED
    BY <1>1, <1>2, <2>1, <2>3, <2>4 DEF StepsIn
<1> QED
  BY <1>1, <1>2, <1>5, <1>6, <1>7, RingPlaces

\* Seen from one element, the ring is a line.
LEMMA RingFrom ==
  ASSUME NEW S, NEW r, IsRing(r, S), NEW m \in Range(r)
  PROVE  /\ \A x \in Range(r) : StepsIn(r, m, x) \in 0..(Len(r) - 1)
         /\ StepsIn(r, m, m) = 0
         /\ \A x, y \in Range(r) : StepsIn(r, m, x) = StepsIn(r, m, y) => x = y
         /\ \A x \in Range(r) :
              /\ NextIn(r, x) \in Range(r)
              /\ StepsIn(r, m, NextIn(r, x)) =
                   IF StepsIn(r, m, x) = Len(r) - 1 THEN 0 ELSE StepsIn(r, m, x) + 1
         /\ \A x, y \in Range(r) :
              StepsIn(r, x, y) = IF StepsIn(r, m, x) <= StepsIn(r, m, y)
                                   THEN StepsIn(r, m, y) - StepsIn(r, m, x)
                                   ELSE StepsIn(r, m, y) + Len(r) - StepsIn(r, m, x)
<1>1. PICK n \in Nat \ {0} : n = Len(r)
  BY RingPlaces
<1>2. PICK pm \in 1..n : pm = PlaceIn(r, m)
  BY <1>1, RingPlaces
<1>3. ASSUME NEW x \in Range(r)
      PROVE  /\ PlaceIn(r, x) \in 1..n
             /\ StepsIn(r, m, x) = IF pm <= PlaceIn(r, x) THEN PlaceIn(r, x) - pm ELSE PlaceIn(r, x) + n - pm
             /\ NextIn(r, x) \in Range(r)
             /\ PlaceIn(r, NextIn(r, x)) = IF PlaceIn(r, x) = n THEN 1 ELSE PlaceIn(r, x) + 1
  <2>1. PlaceIn(r, x) \in 1..n
    BY <1>1, RingPlaces
  <2>2. StepsIn(r, m, x) = IF pm <= PlaceIn(r, x) THEN PlaceIn(r, x) - pm ELSE PlaceIn(r, x) + n - pm
    BY <1>1, <1>2, RingSteps
  <2>3. NextIn(r, x) \in Range(r) /\ PlaceIn(r, NextIn(r, x)) = IF PlaceIn(r, x) = n THEN 1 ELSE PlaceIn(r, x) + 1
    BY <1>1, RingSteps
  <2> QED
    BY <2>1, <2>2, <2>3
<1>4. ASSUME NEW x \in Range(r) PROVE StepsIn(r, m, x) \in 0..(n - 1)
  <2>1. PICK p \in 1..n : p = PlaceIn(r, x)
    BY <1>3
  <2>2. StepsIn(r, m, x) = IF pm <= p THEN p - pm ELSE p + n - pm
    BY <1>3, <2>1
  <2> QED
    BY <2>2
<1>5. StepsIn(r, m, m) = 0
  BY <1>1, <1>2, <1>3
<1>6. ASSUME NEW x \in Range(r), NEW y \in Range(r), StepsIn(r, m, x) = StepsIn(r, m, y) PROVE x = y
  <2>1. PICK p \in 1..n, q \in 1..n : p = PlaceIn(r, x) /\ q = PlaceIn(r, y)
    BY <1>3
  <2>2. /\ StepsIn(r, m, x) = IF pm <= p THEN p - pm ELSE p + n - pm
        /\ StepsIn(r, m, y) = IF pm <= q THEN q - pm ELSE q + n - pm
    BY <1>3, <2>1
  <2>3. (IF pm <= p THEN p - pm ELSE p + n - pm) = (IF pm <= q THEN q - pm ELSE q + n - pm) => p = q
    OBVIOUS
  <2>4. r[p] = x /\ r[q] = y
    BY <2>1, RingPlaces
  <2> QED
    BY <1>6, <2>2, <2>3, <2>4
<1>7. ASSUME NEW x \in Range(r)
      PROVE  StepsIn(r, m, NextIn(r, x)) = IF StepsIn(r, m, x) = n - 1 THEN 0 ELSE StepsIn(r, m, x) + 1
  <2>1. PICK p \in 1..n : p = PlaceIn(r, x)
    BY <1>3
  <2>2. StepsIn(r, m, x) = IF pm <= p THEN p - pm ELSE p + n - pm
    BY <1>3, <2>1
  <2>3. PICK q \in 1..n : q = PlaceIn(r, NextIn(r, x)) /\ q = IF p = n THEN 1 ELSE p + 1
    BY <1>3, <2>1
  <2>4. StepsIn(r, m, NextIn(r, x)) = IF pm <= q THEN q - pm ELSE q + n - pm
    BY <1>3, <2>3
  <2> QED
    BY <1>1, <1>2, <2>2, <2>3, <2>4
<1>8. ASSUME NEW x \in Range(r), NEW y \in Range(r)
      PROVE  StepsIn(r, x, y) = IF StepsIn(r, m, x) <= StepsIn(r, m, y)
                                  THEN StepsIn(r, m, y) - StepsIn(r, m, x)
                                  ELSE StepsIn(r, m, y) + n - StepsIn(r, m, x)
  <2>1. PICK p \in 1..n, q \in 1..n : p = PlaceIn(r, x) /\ q = PlaceIn(r, y)
    BY <1>3
  <2>2. /\ StepsIn(r, m, x) = IF pm <= p THEN p - pm ELSE p + n - pm
        /\ StepsIn(r, m, y) = IF pm <= q THEN q - pm ELSE q + n - pm
    BY <1>3, <2>1
  <2>3. StepsIn(r, x, y) = IF p <= q THEN q - p ELSE q + n - p
    BY <1>1, <2>1, RingSteps
  <2> QED
    BY <1>1, <1>2, <2>2, <2>3
<1> QED
  BY <1>1, <1>3, <1>4, <1>5, <1>6, <1>7, <1>8

\* One is put in front of m: it is the last one seen from m.
LEMMA RingInsert ==
  ASSUME NEW S, NEW r, IsRing(r, S), NEW m \in Range(r), NEW x \in S \ Range(r)
  PROVE  LET q == InsertAt(r, PlaceIn(r, m), x)
         IN  /\ IsRing(q, S) /\ Len(q) = Len(r) + 1 /\ Range(q) = Range(r) \cup {x}
             /\ \A y \in Range(r) : StepsIn(q, m, y) = StepsIn(r, m, y)
             /\ StepsIn(q, m, x) = Len(r)
<1>1. PICK n \in Nat \ {0} : n = Len(r) /\ DOMAIN r = 1..n
  BY RingPlaces
<1>2. PICK pm \in 1..n : pm = PlaceIn(r, m)
  BY <1>1, RingPlaces
<1>3. PICK q : q = InsertAt(r, pm, x)
  OBVIOUS
<1>4. /\ q \in Seq(S) /\ Len(q) = n + 1
      /\ \A i \in 1..(n + 1) : q[i] = IF i < pm THEN r[i] ELSE IF i = pm THEN x ELSE r[i - 1]
  <2>1. PICK before : before = SubSeq(r, 1, pm - 1)
    OBVIOUS
  <2>2. PICK after : after = SubSeq(r, pm, n)
    OBVIOUS
  <2>3. r \in Seq(S)
    BY DEF IsRing
  <2>4. before \in Seq(S) /\ Len(before) = pm - 1 /\ \A i \in 1..(pm - 1) : before[i] = r[i]
    BY <1>1, <2>1, <2>3
  <2>5. after \in Seq(S) /\ Len(after) = n - pm + 1 /\ \A i \in 1..(n - pm + 1) : after[i] = r[pm + i - 1]
    BY <1>1, <2>2, <2>3
  <2>6. PICK front : front = before \o <<x>>
    OBVIOUS
  <2>7. front \in Seq(S) /\ Len(front) = pm /\ front[pm] = x /\ \A i \in 1..(pm - 1) : front[i] = r[i]
    BY <2>4, <2>6
  <2>8. q = front \o after
    BY <1>1, <1>3, <2>1, <2>2, <2>6 DEF InsertAt
  <2>9. /\ q \in Seq(S) /\ Len(q) = n + 1
        /\ \A i \in 1..(n + 1) : q[i] = IF i <= pm THEN front[i] ELSE after[i - pm]
    <3>1. /\ front \o after \in Seq(S) /\ Len(front \o after) = Len(front) + Len(after)
          /\ \A i \in 1..(Len(front) + Len(after)) :
               (front \o after)[i] = IF i <= Len(front) THEN front[i] ELSE after[i - Len(front)]
      BY <2>5, <2>7, ConcatProperties
    <3>2. Len(front) + Len(after) = n + 1
      BY <2>5, <2>7
    <3> QED
      BY <2>7, <2>8, <3>1, <3>2
  <2>10. ASSUME NEW i \in 1..(n + 1), i > pm PROVE after[i - pm] = r[i - 1]
    <3>1. i - pm \in 1..(n - pm + 1) /\ pm + (i - pm) - 1 = i - 1
      BY <2>10
    <3> QED
      BY <2>5, <3>1
  <2>11. ASSUME NEW i \in 1..(n + 1) PROVE q[i] = IF i < pm THEN r[i] ELSE IF i = pm THEN x ELSE r[i - 1]
    <3>1. CASE i < pm
      BY <2>7, <2>9, <3>1
    <3>2. CASE i = pm
      BY <2>7, <2>9, <3>2
    <3>3. CASE i > pm
      BY <2>9, <2>10, <3>3
    <3> QED
      BY <3>1, <3>2, <3>3
  <2> QED
    BY <2>9, <2>11
<1>5. ASSUME NEW y \in Range(r)
      PROVE  LET i == IF PlaceIn(r, y) < pm THEN PlaceIn(r, y) ELSE PlaceIn(r, y) + 1
             IN  i \in 1..(n + 1) /\ q[i] = y
  <2>1. PICK p \in 1..n : p = PlaceIn(r, y) /\ r[p] = y
    BY <1>1, RingPlaces
  <2>2. CASE p < pm
    BY <1>4, <2>1, <2>2
  <2>3. CASE ~(p < pm)
    <3>1. p + 1 \in 1..(n + 1) /\ ~(p + 1 < pm) /\ p + 1 # pm /\ (p + 1) - 1 = p
      BY <2>3
    <3>2. q[p + 1] = r[p]
      BY <1>4, <3>1
    <3> QED
      BY <2>1, <2>3, <3>1, <3>2
  <2> QED
    BY <2>2, <2>3
<1>6. pm \in 1..(n + 1) /\ q[pm] = x
  BY <1>4
<1>7. DOMAIN q = 1..(n + 1)
  BY <1>4
<1>8. \A i \in 1..n : r[i] \in Range(r) /\ r[i] # x /\ PlaceIn(r, r[i]) = i
  BY <1>1, RingPlaces
<1>9. IsRing(q, S)
  <2>1. ASSUME NEW i \in 1..(n + 1), NEW j \in 1..(n + 1), q[i] = q[j] PROVE i = j
    <3>1. /\ i < pm => i \in 1..n /\ q[i] = r[i]
          /\ i > pm => i - 1 \in 1..n /\ q[i] = r[i - 1]
          /\ j < pm => j \in 1..n /\ q[j] = r[j]
          /\ j > pm => j - 1 \in 1..n /\ q[j] = r[j - 1]
      BY <1>4
    <3>2. \A k, l \in 1..n : r[k] = r[l] => k = l
      BY <1>8
    <3>3. CASE i = pm
      BY <1>6, <1>8, <2>1, <3>1, <3>3
    <3>4. CASE j = pm
      BY <1>6, <1>8, <2>1, <3>1, <3>4
    <3>5. CASE i < pm /\ j < pm
      BY <2>1, <3>1, <3>2, <3>5
    <3>6. CASE i > pm /\ j > pm
      BY <2>1, <3>1, <3>2, <3>6
    <3>7. CASE i < pm /\ j > pm
      <4>1. i = j - 1
        BY <2>1, <3>1, <3>2, <3>7
      <4> QED
        BY <3>7, <4>1
    <3>8. CASE i > pm /\ j < pm
      <4>1. i - 1 = j
        BY <2>1, <3>1, <3>2, <3>8
      <4> QED
        BY <3>8, <4>1
    <3> QED
      BY <3>3, <3>4, <3>5, <3>6, <3>7, <3>8
  <2> QED
    BY <1>4, <1>7, <2>1 DEF IsRing, IsInjective
<1>10. Range(q) = Range(r) \cup {x}
  <2>1. ASSUME NEW i \in 1..(n + 1) PROVE q[i] \in Range(r) \cup {x}
    <3>1. i > pm => i - 1 \in 1..n
      OBVIOUS
    <3>2. i < pm => i \in 1..n
      OBVIOUS
    <3> QED
      BY <1>4, <1>8, <3>1, <3>2
  <2>2. Range(r) \cup {x} \subseteq Range(q)
    BY <1>5, <1>6, <1>7 DEF Range
  <2>3. Range(q) = {q[i] : i \in 1..(n + 1)}
    BY <1>7 DEF Range
  <2> QED
    BY <2>1, <2>2, <2>3
<1>11. Len(q) = n + 1 /\ PlaceIn(q, x) = pm /\ PlaceIn(q, m) = pm + 1
       /\ \A y \in Range(r) : PlaceIn(q, y) = IF PlaceIn(r, y) < pm THEN PlaceIn(r, y) ELSE PlaceIn(r, y) + 1
  <2>1. \A i \in 1..(n + 1) : PlaceIn(q, q[i]) = i
    BY <1>4, <1>9, RingPlaces
  <2>2. ASSUME NEW y \in Range(r)
        PROVE  PlaceIn(q, y) = IF PlaceIn(r, y) < pm THEN PlaceIn(r, y) ELSE PlaceIn(r, y) + 1
    BY <1>5, <2>1
  <2>3. PlaceIn(q, m) = pm + 1
    BY <1>2, <2>2
  <2> QED
    BY <1>4, <1>6, <2>1, <2>2, <2>3
<1>12. m \in Range(q) /\ x \in Range(q) /\ Range(r) \subseteq Range(q)
  BY <1>10
<1>13. \A y \in Range(q) :
         StepsIn(q, m, y) = IF PlaceIn(q, m) <= PlaceIn(q, y)
                              THEN PlaceIn(q, y) - PlaceIn(q, m)
                              ELSE PlaceIn(q, y) + Len(q) - PlaceIn(q, m)
  BY <1>9, <1>12, RingSteps
<1>14. StepsIn(q, m, x) = n
  <2>1. StepsIn(q, m, x) = IF pm + 1 <= pm THEN pm - (pm + 1) ELSE pm + (n + 1) - (pm + 1)
    BY <1>11, <1>12, <1>13
  <2> QED
    BY <2>1
<1>15. ASSUME NEW y \in Range(r) PROVE StepsIn(q, m, y) = StepsIn(r, m, y)
  <2>1. PICK p \in 1..n : p = PlaceIn(r, y)
    BY <1>1, RingPlaces
  <2>2. PICK k \in 1..(n + 1) : k = PlaceIn(q, y) /\ k = IF p < pm THEN p ELSE p + 1
    BY <1>11, <2>1
  <2>3. StepsIn(q, m, y) = IF pm + 1 <= k THEN k - (pm + 1) ELSE k + (n + 1) - (pm + 1)
    BY <1>11, <1>12, <1>13, <2>2
  <2>4. StepsIn(r, m, y) = IF pm <= p THEN p - pm ELSE p + n - pm
    BY <1>1, <1>2, <2>1, RingSteps
  <2>5. (IF pm + 1 <= k THEN k - (pm + 1) ELSE k + (n + 1) - (pm + 1)) = IF pm <= p THEN p - pm ELSE p + n - pm
    BY <2>2
  <2> QED
    BY <2>3, <2>4, <2>5
<1> QED
  BY <1>1, <1>2, <1>3, <1>9, <1>10, <1>11, <1>14, <1>15

\* m is taken out: seen from the next one, all else is where it was.
LEMMA RingRemove ==
  ASSUME NEW S, NEW r, IsRing(r, S), Len(r) > 1, NEW m \in Range(r)
  PROVE  LET q == RemoveAt(r, PlaceIn(r, m))
         IN  /\ IsRing(q, S) /\ Len(q) = Len(r) - 1 /\ Range(q) = Range(r) \ {m}
             /\ NextIn(r, m) \in Range(q)
             /\ \A y \in Range(q) : StepsIn(q, NextIn(r, m), y) = StepsIn(r, NextIn(r, m), y)
<1>1. PICK n \in Nat \ {0} : n = Len(r) /\ DOMAIN r = 1..n /\ n > 1
  BY RingPlaces
<1>2. PICK pm \in 1..n : pm = PlaceIn(r, m) /\ r[pm] = m
  BY <1>1, RingPlaces
<1>3. PICK q : q = RemoveAt(r, pm)
  OBVIOUS
<1>4. /\ q \in Seq(S) /\ Len(q) = n - 1
      /\ \A i \in 1..(n - 1) : q[i] = IF i < pm THEN r[i] ELSE r[i + 1]
  BY <1>1, <1>3, RemoveAtMovesUp DEF IsRing
<1>5. \A i \in 1..n : r[i] \in Range(r) /\ PlaceIn(r, r[i]) = i
  BY <1>1, RingPlaces
<1>6. \A k, l \in 1..n : r[k] = r[l] => k = l
  BY <1>5
<1>7. DOMAIN q = 1..(n - 1)
  BY <1>1, <1>4
<1>8. IsRing(q, S)
  <2>1. ASSUME NEW i \in 1..(n - 1), NEW j \in 1..(n - 1), q[i] = q[j] PROVE i = j
    <3>1. PICK k \in 1..n : q[i] = r[k] /\ k = IF i < pm THEN i ELSE i + 1
      <4>1. i \in 1..n /\ i + 1 \in 1..n
        BY <1>1
      <4> QED
        BY <1>4, <4>1
    <3>2. PICK l \in 1..n : q[j] = r[l] /\ l = IF j < pm THEN j ELSE j + 1
      <4>1. j \in 1..n /\ j + 1 \in 1..n
        BY <1>1
      <4> QED
        BY <1>4, <4>1
    <3>3. k = l
      BY <1>6, <2>1, <3>1, <3>2
    <3> QED
      BY <3>1, <3>2, <3>3
  <2> QED
    BY <1>1, <1>4, <1>7, <2>1 DEF IsRing, IsInjective
<1>9. ASSUME NEW y \in Range(r), y # m
      PROVE  LET i == IF PlaceIn(r, y) < pm THEN PlaceIn(r, y) ELSE PlaceIn(r, y) - 1
             IN  i \in 1..(n - 1) /\ q[i] = y
  <2>1. PICK p \in 1..n : p = PlaceIn(r, y) /\ r[p] = y
    BY <1>1, RingPlaces
  <2>2. p # pm
    BY <1>2, <1>9, <2>1
  <2>3. CASE p < pm
    <3>1. p \in 1..(n - 1)
      BY <2>3
    <3> QED
      BY <1>4, <2>1, <2>3, <3>1
  <2>4. CASE p > pm
    <3>1. p - 1 \in 1..(n - 1) /\ ~(p - 1 < pm) /\ (p - 1) + 1 = p
      BY <2>4
    <3>2. q[p - 1] = r[p]
      BY <1>4, <3>1
    <3> QED
      BY <2>1, <2>4, <3>1, <3>2
  <2> QED
    BY <2>2, <2>3, <2>4
<1>10. Range(q) = Range(r) \ {m}
  <2>1. ASSUME NEW i \in 1..(n - 1) PROVE q[i] \in Range(r) \ {m}
    <3>1. PICK k \in 1..n : q[i] = r[k] /\ k # pm
      <4>1. i \in 1..n /\ i + 1 \in 1..n /\ (i < pm => i # pm) /\ (~(i < pm) => i + 1 # pm)
        BY <1>1
      <4> QED
        BY <1>4, <4>1
    <3> QED
      BY <1>2, <1>5, <1>6, <3>1
  <2>2. Range(r) \ {m} \subseteq Range(q)
    BY <1>7, <1>9 DEF Range
  <2>3. Range(q) = {q[i] : i \in 1..(n - 1)}
    BY <1>7 DEF Range
  <2> QED
    BY <2>1, <2>2, <2>3
<1>11. PICK m2 : m2 = NextIn(r, m)
  OBVIOUS
<1>12. PICK p2 \in 1..n : p2 = PlaceIn(r, m2) /\ m2 \in Range(r) /\ p2 = IF pm = n THEN 1 ELSE pm + 1
  <2>1. m2 \in Range(r) /\ PlaceIn(r, m2) = IF pm = n THEN 1 ELSE pm + 1
    BY <1>1, <1>2, <1>11, RingSteps
  <2>2. (IF pm = n THEN 1 ELSE pm + 1) \in 1..n
    BY <1>1
  <2> QED
    BY <2>1, <2>2
<1>13. m2 \in Range(q)
  <2>1. p2 # pm
    BY <1>1, <1>12
  <2> QED
    BY <1>2, <1>10, <1>12, <2>1
<1>14. \A y \in Range(q) : y \in Range(r)
         /\ PlaceIn(q, y) = IF PlaceIn(r, y) < pm THEN PlaceIn(r, y) ELSE PlaceIn(r, y) - 1
  <2>1. \A i \in 1..(n - 1) : PlaceIn(q, q[i]) = i
    BY <1>4, <1>8, RingPlaces
  <2> QED
    BY <1>9, <1>10, <2>1
<1>15. \A y \in Range(q) :
         /\ StepsIn(q, m2, y) = IF PlaceIn(q, m2) <= PlaceIn(q, y)
                                  THEN PlaceIn(q, y) - PlaceIn(q, m2)
                                  ELSE PlaceIn(q, y) + Len(q) - PlaceIn(q, m2)
         /\ StepsIn(r, m2, y) = IF PlaceIn(r, m2) <= PlaceIn(r, y)
                                  THEN PlaceIn(r, y) - PlaceIn(r, m2)
                                  ELSE PlaceIn(r, y) + Len(r) - PlaceIn(r, m2)
  <2>1. \A y \in Range(q) :
          StepsIn(q, m2, y) = IF PlaceIn(q, m2) <= PlaceIn(q, y)
                                THEN PlaceIn(q, y) - PlaceIn(q, m2)
                                ELSE PlaceIn(q, y) + Len(q) - PlaceIn(q, m2)
    BY <1>8, <1>13, RingSteps
  <2>2. \A y \in Range(r) :
          StepsIn(r, m2, y) = IF PlaceIn(r, m2) <= PlaceIn(r, y)
                                THEN PlaceIn(r, y) - PlaceIn(r, m2)
                                ELSE PlaceIn(r, y) + Len(r) - PlaceIn(r, m2)
    BY <1>12, RingSteps
  <2>3. \A y \in Range(q) : y \in Range(r)
    BY <1>14
  <2> QED
    BY <2>1, <2>2, <2>3
<1>16. ASSUME NEW y \in Range(q) PROVE StepsIn(q, m2, y) = StepsIn(r, m2, y)
  <2>1. PICK p \in 1..n : p = PlaceIn(r, y) /\ p # pm
    <3>1. PlaceIn(r, y) \in 1..n /\ r[PlaceIn(r, y)] = y /\ y # m
      BY <1>1, <1>10, <1>14, RingPlaces
    <3> QED
      BY <1>2, <3>1
  <2>2. PICK k : k = PlaceIn(q, y) /\ k = IF p < pm THEN p ELSE p - 1
    BY <1>14, <2>1
  <2>3. PICK k2 : k2 = PlaceIn(q, m2) /\ k2 = IF p2 < pm THEN p2 ELSE p2 - 1
    BY <1>12, <1>13, <1>14
  <2>4. StepsIn(q, m2, y) = IF k2 <= k THEN k - k2 ELSE k + (n - 1) - k2
    BY <1>4, <1>15, <2>2, <2>3
  <2>5. StepsIn(r, m2, y) = IF p2 <= p THEN p - p2 ELSE p + n - p2
    BY <1>1, <1>12, <1>15, <2>1
  <2>6. (IF k2 <= k THEN k - k2 ELSE k + (n - 1) - k2) = IF p2 <= p THEN p - p2 ELSE p + n - p2
    BY <1>1, <1>12, <2>1, <2>2, <2>3
  <2> QED
    BY <2>4, <2>5, <2>6
<1> QED
  BY <1>1, <1>2, <1>3, <1>4, <1>8, <1>10, <1>11, <1>13, <1>16

\* The elements from x on, as many as there are before y.
LEMMA RingStretch ==
  ASSUME NEW S, NEW r, IsRing(r, S), NEW x \in Range(r), NEW y \in Range(r)
  PROVE  \A i \in 1..StepsIn(r, x, y) :
           LET z == r[((PlaceIn(r, x) + i - 2) % Len(r)) + 1]
           IN  z \in Range(r) /\ StepsIn(r, x, z) = i - 1
<1>1. PICK n \in Nat \ {0} : n = Len(r) /\ DOMAIN r = 1..n
  BY RingPlaces
<1>2. PICK p \in 1..n : p = PlaceIn(r, x)
  BY <1>1, RingPlaces
<1>3. StepsIn(r, x, y) \in 0..(n - 1)
  BY <1>1, RingFrom
<1>4. SUFFICES ASSUME NEW i \in 1..StepsIn(r, x, y)
               PROVE  LET z == r[((p + i - 2) % n) + 1] IN z \in Range(r) /\ StepsIn(r, x, z) = i - 1
  BY <1>1, <1>2
<1>5. i - 1 \in 0..(n - 1) /\ i - 1 \in 0..n /\ p - 1 \in 0..(n - 1) /\ p + i - 2 = (p - 1) + (i - 1)
  BY <1>1, <1>2, <1>3
<1>6. (p + i - 2) % n = IF (p - 1) + (i - 1) < n THEN (p - 1) + (i - 1) ELSE (p - 1) + (i - 1) - n
  BY <1>5, ModOfSum
<1>7. PICK k \in 1..n : k = ((p + i - 2) % n) + 1 /\ k = IF p + i - 1 <= n THEN p + i - 1 ELSE p + i - 1 - n
  <2>1. PICK k : k = IF p + i - 1 <= n THEN p + i - 1 ELSE p + i - 1 - n
    OBVIOUS
  <2>2. k \in 1..n /\ k = (IF (p - 1) + (i - 1) < n THEN (p - 1) + (i - 1) ELSE (p - 1) + (i - 1) - n) + 1
    BY <1>5, <2>1
  <2> QED
    BY <1>6, <2>1, <2>2
<1>8. r[k] \in Range(r) /\ PlaceIn(r, r[k]) = k
  BY <1>1, RingPlaces
<1>9. StepsIn(r, x, r[k]) = IF p <= k THEN k - p ELSE k + n - p
  BY <1>1, <1>2, <1>8, RingSteps
<1>10. (IF p <= k THEN k - p ELSE k + n - p) = i - 1
  BY <1>5, <1>7
<1> QED
  BY <1>7, <1>8, <1>9, <1>10
=============================================================================

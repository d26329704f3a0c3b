---------------------------- MODULE TimerFdProofs ----------------------------
(***************************************************************************)
(* Proofs about TimerFd for every set of timers and threads, every         *)
(* interval and every bound of the clock.                                  *)
(***************************************************************************)
EXTENDS TimerFd, Lemmas

\* The timers in a frame that the call has still to put into the queue.
ToAdd(frame, t) ==
  {j \in DOMAIN frame.timers :
     frame.timers[j] = t /\ (frame.at = "add" \/ (frame.at = "again" /\ frame.next <= j))}

\* A timer on its way to the queue, by its places.
Carried(t) ==
  UNION {UNION {{<<th, i, j>> : j \in ToAdd(stack[th][i], t)} : i \in DOMAIN stack[th]} : th \in Threads}

\* It is in the queue or about to be, its trigger time already set.
Adding(t) ==
  \E th \in Threads : \E i \in DOMAIN stack[th] :
    stack[th][i].at = "add" /\ stack[th][i].timers[1] = t

Waiting(t) == t \in m_pending_timers \/ Adding(t)

\* A call that waits for another is in handleTimerEvent(), and one for a timer
\* has it.
Frames ==
  \A th \in Threads : \A i \in DOMAIN stack[th] :
    /\ stack[th][i].next # 0
    /\ i < Len(stack[th]) => stack[th][i].at \in {"again", "run"}
    /\ stack[th][i].at \in {"add", "arm"} => Len(stack[th][i].timers) = 1

\* A timer is in one place: in the queue or on its way to it.
InOnePlace(t) ==
  /\ \A p, q \in Carried(t) : p = q
  /\ t \in m_pending_timers => Carried(t) = {}

Rounds(t) == fired[t] + Cardinality(Owed(t))

\* Its next round is due an interval after all the others.
InTime(t) ==
  /\ IsFiniteSet(Owed(t))
  /\ created[t] = 0 => Rounds(t) = 0 /\ Carried(t) = {} /\ t \notin m_pending_timers
  /\ created[t] # 0 => created[t] + Rounds(t) * Interval[t] <= now
  /\ Waiting(t) => created[t] + (Rounds(t) + 1) * Interval[t] <= m_trigger_time[t]
  /\ t \notin Periodic => Rounds(t) <= 1 /\ (Waiting(t) => Rounds(t) = 0)

RemovedIsInvalid ==
  \A t \in removed : ~m_valid[t] /\ (t \notin Periodic => Owed(t) = {})

\* A call that will arm the timerfd.
Arming == {"reset", "arm", "read", "collect", "again"}

WillArm == \E th \in Threads : \E i \in DOMAIN stack[th] : stack[th][i].at \in Arming

\* While the owner alone adds timers, the one it picked is still the earliest.
PickedIsEarliest ==
  ~shared =>
    /\ \A th \in Adders : Idle(th)
    /\ At(Owner, "arm") => Top(Owner).timers[1] \in Earliest

SomeoneArms ==
  m_pending_timers # {} =>
    \/ Deliverable \/ WillArm
    \/ /\ armed # 0
       /\ ~shared => \E t \in Earliest : armed = m_trigger_time[t]

IInv ==
  /\ TypeOK /\ IsFiniteSet(m_pending_timers) /\ Frames
  /\ \A t \in Timers : InOnePlace(t) /\ InTime(t)
  /\ RemovedIsInvalid /\ PickedIsEarliest /\ SomeoneArms

-----------------------------------------------------------------------------
(* The stacks.                                                             *)

\* From its place n on, the stack of th is another one.
StackChange(th, n) ==
  /\ stack' \in [Threads -> Seq(Frame)]
  /\ n \in 1..(Len(stack[th]) + 1) /\ n <= Len(stack'[th]) + 1
  /\ \A i \in 1..(n - 1) : stack'[th][i] = stack[th][i]
  /\ \A other \in Threads : other # th => stack'[other] = stack[other]

LEMMA TopIsLast ==
  ASSUME TypeOK, NEW th \in Threads, ~Idle(th)
  PROVE  /\ stack[th] \in Seq(Frame) /\ Len(stack[th]) \in Nat /\ Len(stack[th]) # 0
         /\ Top(th) = stack[th][Len(stack[th])] /\ Top(th) \in Frame
<1>1. stack[th] \in Seq(Frame) /\ stack[th] # <<>>
  BY DEF TypeOK, Idle
<1>2. Len(stack[th]) \in Nat /\ Len(stack[th]) # 0
  BY <1>1
<1> QED
  BY <1>1, <1>2 DEF Top

LEMMA BelowTop ==
  ASSUME TypeOK, NEW th \in Threads, ~Idle(th)
  PROVE  /\ Below(th) \in Seq(Frame) /\ Len(Below(th)) = Len(stack[th]) - 1
         /\ \A i \in 1..(Len(stack[th]) - 1) : Below(th)[i] = stack[th][i]
BY TopIsLast DEF Below

\* An empty stack gets its first call.
LEMMA FirstCall ==
  ASSUME TypeOK, NEW th \in Threads, Idle(th), NEW f \in Frame, stack' = [stack EXCEPT ![th] = <<f>>]
  PROVE  StackChange(th, 1) /\ Len(stack'[th]) = 1 /\ stack'[th][1] = f
<1>1. stack \in [Threads -> Seq(Frame)] /\ <<f>> \in Seq(Frame)
  BY DEF TypeOK
<1>2. stack'[th] = <<f>> /\ stack' \in [Threads -> Seq(Frame)]
  BY <1>1
<1>3. Len(stack[th]) \in Nat
  BY <1>1
<1> QED
  BY <1>1, <1>2, <1>3 DEF StackChange

LEMMA ReturnStack ==
  ASSUME TypeOK, NEW th \in Threads, ~Idle(th), Return(th)
  PROVE  StackChange(th, Len(stack[th])) /\ Len(stack'[th]) = Len(stack[th]) - 1
<1>1. stack \in [Threads -> Seq(Frame)]
  BY DEF TypeOK
<1>2. stack'[th] = Below(th) /\ \A other \in Threads : other # th => stack'[other] = stack[other]
  BY <1>1 DEF Return
<1>3. stack' \in [Threads -> Seq(Frame)]
  BY <1>1, BelowTop DEF Return
<1> QED
  BY <1>2, <1>3, BelowTop, TopIsLast DEF StackChange

LEMMA GotoStack ==
  ASSUME TypeOK, NEW th \in Threads, ~Idle(th), NEW f \in Frame, Goto(th, f)
  PROVE  /\ StackChange(th, Len(stack[th])) /\ Len(stack'[th]) = Len(stack[th])
         /\ stack'[th][Len(stack[th])] = f
<1>1. stack \in [Threads -> Seq(Frame)]
  BY DEF TypeOK
<1>2. stack'[th] = Append(Below(th), f) /\ \A other \in Threads : other # th => stack'[other] = stack[other]
  BY <1>1 DEF Goto
<1>3. stack' \in [Threads -> Seq(Frame)]
  BY <1>1, BelowTop DEF Goto
<1>4. /\ Len(stack'[th]) = Len(stack[th]) /\ stack'[th][Len(stack[th])] = f
      /\ \A i \in 1..(Len(stack[th]) - 1) : stack'[th][i] = stack[th][i]
  BY <1>2, BelowTop, TopIsLast
<1> QED
  BY <1>2, <1>3, <1>4, TopIsLast DEF StackChange

LEMMA CallStack ==
  ASSUME TypeOK, NEW th \in Threads, ~Idle(th), NEW f \in Frame, NEW g \in Frame, GotoAndCall(th, f, g)
  PROVE  /\ StackChange(th, Len(stack[th])) /\ Len(stack'[th]) = Len(stack[th]) + 1
         /\ stack'[th][Len(stack[th])] = f /\ stack'[th][Len(stack[th]) + 1] = g
<1>1. stack \in [Threads -> Seq(Frame)]
  BY DEF TypeOK
<1>2. /\ stack'[th] = Append(Append(Below(th), f), g)
      /\ \A other \in Threads : other # th => stack'[other] = stack[other]
  BY <1>1 DEF GotoAndCall
<1>3. stack' \in [Threads -> Seq(Frame)]
  BY <1>1, BelowTop DEF GotoAndCall
<1>4. /\ Len(stack'[th]) = Len(stack[th]) + 1 /\ stack'[th][Len(stack[th])] = f
      /\ stack'[th][Len(stack[th]) + 1] = g
      /\ \A i \in 1..(Len(stack[th]) - 1) : stack'[th][i] = stack[th][i]
  BY <1>2, BelowTop, TopIsLast
<1> QED
  BY <1>2, <1>3, <1>4, TopIsLast DEF StackChange

-----------------------------------------------------------------------------
(* What the calls hold.                                                    *)

LEMMA OwedPlaces ==
  ASSUME NEW t, NEW p
  PROVE  p \in Owed(t) <=>
           \E th \in Threads : \E i \in DOMAIN stack[th] : \E j \in ToRun(stack[th][i], t) : p = <<th, i, j>>
BY DEF Owed

LEMMA CarriedPlaces ==
  ASSUME NEW t, NEW p
  PROVE  p \in Carried(t) <=>
           \E th \in Threads : \E i \in DOMAIN stack[th] : \E j \in ToAdd(stack[th][i], t) : p = <<th, i, j>>
BY DEF Carried

LEMMA OwedPlacesAfter ==
  ASSUME NEW t, NEW p
  PROVE  p \in Owed(t)' <=>
           \E th \in Threads : \E i \in DOMAIN stack'[th] : \E j \in ToRun(stack'[th][i], t) : p = <<th, i, j>>
BY DEF Owed

LEMMA CarriedPlacesAfter ==
  ASSUME NEW t, NEW p
  PROVE  p \in Carried(t)' <=>
           \E th \in Threads : \E i \in DOMAIN stack'[th] : \E j \in ToAdd(stack'[th][i], t) : p = <<th, i, j>>
BY DEF Carried

\* After a change from n on, what is held below n is held as before.
LEMMA HeldAfter ==
  ASSUME TypeOK, NEW th \in Threads, NEW n, StackChange(th, n), NEW t
  PROVE  /\ \A p : p \in Owed(t)' <=>
                  \/ p \in Owed(t) /\ ~(\E i \in n..Len(stack[th]) : \E j : p = <<th, i, j>>)
                  \/ \E i \in n..Len(stack'[th]) : \E j \in ToRun(stack'[th][i], t) : p = <<th, i, j>>
         /\ \A p : p \in Carried(t)' <=>
                  \/ p \in Carried(t) /\ ~(\E i \in n..Len(stack[th]) : \E j : p = <<th, i, j>>)
                  \/ \E i \in n..Len(stack'[th]) : \E j \in ToAdd(stack'[th][i], t) : p = <<th, i, j>>
<1>1. /\ \A o \in Threads : DOMAIN stack[o] = 1..Len(stack[o]) /\ Len(stack[o]) \in Nat
      /\ \A o \in Threads : DOMAIN stack'[o] = 1..Len(stack'[o]) /\ Len(stack'[o]) \in Nat
  BY DEF TypeOK, StackChange
<1>2. /\ n \in Nat /\ n # 0 /\ n <= Len(stack[th]) + 1 /\ n <= Len(stack'[th]) + 1
      /\ \A i \in 1..(n - 1) : stack'[th][i] = stack[th][i]
      /\ \A o \in Threads : o # th => stack'[o] = stack[o]
  BY <1>1 DEF StackChange
<1>3. ASSUME NEW o \in Threads, NEW i
      PROVE  /\ i \in 1..Len(stack[o]) /\ ~(o = th /\ i \in n..Len(stack[th])) =>
                  i \in 1..Len(stack'[o]) /\ stack'[o][i] = stack[o][i] /\ ~(o = th /\ i \in n..Len(stack'[th]))
             /\ i \in 1..Len(stack'[o]) /\ ~(o = th /\ i \in n..Len(stack'[th])) =>
                  i \in 1..Len(stack[o]) /\ stack'[o][i] = stack[o][i] /\ ~(o = th /\ i \in n..Len(stack[th]))
  BY <1>1, <1>2
<1>4. n..Len(stack'[th]) \subseteq 1..Len(stack'[th])
  BY <1>1, <1>2
<1>5. ASSUME NEW p
      PROVE  p \in Owed(t)' <=>
               \/ p \in Owed(t) /\ ~(\E i \in n..Len(stack[th]) : \E j : p = <<th, i, j>>)
               \/ \E i \in n..Len(stack'[th]) : \E j \in ToRun(stack'[th][i], t) : p = <<th, i, j>>
  BY <1>1, <1>3, <1>4, OwedPlaces, OwedPlacesAfter
<1>6. ASSUME NEW p
      PROVE  p \in Carried(t)' <=>
               \/ p \in Carried(t) /\ ~(\E i \in n..Len(stack[th]) : \E j : p = <<th, i, j>>)
               \/ \E i \in n..Len(stack'[th]) : \E j \in ToAdd(stack'[th][i], t) : p = <<th, i, j>>
  BY <1>1, <1>3, <1>4, CarriedPlaces, CarriedPlacesAfter
<1> QED
  BY <1>5, <1>6

LEMMA HeldByTop ==
  ASSUME TypeOK, NEW th \in Threads, ~Idle(th), NEW t
  PROVE  /\ \A j \in ToRun(Top(th), t) : <<th, Len(stack[th]), j>> \in Owed(t)
         /\ \A j \in ToAdd(Top(th), t) : <<th, Len(stack[th]), j>> \in Carried(t)
         /\ \A p \in Owed(t) : \A j : p = <<th, Len(stack[th]), j>> => j \in ToRun(Top(th), t)
         /\ \A p \in Carried(t) : \A j : p = <<th, Len(stack[th]), j>> => j \in ToAdd(Top(th), t)
<1>1. Len(stack[th]) \in DOMAIN stack[th] /\ Top(th) = stack[th][Len(stack[th])]
  BY TopIsLast
<1> QED
  BY <1>1, OwedPlaces, CarriedPlaces

\* A call that returns has nothing left to run or to add.
LEMMA ReturnHeld ==
  ASSUME TypeOK, NEW th \in Threads, ~Idle(th), Return(th), NEW t
  PROVE  /\ ToRun(Top(th), t) = {} => Owed(t)' = Owed(t)
         /\ ToAdd(Top(th), t) = {} => Carried(t)' = Carried(t)
         /\ \A p : p \in Carried(t)' <=>
                     p \in Carried(t) /\ \A j \in ToAdd(Top(th), t) : p # <<th, Len(stack[th]), j>>
<1>. DEFINE n == Len(stack[th])
<1>1. StackChange(th, n) /\ Len(stack'[th]) = n - 1 /\ n \in Nat
  BY ReturnStack, TopIsLast
<1>2. n..Len(stack[th]) = {n} /\ n..Len(stack'[th]) = {}
  BY <1>1
<1>3. \A p : p \in Owed(t)' <=> p \in Owed(t) /\ ~(\E j : p = <<th, n, j>>)
  BY <1>1, <1>2, HeldAfter
<1>4. \A p : p \in Carried(t)' <=> p \in Carried(t) /\ ~(\E j : p = <<th, n, j>>)
  BY <1>1, <1>2, HeldAfter
<1> QED
  BY <1>3, <1>4, HeldByTop

\* A call that goes on holds what it held and has not run or added, and what it
\* has collected.
LEMMA GotoHeld ==
  ASSUME TypeOK, NEW th \in Threads, ~Idle(th), NEW f \in Frame, Goto(th, f), NEW t
  PROVE  /\ \A p : p \in Owed(t)' <=>
                  \/ p \in Owed(t) /\ \A j \in ToRun(Top(th), t) : p # <<th, Len(stack[th]), j>>
                  \/ \E j \in ToRun(f, t) : p = <<th, Len(stack[th]), j>>
         /\ \A p : p \in Carried(t)' <=>
                  \/ p \in Carried(t) /\ \A j \in ToAdd(Top(th), t) : p # <<th, Len(stack[th]), j>>
                  \/ \E j \in ToAdd(f, t) : p = <<th, Len(stack[th]), j>>
         /\ ToRun(f, t) = ToRun(Top(th), t) => Owed(t)' = Owed(t)
         /\ ToAdd(f, t) = ToAdd(Top(th), t) => Carried(t)' = Carried(t)
<1>. DEFINE n == Len(stack[th])
<1>1. StackChange(th, n) /\ Len(stack'[th]) = n /\ stack'[th][n] = f /\ n \in Nat
  BY GotoStack, TopIsLast
<1>2. n..Len(stack[th]) = {n} /\ n..Len(stack'[th]) = {n}
  BY <1>1
<1>3. \A p : p \in Owed(t)' <=>
               (p \in Owed(t) /\ ~(\E j : p = <<th, n, j>>)) \/ \E j \in ToRun(f, t) : p = <<th, n, j>>
  BY <1>1, <1>2, HeldAfter
<1>4. \A p : p \in Carried(t)' <=>
               (p \in Carried(t) /\ ~(\E j : p = <<th, n, j>>)) \/ \E j \in ToAdd(f, t) : p = <<th, n, j>>
  BY <1>1, <1>2, HeldAfter
<1>5. \A p : p \in Owed(t)' <=>
               \/ p \in Owed(t) /\ \A j \in ToRun(Top(th), t) : p # <<th, n, j>>
               \/ \E j \in ToRun(f, t) : p = <<th, n, j>>
  BY <1>3, HeldByTop
<1>6. \A p : p \in Carried(t)' <=>
               \/ p \in Carried(t) /\ \A j \in ToAdd(Top(th), t) : p # <<th, n, j>>
               \/ \E j \in ToAdd(f, t) : p = <<th, n, j>>
  BY <1>4, HeldByTop
<1>7. ToRun(f, t) = ToRun(Top(th), t) => Owed(t)' = Owed(t)
  BY <1>5, HeldByTop
<1>8. ToAdd(f, t) = ToAdd(Top(th), t) => Carried(t)' = Carried(t)
  BY <1>6, HeldByTop
<1> QED
  BY <1>5, <1>6, <1>7, <1>8

\* The same with a call on top that has nothing to run.
LEMMA CallHeld ==
  ASSUME TypeOK, NEW th \in Threads, ~Idle(th), NEW f \in Frame, NEW g \in Frame, GotoAndCall(th, f, g), NEW t,
         ToRun(f, t) = ToRun(Top(th), t), ToRun(g, t) = {}
  PROVE  /\ Owed(t)' = Owed(t)
         /\ \A p : p \in Carried(t)' <=>
                  \/ p \in Carried(t) /\ \A j \in ToAdd(Top(th), t) : p # <<th, Len(stack[th]), j>>
                  \/ \E j \in ToAdd(f, t) : p = <<th, Len(stack[th]), j>>
                  \/ \E j \in ToAdd(g, t) : p = <<th, Len(stack[th]) + 1, j>>
<1>. DEFINE n == Len(stack[th])
<1>1. /\ StackChange(th, n) /\ Len(stack'[th]) = n + 1 /\ stack'[th][n] = f /\ stack'[th][n + 1] = g
      /\ n \in Nat
  BY CallStack, TopIsLast
<1>2. n..Len(stack[th]) = {n} /\ n..Len(stack'[th]) = {n, n + 1}
  BY <1>1
<1>3. \A p : p \in Owed(t)' <=>
               (p \in Owed(t) /\ ~(\E j : p = <<th, n, j>>)) \/ \E j \in ToRun(f, t) : p = <<th, n, j>>
  BY <1>1, <1>2, HeldAfter
<1>4. \A p : p \in Carried(t)' <=>
               \/ p \in Carried(t) /\ ~(\E j : p = <<th, n, j>>)
               \/ \E j \in ToAdd(f, t) : p = <<th, n, j>>
               \/ \E j \in ToAdd(g, t) : p = <<th, n + 1, j>>
  BY <1>1, <1>2, HeldAfter
<1>5. Owed(t)' = Owed(t)
  BY <1>3, HeldByTop
<1>6. \A p : p \in Carried(t)' <=>
               \/ p \in Carried(t) /\ \A j \in ToAdd(Top(th), t) : p # <<th, n, j>>
               \/ \E j \in ToAdd(f, t) : p = <<th, n, j>>
               \/ \E j \in ToAdd(g, t) : p = <<th, n + 1, j>>
  BY <1>4, HeldByTop
<1> QED
  BY <1>5, <1>6

LEMMA FirstHeld ==
  ASSUME TypeOK, NEW th \in Threads, Idle(th), NEW f \in Frame, stack' = [stack EXCEPT ![th] = <<f>>], NEW t,
         ToRun(f, t) = {}
  PROVE  /\ Owed(t)' = Owed(t)
         /\ \A p : p \in Carried(t)' <=> p \in Carried(t) \/ \E j \in ToAdd(f, t) : p = <<th, 1, j>>
<1>1. StackChange(th, 1) /\ Len(stack'[th]) = 1 /\ stack'[th][1] = f
  BY FirstCall
<1>2. 1..Len(stack[th]) = {} /\ 1..Len(stack'[th]) = {1}
  BY <1>1 DEF Idle
<1>3. \A p : p \in Owed(t)' <=> p \in Owed(t) \/ \E j \in ToRun(f, t) : p = <<th, 1, j>>
  BY <1>1, <1>2, HeldAfter
<1>4. \A p : p \in Carried(t)' <=> p \in Carried(t) \/ \E j \in ToAdd(f, t) : p = <<th, 1, j>>
  BY <1>1, <1>2, HeldAfter
<1>5. Owed(t)' = Owed(t)
  BY <1>3
<1> QED
  BY <1>4, <1>5

-----------------------------------------------------------------------------
(* What the changes of a stack keep.                                       *)

\* The frames that are left, and the new ones.
LEMMA OtherFrames ==
  ASSUME TypeOK, NEW th \in Threads, NEW n, StackChange(th, n)
  PROVE  /\ \A t : Adding(t)' =>
              Adding(t) \/ \E i \in n..Len(stack'[th]) : stack'[th][i].at = "add" /\ stack'[th][i].timers[1] = t
         /\ WillArm => WillArm' \/ \E i \in n..Len(stack[th]) : stack[th][i].at \in Arming
         /\ (\E i \in n..Len(stack'[th]) : stack'[th][i].at \in Arming) => WillArm'
<1>1. /\ \A o \in Threads : DOMAIN stack[o] = 1..Len(stack[o]) /\ Len(stack[o]) \in Nat
      /\ \A o \in Threads : DOMAIN stack'[o] = 1..Len(stack'[o]) /\ Len(stack'[o]) \in Nat
  BY DEF TypeOK, StackChange
<1>2. /\ n \in Nat /\ n # 0 /\ n <= Len(stack[th]) + 1 /\ n <= Len(stack'[th]) + 1
      /\ \A i \in 1..(n - 1) : stack'[th][i] = stack[th][i]
      /\ \A o \in Threads : o # th => stack'[o] = stack[o]
  BY <1>1 DEF StackChange
<1>3. ASSUME NEW o \in Threads, NEW i
      PROVE  /\ i \in 1..Len(stack[o]) /\ ~(o = th /\ i \in n..Len(stack[th])) =>
                  i \in 1..Len(stack'[o]) /\ stack'[o][i] = stack[o][i]
             /\ i \in 1..Len(stack'[o]) /\ ~(o = th /\ i \in n..Len(stack'[th])) =>
                  i \in 1..Len(stack[o]) /\ stack'[o][i] = stack[o][i]
  BY <1>1, <1>2
<1>4. n..Len(stack'[th]) \subseteq 1..Len(stack'[th])
  BY <1>1, <1>2
<1>5. ASSUME NEW t, Adding(t)'
      PROVE  Adding(t) \/ \E i \in n..Len(stack'[th]) : stack'[th][i].at = "add" /\ stack'[th][i].timers[1] = t
  BY <1>1, <1>3, <1>5 DEF Adding
<1>6. ASSUME WillArm
      PROVE  WillArm' \/ \E i \in n..Len(stack[th]) : stack[th][i].at \in Arming
  BY <1>1, <1>3, <1>6 DEF WillArm
<1>7. (\E i \in n..Len(stack'[th]) : stack'[th][i].at \in Arming) => WillArm'
  BY <1>1, <1>4 DEF WillArm
<1> QED
  BY <1>5, <1>6, <1>7

\* A frame that may be in a stack.
WellFormed(f, last) ==
  /\ f.next # 0
  /\ ~last => f.at \in {"again", "run"}
  /\ f.at \in {"add", "arm"} => Len(f.timers) = 1

LEMMA FramesAfter ==
  ASSUME TypeOK, Frames, NEW th \in Threads, NEW n, StackChange(th, n), n <= Len(stack[th]) \/ n = 1,
         \A i \in n..Len(stack'[th]) : WellFormed(stack'[th][i], i = Len(stack'[th]))
  PROVE  Frames'
<1>1. /\ \A o \in Threads : DOMAIN stack[o] = 1..Len(stack[o]) /\ Len(stack[o]) \in Nat
      /\ \A o \in Threads : DOMAIN stack'[o] = 1..Len(stack'[o]) /\ Len(stack'[o]) \in Nat
  BY DEF TypeOK, StackChange
<1>2. /\ n \in Nat /\ n # 0 /\ n <= Len(stack[th]) + 1 /\ n <= Len(stack'[th]) + 1
      /\ \A i \in 1..(n - 1) : stack'[th][i] = stack[th][i]
      /\ \A o \in Threads : o # th => stack'[o] = stack[o]
  BY <1>1 DEF StackChange
<1>3. ASSUME NEW o \in Threads, NEW i \in 1..Len(stack'[o])
      PROVE  /\ stack'[o][i].next # 0
             /\ i < Len(stack'[o]) => stack'[o][i].at \in {"again", "run"}
             /\ stack'[o][i].at \in {"add", "arm"} => Len(stack'[o][i].timers) = 1
  <2>1. CASE o # th
    BY <1>1, <1>2, <2>1 DEF Frames
  <2>2. CASE o = th /\ i >= n
    BY <1>1, <1>2, <2>2 DEF WellFormed
  <2>3. CASE o = th /\ i < n
    <3>1. i \in 1..(n - 1) /\ i \in 1..Len(stack[th]) /\ i < Len(stack[th]) /\ stack'[th][i] = stack[th][i]
      BY <1>1, <1>2, <2>3
    <3> QED
      BY <1>1, <2>3, <3>1 DEF Frames
  <2> QED
    BY <1>1, <1>2, <2>1, <2>2, <2>3
<1> QED
  BY <1>1, <1>3 DEF Frames

\* Unless a step is the owner's, another thread has added a timer.
LEMMA PickedAfter ==
  ASSUME TypeOK, Frames, PickedIsEarliest, NEW th \in Threads, ~Idle(th), shared' = shared,
         StackChange(th, Len(stack[th])), Len(stack'[th]) \in Nat,
         Len(stack'[th]) >= Len(stack[th]) => stack'[th][Len(stack'[th])].at # "arm"
  PROVE  PickedIsEarliest'
<1> SUFFICES ASSUME ~shared PROVE PickedIsEarliest'
  BY DEF PickedIsEarliest
<1>1. th = Owner /\ \A o \in Adders : Idle(o)
  BY DEF PickedIsEarliest, Threads
<1>2. \A o \in Adders : Idle(o)'
  BY <1>1, OwnerAssumption DEF StackChange, Idle, Threads
<1>3. ~At(Owner, "arm")'
  <2>0. Len(stack[th]) \in Nat /\ DOMAIN stack[th] = 1..Len(stack[th])
    BY TopIsLast
  <2>1. CASE Len(stack'[th]) >= Len(stack[th])
    BY <1>1, <2>1 DEF At, Top
  <2>2. CASE ~(Len(stack'[th]) >= Len(stack[th])) /\ Len(stack'[th]) # 0
    <3>1. Len(stack'[th]) = Len(stack[th]) - 1 /\ Len(stack'[th]) \in 1..(Len(stack[th]) - 1)
      BY <2>0, <2>2 DEF StackChange
    <3>2. stack'[th][Len(stack'[th])] = stack[th][Len(stack'[th])]
      BY <3>1 DEF StackChange
    <3>3. stack[th][Len(stack'[th])].at \in {"again", "run"}
      BY <2>0, <3>1 DEF Frames
    <3> QED
      BY <1>1, <3>2, <3>3 DEF At, Top
  <2>3. CASE Len(stack'[th]) = 0
    <3>1. stack'[th] \in Seq(Frame)
      BY DEF StackChange
    <3> QED
      BY <1>1, <2>3, <3>1 DEF At, Idle
  <2> QED
    BY <2>1, <2>2, <2>3
<1> QED
  BY <1>2, <1>3 DEF PickedIsEarliest

\* What the calls for a timer, and those that hold none, have to run and to add.
LEMMA CallHolds ==
  ASSUME NEW t
  PROVE  /\ \A f : f.at \in {"add", "reset", "arm", "read", "collect"} => ToRun(f, t) = {}
         /\ \A f : f.at \in {"reset", "arm", "read", "collect", "run"} => ToAdd(f, t) = {}
BY DEF ToRun, ToAdd

LEMMA CallIsFrame ==
  ASSUME NEW at \in {"add", "reset", "arm", "read", "collect", "again", "run"}, NEW timers \in Seq(Timers)
  PROVE  /\ Call(at, timers) \in Frame
         /\ Call(at, timers).at = at /\ Call(at, timers).timers = timers /\ Call(at, timers).next = 1
BY DEF Call, Frame

-----------------------------------------------------------------------------
(* The timers.                                                             *)

LEMMA OneMore ==
  ASSUME NEW n \in Nat, NEW i \in Nat
  PROVE  n * i \in Nat /\ (n + 1) * i = n * i + i
OBVIOUS

LEMMA RoundsAreNumbers ==
  ASSUME TypeOK, NEW t \in Timers, InTime(t)
  PROVE  /\ fired[t] \in Nat /\ Cardinality(Owed(t)) \in Nat /\ Rounds(t) \in Nat
         /\ created[t] \in Nat /\ Interval[t] \in Nat /\ Interval[t] # 0 /\ now \in Nat
         /\ m_trigger_time[t] \in Nat
<1>1. Cardinality(Owed(t)) \in Nat
  BY FS_CardinalityType DEF InTime
<1>2. fired[t] \in Nat /\ created[t] \in Nat /\ now \in Nat /\ m_trigger_time[t] \in Nat
  BY MaxTimeAssumption DEF TypeOK
<1>3. Interval[t] \in Nat /\ Interval[t] # 0
  BY IntervalAssumption
<1> QED
  BY <1>1, <1>2, <1>3 DEF Rounds

\* A timer the step does not deal with.
LEMMA SameTimer ==
  ASSUME TypeOK, NEW t \in Timers, InOnePlace(t), InTime(t),
         Owed(t)' = Owed(t), Carried(t)' \subseteq Carried(t), Adding(t)' => Adding(t),
         t \in m_pending_timers' => t \in m_pending_timers,
         m_trigger_time'[t] = m_trigger_time[t], created'[t] = created[t], fired'[t] = fired[t],
         now' \in Nat, now <= now'
  PROVE  InOnePlace(t)' /\ InTime(t)'
<1>1. Rounds(t)' = Rounds(t)
  BY DEF Rounds
<1>2. Waiting(t)' => Waiting(t)
  BY DEF Waiting
<1>3. InOnePlace(t)'
  BY DEF InOnePlace
<1>4. created[t] # 0 => created[t] + Rounds(t) * Interval[t] <= now'
  <2>1. Rounds(t) * Interval[t] \in Nat /\ created[t] \in Nat /\ now \in Nat
    BY RoundsAreNumbers, OneMore
  <2> QED
    BY <2>1 DEF InTime
<1>5. InTime(t)'
  BY <1>1, <1>2, <1>4 DEF InTime
<1> QED
  BY <1>3, <1>5

\* What was removed is not run.
Silent ==
  \A t \in removed :
    /\ Owed(t)' \subseteq Owed(t)
    /\ fired'[t] # fired[t] => t \in Periodic /\ Owed(t)' # Owed(t)

\* A step after which every timer is where it was.
LEMMA SameTimers ==
  ASSUME IInv,
         \A t \in Timers : Owed(t)' = Owed(t) /\ Carried(t)' \subseteq Carried(t) /\ (Adding(t)' => Adding(t)),
         UNCHANGED <<m_trigger_time, created, fired, m_pending_timers, m_valid, removed>>,
         now' \in Nat, now <= now'
  PROVE  (\A t \in Timers : InOnePlace(t)' /\ InTime(t)') /\ RemovedIsInvalid' /\ Silent
<1>1. ASSUME NEW t \in Timers PROVE InOnePlace(t)' /\ InTime(t)'
  BY SameTimer DEF IInv
<1>2. \A t \in removed : t \in Timers
  BY DEF IInv, TypeOK
<1>3. RemovedIsInvalid' /\ Silent
  BY <1>2 DEF IInv, RemovedIsInvalid, Silent
<1> QED
  BY <1>1, <1>3

-----------------------------------------------------------------------------
(* The steps.                                                              *)

LEMMA StepIsBusy ==
  ASSUME NEW th, NEW at, At(th, at)
  PROVE  ~Idle(th) /\ Top(th).at = at
BY DEF At

\* A call that holds no timers.
LEMMA EmptyCall ==
  ASSUME NEW at \in {"reset", "read", "collect"}
  PROVE  /\ Call(at, <<>>) \in Frame /\ Call(at, <<>>).at = at /\ Call(at, <<>>).next = 1
         /\ \A t : ToRun(Call(at, <<>>), t) = {} /\ ToAdd(Call(at, <<>>), t) = {}
<1>1. <<>> \in Seq(Timers)
  OBVIOUS
<1>2. Call(at, <<>>) \in Frame /\ Call(at, <<>>).at = at /\ Call(at, <<>>).next = 1
  BY <1>1 DEF Call, Frame
<1> QED
  BY <1>2, CallHolds

\* A call that holds one timer, to add it or to arm the timerfd for it.
LEMMA OneTimerCall ==
  ASSUME NEW f \in Frame, Len(f.timers) = 1
  PROVE  /\ f.timers[1] \in Timers
         /\ f.at = "add" => \A t : ToAdd(f, t) = IF t = f.timers[1] THEN {1} ELSE {}
<1>1. f.timers \in Seq(Timers) /\ DOMAIN f.timers = {1}
  BY DEF Frame
<1>2. ASSUME f.at = "add", NEW t PROVE ToAdd(f, t) = IF t = f.timers[1] THEN {1} ELSE {}
  BY <1>1, <1>2 DEF ToAdd
<1> QED
  BY <1>1, <1>2

\* addTimerEvent(): the timer goes from the call to the queue.
LEMMA AddTimerEventStep == ASSUME IInv, NEW th \in Threads, AddTimerEvent(th) PROVE IInv' /\ Silent
<1>. USE DEF IInv
<1>1. /\ At(th, "add") /\ ~Idle(th) /\ Top(th).at = "add"
      /\ UNCHANGED <<now, m_trigger_time, m_valid, created, removed, armed, expired, edge, fired, shared>>
  BY DEF AddTimerEvent, At, timer_vars, fd_vars
<1>2. PICK n \in Nat : n = Len(stack[th]) /\ n \in DOMAIN stack[th] /\ Top(th) = stack[th][n] /\ Top(th) \in Frame
  BY <1>1, TopIsLast
<1>3. Len(Top(th).timers) = 1
  BY <1>1, <1>2 DEF Frames
<1>4. PICK t \in Timers : t = Top(th).timers[1]
  BY <1>2, <1>3, OneTimerCall
<1>5. /\ m_pending_timers' = m_pending_timers \cup {t}
      /\ \/ IsReset(t) /\ Goto(th, Call("reset", <<>>))
         \/ ~IsReset(t) /\ Return(th)
  BY <1>4 DEF AddTimerEvent
<1>6. /\ StackChange(th, n) /\ Len(stack'[th]) \in Nat
      /\ \A i \in n..Len(stack'[th]) : stack'[th][i] = Call("reset", <<>>) /\ i = Len(stack'[th])
      /\ IsReset(t) => n..Len(stack'[th]) = {n}
  BY <1>1, <1>2, <1>5, EmptyCall, GotoStack, ReturnStack
<1>7. /\ \A u : ToRun(Top(th), u) = {} /\ (u # t => ToAdd(Top(th), u) = {})
      /\ ToAdd(Top(th), t) = {1}
  <2>1. \A u : ToRun(Top(th), u) = {}
    BY <1>1, CallHolds
  <2>2. \A u : ToAdd(Top(th), u) = IF u = t THEN {1} ELSE {}
    BY <1>1, <1>2, <1>3, <1>4, OneTimerCall
  <2> QED
    BY <2>1, <2>2
<1>8. /\ \A u : Owed(u)' = Owed(u) /\ (u # t => Carried(u)' = Carried(u))
      /\ \A p : p \in Carried(t)' <=> p \in Carried(t) /\ p # <<th, n, 1>>
  <2>1. CASE Goto(th, Call("reset", <<>>))
    <3>1. \A u : Owed(u)' = Owed(u)
      BY <1>1, <1>7, <2>1, EmptyCall, GotoHeld
    <3>2. ASSUME NEW u, u # t PROVE Carried(u)' = Carried(u)
      <4>1. ToAdd(Call("reset", <<>>), u) = ToAdd(Top(th), u)
        BY <1>7, <3>2, EmptyCall
      <4> QED
        BY <1>1, <2>1, <4>1, EmptyCall, GotoHeld
    <3>3. \A p : p \in Carried(t)' <=> p \in Carried(t) /\ p # <<th, n, 1>>
      BY <1>1, <1>2, <1>7, <2>1, EmptyCall, GotoHeld
    <3> QED
      BY <3>1, <3>2, <3>3
  <2>2. CASE Return(th)
    <3>1. \A u : Owed(u)' = Owed(u)
      BY <1>1, <1>7, <2>2, ReturnHeld
    <3>2. \A u : u # t => Carried(u)' = Carried(u)
      BY <1>1, <1>7, <2>2, ReturnHeld
    <3>3. \A p : p \in Carried(t)' <=> p \in Carried(t) /\ p # <<th, n, 1>>
      BY <1>1, <1>2, <1>7, <2>2, ReturnHeld
    <3> QED
      BY <3>1, <3>2, <3>3
  <2> QED
    BY <1>5, <2>1, <2>2
<1>9. <<th, n, 1>> \in Carried(t)
  BY <1>1, <1>2, <1>7, HeldByTop
<1>13. Carried(t)' = {} /\ created[t] # 0
  BY <1>4, <1>8, <1>9 DEF InOnePlace, InTime
<1>14. \A u : Adding(u)' => Adding(u)
  BY <1>6, EmptyCall, OtherFrames
<1>15. Adding(t)
  BY <1>1, <1>2, <1>4 DEF Adding
<1>16. \A u \in Timers : InOnePlace(u)' /\ InTime(u)'
  <2>1. ASSUME NEW u \in Timers, u # t PROVE InOnePlace(u)' /\ InTime(u)'
    <3>1. Carried(u)' \subseteq Carried(u) /\ (u \in m_pending_timers' => u \in m_pending_timers)
      BY <1>5, <1>8, <2>1
    <3>2. now' \in Nat /\ now <= now'
      BY <1>1, MaxTimeAssumption DEF TypeOK
    <3> QED
      BY <1>1, <1>8, <1>14, <3>1, <3>2, SameTimer
  <2>2. InOnePlace(t)'
    BY <1>13 DEF InOnePlace
  <2>3. InTime(t)'
    <3>1. Rounds(t)' = Rounds(t)
      BY <1>1, <1>8 DEF Rounds
    <3>2. Waiting(t)
      BY <1>15 DEF Waiting
    <3>3. InTime(t)
      BY <1>4
    <3> QED
      BY <1>1, <1>8, <1>13, <3>1, <3>2, <3>3 DEF InTime
  <2> QED
    BY <2>1, <2>2, <2>3
<1>17. RemovedIsInvalid' /\ Silent
  BY <1>1, <1>8 DEF RemovedIsInvalid, Silent
<1>18. Frames'
  BY <1>2, <1>6, EmptyCall, FramesAfter DEF WellFormed
<1>19. PickedIsEarliest'
  <2>1. Len(stack'[th]) >= Len(stack[th]) => stack'[th][Len(stack'[th])].at # "arm"
    BY <1>2, <1>6, EmptyCall
  <2> QED
    BY <1>1, <1>2, <1>6, <2>1, PickedAfter
<1>20. SomeoneArms'
  <2>1. CASE IsReset(t)
    BY <1>2, <1>6, <2>1, EmptyCall, OtherFrames DEF SomeoneArms, Arming
  <2>2. CASE ~IsReset(t)
    <3>1. PICK u \in m_pending_timers : ~(m_trigger_time[u] > m_trigger_time[t])
      BY <2>2 DEF IsReset
    <3>2. u \in Timers /\ m_trigger_time \in [Timers -> Nat] /\ m_pending_timers \subseteq Timers
      BY DEF TypeOK
    <3>3. m_trigger_time[u] <= m_trigger_time[t]
      BY <1>4, <3>1, <3>2
    <3>4. Earliest \subseteq Earliest'
      <4>1. ASSUME NEW e \in Earliest PROVE m_trigger_time[e] <= m_trigger_time[t]
        <5>1. e \in Timers /\ m_trigger_time[e] <= m_trigger_time[u]
          BY <3>2 DEF Earliest
        <5> QED
          BY <1>4, <3>2, <3>3, <5>1
      <4> QED
        BY <1>1, <1>5, <4>1 DEF Earliest
    <3>5. WillArm => WillArm'
      <4>1. ~(\E i \in n..Len(stack[th]) : stack[th][i].at \in Arming)
        BY <1>1, <1>2 DEF Arming
      <4> QED
        BY <1>6, <4>1, OtherFrames
    <3>6. Deliverable' = Deliverable
      BY <1>1 DEF Deliverable
    <3> QED
      BY <1>1, <3>1, <3>4, <3>5, <3>6 DEF SomeoneArms
  <2> QED
    BY <2>1, <2>2
<1>21. TypeOK' /\ IsFiniteSet(m_pending_timers)'
  <2>1. IsFiniteSet(m_pending_timers \cup {t})
    BY FS_AddElement
  <2> QED
    BY <1>1, <1>5, <1>6, <2>1 DEF TypeOK, StackChange
<1> QED
  BY <1>16, <1>17, <1>18, <1>19, <1>20, <1>21

\* What a step that only moves a call on leaves to show.
Kept ==
  /\ \A t \in Timers : InOnePlace(t)' /\ InTime(t)'
  /\ RemovedIsInvalid' /\ Silent /\ Frames'
  /\ stack' \in [Threads -> Seq(Frame)]

SameValues == UNCHANGED <<now, m_trigger_time, m_valid, created, removed, fired, m_pending_timers>>

\* A call goes on and holds what it held.
LEMMA MovesOn ==
  ASSUME IInv, NEW th \in Threads, ~Idle(th), NEW f \in Frame, Goto(th, f), SameValues,
         WellFormed(f, TRUE), f.at # "add",
         \A u : ToRun(f, u) = ToRun(Top(th), u) /\ ToAdd(f, u) = ToAdd(Top(th), u)
  PROVE  /\ Kept
         /\ f.at \in Arming => WillArm'
         /\ Top(th).at \notin Arming => (WillArm => WillArm')
         /\ f.at # "arm" /\ shared' = shared => PickedIsEarliest'
<1>. USE DEF IInv
<1>1. PICK n \in Nat : n = Len(stack[th]) /\ Top(th) = stack[th][n] /\ n # 0
  BY TopIsLast
<1>2. /\ StackChange(th, n) /\ Len(stack'[th]) = n /\ stack'[th][n] = f
      /\ n..Len(stack[th]) = {n} /\ n..Len(stack'[th]) = {n}
  BY <1>1, GotoStack
<1>3. \A u : Owed(u)' = Owed(u) /\ Carried(u)' = Carried(u)
  BY GotoHeld
<1>4. \A u : Adding(u)' => Adding(u)
  BY <1>2, OtherFrames
<1>5. now' \in Nat /\ now <= now'
  BY MaxTimeAssumption DEF SameValues, TypeOK
<1>6. (\A t \in Timers : InOnePlace(t)' /\ InTime(t)') /\ RemovedIsInvalid' /\ Silent
  BY <1>3, <1>4, <1>5, SameTimers DEF SameValues
<1>7. Frames'
  <2>1. n <= Len(stack[th]) /\ \A i \in n..Len(stack'[th]) : WellFormed(stack'[th][i], i = Len(stack'[th]))
    BY <1>1, <1>2 DEF WellFormed
  <2> QED
    BY <1>1, <1>2, <2>1, FramesAfter
<1>8. f.at \in Arming => WillArm'
  BY <1>2, OtherFrames
<1>9. Top(th).at \notin Arming => (WillArm => WillArm')
  BY <1>1, <1>2, OtherFrames
<1>10. f.at # "arm" /\ shared' = shared => PickedIsEarliest'
  BY <1>1, <1>2, PickedAfter
<1> QED
  BY <1>2, <1>6, <1>7, <1>8, <1>9, <1>10 DEF Kept, StackChange

\* A call that holds nothing returns.
LEMMA Returns ==
  ASSUME IInv, NEW th \in Threads, ~Idle(th), Return(th), SameValues,
         \A u : ToRun(Top(th), u) = {} /\ ToAdd(Top(th), u) = {}
  PROVE  /\ Kept
         /\ Top(th).at \notin Arming => (WillArm => WillArm')
         /\ shared' = shared => PickedIsEarliest'
<1>. USE DEF IInv
<1>1. PICK n \in Nat : n = Len(stack[th]) /\ Top(th) = stack[th][n] /\ n # 0
  BY TopIsLast
<1>2. /\ StackChange(th, n) /\ Len(stack'[th]) = n - 1
      /\ n..Len(stack[th]) = {n} /\ n..Len(stack'[th]) = {}
  BY <1>1, ReturnStack
<1>3. \A u : Owed(u)' = Owed(u) /\ Carried(u)' = Carried(u)
  BY ReturnHeld
<1>4. \A u : Adding(u)' => Adding(u)
  BY <1>2, OtherFrames
<1>5. now' \in Nat /\ now <= now'
  BY MaxTimeAssumption DEF SameValues, TypeOK
<1>6. (\A t \in Timers : InOnePlace(t)' /\ InTime(t)') /\ RemovedIsInvalid' /\ Silent
  BY <1>3, <1>4, <1>5, SameTimers DEF SameValues
<1>7. Frames'
  <2>1. n <= Len(stack[th]) /\ \A i \in n..Len(stack'[th]) : WellFormed(stack'[th][i], i = Len(stack'[th]))
    BY <1>1, <1>2
  <2> QED
    BY <1>1, <1>2, <2>1, FramesAfter
<1>8. Top(th).at \notin Arming => (WillArm => WillArm')
  BY <1>1, <1>2, OtherFrames
<1>9. shared' = shared => PickedIsEarliest'
  BY <1>1, <1>2, PickedAfter
<1> QED
  BY <1>2, <1>6, <1>7, <1>8, <1>9 DEF Kept, StackChange

\* resetTimerFd(): the first timer is picked.
LEMMA PickFirstStep == ASSUME IInv, NEW th \in Threads, PickFirst(th) PROVE IInv' /\ Silent
<1>. USE DEF IInv
<1>1. /\ At(th, "reset") /\ ~Idle(th) /\ Top(th).at = "reset" /\ SameValues
      /\ UNCHANGED <<armed, expired, edge, shared>>
  BY DEF PickFirst, At, timer_vars, fd_vars, SameValues
<1>2. \A u : ToRun(Top(th), u) = {} /\ ToAdd(Top(th), u) = {}
  BY <1>1, CallHolds
<1>3. CASE m_pending_timers = {}
  <2>1. Return(th)
    BY <1>3 DEF PickFirst
  <2>2. Kept /\ PickedIsEarliest'
    BY <1>1, <1>2, <2>1, Returns
  <2> QED
    BY <1>1, <1>3, <2>2 DEF Kept, SomeoneArms, SameValues, TypeOK
<1>4. CASE m_pending_timers # {}
  <2>1. PICK t \in Earliest : Goto(th, Call("arm", <<t>>))
    BY <1>4 DEF PickFirst
  <2>2. t \in Timers /\ <<t>> \in Seq(Timers)
    BY DEF Earliest, TypeOK
  <2>3. PICK f \in Frame : f = Call("arm", <<t>>) /\ f.at = "arm" /\ f.timers = <<t>> /\ f.next = 1
    <3>1. Call("arm", <<t>>) \in Frame
      BY <2>2 DEF Call, Frame
    <3> QED
      BY <3>1 DEF Call
  <2>4. \A u : ToRun(f, u) = {} /\ ToAdd(f, u) = {}
    BY <2>3, CallHolds
  <2>5. WellFormed(f, TRUE) /\ f.at # "add" /\ f.at \in Arming
    BY <2>3 DEF WellFormed, Arming
  <2>6. Kept /\ WillArm'
    BY <1>1, <1>2, <2>1, <2>3, <2>4, <2>5, MovesOn
  <2>7. PickedIsEarliest'
    <3> SUFFICES ASSUME ~shared PROVE PickedIsEarliest'
      BY <1>1 DEF PickedIsEarliest
    <3>1. th = Owner /\ \A o \in Adders : Idle(o)
      BY <1>1 DEF PickedIsEarliest, Threads
    <3>2. /\ StackChange(th, Len(stack[th])) /\ Len(stack'[th]) = Len(stack[th])
          /\ stack'[th][Len(stack[th])] = f
      BY <1>1, <2>1, <2>3, GotoStack
    <3>3. \A o \in Adders : Idle(o)'
      BY <3>1, <3>2, OwnerAssumption DEF StackChange, Idle, Threads
    <3>4. Top(Owner)' = f
      BY <3>1, <3>2 DEF Top
    <3>5. Earliest' = Earliest
      BY <1>1 DEF Earliest, SameValues
    <3> QED
      BY <2>3, <3>3, <3>4, <3>5 DEF PickedIsEarliest
  <2> QED
    BY <1>1, <2>6, <2>7 DEF Kept, SomeoneArms, SameValues, TypeOK
<1> QED
  BY <1>3, <1>4

\* resetTimerFd(): the timerfd is armed for the timer picked, or it is handled.
LEMMA ArmStep == ASSUME IInv, NEW th \in Threads, Arm(th) PROVE IInv' /\ Silent
<1>. USE DEF IInv
<1>1. At(th, "arm") /\ ~Idle(th) /\ Top(th).at = "arm" /\ SameValues /\ shared' = shared
  BY DEF Arm, At, timer_vars, SameValues
<1>2. \A u : ToRun(Top(th), u) = {} /\ ToAdd(Top(th), u) = {}
  BY <1>1, CallHolds
<1>3. Top(th) \in Frame /\ Len(Top(th).timers) = 1
  <2>1. Top(th) = stack[th][Len(stack[th])] /\ Len(stack[th]) \in DOMAIN stack[th] /\ Top(th) \in Frame
    BY <1>1, TopIsLast
  <2> QED
    BY <1>1, <2>1 DEF Frames
<1>4. PICK t \in Timers : t = Top(th).timers[1]
  BY <1>3, OneTimerCall
<1>5. m_trigger_time[t] \in Nat /\ now \in Nat
  BY MaxTimeAssumption DEF TypeOK
<1>6. CASE m_trigger_time[t] <= now
  <2>1. Goto(th, Call("read", <<>>)) /\ UNCHANGED <<armed, expired, edge>>
    BY <1>4, <1>6 DEF Arm, fd_vars
  <2>2. PICK f \in Frame : f = Call("read", <<>>) /\ f.at = "read" /\ f.next = 1
    BY EmptyCall
  <2>3. \A u : ToRun(f, u) = {} /\ ToAdd(f, u) = {}
    BY <2>2, CallHolds
  <2>4. WellFormed(f, TRUE) /\ f.at \in Arming
    BY <2>2 DEF WellFormed, Arming
  <2>5. Kept /\ WillArm' /\ PickedIsEarliest'
    BY <1>1, <1>2, <2>1, <2>2, <2>3, <2>4, MovesOn
  <2> QED
    BY <1>1, <2>1, <2>5 DEF Kept, SomeoneArms, SameValues, TypeOK
<1>7. CASE ~(m_trigger_time[t] <= now)
  <2>1. armed' = m_trigger_time[t] /\ expired' = FALSE /\ edge' = edge /\ Return(th)
    BY <1>4, <1>7 DEF Arm
  <2>2. Kept /\ PickedIsEarliest'
    BY <1>1, <1>2, <2>1, Returns
  <2>3. armed' # 0 /\ armed' \in Nat
    BY <1>5, <1>7, <2>1
  <2>4. ~shared => t \in Earliest
    BY <1>1, <1>4 DEF PickedIsEarliest, Threads
  <2>5. Earliest' = Earliest
    BY <1>1 DEF Earliest, SameValues
  <2>6. SomeoneArms'
    BY <1>1, <2>1, <2>3, <2>4, <2>5 DEF SomeoneArms, SameValues
  <2>7. TypeOK'
    BY <1>1, <2>1, <2>2, <2>3 DEF Kept, SameValues, TypeOK
  <2> QED
    BY <1>1, <2>2, <2>6, <2>7 DEF Kept, SameValues
<1> QED
  BY <1>6, <1>7

\* handleTimerEvent(): the timerfd is read, and the timers are looked at.
LEMMA ReadFdStep == ASSUME IInv, NEW th \in Threads, ReadFd(th) PROVE IInv' /\ Silent
<1>. USE DEF IInv
<1>1. /\ At(th, "read") /\ ~Idle(th) /\ Top(th).at = "read" /\ SameValues
      /\ expired' = FALSE /\ UNCHANGED <<armed, edge, shared>> /\ Goto(th, Call("collect", <<>>))
  BY DEF ReadFd, At, timer_vars, SameValues
<1>2. \A u : ToRun(Top(th), u) = {} /\ ToAdd(Top(th), u) = {}
  BY <1>1, CallHolds
<1>3. PICK f \in Frame : f = Call("collect", <<>>) /\ f.at = "collect" /\ f.next = 1
  BY EmptyCall
<1>4. \A u : ToRun(f, u) = {} /\ ToAdd(f, u) = {}
  BY <1>3, CallHolds
<1>5. WellFormed(f, TRUE) /\ f.at \in Arming
  BY <1>3 DEF WellFormed, Arming
<1>6. Kept /\ WillArm' /\ PickedIsEarliest'
  BY <1>1, <1>2, <1>3, <1>4, <1>5, MovesOn
<1> QED
  BY <1>1, <1>6 DEF Kept, SomeoneArms, SameValues, TypeOK

\* The loop's thread is told of the timerfd, and handleTimerEvent() begins.
LEMMA HandleTimerEventStep == ASSUME IInv, HandleTimerEvent PROVE IInv' /\ Silent
<1>. USE DEF IInv
<1>0. Owner \in Threads
  BY DEF Threads
<1>1. /\ Idle(Owner) /\ SameValues /\ UNCHANGED <<armed, expired, shared>> /\ edge' = FALSE
      /\ stack' = [stack EXCEPT ![Owner] = <<Call("read", <<>>)>>]
  BY DEF HandleTimerEvent, timer_vars, SameValues
<1>2. PICK f \in Frame : f = Call("read", <<>>) /\ f.at = "read" /\ f.next = 1
  BY EmptyCall
<1>3. \A u : ToRun(f, u) = {} /\ ToAdd(f, u) = {}
  BY <1>2, CallHolds
<1>4. /\ StackChange(Owner, 1) /\ Len(stack'[Owner]) = 1 /\ stack'[Owner][1] = f
      /\ 1..Len(stack'[Owner]) = {1} /\ 1..Len(stack[Owner]) = {}
  <2>1. StackChange(Owner, 1) /\ Len(stack'[Owner]) = 1 /\ stack'[Owner][1] = f
    BY <1>0, <1>1, <1>2, FirstCall
  <2> QED
    BY <1>1, <2>1 DEF Idle
<1>5. \A u : Owed(u)' = Owed(u) /\ Carried(u)' = Carried(u)
  <2>1. ASSUME NEW u PROVE Owed(u)' = Owed(u) /\ \A p : p \in Carried(u)' <=> p \in Carried(u)
    BY <1>0, <1>1, <1>2, <1>3, FirstHeld
  <2> QED
    BY <2>1
<1>6. (\A u : Adding(u)' => Adding(u)) /\ WillArm'
  BY <1>0, <1>2, <1>4, OtherFrames DEF Arming
<1>7. now' \in Nat /\ now <= now'
  BY <1>1, MaxTimeAssumption DEF SameValues, TypeOK
<1>8. (\A t \in Timers : InOnePlace(t)' /\ InTime(t)') /\ RemovedIsInvalid' /\ Silent
  BY <1>1, <1>5, <1>6, <1>7, SameTimers DEF SameValues
<1>9. Frames'
  <2>1. \A i \in 1..Len(stack'[Owner]) : WellFormed(stack'[Owner][i], i = Len(stack'[Owner]))
    BY <1>2, <1>4 DEF WellFormed
  <2> QED
    BY <1>0, <1>4, <2>1, FramesAfter
<1>10. PickedIsEarliest'
  <2>1. \A o \in Adders : Idle(o) => Idle(o)'
    BY <1>4, OwnerAssumption DEF StackChange, Idle, Threads
  <2>2. ~At(Owner, "arm")'
    BY <1>2, <1>4 DEF At, Top
  <2> QED
    BY <1>1, <2>1, <2>2 DEF PickedIsEarliest
<1>11. TypeOK'
  BY <1>1, <1>4 DEF TypeOK, SameValues, StackChange
<1> QED
  BY <1>1, <1>6, <1>8, <1>9, <1>10, <1>11 DEF SomeoneArms, SameValues

\* Time passes, and the timerfd may expire.
LEMMA TickStep == ASSUME IInv, Tick PROVE IInv' /\ Silent
<1>. USE DEF IInv
<1>1. /\ now < MaxTime /\ now' = now + 1
      /\ UNCHANGED <<m_trigger_time, m_valid, created, removed, m_pending_timers, stack, fired, shared>>
      /\ \/ armed = now' /\ armed' = 0 /\ expired' = TRUE /\ edge' = TRUE
         \/ UNCHANGED <<armed, expired, edge>>
  BY DEF Tick, timer_vars, fd_vars
<1>2. now' \in 1..MaxTime /\ now' \in Nat /\ now <= now'
  BY <1>1, MaxTimeAssumption DEF TypeOK
<1>3. \A u : Owed(u)' = Owed(u) /\ Carried(u)' = Carried(u) /\ Adding(u)' = Adding(u)
  BY <1>1 DEF Owed, Carried, Adding
<1>4. (\A t \in Timers : InOnePlace(t)' /\ InTime(t)') /\ RemovedIsInvalid' /\ Silent
  BY <1>1, <1>2, <1>3, SameTimers
<1>5. Frames'
  BY <1>1 DEF Frames
<1>6. Earliest' = Earliest
  BY <1>1 DEF Earliest
<1>7. PickedIsEarliest'
  BY <1>1, <1>6 DEF PickedIsEarliest, Idle, At, Top
<1>8. TypeOK'
  <2>1. armed' \in Nat /\ expired' \in BOOLEAN /\ edge' \in BOOLEAN
    <3>1. CASE armed' = 0 /\ expired' = TRUE /\ edge' = TRUE
      BY <3>1
    <3>2. CASE UNCHANGED <<armed, expired, edge>>
      BY <3>2 DEF TypeOK
    <3> QED
      BY <1>1, <3>1, <3>2
  <2>2. /\ m_trigger_time' \in [Timers -> Nat] /\ m_valid' \in [Timers -> BOOLEAN]
        /\ m_pending_timers' \subseteq Timers /\ stack' \in [Threads -> Seq(Frame)]
        /\ created' \in [Timers -> 0..MaxTime] /\ fired' \in [Timers -> Nat]
        /\ removed' \subseteq Timers /\ shared' \in BOOLEAN
    BY <1>1 DEF TypeOK
  <2> QED
    BY <1>2, <2>1, <2>2 DEF TypeOK
<1>9. SomeoneArms'
  <2>1. WillArm' = WillArm
    BY <1>1 DEF WillArm
  <2> QED
    BY <1>1, <1>6, <2>1 DEF SomeoneArms, Deliverable
<1> QED
  BY <1>1, <1>4, <1>5, <1>7, <1>8, <1>9

\* deleteTimerEvent(): a one-shot timer that is still in the queue was not
\* collected, and no round of it is to be run.
LEMMA SetInvalidStep == ASSUME IInv, NEW t \in Timers, SetInvalid(t) PROVE IInv' /\ Silent
<1>. USE DEF IInv
<1>1. /\ created[t] # 0 /\ m_valid' = [m_valid EXCEPT ![t] = FALSE]
      /\ removed' = IF t \in m_pending_timers THEN removed \cup {t} ELSE removed
      /\ UNCHANGED <<now, m_trigger_time, m_pending_timers, stack, armed, expired, edge, created, fired, shared>>
  BY DEF SetInvalid, fd_vars
<1>2. now' \in Nat /\ now <= now'
  BY <1>1, MaxTimeAssumption DEF TypeOK
<1>3. \A u : Owed(u)' = Owed(u) /\ Carried(u)' = Carried(u) /\ Adding(u)' = Adding(u)
  BY <1>1 DEF Owed, Carried, Adding
<1>4. \A u \in Timers : InOnePlace(u)' /\ InTime(u)'
  BY <1>1, <1>2, <1>3, SameTimer
<1>5. RemovedIsInvalid'
  <2>1. t \in m_pending_timers /\ t \notin Periodic => Owed(t) = {}
    <3> SUFFICES ASSUME t \in m_pending_timers, t \notin Periodic PROVE Owed(t) = {}
      OBVIOUS
    <3>1. Rounds(t) = 0 /\ IsFiniteSet(Owed(t))
      BY DEF InTime, Waiting
    <3>2. fired[t] \in Nat /\ Cardinality(Owed(t)) \in Nat
      BY RoundsAreNumbers
    <3>3. Cardinality(Owed(t)) = 0
      BY <3>1, <3>2 DEF Rounds
    <3> QED
      BY <3>1, <3>3, FS_EmptySet
  <2>2. \A u \in Timers : ~m_valid[u] => ~m_valid'[u]
    BY <1>1 DEF TypeOK
  <2>3. ~m_valid'[t]
    BY <1>1 DEF TypeOK
  <2>4. removed' \subseteq removed \cup {t} /\ (t \in removed' => t \in removed \/ t \in m_pending_timers)
    BY <1>1
  <2>5. removed \subseteq Timers
    BY DEF TypeOK
  <2>6. ASSUME NEW u \in removed' PROVE ~m_valid'[u] /\ (u \notin Periodic => Owed(u)' = {})
    BY <1>3, <2>1, <2>2, <2>3, <2>4, <2>5, <2>6 DEF RemovedIsInvalid
  <2> QED
    BY <2>6 DEF RemovedIsInvalid
<1>6. Silent
  BY <1>1, <1>3 DEF Silent
<1>7. Frames'
  BY <1>1 DEF Frames
<1>8. Earliest' = Earliest
  BY <1>1 DEF Earliest
<1>9. PickedIsEarliest'
  BY <1>1, <1>8 DEF PickedIsEarliest, Idle, At, Top
<1>10. TypeOK'
  BY <1>1 DEF TypeOK
<1>11. SomeoneArms'
  <2>1. WillArm' = WillArm
    BY <1>1 DEF WillArm
  <2> QED
    BY <1>1, <1>8, <2>1 DEF SomeoneArms, Deliverable
<1> QED
  BY <1>1, <1>4, <1>5, <1>6, <1>7, <1>9, <1>10, <1>11

\* A new timer is in no place but the call that will add it.
LEMMA CreateTimerStep ==
  ASSUME IInv, NEW th \in Threads, NEW t \in Timers, CreateTimer(th, t) PROVE IInv' /\ Silent
<1>. USE DEF IInv
<1>1. /\ Idle(th) /\ created[t] = 0
      /\ created' = [created EXCEPT ![t] = now]
      /\ m_trigger_time' = [m_trigger_time EXCEPT ![t] = now + Interval[t]]
      /\ stack' = [stack EXCEPT ![th] = <<Call("add", <<t>>)>>]
      /\ shared' = (shared \/ th # Owner)
      /\ UNCHANGED <<now, m_valid, m_pending_timers, armed, expired, edge, fired, removed>>
  BY DEF CreateTimer, ResetTime, fd_vars
<1>2. PICK f \in Frame : f = Call("add", <<t>>) /\ f.at = "add" /\ f.timers = <<t>> /\ f.next = 1
  <2>1. Call("add", <<t>>) \in Frame
    BY DEF Call, Frame
  <2> QED
    BY <2>1 DEF Call
<1>3. \A u : ToRun(f, u) = {} /\ ToAdd(f, u) = IF u = t THEN {1} ELSE {}
  <2>1. Len(f.timers) = 1 /\ f.timers[1] = t
    BY <1>2
  <2>2. \A u : ToRun(f, u) = {}
    BY <1>2, CallHolds
  <2>3. \A u : ToAdd(f, u) = IF u = t THEN {1} ELSE {}
    BY <1>2, <2>1, OneTimerCall
  <2> QED
    BY <2>2, <2>3
<1>4. /\ StackChange(th, 1) /\ Len(stack'[th]) = 1 /\ stack'[th][1] = f
      /\ 1..Len(stack'[th]) = {1} /\ 1..Len(stack[th]) = {}
  <2>1. StackChange(th, 1) /\ Len(stack'[th]) = 1 /\ stack'[th][1] = f
    BY <1>1, <1>2, FirstCall
  <2> QED
    BY <1>1, <2>1 DEF Idle
<1>5. \A u : /\ Owed(u)' = Owed(u)
             /\ \A p : p \in Carried(u)' <=> p \in Carried(u) \/ \E j \in ToAdd(f, u) : p = <<th, 1, j>>
  BY <1>1, <1>2, <1>3, FirstHeld
<1>6. /\ \A u : u # t => Carried(u)' = Carried(u)
      /\ \A p : p \in Carried(t)' <=> p \in Carried(t) \/ p = <<th, 1, 1>>
  BY <1>3, <1>5
<1>7. (\A u : u # t => (Adding(u)' => Adding(u))) /\ (WillArm => WillArm')
  BY <1>2, <1>4, OtherFrames
<1>8. now \in Nat /\ now # 0 /\ now \in 0..MaxTime
  BY MaxTimeAssumption DEF TypeOK
<1>9. Carried(t) = {} /\ t \notin m_pending_timers /\ Rounds(t) = 0
  BY <1>1 DEF InTime
<1>10. created'[t] = now /\ m_trigger_time'[t] = now + Interval[t]
  BY <1>1 DEF TypeOK
<1>11. InOnePlace(t)'
  BY <1>1, <1>6, <1>9 DEF InOnePlace
<1>12. InTime(t)'
  <2>1. Rounds(t)' = 0
    BY <1>1, <1>5, <1>9 DEF Rounds
  <2>2. IsFiniteSet(Owed(t)')
    BY <1>5 DEF InTime
  <2>3. Interval[t] \in Nat /\ 0 * Interval[t] = 0 /\ (0 + 1) * Interval[t] = Interval[t]
    BY IntervalAssumption
  <2> QED
    BY <1>1, <1>8, <1>10, <2>1, <2>2, <2>3 DEF InTime
<1>13. ASSUME NEW u \in Timers, u # t PROVE InOnePlace(u)' /\ InTime(u)'
  <2>1. m_trigger_time'[u] = m_trigger_time[u] /\ created'[u] = created[u]
    BY <1>1, <1>13 DEF TypeOK
  <2> QED
    BY <1>1, <1>5, <1>6, <1>7, <1>8, <1>13, <2>1, SameTimer
<1>14. RemovedIsInvalid' /\ Silent
  BY <1>1, <1>5 DEF RemovedIsInvalid, Silent
<1>15. Frames'
  <2>1. \A i \in 1..Len(stack'[th]) : WellFormed(stack'[th][i], i = Len(stack'[th]))
    BY <1>2, <1>4 DEF WellFormed
  <2> QED
    BY <1>4, <2>1, FramesAfter
<1>16. \A u \in m_pending_timers : m_trigger_time'[u] = m_trigger_time[u]
  BY <1>1, <1>9 DEF TypeOK
<1>17. Earliest' = Earliest
  BY <1>1, <1>16 DEF Earliest
<1>18. PickedIsEarliest'
  <2> SUFFICES ASSUME ~shared' PROVE PickedIsEarliest'
    BY DEF PickedIsEarliest
  <2>1. th = Owner /\ ~shared
    BY <1>1
  <2>2. \A o \in Adders : Idle(o) => Idle(o)'
    BY <1>4, <2>1, OwnerAssumption DEF StackChange, Idle, Threads
  <2>3. ~At(Owner, "arm")'
    BY <1>2, <1>4, <2>1 DEF At, Top
  <2> QED
    BY <2>1, <2>2, <2>3 DEF PickedIsEarliest
<1>19. SomeoneArms'
  <2>1. \A e \in Earliest : m_trigger_time'[e] = m_trigger_time[e]
    BY <1>16 DEF Earliest
  <2>2. shared => shared'
    BY <1>1
  <2> QED
    BY <1>1, <1>7, <1>17, <2>1, <2>2 DEF SomeoneArms, Deliverable
<1>20. TypeOK'
  <2>1. shared' \in BOOLEAN
    BY <1>1 DEF TypeOK
  <2>2. created' \in [Timers -> 0..MaxTime]
    BY <1>1, <1>8 DEF TypeOK
  <2>3. m_trigger_time' \in [Timers -> Nat]
    <3>1. Interval[t] \in Nat
      BY IntervalAssumption
    <3>2. now + Interval[t] \in Nat
      BY <1>8, <3>1
    <3> QED
      BY <1>1, <3>2 DEF TypeOK
  <2> QED
    BY <1>1, <1>4, <2>1, <2>2, <2>3 DEF TypeOK, StackChange
<1> QED
  BY <1>1, <1>11, <1>12, <1>13, <1>14, <1>15, <1>18, <1>19, <1>20

\* handleTimerEvent(): a callback runs, or after the last one it returns.
LEMMA RunCallbackStep == ASSUME IInv, NEW th \in Threads, RunCallback(th) PROVE IInv' /\ Silent
<1>. USE DEF IInv
<1>1. /\ At(th, "run") /\ ~Idle(th) /\ Top(th).at = "run"
      /\ UNCHANGED <<now, m_trigger_time, m_valid, created, removed, m_pending_timers, armed, expired, edge, shared>>
  BY DEF RunCallback, At, timer_vars, fd_vars
<1>2. PICK n \in Nat : n = Len(stack[th]) /\ n \in DOMAIN stack[th] /\ n # 0 /\ Top(th) = stack[th][n]
  BY <1>1, TopIsLast
<1>3. PICK frame \in Frame : frame = Top(th) /\ frame.at = "run"
  BY <1>1, TopIsLast
<1>4. PICK k \in Nat : k = frame.next /\ k # 0
  BY <1>2, <1>3 DEF Frames, Frame
<1>5. frame.timers \in Seq(Timers) /\ Len(frame.timers) \in Nat /\ DOMAIN frame.timers = 1..Len(frame.timers)
  BY DEF Frame
<1>6. \A u : ToAdd(Top(th), u) = {}
  BY <1>1, CallHolds
<1>7. CASE k > Len(frame.timers)
  <2>1. Return(th) /\ fired' = fired
    BY <1>3, <1>4, <1>7 DEF RunCallback
  <2>2. \A u : ToRun(Top(th), u) = {}
    BY <1>3, <1>4, <1>5, <1>7 DEF ToRun
  <2>3. SameValues /\ Top(th).at \notin Arming
    BY <1>1, <2>1 DEF SameValues, Arming
  <2>4. Kept /\ (WillArm => WillArm') /\ PickedIsEarliest'
    BY <1>1, <1>6, <2>1, <2>2, <2>3, Returns
  <2>5. Earliest' = Earliest
    BY <1>1 DEF Earliest
  <2>6. SomeoneArms'
    BY <1>1, <2>4, <2>5 DEF SomeoneArms, Deliverable
  <2>7. TypeOK'
    BY <1>1, <2>1, <2>4 DEF TypeOK, Kept
  <2> QED
    BY <1>1, <2>4, <2>6, <2>7 DEF Kept
<1>8. CASE ~(k > Len(frame.timers))
  <2>1. PICK t \in Timers : t = frame.timers[k]
    BY <1>4, <1>5, <1>8
  <2>2. fired' = [fired EXCEPT ![t] = @ + 1] /\ Goto(th, [frame EXCEPT !.next = @ + 1])
    BY <1>3, <1>4, <1>8, <2>1 DEF RunCallback
  <2>3. PICK f \in Frame : Goto(th, f) /\ f.at = "run" /\ f.timers = frame.timers /\ f.next = k + 1
    <3>1. [frame EXCEPT !.next = @ + 1] \in Frame
      BY DEF Frame
    <3> QED
      BY <1>3, <1>4, <2>2, <3>1 DEF Frame
  <2>4. /\ \A u : u # t => ToRun(f, u) = ToRun(frame, u)
        /\ \A j : j \in ToRun(f, t) <=> j \in ToRun(frame, t) /\ j # k
        /\ k \in ToRun(frame, t)
    BY <1>3, <1>4, <1>5, <1>8, <2>1, <2>3 DEF ToRun
  <2>5. \A u : ToAdd(f, u) = {}
    BY <2>3, CallHolds
  <2>6. \A u : Carried(u)' = Carried(u)
    BY <1>1, <1>6, <2>3, <2>5, GotoHeld
  <2>7. \A u : u # t => Owed(u)' = Owed(u)
    BY <1>1, <1>3, <2>3, <2>4, GotoHeld
  <2>8. /\ <<th, n, k>> \in Owed(t)
        /\ \A p : p \in Owed(t)' <=> p \in Owed(t) /\ p # <<th, n, k>>
    <3>1. \A p : p \in Owed(t)' <=>
                  \/ p \in Owed(t) /\ \A j \in ToRun(frame, t) : p # <<th, n, j>>
                  \/ \E j \in ToRun(f, t) : p = <<th, n, j>>
      BY <1>1, <1>2, <1>3, <2>3, GotoHeld
    <3>2. \A j \in ToRun(frame, t) : <<th, n, j>> \in Owed(t)
      BY <1>1, <1>2, <1>3, HeldByTop
    <3> QED
      BY <2>4, <3>1, <3>2
  <2>9. StackChange(th, n) /\ Len(stack'[th]) = n /\ stack'[th][n] = f /\ n..Len(stack'[th]) = {n} /\ n..Len(stack[th]) = {n}
    BY <1>1, <1>2, <2>3, GotoStack
  <2>10. \A u : Adding(u)' => Adding(u)
    BY <2>3, <2>9, OtherFrames
  <2>11. WillArm => WillArm'
    BY <1>1, <1>2, <2>9, OtherFrames DEF Arming
  <2>12. fired'[t] = fired[t] + 1 /\ \A u \in Timers : u # t => fired'[u] = fired[u]
    BY <2>2 DEF TypeOK
  <2>13. IsFiniteSet(Owed(t)') /\ Rounds(t)' = Rounds(t)
    <3>1. IsFiniteSet(Owed(t)) /\ fired[t] \in Nat /\ Cardinality(Owed(t)) \in Nat
      BY RoundsAreNumbers DEF InTime
    <3>2. Owed(t)' = Owed(t) \ {<<th, n, k>>}
      BY <2>8
    <3>3. IsFiniteSet(Owed(t)') /\ Cardinality(Owed(t)') = Cardinality(Owed(t)) - 1
      <4>1. IsFiniteSet(Owed(t) \ {<<th, n, k>>}) /\ Cardinality(Owed(t) \ {<<th, n, k>>}) = Cardinality(Owed(t)) - 1
        BY <2>8, <3>1, FS_RemoveElement
      <4> QED
        BY <3>2, <4>1
    <3> QED
      BY <2>12, <3>1, <3>3 DEF Rounds
  <2>14. InOnePlace(t)' /\ InTime(t)'
    <3>1. InOnePlace(t)'
      BY <1>1, <2>6 DEF InOnePlace
    <3>2. Waiting(t)' => Waiting(t)
      BY <1>1, <2>10 DEF Waiting
    <3>3. InTime(t)
      OBVIOUS
    <3>4. InTime(t)'
      BY <1>1, <2>6, <2>13, <3>2, <3>3 DEF InTime
    <3> QED
      BY <3>1, <3>4
  <2>15. ASSUME NEW u \in Timers, u # t PROVE InOnePlace(u)' /\ InTime(u)'
    <3>1. now' \in Nat /\ now <= now'
      BY <1>1, MaxTimeAssumption DEF TypeOK
    <3> QED
      BY <1>1, <2>6, <2>7, <2>10, <2>12, <2>15, <3>1, SameTimer
  <2>16. removed \subseteq Timers /\ \A u : Owed(u)' \subseteq Owed(u)
    BY <2>7, <2>8 DEF TypeOK
  <2>17. RemovedIsInvalid'
    BY <1>1, <2>16 DEF RemovedIsInvalid
  <2>18. Silent
    <3>1. ASSUME NEW u \in removed, fired'[u] # fired[u] PROVE u \in Periodic /\ Owed(u)' # Owed(u)
      <4>1. u = t
        BY <2>12, <2>16, <3>1
      <4> QED
        BY <2>8, <4>1, <3>1 DEF RemovedIsInvalid
    <3> QED
      BY <2>16, <3>1 DEF Silent
  <2>19. Frames'
    <3>1. n <= Len(stack[th]) /\ \A i \in n..Len(stack'[th]) : WellFormed(stack'[th][i], i = Len(stack'[th]))
      BY <1>2, <1>4, <2>3, <2>9 DEF WellFormed
    <3> QED
      BY <1>1, <2>9, <3>1, FramesAfter
  <2>20. PickedIsEarliest'
    <3>1. StackChange(th, Len(stack[th])) /\ Len(stack'[th]) \in Nat /\ stack'[th][Len(stack'[th])].at # "arm"
      BY <1>2, <2>3, <2>9
    <3> QED
      BY <1>1, <3>1, PickedAfter
  <2>21. SomeoneArms'
    <3>1. Earliest' = Earliest
      BY <1>1 DEF Earliest
    <3> QED
      BY <1>1, <2>11, <3>1 DEF SomeoneArms, Deliverable
  <2>22. TypeOK'
    <3>1. fired' \in [Timers -> Nat]
      BY <2>2 DEF TypeOK
    <3> QED
      BY <1>1, <2>9, <3>1 DEF TypeOK, StackChange
  <2> QED
    BY <1>1, <2>14, <2>15, <2>17, <2>18, <2>19, <2>20, <2>21, <2>22
<1> QED
  BY <1>4, <1>5, <1>7, <1>8

\* A timer in a call of addTimerEvent() is carried there.
LEMMA AddingIsCarried ==
  ASSUME TypeOK, Frames, NEW t, Adding(t)
  PROVE  Carried(t) # {}
<1>0. PICK th \in Threads : \E i \in DOMAIN stack[th] : stack[th][i].at = "add" /\ stack[th][i].timers[1] = t
  BY DEF Adding
<1>1. PICK i \in DOMAIN stack[th] : stack[th][i].at = "add" /\ stack[th][i].timers[1] = t
  BY <1>0
<1>2. stack[th][i].timers \in Seq(Timers) /\ Len(stack[th][i].timers) = 1
  <2>1. stack[th] \in Seq(Frame)
    BY DEF TypeOK
  <2>2. stack[th][i] \in Frame
    BY <2>1
  <2> QED
    BY <1>1, <2>2 DEF Frame, Frames
<1>3. 1 \in ToAdd(stack[th][i], t)
  BY <1>1, <1>2 DEF ToAdd
<1>4. <<th, i, 1>> \in Carried(t)
  BY <1>3, CarriedPlaces
<1> QED
  BY <1>4

\* handleTimerEvent(): the due timers go from the queue to the call.
LEMMA CollectDueStep == ASSUME IInv, NEW th \in Threads, CollectDue(th) PROVE IInv' /\ Silent
<1>. USE DEF IInv
<1>1. /\ At(th, "collect") /\ ~Idle(th) /\ Top(th).at = "collect" /\ m_pending_timers' = m_pending_timers \ Due
      /\ UNCHANGED <<now, m_trigger_time, m_valid, created, removed, armed, expired, edge, fired, shared>>
  BY DEF CollectDue, At, timer_vars, fd_vars
<1>2. PICK s \in InOrder(Triggered) : Goto(th, Call("again", s))
  BY DEF CollectDue
<1>3. PICK n \in Nat : n = Len(stack[th]) /\ n \in DOMAIN stack[th] /\ n # 0 /\ Top(th) = stack[th][n]
  BY <1>1, TopIsLast
<1>4. \A u : ToRun(Top(th), u) = {} /\ ToAdd(Top(th), u) = {}
  BY <1>1, CallHolds
<1>5. Triggered \subseteq m_pending_timers /\ m_pending_timers \subseteq Timers
  BY DEF Triggered, Due, TypeOK
<1>6. /\ s \in Seq(Timers) /\ \A j \in DOMAIN s : s[j] \in Triggered
      /\ \A i, j \in DOMAIN s : i # j => s[i] # s[j]
      /\ DOMAIN s = 1..Len(s) /\ Len(s) \in Nat
  <2>1. Cardinality(Triggered) \in Nat
    BY <1>5, FS_Subset, FS_CardinalityType
  <2>2. s \in [1..Cardinality(Triggered) -> Triggered]
    BY DEF InOrder
  <2>3. s \in Seq(Triggered) /\ DOMAIN s = 1..Cardinality(Triggered)
    BY <2>1, <2>2, FunctionIsSeq
  <2>4. s \in Seq(Timers)
    BY <1>5, <2>3
  <2>5. \A i, j \in DOMAIN s : i # j => s[i] # s[j]
    BY <2>3 DEF InOrder
  <2> QED
    BY <2>2, <2>3, <2>4, <2>5
<1>7. PICK f \in Frame : Goto(th, f) /\ f.at = "again" /\ f.timers = s /\ f.next = 1
  BY <1>2, <1>6, CallIsFrame
<1>8. \A u : ToRun(f, u) = {j \in DOMAIN s : s[j] = u} /\ ToAdd(f, u) = {j \in DOMAIN s : s[j] = u}
  BY <1>6, <1>7 DEF ToRun, ToAdd
<1>9. \A u : (\A j \in DOMAIN s : s[j] # u) => Owed(u)' = Owed(u) /\ Carried(u)' = Carried(u)
  <2>1. ASSUME NEW u, \A j \in DOMAIN s : s[j] # u PROVE Owed(u)' = Owed(u) /\ Carried(u)' = Carried(u)
    <3>1. ToRun(f, u) = ToRun(Top(th), u) /\ ToAdd(f, u) = ToAdd(Top(th), u)
      BY <1>4, <1>8, <2>1
    <3> QED
      BY <1>1, <1>7, <3>1, GotoHeld
  <2> QED
    BY <2>1
<1>10. ASSUME NEW j \in DOMAIN s
       PROVE  /\ \A p : p \in Owed(s[j])' <=> p \in Owed(s[j]) \/ p = <<th, n, j>>
              /\ \A p : p \in Carried(s[j])' <=> p \in Carried(s[j]) \/ p = <<th, n, j>>
              /\ <<th, n, j>> \notin Owed(s[j])
  <2>1. ToRun(f, s[j]) = {j} /\ ToAdd(f, s[j]) = {j}
    BY <1>6, <1>8
  <2>2. \A p : p \in Owed(s[j])' <=>
              \/ p \in Owed(s[j]) /\ \A k \in ToRun(Top(th), s[j]) : p # <<th, n, k>>
              \/ \E k \in ToRun(f, s[j]) : p = <<th, n, k>>
    BY <1>1, <1>3, <1>7, GotoHeld
  <2>3. \A p : p \in Carried(s[j])' <=>
              \/ p \in Carried(s[j]) /\ \A k \in ToAdd(Top(th), s[j]) : p # <<th, n, k>>
              \/ \E k \in ToAdd(f, s[j]) : p = <<th, n, k>>
    BY <1>1, <1>3, <1>7, GotoHeld
  <2>4. <<th, n, j>> \notin Owed(s[j])
    BY <1>1, <1>3, <1>4, HeldByTop
  <2> QED
    BY <1>4, <2>1, <2>2, <2>3, <2>4
<1>11. StackChange(th, n) /\ Len(stack'[th]) = n /\ stack'[th][n] = f /\ n..Len(stack'[th]) = {n}
  BY <1>1, <1>3, <1>7, GotoStack
<1>12. (\A u : Adding(u)' => Adding(u)) /\ WillArm'
  BY <1>7, <1>11, OtherFrames DEF Arming
<1>13. now' \in Nat /\ now <= now' /\ m_pending_timers' \subseteq m_pending_timers
  BY <1>1, MaxTimeAssumption DEF TypeOK
<1>14. ASSUME NEW j \in DOMAIN s PROVE InOnePlace(s[j])' /\ InTime(s[j])'
  <2>1. PICK t \in Timers : t = s[j] /\ t \in m_pending_timers /\ t \in Due
    BY <1>5, <1>6 DEF Triggered
  <2>2. Carried(t) = {} /\ InTime(t)
    BY <2>1 DEF InOnePlace
  <2>3. /\ \A p : p \in Owed(t)' <=> p \in Owed(t) \/ p = <<th, n, j>>
        /\ \A p : p \in Carried(t)' <=> p = <<th, n, j>>
        /\ <<th, n, j>> \notin Owed(t)
    BY <1>10, <2>1, <2>2
  <2>4. t \notin m_pending_timers' /\ ~Adding(t)'
    BY <1>1, <1>12, <2>1, <2>2, AddingIsCarried
  <2>5. IsFiniteSet(Owed(t)') /\ Rounds(t)' = Rounds(t) + 1
    <3>1. IsFiniteSet(Owed(t)) /\ fired[t] \in Nat /\ Cardinality(Owed(t)) \in Nat
      BY <2>2, RoundsAreNumbers DEF InTime
    <3>2. Owed(t)' = Owed(t) \cup {<<th, n, j>>}
      BY <2>3
    <3>3. /\ IsFiniteSet(Owed(t) \cup {<<th, n, j>>})
          /\ Cardinality(Owed(t) \cup {<<th, n, j>>}) = Cardinality(Owed(t)) + 1
      BY <2>3, <3>1, FS_AddElement
    <3> QED
      BY <1>1, <3>1, <3>2, <3>3 DEF Rounds
  <2>6. InOnePlace(t)'
    BY <2>3, <2>4 DEF InOnePlace
  <2>7. created[t] + (Rounds(t) + 1) * Interval[t] <= now
    <3>1. created[t] + (Rounds(t) + 1) * Interval[t] <= m_trigger_time[t]
      BY <2>1, <2>2 DEF InTime, Waiting
    <3>2. m_trigger_time[t] <= now
      BY <2>1 DEF Due
    <3>3. /\ created[t] \in Nat /\ Interval[t] \in Nat /\ now \in Nat /\ m_trigger_time[t] \in Nat
          /\ Rounds(t) \in Nat
      BY <2>2, RoundsAreNumbers
    <3>4. PICK x \in Nat : x = (Rounds(t) + 1) * Interval[t]
      BY <3>3, OneMore
    <3> QED
      BY <3>1, <3>2, <3>3, <3>4
  <2>8. created[t] # 0 /\ (t \notin Periodic => Rounds(t) = 0)
    BY <2>1, <2>2 DEF InTime, Waiting
  <2>9. InTime(t)'
    BY <1>1, <2>4, <2>5, <2>7, <2>8 DEF InTime, Waiting
  <2> QED
    BY <2>1, <2>6, <2>9
<1>15. ASSUME NEW u \in Timers, \A j \in DOMAIN s : s[j] # u PROVE InOnePlace(u)' /\ InTime(u)'
  BY <1>1, <1>9, <1>12, <1>13, <1>15, SameTimer
<1>16. \A u \in Timers : InOnePlace(u)' /\ InTime(u)'
  BY <1>14, <1>15
<1>17. \A u \in removed : Owed(u)' = Owed(u)
  BY <1>6, <1>9 DEF RemovedIsInvalid, Triggered
<1>18. RemovedIsInvalid' /\ Silent
  BY <1>1, <1>17 DEF RemovedIsInvalid, Silent
<1>19. Frames'
  <2>1. n <= Len(stack[th]) /\ \A i \in n..Len(stack'[th]) : WellFormed(stack'[th][i], i = Len(stack'[th]))
    BY <1>3, <1>7, <1>11 DEF WellFormed
  <2> QED
    BY <1>1, <1>11, <2>1, FramesAfter
<1>20. PickedIsEarliest'
  <2>1. StackChange(th, Len(stack[th])) /\ Len(stack'[th]) \in Nat /\ stack'[th][Len(stack'[th])].at # "arm"
    BY <1>3, <1>7, <1>11
  <2> QED
    BY <1>1, <2>1, PickedAfter
<1>21. TypeOK' /\ IsFiniteSet(m_pending_timers)'
  <2>1. IsFiniteSet(m_pending_timers')
    BY <1>13, FS_Subset
  <2> QED
    BY <1>1, <1>11, <2>1 DEF TypeOK, StackChange
<1> QED
  BY <1>12, <1>16, <1>18, <1>19, <1>20, <1>21 DEF SomeoneArms

\* Whatever a step in handleTimerEvent()'s loop does, the loop's call arms yet.
LEMMA LoopGoesOn ==
  ASSUME IInv, NEW th \in Threads, ~Idle(th), Top(th).at = "again", NEW f \in Frame, WellFormed(f, TRUE),
         \/ Goto(th, f) /\ f.at = "again"
         \/ \E g \in Frame : GotoAndCall(th, g, f) /\ WellFormed(g, FALSE) /\ (g.at = "again" \/ f.at = "reset"),
         f.at # "arm", shared' = shared
  PROVE  /\ Frames' /\ WillArm' /\ PickedIsEarliest' /\ stack' \in [Threads -> Seq(Frame)]
         /\ \A u : Adding(u)' => Adding(u) \/ (f.at = "add" /\ f.timers[1] = u)
<1>. USE DEF IInv
<1>1. PICK n \in Nat : n = Len(stack[th]) /\ n # 0
  BY TopIsLast
<1>2. CASE Goto(th, f) /\ f.at = "again"
  <2>1. StackChange(th, n) /\ Len(stack'[th]) = n /\ stack'[th][n] = f /\ n..Len(stack'[th]) = {n}
    BY <1>1, <1>2, GotoStack
  <2>2. n <= Len(stack[th]) /\ \A i \in n..Len(stack'[th]) : WellFormed(stack'[th][i], i = Len(stack'[th]))
    BY <1>1, <2>1 DEF WellFormed
  <2>3. Frames'
    BY <1>1, <2>1, <2>2, FramesAfter
  <2>4. PickedIsEarliest'
    BY <1>1, <2>1, PickedAfter
  <2>5. WillArm' /\ \A u : Adding(u)' => Adding(u)
    BY <1>2, <2>1, OtherFrames DEF Arming
  <2> QED
    BY <2>1, <2>3, <2>4, <2>5 DEF StackChange
<1>3. CASE \E g \in Frame : GotoAndCall(th, g, f) /\ WellFormed(g, FALSE) /\ (g.at = "again" \/ f.at = "reset")
  <2>0. PICK g \in Frame : GotoAndCall(th, g, f) /\ WellFormed(g, FALSE) /\ (g.at = "again" \/ f.at = "reset")
    BY <1>3
  <2>1. /\ StackChange(th, n) /\ Len(stack'[th]) = n + 1 /\ stack'[th][n] = g /\ stack'[th][n + 1] = f
        /\ n..Len(stack'[th]) = {n, n + 1}
    BY <1>1, <2>0, CallStack
  <2>2. n <= Len(stack[th]) /\ \A i \in n..Len(stack'[th]) : WellFormed(stack'[th][i], i = Len(stack'[th]))
    BY <1>1, <2>0, <2>1 DEF WellFormed
  <2>3. Frames'
    BY <1>1, <2>1, <2>2, FramesAfter
  <2>4. PickedIsEarliest'
    BY <1>1, <2>1, PickedAfter
  <2>5. WillArm'
    BY <2>0, <2>1, OtherFrames DEF Arming
  <2>6. \A u : Adding(u)' => Adding(u) \/ (f.at = "add" /\ f.timers[1] = u)
    BY <2>0, <2>1, OtherFrames DEF WellFormed
  <2> QED
    BY <2>1, <2>3, <2>4, <2>5, <2>6 DEF StackChange
<1> QED
  BY <1>2, <1>3

\* handleTimerEvent(): a periodic timer's next round is set and it is added
\* again, a one-shot timer is passed over, or the callbacks are next.
LEMMA AddAgainStep == ASSUME IInv, NEW th \in Threads, AddAgain(th) PROVE IInv' /\ Silent
<1>. USE DEF IInv
<1>1. /\ At(th, "again") /\ ~Idle(th) /\ Top(th).at = "again"
      /\ UNCHANGED <<now, m_valid, created, removed, m_pending_timers, armed, expired, edge, fired, shared>>
  BY DEF AddAgain, At, fd_vars
<1>2. PICK n \in Nat : n = Len(stack[th]) /\ n \in DOMAIN stack[th] /\ n # 0 /\ Top(th) = stack[th][n]
  BY <1>1, TopIsLast
<1>3. PICK frame \in Frame : frame = Top(th) /\ frame.at = "again"
  BY <1>1, TopIsLast
<1>4. PICK k \in Nat : k = frame.next /\ k # 0
  BY <1>2, <1>3 DEF Frames, Frame
<1>5. frame.timers \in Seq(Timers) /\ Len(frame.timers) \in Nat /\ DOMAIN frame.timers = 1..Len(frame.timers)
  BY DEF Frame
<1>6. PICK f \in Frame : /\ f = [frame EXCEPT !.next = @ + 1]
                         /\ f.at = "again" /\ f.timers = frame.timers /\ f.next = k + 1
  <2>1. [frame EXCEPT !.next = @ + 1] \in Frame
    BY DEF Frame
  <2> QED
    BY <1>3, <1>4, <2>1 DEF Frame
<1>7. f.at = "again" /\ f.timers = frame.timers /\ f.next = k + 1
  BY <1>6
<1>8. /\ \A u : ToRun(f, u) = ToRun(Top(th), u)
      /\ \A u, j : j \in ToAdd(f, u) <=> j \in ToAdd(Top(th), u) /\ j # k
  BY <1>3, <1>4, <1>5, <1>7 DEF ToRun, ToAdd
<1>9. now' \in Nat /\ now <= now'
  BY <1>1, MaxTimeAssumption DEF TypeOK
<1>10. WellFormed(f, TRUE) /\ WellFormed(f, FALSE)
  BY <1>4, <1>7 DEF WellFormed
<1>11. ASSUME /\ m_trigger_time' = m_trigger_time
              /\ Frames' /\ WillArm' /\ PickedIsEarliest' /\ stack' \in [Threads -> Seq(Frame)],
              \A u : Owed(u)' = Owed(u) /\ Carried(u)' \subseteq Carried(u) /\ (Adding(u)' => Adding(u))
       PROVE  IInv' /\ Silent
  <2>1. (\A t \in Timers : InOnePlace(t)' /\ InTime(t)') /\ RemovedIsInvalid' /\ Silent
    BY <1>1, <1>9, <1>11, SameTimers
  <2>2. TypeOK'
    BY <1>1, <1>11 DEF TypeOK
  <2> QED
    BY <1>1, <1>11, <2>1, <2>2 DEF SomeoneArms
<1>12. CASE k <= Len(frame.timers) /\ ~IsPeriodic(frame.timers[k])
  <2>1. Goto(th, f) /\ m_trigger_time' = m_trigger_time
    BY <1>3, <1>4, <1>6, <1>12 DEF AddAgain
  <2>2. \A u : Owed(u)' = Owed(u)
    BY <1>1, <1>8, <2>1, GotoHeld
  <2>3. \A u : Carried(u)' \subseteq Carried(u)
    <3>1. ASSUME NEW u PROVE Carried(u)' \subseteq Carried(u)
      <4>1. \A p : p \in Carried(u)' =>
                    p \in Carried(u) \/ \E j \in ToAdd(f, u) : p = <<th, n, j>>
        BY <1>1, <1>2, <2>1, GotoHeld
      <4>2. \A j \in ToAdd(f, u) : <<th, n, j>> \in Carried(u)
        BY <1>1, <1>2, <1>8, HeldByTop
      <4> QED
        BY <4>1, <4>2
    <3> QED
      BY <3>1
  <2>4. /\ Frames' /\ WillArm' /\ PickedIsEarliest' /\ stack' \in [Threads -> Seq(Frame)]
        /\ \A u : Adding(u)' => Adding(u)
    BY <1>1, <1>7, <1>10, <2>1, LoopGoesOn
  <2> QED
    BY <1>11, <2>1, <2>2, <2>3, <2>4
<1>13. CASE k > Len(frame.timers)
  <2>1. PICK g \in Frame : /\ g = Call("run", frame.timers)
                           /\ g.at = "run" /\ g.timers = frame.timers /\ g.next = 1
    BY <1>5, CallIsFrame
  <2>2. PICK h \in Frame : h = Call("reset", <<>>) /\ h.at = "reset" /\ h.next = 1
    BY EmptyCall
  <2>3. GotoAndCall(th, g, h) /\ m_trigger_time' = m_trigger_time
    <3>1. Finish(th, frame.timers) /\ m_trigger_time' = m_trigger_time
      BY <1>3, <1>4, <1>5, <1>13 DEF AddAgain
    <3> QED
      BY <2>1, <2>2, <3>1 DEF Finish
  <2>4. \A u : ToRun(g, u) = ToRun(Top(th), u) /\ ToRun(h, u) = {} /\ ToAdd(g, u) = {} /\ ToAdd(h, u) = {}
    BY <1>3, <1>5, <2>1, <2>2 DEF ToRun, ToAdd
  <2>5. \A u : Owed(u)' = Owed(u) /\ Carried(u)' \subseteq Carried(u)
    <3>1. ASSUME NEW u
          PROVE  /\ Owed(u)' = Owed(u)
                 /\ \A p : p \in Carried(u)' <=>
                      \/ p \in Carried(u) /\ \A j \in ToAdd(Top(th), u) : p # <<th, Len(stack[th]), j>>
                      \/ \E j \in ToAdd(g, u) : p = <<th, Len(stack[th]), j>>
                      \/ \E j \in ToAdd(h, u) : p = <<th, Len(stack[th]) + 1, j>>
      BY <1>1, <2>3, <2>4, CallHeld
    <3> QED
      BY <2>4, <3>1
  <2>6. WellFormed(h, TRUE) /\ WellFormed(g, FALSE)
    BY <2>1, <2>2 DEF WellFormed
  <2>7. /\ Frames' /\ WillArm' /\ PickedIsEarliest' /\ stack' \in [Threads -> Seq(Frame)]
        /\ \A u : Adding(u)' => Adding(u)
    BY <1>1, <2>2, <2>3, <2>6, LoopGoesOn
  <2> QED
    BY <1>11, <2>3, <2>5, <2>7
<1>14. CASE k <= Len(frame.timers) /\ IsPeriodic(frame.timers[k])
  <2>1. PICK t \in Timers : t = frame.timers[k]
    BY <1>4, <1>5, <1>14
  <2>2. PICK g \in Frame : g = Call("add", <<t>>) /\ g.at = "add" /\ g.timers = <<t>> /\ g.next = 1
    <3>1. Call("add", <<t>>) \in Frame
      BY DEF Call, Frame
    <3> QED
      BY <3>1 DEF Call
  <2>3. /\ m_trigger_time' = [m_trigger_time EXCEPT ![t] = now + Interval[t]]
        /\ GotoAndCall(th, f, g)
    BY <1>3, <1>4, <1>5, <1>6, <1>14, <2>1, <2>2 DEF AddAgain, ResetTime
  <2>4. t \in Periodic
    BY <1>14, <2>1 DEF IsPeriodic
  <2>5. \A u : ToRun(g, u) = {} /\ ToAdd(g, u) = IF u = t THEN {1} ELSE {}
    <3>1. Len(g.timers) = 1 /\ g.timers[1] = t
      BY <2>2
    <3>2. \A u : ToRun(g, u) = {}
      BY <2>2, CallHolds
    <3>3. \A u : ToAdd(g, u) = IF u = t THEN {1} ELSE {}
      BY <2>2, <3>1, OneTimerCall
    <3> QED
      BY <3>2, <3>3
  <2>6. ASSUME NEW u
        PROVE  /\ Owed(u)' = Owed(u)
               /\ \A p : p \in Carried(u)' <=>
                    \/ p \in Carried(u) /\ \A j \in ToAdd(Top(th), u) : p # <<th, n, j>>
                    \/ \E j \in ToAdd(f, u) : p = <<th, n, j>>
                    \/ \E j \in ToAdd(g, u) : p = <<th, n + 1, j>>
    BY <1>1, <1>2, <1>8, <2>3, <2>5, CallHeld
  <2>7. k \in ToAdd(Top(th), t) /\ <<th, n, k>> \in Carried(t)
    <3>1. k \in ToAdd(Top(th), t)
      BY <1>3, <1>4, <1>5, <1>14, <2>1 DEF ToAdd
    <3> QED
      BY <1>1, <1>2, <3>1, HeldByTop
  <2>8. ToAdd(f, t) = {} /\ \A p \in Carried(t) : p = <<th, n, k>>
    <3>1. \A p \in Carried(t) : p = <<th, n, k>>
      BY <2>7 DEF InOnePlace
    <3>2. \A j \in ToAdd(Top(th), t) : <<th, n, j>> \in Carried(t)
      BY <1>1, <1>2, HeldByTop
    <3>3. \A j \in ToAdd(Top(th), t) : j = k
      BY <3>1, <3>2
    <3> QED
      BY <1>8, <3>1, <3>3
  <2>9. \A p : p \in Carried(t)' <=> p = <<th, n + 1, 1>>
    BY <2>5, <2>6, <2>7, <2>8
  <2>10. ASSUME NEW u, u # t PROVE Carried(u)' \subseteq Carried(u)
    <3>1. ToAdd(g, u) = {}
      BY <2>5, <2>10
    <3>2. \A j \in ToAdd(f, u) : <<th, n, j>> \in Carried(u)
      BY <1>1, <1>2, <1>8, HeldByTop
    <3> QED
      BY <2>6, <3>1, <3>2
  <2>11. WellFormed(g, TRUE) /\ g.timers[1] = t
    BY <2>2 DEF WellFormed
  <2>12. /\ Frames' /\ WillArm' /\ PickedIsEarliest' /\ stack' \in [Threads -> Seq(Frame)]
         /\ \A u : Adding(u)' => Adding(u) \/ u = t
    BY <1>1, <1>7, <1>10, <2>2, <2>3, <2>11, LoopGoesOn
  <2>13. m_trigger_time'[t] = now + Interval[t] /\ \A u \in Timers : u # t => m_trigger_time'[u] = m_trigger_time[u]
    BY <2>3 DEF TypeOK
  <2>14. t \notin m_pending_timers /\ created[t] # 0 /\ InTime(t)
    BY <2>7 DEF InOnePlace, InTime
  <2>15. InOnePlace(t)'
    BY <1>1, <2>9, <2>14 DEF InOnePlace
  <2>16. InTime(t)'
    <3>1. Rounds(t)' = Rounds(t)
      BY <1>1, <2>6 DEF Rounds
    <3>2. created[t] + (Rounds(t) + 1) * Interval[t] <= now + Interval[t]
      <4>1. created[t] + Rounds(t) * Interval[t] <= now
        BY <2>14 DEF InTime
      <4>2. created[t] \in Nat /\ Interval[t] \in Nat /\ now \in Nat /\ Rounds(t) \in Nat
        BY <2>14, RoundsAreNumbers
      <4>3. PICK x \in Nat : x = Rounds(t) * Interval[t] /\ (Rounds(t) + 1) * Interval[t] = x + Interval[t]
        BY <4>2, OneMore
      <4> QED
        BY <4>1, <4>2, <4>3
    <3> QED
      BY <1>1, <2>4, <2>6, <2>13, <2>14, <3>1, <3>2 DEF InTime
  <2>17. ASSUME NEW u \in Timers, u # t PROVE InOnePlace(u)' /\ InTime(u)'
    BY <1>1, <1>9, <2>6, <2>10, <2>12, <2>13, <2>17, SameTimer
  <2>18. RemovedIsInvalid' /\ Silent
    BY <1>1, <2>6 DEF RemovedIsInvalid, Silent
  <2>19. TypeOK'
    <3>1. Interval[t] \in Nat /\ now \in Nat
      BY <2>14, RoundsAreNumbers
    <3>2. now + Interval[t] \in Nat
      BY <3>1
    <3>3. m_trigger_time' \in [Timers -> Nat]
      BY <2>3, <3>2 DEF TypeOK
    <3> QED
      BY <1>1, <2>12, <3>3 DEF TypeOK
  <2> QED
    BY <1>1, <2>12, <2>15, <2>16, <2>17, <2>18, <2>19 DEF SomeoneArms
<1> QED
  BY <1>4, <1>5, <1>12, <1>13, <1>14

-----------------------------------------------------------------------------
(* The invariant, and what follows from it.                                *)

LEMMA Initially == ASSUME Init PROVE IInv
<1>1. /\ \A th \in Threads : stack[th] = <<>> /\ DOMAIN stack[th] = {}
      /\ removed = {} /\ m_pending_timers = {} /\ now = 1
      /\ \A t \in Timers : created[t] = 0 /\ fired[t] = 0
  BY DEF Init
<1>2. \A u : Owed(u) = {} /\ Carried(u) = {}
  BY <1>1 DEF Owed, Carried
<1>3. IsFiniteSet({}) /\ Cardinality({}) = 0
  BY FS_EmptySet
<1>4. ASSUME NEW t \in Timers PROVE Rounds(t) = 0
  <2>1. Cardinality(Owed(t)) = 0 /\ fired[t] = 0
    BY <1>1, <1>2, <1>3
  <2> QED
    BY <2>1 DEF Rounds
<1>5. \A t \in Timers : ~Waiting(t)
  BY <1>1 DEF Waiting, Adding
<1>6. \A t \in Timers : InOnePlace(t) /\ InTime(t)
  <2>1. ASSUME NEW t \in Timers PROVE InOnePlace(t)
    BY <1>2 DEF InOnePlace
  <2>2. ASSUME NEW t \in Timers PROVE InTime(t)
    <3>1. Rounds(t) = 0 /\ created[t] = 0 /\ Carried(t) = {} /\ t \notin m_pending_timers /\ ~Waiting(t)
      BY <1>1, <1>2, <1>4, <1>5
    <3>2. IsFiniteSet(Owed(t))
      BY <1>2, <1>3
    <3> QED
      BY <3>1, <3>2 DEF InTime
  <2> QED
    BY <2>1, <2>2
<1>7. Frames /\ RemovedIsInvalid /\ SomeoneArms
  BY <1>1 DEF Frames, RemovedIsInvalid, SomeoneArms
<1>8. PickedIsEarliest
  BY <1>1 DEF PickedIsEarliest, Idle, At, Threads
<1>9. TypeOK
  <2>1. now \in 1..MaxTime /\ 0 \in 0..MaxTime
    BY MaxTimeAssumption DEF Init
  <2>2. /\ m_trigger_time \in [Timers -> Nat] /\ m_valid \in [Timers -> BOOLEAN]
        /\ m_pending_timers \subseteq Timers /\ removed \subseteq Timers /\ fired \in [Timers -> Nat]
    BY DEF Init
  <2>3. stack \in [Threads -> Seq(Frame)] /\ created \in [Timers -> 0..MaxTime]
    BY <2>1 DEF Init
  <2>4. armed \in Nat /\ expired \in BOOLEAN /\ edge \in BOOLEAN /\ shared \in BOOLEAN
    BY DEF Init
  <2> QED
    BY <2>1, <2>2, <2>3, <2>4 DEF TypeOK
<1> QED
  BY <1>1, <1>3, <1>6, <1>7, <1>8, <1>9 DEF IInv

LEMMA Stutters == ASSUME IInv, UNCHANGED vars PROVE IInv' /\ Silent
<1>. USE DEF IInv
<1>1. UNCHANGED <<now, m_trigger_time, m_valid, created, removed, m_pending_timers, stack, armed, expired, edge,
                  fired, shared>>
  BY DEF vars, timer_vars, fd_vars
<1>2. \A u : Owed(u)' = Owed(u) /\ Carried(u)' = Carried(u) /\ (Adding(u)' => Adding(u))
  BY <1>1 DEF Owed, Carried, Adding
<1>3. now' \in Nat /\ now <= now'
  BY <1>1, MaxTimeAssumption DEF TypeOK
<1>4. (\A t \in Timers : InOnePlace(t)' /\ InTime(t)') /\ RemovedIsInvalid' /\ Silent
  BY <1>1, <1>2, <1>3, SameTimers
<1>5. TypeOK' /\ Frames'
  BY <1>1 DEF TypeOK, Frames
<1>6. PickedIsEarliest' /\ SomeoneArms'
  BY <1>1 DEF PickedIsEarliest, SomeoneArms, Idle, At, Top, Earliest, WillArm, Deliverable
<1> QED
  BY <1>1, <1>4, <1>5, <1>6

LEMMA Invariance == ASSUME IInv, [Next]_vars PROVE IInv' /\ Silent
<1>1. ASSUME NEW th \in Threads, Step(th) PROVE IInv' /\ Silent
  BY <1>1, AddTimerEventStep, PickFirstStep, ArmStep, ReadFdStep, CollectDueStep, AddAgainStep, RunCallbackStep
     DEF Step
<1>2. ASSUME NEW th \in Threads, NEW t \in Timers, CreateTimer(th, t) PROVE IInv' /\ Silent
  BY <1>2, CreateTimerStep
<1>3. ASSUME NEW t \in Cancellers, SetInvalid(t) PROVE IInv' /\ Silent
  BY <1>3, SetInvalidStep, TimersAssumption
<1>4. CASE HandleTimerEvent
  BY <1>4, HandleTimerEventStep
<1>5. CASE Tick
  BY <1>5, TickStep
<1>6. CASE UNCHANGED vars
  BY <1>6, Stutters
<1> QED
  BY <1>1, <1>2, <1>3, <1>4, <1>5, <1>6 DEF Next

LEMMA Always == Spec => []IInv
<1>1. IInv /\ [Next]_vars => IInv'
  BY Invariance
<1> QED
  BY <1>1, Initially, PTL DEF Spec

\* The queue, the calls and the timerfd keep their types.
THEOREM TypeCorrect == Spec => []TypeOK
<1>1. IInv => TypeOK
  BY DEF IInv
<1> QED
  BY <1>1, Always, PTL

\* No callback of handleTimerEvent() runs before its timer's time, nor more
\* often than its intervals have passed, and a one-shot timer's once: the next
\* round is due an interval after all that have run or are collected to run.
THEOREM TimersAreNeverEarly == Spec => []NeverEarly
<1>1. ASSUME IInv PROVE NeverEarly
  <2>1. ASSUME NEW t \in Timers
        PROVE  /\ fired[t] > 0 => created[t] + fired[t] * Interval[t] <= now
               /\ t \notin Periodic => fired[t] <= 1
    <3>1. InTime(t)
      BY <1>1 DEF IInv
    <3>2. PICK c \in Nat : c = Cardinality(Owed(t)) /\ Rounds(t) = fired[t] + c
      BY <1>1, <3>1, RoundsAreNumbers DEF IInv, Rounds
    <3>3. PICK i \in Nat : i = Interval[t]
      BY <1>1, <3>1, RoundsAreNumbers DEF IInv
    <3>4. fired[t] \in Nat /\ created[t] \in Nat /\ now \in Nat
      BY <1>1, <3>1, RoundsAreNumbers DEF IInv
    <3>5. fired[t] > 0 => created[t] # 0
      BY <3>1, <3>2, <3>4 DEF InTime
    <3>6. fired[t] * i \in Nat /\ fired[t] * i <= (fired[t] + c) * i
      BY <3>4
    <3>7. fired[t] > 0 => created[t] + (fired[t] + c) * i <= now
      BY <3>1, <3>2, <3>3, <3>5 DEF InTime
    <3>8. fired[t] > 0 => created[t] + fired[t] * i <= now
      <4>1. PICK x \in Nat : x = fired[t] * i
        BY <3>6
      <4>2. PICK y \in Nat : y = (fired[t] + c) * i
        BY <3>4
      <4> QED
        BY <3>4, <3>6, <3>7, <4>1, <4>2
    <3>9. t \notin Periodic => fired[t] <= 1
      BY <3>1, <3>2, <3>4 DEF InTime
    <3> QED
      BY <3>3, <3>8, <3>9
  <2> QED
    BY <2>1 DEF NeverEarly
<1> QED
  BY <1>1, Always, PTL

\* Once resetTimerFd() and every other call have returned, a timer in the queue
\* has the timerfd armed or expired, and armed for the earliest as long as only
\* the loop's thread adds timers.
THEOREM TimerFdIsArmed == Spec => []ArmedForEarliest
<1>1. ASSUME IInv PROVE ArmedForEarliest
  <2>1. ASSUME Quiet PROVE ~WillArm
    <3>1. \A th \in Threads : DOMAIN stack[th] = {}
      BY <2>1 DEF Quiet, Idle
    <3> QED
      BY <3>1 DEF WillArm
  <2> QED
    BY <1>1, <2>1 DEF IInv, SomeoneArms, ArmedForEarliest
<1> QED
  BY <1>1, Always, PTL

\* deleteTimerEvent(): a timer marked invalid in the queue is never collected
\* again; only the rounds of a periodic timer that were collected before run.
THEOREM RemovedTimersAreSilent == Spec => RemovedStaysSilent
<1>1. IInv /\ [Next]_vars =>
        [\A t \in removed :
           /\ Owed(t)' \subseteq Owed(t)
           /\ fired'[t] # fired[t] => t \in Periodic /\ Owed(t)' # Owed(t)]_vars
  BY Invariance DEF Silent
<1> QED
  BY <1>1, Always, PTL DEF Spec, RemovedStaysSilent
=============================================================================

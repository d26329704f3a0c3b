----------------------------- MODULE AsyncLogging -----------------------------
(***************************************************************************)
(* zest::AsyncLogging (src/zest/common/async_logging.cc): any thread       *)
(* appends lines to the current buffer of a ring, and a backend thread     *)
(* writes the buffers behind it to the log file, mostly without the lock.  *)
(* The ring grows when the front end catches up with the backend and       *)
(* shrinks when the backend is well ahead.                                 *)
(*                                                                         *)
(* An append() holds m_mutex from beginning to end, so one action stands   *)
(* for the calls of all threads.  A line is its number and its length; the *)
(* length of a buffer is counted in the same unit.                         *)
(***************************************************************************)
EXTENDS Naturals, SequencesExt

CONSTANTS
  Capacity,       \* LargeBufferSize
  LineLen,        \* the length of each line
  MaxBuffers,     \* m_max_buffers
  MaxFileSize,    \* m_max_file_size, in lines
  MaxLines        \* bound: calls of append()

Initial == 4      \* the buffers the constructor allocates

ASSUME LineLenAssumption == LineLen \in [1..MaxLines -> 1..Capacity]
ASSUME SizesAssumption == MaxBuffers \in Nat /\ MaxFileSize \in Nat /\ MaxLines \in Nat

\* The buffers that may be allocated.
Buffers == 1..(Initial + MaxBuffers)

VARIABLES
  m_buffers,        \* the ring: the list's nodes in order
  data,             \* the lines in each buffer
  m_current_itr,
  m_next_to_flush,
  m_cur_file_size,
  m_running,
  pc,               \* where backendThreadFunc is
  cur,              \* its snapshot of m_current_itr
  next_to_flush,    \* its own copy of m_next_to_flush
  reduce,
  m_file,           \* the lines of the open log file
  closed,           \* history: the lines of the log files before it
  accepted,         \* history: the lines append() was called with
  saturated         \* history: append() found no buffer to go on with

backend_vars == <<pc, cur, next_to_flush, reduce>>
file_vars == <<m_file, closed, m_cur_file_size>>
history == <<accepted, saturated>>
vars == <<m_buffers, data, m_current_itr, m_next_to_flush, m_running, backend_vars, file_vars,
          history>>

Line == {[no |-> n, len |-> LineLen[n]] : n \in 1..MaxLines}

TypeOK ==
  /\ m_buffers \in Seq(Buffers) /\ IsInjective(m_buffers)
  /\ data \in [Buffers -> Seq(Line)]
  /\ {m_current_itr, m_next_to_flush, cur, next_to_flush} \subseteq Buffers
  /\ m_cur_file_size \in 0..MaxLines
  /\ m_running \in BOOLEAN
  /\ pc \in {"check", "waiting", "measure", "flush", "reset", "relock", "flush_last", "reset_last",
             "advance", "rotate", "final", "done"}
  /\ reduce \in BOOLEAN
  /\ accepted \in Seq(Line)
  /\ m_file \in Seq(Line)
  /\ closed \in Seq(Line)
  /\ saturated \in BOOLEAN

\* AsyncLogging()
Init ==
  /\ m_buffers = [i \in 1..Initial |-> i]
  /\ data = [b \in Buffers |-> <<>>]
  /\ m_current_itr = 1
  /\ m_next_to_flush = 1
  /\ m_cur_file_size = 0
  /\ m_running = TRUE
  /\ pc = "check"
  /\ cur = 1
  /\ next_to_flush = 1
  /\ reduce = FALSE
  /\ accepted = <<>>
  /\ m_file = <<>>
  /\ closed = <<>>
  /\ saturated = FALSE

-----------------------------------------------------------------------------
(* The ring.                                                               *)

Place(b) == CHOOSE i \in DOMAIN m_buffers : m_buffers[i] = b

\* The buffer after b, the first one after the last.
After(b) == m_buffers[(Place(b) % Len(m_buffers)) + 1]

\* calcBufferDistance()
Distance(from, to) == (Place(to) + Len(m_buffers) - Place(from)) % Len(m_buffers)

\* m_current_itr is a buffer of the ring; using it is undefined when it is not.
CurrentInRing == m_current_itr \in Range(m_buffers)

\* The buffers from one up to another, that one excluded.
Between(from, to) ==
  [i \in 1..Distance(from, to) |-> m_buffers[((Place(from) + i - 2) % Len(m_buffers)) + 1]]

Used(b) == FoldSeq(LAMBDA line, sum : sum + line.len, 0, data[b])

Enough(b, line) == Used(b) + line.len <= Capacity

\* FixedBuffer::append(): a line that does not fit is not stored.
Store(b, line) ==
  data' = IF Enough(b, line) THEN [data EXCEPT ![b] = Append(@, line)] ELSE data

-----------------------------------------------------------------------------
(* append().                                                               *)

AppendHere(line) ==
  /\ Enough(m_current_itr, line)
  /\ Store(m_current_itr, line)
  /\ UNCHANGED <<m_buffers, m_current_itr, saturated>>

\* The next buffer is free.
AppendNext(line) ==
  LET b == After(m_current_itr)
  IN  /\ ~Enough(m_current_itr, line)
      /\ b # m_next_to_flush
      /\ m_current_itr' = b
      /\ Store(b, line)
      /\ UNCHANGED <<m_buffers, saturated>>

\* Mutation: the new buffer is put behind the one to flush next.
InsertBehind(b) == InsertAt(m_buffers, Place(m_next_to_flush) + 1, b)

\* insert(m_current_itr, ...), m_current_itr having reached m_next_to_flush.
InsertBefore(b) == InsertAt(m_buffers, Place(m_next_to_flush), b)

\* It is the one to flush next: another one is put between the two.
AppendNew(line) ==
  /\ ~Enough(m_current_itr, line)
  /\ After(m_current_itr) = m_next_to_flush
  /\ Len(m_buffers) < MaxBuffers
  /\ LET b == CHOOSE b \in Buffers : b \notin Range(m_buffers)
     IN  /\ m_buffers' = InsertBefore(b)
         /\ m_current_itr' = b
         /\ Store(b, line)
  /\ UNCHANGED saturated

\* There are enough buffers already: the line is dropped, though
\* m_current_itr has moved.
AppendDrops(line) ==
  /\ ~Enough(m_current_itr, line)
  /\ After(m_current_itr) = m_next_to_flush
  /\ Len(m_buffers) >= MaxBuffers
  /\ m_current_itr' = m_next_to_flush
  /\ saturated' = TRUE
  /\ UNCHANGED <<m_buffers, data>>

\* A call of append().  The logger is used until it is destroyed.
AppendLine ==
  /\ m_running /\ CurrentInRing
  /\ Len(accepted) < MaxLines
  /\ LET no == Len(accepted) + 1
         line == [no |-> no, len |-> LineLen[no]]
     IN  /\ AppendHere(line) \/ AppendNext(line) \/ AppendNew(line) \/ AppendDrops(line)
         /\ accepted' = Append(accepted, line)
  /\ UNCHANGED <<m_next_to_flush, m_running, backend_vars, file_vars>>

-----------------------------------------------------------------------------
(* backendThreadFunc().                                                    *)

\* fwrite() of a buffer, and its lines counted.
WriteOut(b) ==
  /\ m_file' = m_file \o data[b]
  /\ m_cur_file_size' = m_cur_file_size + Len(data[b])
  /\ UNCHANGED closed

\* The first critical section: wait if the front end is in the buffer to
\* flush next.
Check ==
  /\ pc = "check" /\ CurrentInRing
  /\ pc' = IF m_current_itr = m_next_to_flush THEN "waiting" ELSE "measure"
  /\ cur' = m_current_itr
  /\ UNCHANGED <<m_buffers, data, m_current_itr, m_next_to_flush, m_running,
                 next_to_flush, reduce, file_vars, history>>

\* Mutation: wait() in the place of waitForMilliSeconds().
TimesOutNot == FALSE

\* waitForMilliSeconds()
TimesOut == TRUE

\* append()'s signal, given when the front end moves on, or the timeout ends
\* the wait.
Awake ==
  /\ pc = "waiting"
  /\ m_current_itr # m_next_to_flush \/ TimesOut
  /\ pc' = "measure"
  /\ cur' = m_current_itr
  /\ UNCHANGED <<m_buffers, data, m_current_itr, m_next_to_flush, m_running,
                 next_to_flush, reduce, file_vars, history>>

\* Whether there are more buffers than needed.  The lock is not held, and append()
\* may insert a buffer meanwhile; but it does so before m_next_to_flush, where the
\* walk from there to cur does not come, so that only the number of buffers, read
\* once, can be seen to change: one step.
Measure ==
  /\ pc = "measure"
  /\ next_to_flush' = m_next_to_flush
  /\ reduce' = (Len(m_buffers) > Distance(m_next_to_flush, cur) + 2)
  /\ pc' = "flush"
  /\ UNCHANGED <<m_buffers, data, m_current_itr, m_next_to_flush, m_running,
                 cur, file_vars, history>>

\* The buffers before cur are written ...
Flush ==
  /\ pc = "flush"
  /\ IF next_to_flush = cur
       THEN pc' = "relock" /\ UNCHANGED file_vars
       ELSE pc' = "reset" /\ WriteOut(next_to_flush)
  /\ UNCHANGED <<m_buffers, data, m_current_itr, m_next_to_flush, m_running,
                 cur, next_to_flush, reduce, history>>

\* Mutation: the buffer keeps its lines.
EmptiedNot(b) == data

\* FixedBuffer::reset()
Emptied(b) == [data EXCEPT ![b] = <<>>]

\* ... and emptied.
Reset ==
  /\ pc = "reset"
  /\ data' = Emptied(next_to_flush)
  /\ next_to_flush' = After(next_to_flush)
  /\ pc' = "flush"
  /\ UNCHANGED <<m_buffers, m_current_itr, m_next_to_flush, m_running,
                 cur, reduce, file_vars, history>>

\* Mutation: the front end stays in the buffer that is written next.
LeaveCurNot == m_current_itr

\* The front end is moved out of cur if it is still there.
LeaveCur == IF m_current_itr = cur THEN After(cur) ELSE m_current_itr

\* The second critical section.
Relock ==
  /\ pc = "relock"
  /\ m_current_itr' = LeaveCur
  /\ m_next_to_flush' = next_to_flush
  /\ pc' = "flush_last"
  /\ UNCHANGED <<m_buffers, data, m_running, cur, next_to_flush, reduce,
                 file_vars, history>>

\* cur itself is written ...
FlushLast ==
  /\ pc = "flush_last"
  /\ WriteOut(next_to_flush)
  /\ pc' = "reset_last"
  /\ UNCHANGED <<m_buffers, data, m_current_itr, m_next_to_flush, m_running, cur,
                 next_to_flush, reduce, history>>

\* ... and emptied.
ResetLast ==
  /\ pc = "reset_last"
  /\ data' = Emptied(next_to_flush)
  /\ pc' = "advance"
  /\ UNCHANGED <<m_buffers, m_current_itr, m_next_to_flush, m_running, cur,
                 next_to_flush, reduce, file_vars, history>>

\* The third critical section: past cur, which is given back if there are too
\* many buffers.
Advance ==
  /\ pc = "advance"
  /\ m_next_to_flush' = After(m_next_to_flush)
  /\ m_buffers' = IF reduce /\ Len(m_buffers) > Initial
                    THEN RemoveAt(m_buffers, Place(m_next_to_flush))
                    ELSE m_buffers
  /\ pc' = "rotate"
  /\ UNCHANGED <<data, m_current_itr, m_running, cur, next_to_flush, reduce,
                 file_vars, history>>

\* A new log file if there are too many lines in this one; around the loop.
Rotate ==
  /\ pc = "rotate"
  /\ IF m_cur_file_size >= MaxFileSize
       THEN closed' = closed \o m_file /\ m_file' = <<>>
       ELSE UNCHANGED <<closed, m_file>>
  /\ pc' = IF m_running THEN "check" ELSE "final"
  /\ UNCHANGED <<m_buffers, data, m_current_itr, m_next_to_flush, m_cur_file_size, m_running,
                 cur, next_to_flush, reduce, history>>

\* After the loop, under the lock: what is left is written.
Final ==
  /\ pc = "final" /\ CurrentInRing
  /\ m_current_itr' = After(m_current_itr)
  /\ m_next_to_flush' = m_current_itr'
  /\ LET left == Between(m_next_to_flush, m_current_itr')
     IN  m_file' = m_file \o FlattenSeq([i \in DOMAIN left |-> data[left[i]]])
  /\ pc' = "done"
  /\ UNCHANGED <<m_buffers, data, m_running, cur, next_to_flush, reduce, closed, m_cur_file_size,
                 history>>

\* ~AsyncLogging(): the backend is told to stop, and joined.
Destroy ==
  /\ m_running
  /\ m_running' = FALSE
  /\ UNCHANGED <<m_buffers, data, m_current_itr, m_next_to_flush, backend_vars, file_vars, history>>

-----------------------------------------------------------------------------

Backend ==
  \/ Check \/ Awake \/ Measure \/ Flush \/ Reset \/ Relock \/ FlushLast \/ ResetLast \/ Advance
  \/ Rotate \/ Final

Next == AppendLine \/ Backend \/ Destroy

Spec == Init /\ [][Next]_vars

\* The backend is scheduled, and its waits are timed.
FairSpec == Spec /\ WF_vars(Backend)

-----------------------------------------------------------------------------
(* Properties.                                                             *)

Written == closed \o m_file

\* The first buffer with lines the backend has not written.
Unwritten ==
  CASE pc \in {"flush", "relock"} -> next_to_flush
    [] pc \in {"reset", "reset_last"} -> After(next_to_flush)
    [] OTHER -> m_next_to_flush

\* The lines in the ring that wait to be written.
Waiting ==
  IF pc = "done"
    THEN SubSeq(accepted, Len(Written) + 1, Len(accepted))
    ELSE LET ring == Append(Between(Unwritten, m_current_itr), m_current_itr)
         IN  FlattenSeq([i \in DOMAIN ring |-> data[ring[i]]])

Log == INSTANCE LogFile WITH
         Lines <- Line, waiting <- Waiting, file <- Written, full <- saturated

\* As long as the ring has room every line is in a file or waits in the ring, in
\* the order of the calls and once, whatever the front end does while the
\* backend writes and empties buffers without the lock; and even when lines are
\* dropped and buffers overrun, none is written twice.
NothingLost ==
  /\ ~saturated => Written \o Waiting = accepted
  /\ IsInjective(Written)

\* And then the ring implements a log file.
WritesLogFile == Log!Spec

\* As long as no line is dropped m_current_itr stays in the ring though buffers
\* are erased under it, and between it and the buffer to flush next there is no
\* line, so a line always fits into the buffer append() moves on to without
\* looking.  A dropped line leaves m_current_itr on the buffer that the backend
\* erases when it shrinks the ring.
RingInOrder ==
  ~saturated =>
    /\ CurrentInRing
    /\ pc # "done" /\ After(m_current_itr) # m_next_to_flush =>
         \A b \in Range(Between(After(m_current_itr), m_next_to_flush)) : data[b] = <<>>

\* The lines accepted are written though no further call is made and no buffer
\* is full, unless the logger is destroyed.  (The bound on lines ends the calls.)
LinesReachFile == []<>(saturated \/ ~m_running \/ Waiting = <<>>)

\* The last flush writes all that is left (the comment at the end of
\* backendThreadFunc), unless every buffer of the ring is in use: then
\* m_current_itr, moved on, meets m_next_to_flush and the ring looks empty.
LastFlush ==
  [][Final /\ ~saturated /\ After(m_current_itr) # m_next_to_flush =>
       closed \o m_file' = accepted]_vars

\* m_cur_file_size counts the lines of the open log file (its comment), seen
\* between two rounds of the backend.
CountsOpenFile == pc = "check" => m_cur_file_size = Len(m_file)
=============================================================================

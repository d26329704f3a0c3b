------------------------------- MODULE LogFile -------------------------------
(***************************************************************************)
(* What AsyncLogging promises its callers: the lines it accepts go to the  *)
(* log file once each, in the order of the calls, some time later, as long *)
(* as it has room for them.                                                *)
(***************************************************************************)
EXTENDS Naturals, Sequences

CONSTANTS Lines

VARIABLES
  waiting,  \* lines accepted and not yet in the file
  file,     \* lines in the file
  full      \* a line came that there was no room for: nothing is promised any more

Init == waiting = <<>> /\ file = <<>> /\ full = FALSE

Accept(line) == waiting' = Append(waiting, line) /\ UNCHANGED file

\* A buffer of lines goes to the file.
Write ==
  \E n \in 1..Len(waiting) :
    /\ file' = file \o SubSeq(waiting, 1, n)
    /\ waiting' = SubSeq(waiting, n + 1, Len(waiting))

Fill == full' = TRUE

Next == Fill \/ (full' = full /\ ((\E line \in Lines : Accept(line)) \/ Write))

Spec == Init /\ [][Next]_<<waiting, file, full>>
=============================================================================

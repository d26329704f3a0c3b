------------------------------ MODULE TaskQueue ------------------------------
(***************************************************************************)
(* What EventLoop promises about the callbacks handed to it: they form one *)
(* FIFO queue.  A callback enters at the tail when it is posted and leaves *)
(* from the head when the loop's thread runs it; none is lost, run twice   *)
(* or overtaken, whichever thread posted it and at whatever moment.        *)
(***************************************************************************)
EXTENDS Sequences

CONSTANT Task

VARIABLE queue

Init == queue = <<>>

Post == \E t \in Task : queue' = Append(queue, t)

Run == queue # <<>> /\ queue' = Tail(queue)

Next == Post \/ Run

Spec == Init /\ [][Next]_queue
=============================================================================

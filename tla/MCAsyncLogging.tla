--------------------------- MODULE MCAsyncLogging ---------------------------
(* AsyncLogging for TLC: a buffer holds two units; lines of one and of two  *)
(* units alternate so that some buffers end with a unit free.               *)
EXTENDS AsyncLogging

MCLineLen == [n \in 1..MaxLines |-> IF n % 3 = 2 THEN 2 ELSE 1]
=============================================================================

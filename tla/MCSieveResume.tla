--------------------------- MODULE MCSieveResume ---------------------------
(* Five batches whose relations overlap, also across checkpoints and       *)
(* rounds.  With targets 2, 4 and 5 a round ends in the middle of the range,  *)
(* and the sieve stops one batch before its end.                           *)
EXTENDS SieveResume

MCYield == <<<<1>>, <<1, 2>>, <<2, 3>>, <<1, 4>>, <<5>>>>
=============================================================================

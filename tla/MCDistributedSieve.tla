------------------------- MODULE MCDistributedSieve -------------------------
(* Neighbouring chunks find a common relation, as the sieve can. *)
EXTENDS DistributedSieve
MCYield == [i \in 1..3 |-> <<i, i + 1>>]
=============================================================================

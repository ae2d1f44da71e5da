----------------------------- MODULE MergeLedger -----------------------------
(***************************************************************************)
(* What the merge of a wave promises: generations are tried in order, each  *)
(* at most once; one that was prepared is never given up and never followed *)
(* by another; and only a prepared one is committed, for good.              *)
(***************************************************************************)
EXTENDS Naturals

CONSTANT Generations    \* how many generations may be tried

NoGen == Generations    \* no generation: the ordinals end before it

VARIABLES burned,       \* how many generations were started and given up
          prepared,     \* the generation that holds the merged corpus, or NoGen
          committed     \* whether the wave is committed to it

vars == <<burned, prepared, committed>>

Init == burned = 0 /\ prepared = NoGen /\ committed = FALSE

Burn ==
    /\ prepared = NoGen /\ burned < Generations
    /\ burned' = burned + 1
    /\ UNCHANGED <<prepared, committed>>

Prepare ==
    /\ prepared = NoGen /\ burned < Generations
    /\ prepared' = burned
    /\ UNCHANGED <<burned, committed>>

Commit ==
    /\ prepared # NoGen
    /\ committed' = TRUE
    /\ UNCHANGED <<burned, prepared>>

Next == Burn \/ Prepare \/ Commit

Spec == Init /\ [][Next]_vars
==============================================================================

------------------------------ MODULE WriteOnce ------------------------------
(***************************************************************************)
(* What a durable immutable record promises: a register that is fixed at    *)
(* most once, and tells a caller "durable" only for the value it is fixed   *)
(* to.  Crashes, power cuts and failing calls do not appear here: none of   *)
(* them may unfix the register.                                             *)
(***************************************************************************)
CONSTANTS Values, None

VARIABLES value,    \* what the record is fixed to
          told      \* the values some caller was told are durable

vars == <<value, told>>

Init == value = None /\ told = {}

Fix(v) == value = None /\ value' = v /\ UNCHANGED told

Tell(v) == value = v /\ told' = told \cup {v} /\ UNCHANGED value

Next == \E v \in Values : Fix(v) \/ Tell(v)

Spec == Init /\ [][Next]_vars
==============================================================================

----------------------------- MODULE OrderedOutcome -----------------------------
(***************************************************************************)
(* What the indexed executors of include/gnfs/util promise their callers,   *)
(* whatever their threads do: every operation runs at most once, nothing    *)
(* runs after the call has ended, success means that every operation        *)
(* succeeded, and the error a caller sees is one that did happen - for the  *)
(* deterministic executors the one of the lowest index, so that scheduling  *)
(* cannot choose it.                                                        *)
(***************************************************************************)
EXTENDS Integers, FiniteSets

CONSTANTS Items,          \* the indices of the operations
          LateBreak       \* an infrastructure error may come after operations

VARIABLES lowest,    \* the executor reports the lowest failing index
          fails,     \* the operations that throw, fixed by the caller's data
          ran,       \* the operations that have ended
          outcome    \* what the call came to

vars == <<lowest, fails, ran, outcome>>

Pending == <<"pending">>
Success == <<"success">>
Infrastructure == <<"infrastructure">>
Failed(i) == <<"failed", i>>

Init == /\ lowest \in BOOLEAN
        /\ fails \in SUBSET Items
        /\ ran = {}
        /\ outcome = Pending

Run(i) == /\ outcome = Pending
          /\ i \notin ran
          /\ ran' = ran \cup {i}
          /\ UNCHANGED <<lowest, fails, outcome>>

Succeed == /\ outcome = Pending
           /\ ran = Items /\ fails = {}
           /\ outcome' = Success
           /\ UNCHANGED <<lowest, fails, ran>>

\* With every failure collected the lowest one is reported; an executor that
\* cancels may report any operation that did fail.
Fail(i) == /\ outcome = Pending
           /\ i \in ran \cap fails
           /\ lowest => \A j \in fails : i <= j
           /\ outcome' = Failed(i)
           /\ UNCHANGED <<lowest, fails, ran>>

\* Threads could not be had.  An executor with a launch gate has run nothing.
Break == /\ outcome = Pending
         /\ ran = {} \/ LateBreak
         /\ outcome' = Infrastructure
         /\ UNCHANGED <<lowest, fails, ran>>

Next == (\E i \in Items : Run(i) \/ Fail(i)) \/ Succeed \/ Break

Spec == Init /\ [][Next]_vars
=================================================================================

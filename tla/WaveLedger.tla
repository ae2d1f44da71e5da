------------------------------ MODULE WaveLedger ------------------------------
(***************************************************************************)
(* What a durable wave promises, whatever crashes: the attempts of a chunk  *)
(* form one bounded chain, the handoff belongs to the last link of it and   *)
(* is never revoked, a chunk is given up only when its chain is spent, and  *)
(* the wave is accepted only when every chunk is handed over.               *)
(***************************************************************************)
EXTENDS Integers

CONSTANTS Work,      \* the chunks with something to sieve
          Budget     \* max_worker_attempts of the manifest

VARIABLES attempts,  \* of each chunk, the attempts that were started
          handed,    \* the chunks handed over
          failed,    \* the chunks given up
          accepted   \* a caller holds every handoff

vars == <<attempts, handed, failed, accepted>>

Init ==
    /\ attempts = [c \in Work |-> 0]
    /\ handed = {} /\ failed = {} /\ accepted = FALSE

\* A further attempt, while nothing is decided for the chunk or given up.
Attempt(c) ==
    /\ c \notin handed /\ failed = {} /\ attempts[c] < Budget
    /\ attempts' = [attempts EXCEPT ![c] = @ + 1]
    /\ UNCHANGED <<handed, failed, accepted>>

HandOver(c) ==
    /\ attempts[c] > 0 /\ c \notin handed /\ c \notin failed
    /\ handed' = handed \cup {c}
    /\ UNCHANGED <<attempts, failed, accepted>>

GiveUp(c) ==
    /\ attempts[c] = Budget /\ c \notin handed /\ failed = {}
    /\ failed' = {c}
    /\ UNCHANGED <<attempts, handed, accepted>>

\* The result of a round is returned to the caller, and dropped by it.
Accept ==
    /\ ~accepted /\ handed = Work /\ failed = {}
    /\ accepted' = TRUE
    /\ UNCHANGED <<attempts, handed, failed>>
Drop ==
    /\ accepted /\ accepted' = FALSE
    /\ UNCHANGED <<attempts, handed, failed>>

Next == Accept \/ Drop \/ \E c \in Work : Attempt(c) \/ HandOver(c) \/ GiveUp(c)

Spec == Init /\ [][Next]_vars
===============================================================================

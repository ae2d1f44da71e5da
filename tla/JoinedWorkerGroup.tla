---------------------------- MODULE JoinedWorkerGroup ----------------------------
(***************************************************************************)
(* run_joined_worker_group (include/gnfs/util/joined_worker_group.hpp): one *)
(* thread per ordinal behind a gate made of two atomics.  A thread that     *)
(* waits on an atomic compares its value and falls asleep in one step, and  *)
(* wakes only when it is notified.                                          *)
(***************************************************************************)
EXTENDS Integers, FiniteSets

CONSTANT WorkerCount    \* worker_count

Ordinals == 0..(WorkerCount - 1)

VARIABLES
    fails,      \* the ordinals whose body throws
    arrived,    \* arrived_workers_
    state,      \* state_: LaunchGateState
    wpc,        \* where each worker thread is
    bodies,     \* ordinals whose body has ended
    errors,     \* worker_errors
    created,    \* threads launched
    workers,    \* the JoiningThreads that have not been destroyed
    seen,       \* the value of arrived_workers_ the caller has loaded
    caller,     \* where the calling thread is
    outcome     \* what the call came to

vars == <<fails, arrived, state, wpc, bodies, errors, created, workers, seen, caller, outcome>>

Init ==
    /\ fails \in SUBSET Ordinals
    /\ arrived = 0 /\ state = "launching"
    /\ wpc = [w \in Ordinals |-> "none"]
    /\ bodies = {} /\ errors = {}
    /\ created = 0 /\ workers = {} /\ seen = 0
    /\ caller = "launch" /\ outcome = <<"pending">>

-----------------------------------------------------------------------------
\* Mutant: a thread is started that the vector does not hold.
LaunchThreadDetached ==
    /\ caller = "launch" /\ created < WorkerCount
    /\ wpc' = [wpc EXCEPT ![created] = "arrive"]
    /\ created' = created + 1
    /\ caller' = IF created' = WorkerCount THEN "load" ELSE "launch"
    /\ UNCHANGED <<fails, arrived, state, workers, bodies, errors, seen, outcome>>

LaunchThread ==
    /\ caller = "launch" /\ created < WorkerCount
    /\ wpc' = [wpc EXCEPT ![created] = "arrive"]
    /\ workers' = workers \cup {created}
    /\ created' = created + 1
    /\ caller' = IF created' = WorkerCount THEN "load" ELSE "launch"
    /\ UNCHANGED <<fails, arrived, state, bodies, errors, seen, outcome>>

\* The launcher throws, or returns a thread that is not joinable: cancel().
LaunchThreadFails ==
    /\ caller = "launch"
    /\ state' = "cancelled"
    /\ caller' = "wakeCancelled"
    /\ UNCHANGED <<fails, arrived, wpc, bodies, errors, created, workers, seen, outcome>>

\* Mutant: the gate is released after one wait, whoever has arrived.
LoadArrivedOnce ==
    /\ caller = "load"
    /\ seen' = arrived
    /\ caller' = IF arrived > 0 THEN "store" ELSE "wait"
    /\ UNCHANGED <<fails, arrived, state, wpc, bodies, errors, created, workers, outcome>>

\* release_when_ready: load, compare, wait on the loaded value.
LoadArrived ==
    /\ caller = "load"
    /\ seen' = arrived
    /\ caller' = IF arrived = WorkerCount THEN "store" ELSE "wait"
    /\ UNCHANGED <<fails, arrived, state, wpc, bodies, errors, created, workers, outcome>>

WaitArrived ==
    /\ caller = "wait"
    /\ caller' = IF arrived = seen THEN "asleep" ELSE "load"
    /\ UNCHANGED <<fails, arrived, state, wpc, bodies, errors, created, workers, seen, outcome>>

StoreReleased ==
    /\ caller = "store"
    /\ state' = "released"
    /\ caller' = "wakeReleased"
    /\ UNCHANGED <<fails, arrived, wpc, bodies, errors, created, workers, seen, outcome>>

\* state_.notify_all(), of release_when_ready and of cancel.
WakeGate ==
    /\ caller \in {"wakeReleased", "wakeCancelled"}
    /\ wpc' = [w \in Ordinals |-> IF wpc[w] = "asleep" THEN "load" ELSE wpc[w]]
    /\ caller' = IF caller = "wakeReleased" THEN "join" ELSE "abort"
    /\ UNCHANGED <<fails, arrived, state, bodies, errors, created, workers, seen, outcome>>

\* workers.clear(): a JoiningThread waits for its thread to end before it is
\* gone, one after the other, in whatever order the vector takes.
Join ==
    /\ caller \in {"join", "abort"}
    /\ \E w \in workers : wpc[w] = "done" /\ workers' = workers \ {w}
    /\ UNCHANGED <<fails, arrived, state, wpc, bodies, errors, created, seen, caller, outcome>>

\* The vector is empty: the launch error, or the lowest ordinal's.
Return ==
    /\ caller \in {"join", "abort"} /\ workers = {}
    /\ outcome' = IF caller = "abort" THEN <<"infrastructure">>
                  ELSE IF errors = {} THEN <<"success">>
                  ELSE <<"failed", CHOOSE w \in errors : \A v \in errors : w <= v>>
    /\ caller' = "returned"
    /\ UNCHANGED <<fails, arrived, state, wpc, bodies, errors, created, workers, seen>>

-----------------------------------------------------------------------------
\* worker_arrive_and_wait: fetch_add, then notify_one.
Arrive(w) ==
    /\ wpc[w] = "arrive"
    /\ arrived' = arrived + 1
    /\ wpc' = [wpc EXCEPT ![w] = "announce"]
    /\ UNCHANGED <<fails, state, bodies, errors, created, workers, seen, caller, outcome>>

Announce(w) ==
    /\ wpc[w] = "announce"
    /\ wpc' = [wpc EXCEPT ![w] = "load"]
    /\ caller' = IF caller = "asleep" THEN "load" ELSE caller
    /\ UNCHANGED <<fails, arrived, state, bodies, errors, created, workers, seen, outcome>>

LoadState(w) ==
    /\ wpc[w] = "load"
    /\ wpc' = [wpc EXCEPT ![w] = CASE state = "launching" -> "wait"
                                   [] state = "released" -> "body"
                                   [] OTHER -> "done"]
    /\ UNCHANGED <<fails, arrived, state, bodies, errors, created, workers, seen, caller, outcome>>

WaitState(w) ==
    /\ wpc[w] = "wait"
    /\ wpc' = [wpc EXCEPT ![w] = IF state = "launching" THEN "asleep" ELSE "load"]
    /\ UNCHANGED <<fails, arrived, state, bodies, errors, created, workers, seen, caller, outcome>>

\* worker(ordinal), whose exception is kept at the noexcept boundary.
Body(w) ==
    /\ wpc[w] = "body"
    /\ bodies' = bodies \cup {w}
    /\ errors' = IF w \in fails THEN errors \cup {w} ELSE errors
    /\ wpc' = [wpc EXCEPT ![w] = "done"]
    /\ UNCHANGED <<fails, arrived, state, created, workers, seen, caller, outcome>>

Returned == caller = "returned" /\ UNCHANGED vars

Caller == LaunchThread \/ LaunchThreadFails \/ LoadArrived \/ WaitArrived
             \/ StoreReleased \/ WakeGate \/ Join \/ Return
Worker(w) == Arrive(w) \/ Announce(w) \/ LoadState(w) \/ WaitState(w) \/ Body(w)

Next == Caller \/ (\E w \in Ordinals : Worker(w)) \/ Returned

Spec == Init /\ [][Next]_vars

-----------------------------------------------------------------------------
\* No worker body starts before every thread exists and has reached the gate,
\* and none at all after a launch failure.
NoEarlyBody ==
    (bodies # {} \/ \E w \in Ordinals : wpc[w] = "body")
        => /\ created = WorkerCount /\ arrived = WorkerCount
           /\ caller \notin {"launch", "wakeCancelled", "abort"}

\* Every thread that was started has a JoiningThread that waited for it: none
\* is left behind by the call, whether its gate was released or cancelled.
NoWorkerOutlives ==
    outcome # <<"pending">> => \A w \in Ordinals : wpc[w] \in {"none", "done"}

\* All bodies or none, and the error of the lowest ordinal, whatever the
\* schedule.
Promise == INSTANCE OrderedOutcome
             WITH Items <- Ordinals, LateBreak <- FALSE, lowest <- TRUE, ran <- bodies
KeepsPromise == Promise!Spec
==================================================================================

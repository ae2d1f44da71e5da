---------------------------- MODULE FixedSlotExecutor ----------------------------
(***************************************************************************)
(* execute_fixed_slots (include/gnfs/util/fixed_slot_executor.hpp): static  *)
(* contiguous partitions, one thread each, that start together behind a     *)
(* launch gate.  Under cancel_remaining a failure asks the others to stop   *)
(* at their next slot; under drain_all every slot runs.                     *)
(***************************************************************************)
EXTENDS Integers, FiniteSets

CONSTANTS SlotCount,   \* slot_count
          Requested    \* requested_workers

WorkerCount == IF SlotCount < Requested THEN SlotCount ELSE Requested
Slots == 0..(SlotCount - 1)
Ordinals == 0..(WorkerCount - 1)

\* Mutant: the extra slots are forgotten when the later partitions are placed.
PartitionBeginUnshifted(w) == w * (SlotCount \div WorkerCount)

\* make_partitions: the first slot of worker w, and one past its last.
PartitionBegin(w) ==
    LET extra == SlotCount % WorkerCount
    IN  w * (SlotCount \div WorkerCount) + (IF w < extra THEN w ELSE extra)
PartitionEnd(w) ==
    PartitionBegin(w) + SlotCount \div WorkerCount
                      + (IF w < SlotCount % WorkerCount THEN 1 ELSE 0)

VARIABLES
    policy,       \* failure_policy
    fails,        \* the slots whose operation throws
    gate,         \* LaunchGate: arrived_, released_, cancelled_
    created,      \* threads launched so far
    workers,      \* the JoiningThreads that have not been destroyed
    wpc,          \* where each worker thread is
    slot,         \* the slot each worker is at
    slots,        \* of each slot: "empty", "value" or "error"
    firstFailure, \* first_failure_slot
    workerErrors, \* the workers whose infrastructure failed
    stop,         \* infrastructure_stop
    caller,       \* where the calling thread is
    outcome       \* what the call came to

workerVars == <<wpc, slot, slots, firstFailure>>
infraVars == <<workerErrors, stop>>
vars == <<policy, fails, gate, created, workers, workerVars, infraVars, caller, outcome>>

NoFailure == -1     \* no_failed_slot
Pending == <<"pending">>

WorkerPc == {"none", "start", "gate", "check", "operate", "publish", "broken", "done"}
CallerPc == {"launch", "release", "join", "abort", "returned"}

Init ==
    /\ policy \in {"cancel_remaining", "drain_all"}
    /\ fails \in SUBSET Slots
    /\ gate = [arrived |-> 0, released |-> FALSE, cancelled |-> FALSE]
    /\ created = 0 /\ workers = {}
    /\ wpc = [w \in Ordinals |-> "none"]
    /\ slot = [w \in Ordinals |-> PartitionBegin(w)]
    /\ slots = [s \in Slots |-> "empty"]
    /\ firstFailure = NoFailure
    /\ workerErrors = {}
    /\ stop = FALSE
    /\ caller = "launch"
    /\ outcome = Pending

-----------------------------------------------------------------------------

\* thread_launcher: one thread after the other.
Launch ==
    /\ caller = "launch" /\ created < WorkerCount
    /\ wpc' = [wpc EXCEPT ![created] = "start"]
    /\ workers' = workers \cup {created}
    /\ created' = created + 1
    /\ caller' = IF created' = WorkerCount THEN "release" ELSE "launch"
    /\ UNCHANGED <<policy, fails, gate, slot, slots, firstFailure, infraVars, outcome>>

\* A launch throws: the catch block cancels the gate and joins.
LaunchFails ==
    /\ caller = "launch"
    /\ gate' = [gate EXCEPT !.cancelled = TRUE]
    /\ caller' = "abort"
    /\ UNCHANGED <<policy, fails, created, workers, workerVars, infraVars, outcome>>

\* Mutant: the gate opens as soon as one worker has arrived.
ReleaseEarly ==
    /\ caller \in {"launch", "release"}
    /\ gate.arrived > 0 \/ gate.cancelled
    /\ gate' = [gate EXCEPT !.released = ~gate.cancelled]
    /\ caller' = IF gate.cancelled THEN "abort" ELSE IF caller = "release" THEN "join" ELSE caller
    /\ UNCHANGED <<policy, fails, created, workers, workerVars, infraVars, outcome>>

\* release_when_ready
Release ==
    /\ caller = "release"
    /\ gate.arrived = WorkerCount \/ gate.cancelled
    /\ gate' = [gate EXCEPT !.released = ~gate.cancelled]
    /\ caller' = IF gate.cancelled THEN "abort" ELSE "join"
    /\ UNCHANGED <<policy, fails, created, workers, workerVars, infraVars, outcome>>

-----------------------------------------------------------------------------
\* worker_arrive_and_wait, up to the wait.
Arrive(w) ==
    /\ wpc[w] = "start"
    /\ gate' = [gate EXCEPT !.arrived = @ + 1]
    /\ wpc' = [wpc EXCEPT ![w] = "gate"]
    /\ UNCHANGED <<policy, fails, created, workers, slot, slots, firstFailure, infraVars, caller, outcome>>

\* Taking the gate's mutex throws: the outer catch of the worker records it.
ArriveFails(w) ==
    /\ wpc[w] = "start"
    /\ workerErrors' = workerErrors \cup {w}
    /\ stop' = TRUE
    /\ wpc' = [wpc EXCEPT ![w] = "broken"]
    /\ UNCHANGED <<policy, fails, gate, created, workers, slot, slots, firstFailure, caller, outcome>>

\* Mutant: a worker that could not arrive does not cancel the gate.
CancelGateForgotten(w) ==
    /\ wpc[w] = "broken"
    /\ wpc' = [wpc EXCEPT ![w] = "done"]
    /\ UNCHANGED <<policy, fails, gate, created, workers, slot, slots, firstFailure, infraVars, caller, outcome>>

CancelGate(w) ==
    /\ wpc[w] = "broken"
    /\ gate' = [gate EXCEPT !.cancelled = TRUE]
    /\ wpc' = [wpc EXCEPT ![w] = "done"]
    /\ UNCHANGED <<policy, fails, created, workers, slot, slots, firstFailure, infraVars, caller, outcome>>

\* The wait ends: released_ && !cancelled_.
PassGate(w) ==
    /\ wpc[w] = "gate"
    /\ gate.released \/ gate.cancelled
    /\ wpc' = [wpc EXCEPT ![w] = IF gate.released /\ ~gate.cancelled THEN "check" ELSE "done"]
    /\ UNCHANGED <<policy, fails, gate, created, workers, slot, slots, firstFailure, infraVars, caller, outcome>>

\* The head of the slot loop.
Check(w) ==
    /\ wpc[w] = "check"
    /\ wpc' = [wpc EXCEPT ![w] =
                 IF \/ slot[w] >= PartitionEnd(w) \/ stop
                    \/ policy = "cancel_remaining" /\ firstFailure # NoFailure
                 THEN "done" ELSE "operate"]
    /\ UNCHANGED <<policy, fails, gate, created, workers, slot, slots, firstFailure, infraVars, caller, outcome>>

\* operation(worker_state, slot) returns a value or throws.
Operate(w) ==
    /\ wpc[w] = "operate"
    /\ LET s == slot[w] IN
        \/ /\ s \notin fails
           /\ slots' = [slots EXCEPT ![s] = "value"]
           /\ slot' = [slot EXCEPT ![w] = s + 1]
           /\ wpc' = [wpc EXCEPT ![w] = "check"]
        \/ /\ s \in fails /\ policy = "drain_all"
           /\ slots' = [slots EXCEPT ![s] = "error"]
           /\ slot' = [slot EXCEPT ![w] = s + 1]
           /\ wpc' = [wpc EXCEPT ![w] = "check"]
        \/ /\ s \in fails /\ policy = "cancel_remaining"
           /\ slots' = [slots EXCEPT ![s] = "error"]
           /\ wpc' = [wpc EXCEPT ![w] = "publish"]
           /\ UNCHANGED slot
    /\ UNCHANGED <<policy, fails, gate, created, workers, firstFailure, infraVars, caller, outcome>>

\* The failed worker publishes its slot unless another one did, and stops.
Publish(w) ==
    /\ wpc[w] = "publish"
    /\ firstFailure' = IF firstFailure = NoFailure THEN slot[w] ELSE firstFailure
    /\ wpc' = [wpc EXCEPT ![w] = "done"]
    /\ UNCHANGED <<policy, fails, gate, created, workers, slot, slots, infraVars, caller, outcome>>

-----------------------------------------------------------------------------
SlotErrors == {s \in Slots : slots[s] = "error"}

\* workers.clear(): a JoiningThread waits for its thread to end before it is
\* gone, one after the other, in whatever order the vector takes.
Join ==
    /\ caller \in {"join", "abort"}
    /\ \E w \in workers : wpc[w] = "done" /\ workers' = workers \ {w}
    /\ UNCHANGED <<policy, fails, gate, created, workerVars, infraVars, caller, outcome>>

\* The vector is empty; then the call ends with o.
ReturnResult(o) ==
    /\ workers = {}
    /\ outcome' = o /\ caller' = "returned"
    /\ UNCHANGED <<policy, fails, gate, created, workers, workerVars, infraVars>>

\* Mutant: the launch error is rethrown with threads that nobody joins.
ReturnAbortedUnjoined ==
    /\ caller = "abort"
    /\ outcome' = <<"infrastructure">> /\ caller' = "returned"
    /\ workers' = {}
    /\ UNCHANGED <<policy, fails, gate, created, workerVars, infraVars>>

\* The launch failed, or the gate was cancelled by a worker's error.
ReturnAborted ==
    /\ caller = "abort"
    /\ ReturnResult(<<"infrastructure">>)

\* Worker errors, then the published failure, then the lowest slot error.
ReturnErrors ==
    /\ caller = "join"
    /\ \/ /\ workerErrors # {}
          /\ ReturnResult(<<"infrastructure">>)
       \/ /\ workerErrors = {}
          /\ policy = "cancel_remaining" /\ firstFailure # NoFailure
          /\ ReturnResult(<<"failed", firstFailure>>)
       \/ /\ workerErrors = {}
          /\ ~(policy = "cancel_remaining" /\ firstFailure # NoFailure)
          /\ \E s \in SlotErrors : /\ \A r \in SlotErrors : s <= r
                                   /\ ReturnResult(<<"failed", s>>)

ReturnValues ==
    /\ caller = "join" /\ workerErrors = {} /\ SlotErrors = {}
    /\ firstFailure = NoFailure
    /\ ReturnResult(IF \A s \in Slots : slots[s] = "value" THEN <<"success">>
                    ELSE <<"missing">>)

Returned == caller = "returned" /\ UNCHANGED vars

Caller == Launch \/ LaunchFails \/ Release \/ Join \/ ReturnAborted \/ ReturnErrors \/ ReturnValues
Worker(w) == Arrive(w) \/ ArriveFails(w) \/ CancelGate(w) \/ PassGate(w)
                \/ Check(w) \/ Operate(w) \/ Publish(w)

Next == Caller \/ (\E w \in Ordinals : Worker(w)) \/ Returned

Spec == Init /\ [][Next]_vars

-----------------------------------------------------------------------------
\* All or none: no operation has begun unless every thread exists and has
\* reached the gate, so a failed launch or a failed arrival starts nothing.
AllOrNone ==
    (\E w \in Ordinals : wpc[w] \in {"check", "operate", "publish"})
        \/ (\E s \in Slots : slots[s] # "empty")
    => /\ created = WorkerCount /\ gate.arrived = WorkerCount
       /\ caller # "abort"

\* A slot has one writer, once: two workers are never at the same slot, and
\* none is at a slot that has an outcome.
OneWriter ==
    \A w \in Ordinals : wpc[w] = "operate" =>
        /\ slots[slot[w]] = "empty"
        /\ \A v \in Ordinals \ {w} : wpc[v] = "operate" => slot[v] # slot[w]

\* Every thread that was started has a JoiningThread that waited for it: none
\* can touch the locals of a call that has ended, by whichever path.
NoWorkerOutlives == outcome # Pending => \A w \in Ordinals : wpc[w] \in {"none", "done"}

\* What the caller is promised; scheduling never selects the error of a
\* draining execution.
Promise == INSTANCE OrderedOutcome
             WITH Items <- Slots, LateBreak <- FALSE,
                  lowest <- policy = "drain_all",
                  ran <- {s \in Slots : slots[s] # "empty"}
KeepsPromise == Promise!Spec
==================================================================================

-------------------------- MODULE OrderedWorkStealingMap --------------------------
(***************************************************************************)
(* ordered_work_stealing_map (include/gnfs/util/ordered_parallel_map.hpp):  *)
(* workers claim indices from one atomic counter; a worker is a task of     *)
(* ordered_parallel_map, whose submission may fail part-way.                *)
(***************************************************************************)
EXTENDS Integers, FiniteSets, FiniteSetsExt

CONSTANTS Count,         \* count
          MaxWorkers     \* max_workers

Indices == 0..(Count - 1)
ActiveWorkers == IF MaxWorkers < Count THEN MaxWorkers ELSE Count
Ordinals == 0..(ActiveWorkers - 1)
Idle == -1

VARIABLES
    fails,        \* the indices whose operation throws
    setupFails,   \* a worker_factory call throws
    next_index,   \* the atomic counter
    submitted,    \* workers submitted so far
    wpc,          \* where each worker is: "none", "claim", "operate", "done"
    held,         \* the index each worker has claimed
    processed,    \* what the workers' counts add up to
    drained,      \* futures got so far
    slots,        \* of each index: "empty", "value" or "error"
    caller,       \* where the calling thread is
    outcome

workerVars == <<next_index, wpc, held, processed, slots>>
vars == <<fails, setupFails, submitted, drained, workerVars, caller, outcome>>

Init ==
    /\ fails \in SUBSET Indices
    /\ setupFails \in BOOLEAN
    /\ next_index = 0 /\ submitted = 0 /\ drained = 0
    /\ wpc = [w \in Ordinals |-> "none"]
    /\ held = [w \in Ordinals |-> Idle]
    /\ processed = 0
    /\ slots = [i \in Indices |-> "empty"]
    /\ caller = "setup" /\ outcome = <<"pending">>

Return(o) == outcome' = o /\ caller' = "returned" /\ UNCHANGED <<fails, setupFails, submitted, drained, workerVars>>

\* Every worker state is built before any worker runs.
Setup ==
    /\ caller = "setup"
    /\ \/ setupFails /\ Return(<<"infrastructure">>)
       \/ /\ ~setupFails /\ caller' = "submit"
          /\ UNCHANGED <<fails, setupFails, submitted, drained, workerVars, outcome>>

SubmitWorker ==
    /\ caller = "submit" /\ submitted < ActiveWorkers
    /\ wpc' = [wpc EXCEPT ![submitted] = "claim"]
    /\ submitted' = submitted + 1
    /\ caller' = IF submitted' = ActiveWorkers THEN "drain" ELSE "submit"
    /\ UNCHANGED <<fails, setupFails, drained, next_index, held, processed, slots, outcome>>

\* Mutant: a submission error is rethrown without waiting.
SubmitWorkerFailsUndrained ==
    /\ caller = "submit"
    /\ Return(<<"infrastructure">>)

\* The pool or a task cannot be made; the submitted workers are drained.
SubmitWorkerFails ==
    /\ caller = "submit"
    /\ caller' = "drainFailed"
    /\ UNCHANGED <<fails, setupFails, submitted, drained, workerVars, outcome>>

\* next_index.fetch_add(1)
Claim(w) ==
    /\ wpc[w] = "claim"
    /\ held' = [held EXCEPT ![w] = IF next_index < Count THEN next_index ELSE Idle]
    /\ wpc' = [wpc EXCEPT ![w] = IF next_index < Count THEN "operate" ELSE "done"]
    /\ next_index' = next_index + 1
    /\ UNCHANGED <<fails, setupFails, submitted, drained, processed, slots, caller, outcome>>

\* Mutant: a failed operation ends its worker, as an uncaught exception would.
OperateUncaught(w) ==
    /\ wpc[w] = "operate"
    /\ slots' = [slots EXCEPT ![held[w]] = IF held[w] \in fails THEN "error" ELSE "value"]
    /\ processed' = processed + 1
    /\ held' = [held EXCEPT ![w] = Idle]
    /\ wpc' = [wpc EXCEPT ![w] = IF held[w] \in fails THEN "done" ELSE "claim"]
    /\ UNCHANGED <<fails, setupFails, next_index, submitted, drained, caller, outcome>>

\* operation(state, index), its exception captured for the index.
Operate(w) ==
    /\ wpc[w] = "operate"
    /\ slots' = [slots EXCEPT ![held[w]] = IF held[w] \in fails THEN "error" ELSE "value"]
    /\ processed' = processed + 1
    /\ held' = [held EXCEPT ![w] = Idle]
    /\ wpc' = [wpc EXCEPT ![w] = "claim"]
    /\ UNCHANGED <<fails, setupFails, next_index, submitted, drained, caller, outcome>>

Errors == {i \in Indices : slots[i] = "error"}

\* ordered_parallel_map waits for the tasks it has submitted, in their order.
Drain ==
    /\ caller \in {"drain", "drainFailed"} /\ drained < submitted
    /\ wpc[drained] = "done"
    /\ drained' = drained + 1
    /\ UNCHANGED <<fails, setupFails, submitted, workerVars, caller, outcome>>

\* All of them have ended: a submission error, or the checks and the choice
\* that follow.
FinishFailed ==
    /\ caller = "drainFailed" /\ drained = submitted
    /\ Return(<<"infrastructure">>)

Finish ==
    /\ caller = "drain" /\ drained = submitted
    /\ Return(IF processed # Count THEN <<"logic_error">>
              ELSE IF Errors # {} THEN <<"failed", Min(Errors)>>
              ELSE IF \E i \in Indices : slots[i] = "empty" THEN <<"logic_error">>
              ELSE <<"success">>)

Returned == caller = "returned" /\ UNCHANGED vars

Caller == Setup \/ SubmitWorker \/ SubmitWorkerFails \/ Drain \/ FinishFailed \/ Finish
Worker(w) == Claim(w) \/ Operate(w)

Next == Caller \/ (\E w \in Ordinals : Worker(w)) \/ Returned

Spec == Init /\ [][Next]_vars

-----------------------------------------------------------------------------
\* No two workers are at the same index, and none is at one that has been
\* handled: slots[index] has one writer, once.
ClaimsDisjoint ==
    \A w \in Ordinals : held[w] # Idle =>
        /\ slots[held[w]] = "empty"
        /\ \A v \in Ordinals \ {w} : held[v] # held[w]

\* Worker states and slots outlive the workers: every one that was submitted
\* has ended when the call does.
NoWorkerOutlives ==
    outcome # <<"pending">> => \A w \in Ordinals : wpc[w] \in {"none", "done"}

\* The result is ordered and the error the lowest, whoever claimed what; the
\* internal checks that end in a logic_error never fire.
Promise == INSTANCE OrderedOutcome
             WITH Items <- Indices, LateBreak <- TRUE, lowest <- TRUE,
                  ran <- {i \in Indices : slots[i] # "empty"}
KeepsPromise == Promise!Spec
===================================================================================

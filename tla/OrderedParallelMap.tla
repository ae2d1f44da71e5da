---------------------------- MODULE OrderedParallelMap ----------------------------
(***************************************************************************)
(* ordered_parallel_map (include/gnfs/util/ordered_parallel_map.hpp): one   *)
(* pool task per index, submitted in order, all of them drained before an   *)
(* error is chosen.  The pool is what ThreadPool promises: a FIFO served by *)
(* at most max_threads workers, every accepted task runs once.              *)
(***************************************************************************)
EXTENDS Integers, FiniteSets

CONSTANTS Count,        \* count
          MaxThreads    \* the largest max_threads a call asks for

Indices == 0..(Count - 1)
Least(S) == CHOOSE i \in S : \A j \in S : i <= j

VARIABLES
    max_threads, \* chosen by the caller
    fails,       \* the indices whose function call throws
    task,        \* of each index: "new", "queued", "running" or "done"
    errors,      \* the indices with a captured exception
    next,        \* the index to submit (or to call inline) next
    drained,     \* futures got so far
    caller,      \* where the calling thread is
    outcome      \* what the call came to

vars == <<max_threads, fails, task, errors, next, drained, caller, outcome>>

Inline == max_threads = 1 \/ Count <= 1      \* no pool is made

Init ==
    /\ max_threads \in 1..MaxThreads
    /\ fails \in SUBSET Indices
    /\ task = [i \in Indices |-> "new"]
    /\ errors = {} /\ next = 0 /\ drained = 0
    /\ caller = IF Inline THEN "inline" ELSE "construct"
    /\ outcome = <<"pending">>

Ended == {i \in Indices : task[i] = "done"}
Return(o) == outcome' = o /\ caller' = "returned"

\* The one-thread path attempts every index as well.
InvokeInline ==
    /\ caller = "inline" /\ next < Count
    /\ task' = [task EXCEPT ![next] = "done"]
    /\ errors' = IF next \in fails THEN errors \cup {next} ELSE errors
    /\ next' = next + 1
    /\ UNCHANGED <<max_threads, fails, drained, caller, outcome>>

InvokeInlineEnd ==
    /\ caller = "inline" /\ next = Count
    /\ caller' = "choose"
    /\ UNCHANGED <<max_threads, fails, task, errors, next, drained, outcome>>

\* ThreadPool pool(bounded_threads) is built, or throws.
Construct ==
    /\ caller = "construct"
    /\ \/ caller' = "submit" /\ UNCHANGED outcome
       \/ Return(<<"infrastructure">>)
    /\ UNCHANGED <<max_threads, fails, task, errors, next, drained>>

SubmitIndex ==
    /\ caller = "submit" /\ next < Count
    /\ task' = [task EXCEPT ![next] = "queued"]
    /\ next' = next + 1
    /\ caller' = IF next' = Count THEN "drain" ELSE "submit"
    /\ UNCHANGED <<max_threads, fails, errors, drained, outcome>>

\* Mutant: a submission error is rethrown at once.
SubmitFailsUndrained ==
    /\ caller = "submit"
    /\ Return(<<"infrastructure">>)
    /\ UNCHANGED <<max_threads, fails, task, errors, next, drained>>

SubmitFails ==
    /\ caller = "submit"
    /\ caller' = "drainFailed"
    /\ UNCHANGED <<max_threads, fails, task, errors, next, drained, outcome>>

\* A pool worker takes the oldest queued task, and later ends it.
Start(i) ==
    /\ task[i] = "queued" /\ \A j \in Indices : j < i => task[j] # "queued"
    /\ Cardinality({j \in Indices : task[j] = "running"}) < max_threads
    /\ task' = [task EXCEPT ![i] = "running"]
    /\ UNCHANGED <<max_threads, fails, errors, next, drained, caller, outcome>>

Finish(i) ==
    /\ task[i] = "running"
    /\ task' = [task EXCEPT ![i] = "done"]
    /\ errors' = IF i \in fails THEN errors \cup {i} ELSE errors
    /\ UNCHANGED <<max_threads, fails, next, drained, caller, outcome>>

\* futures[index].get(), in index order.
Drain ==
    /\ caller \in {"drain", "drainFailed"} /\ drained < next
    /\ task[drained] = "done"
    /\ drained' = drained + 1
    /\ UNCHANGED <<max_threads, fails, task, errors, next, caller, outcome>>

Drained ==
    /\ caller \in {"drain", "drainFailed"} /\ drained = next
    /\ caller' = IF caller = "drain" THEN "choose" ELSE "chooseFailed"
    /\ UNCHANGED <<max_threads, fails, task, errors, next, drained, outcome>>

\* The lowest task error, else the submission error, else the results.
Choose ==
    /\ caller \in {"choose", "chooseFailed"}
    /\ Return(IF errors # {} THEN <<"failed", Least(errors)>>
              ELSE IF caller = "chooseFailed" THEN <<"infrastructure">>
              ELSE <<"success">>)
    /\ UNCHANGED <<max_threads, fails, task, errors, next, drained>>

Returned == caller = "returned" /\ UNCHANGED vars

Caller == InvokeInline \/ InvokeInlineEnd \/ Construct \/ SubmitIndex \/ SubmitFails
             \/ Drain \/ Drained \/ Choose
Pool == \E i \in Indices : Start(i) \/ Finish(i)

Next == Caller \/ Pool \/ Returned

Spec == Init /\ [][Next]_vars

-----------------------------------------------------------------------------
\* Tasks hold references to slots and errors: none is queued or running when
\* the call ends, on any path.
NothingOutlives ==
    outcome # <<"pending">> => \A i \in Indices : task[i] \in {"new", "done"}

\* A task error takes precedence over the failure to submit a later index, and
\* nothing beyond that index has been started.
SubmissionErrorLast ==
    outcome = <<"infrastructure">> =>
        /\ Ended \cap fails = {}
        /\ \A i \in Ended : \A j \in Indices \ Ended : i < j

\* The outcome is a function of which calls throw, not of their schedule.
Promise == INSTANCE OrderedOutcome
             WITH Items <- Indices, LateBreak <- TRUE, lowest <- TRUE, ran <- Ended
KeepsPromise == Promise!Spec /\ []SubmissionErrorLast
===================================================================================

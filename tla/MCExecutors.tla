----------------------------- MODULE MCExecutors -----------------------------
(***************************************************************************)
(* The four ordered executors and the two ways the pool cuts an index range *)
(* side by side: the first state picks one, and its call runs while the     *)
(* variables of the others keep their first value.  The static chunks of    *)
(* parallel_for_index are cut from every range of ChunkWidth values, the    *)
(* CAS loop of parallel_for_stealing runs over one range that ends at the   *)
(* largest value and is no multiple of the grain.                           *)
(***************************************************************************)
EXTENDS Integers

CONSTANTS SlotCount, Requested,     \* execute_fixed_slots
          GroupWorkers,             \* run_joined_worker_group
          Count, MaxThreads,        \* ordered_parallel_map
          MaxWorkers,               \* ordered_work_stealing_map, on Count too
          ChunkWidth, NumThreads,   \* parallel_for_index
          Workers, LoopStart, LoopEnd, \* parallel_for_stealing
          Grain, Width

\* The executors return early for an empty batch and refuse zero workers; the
\* loops return early for an empty range, take a grain of 0 as 1, and hold the
\* end of the range in a size_t.
ASSUME ExecutorsAssumption ==
    /\ {SlotCount, Requested, GroupWorkers, Count, MaxThreads, MaxWorkers} \subseteq Nat \ {0}
    /\ {ChunkWidth, NumThreads, Grain, Width} \subseteq Nat \ {0}
    /\ Workers # {} /\ LoopStart \in Nat
    /\ LoopEnd \in (LoopStart + 1)..(Width - 1)

VARIABLES which,      \* what is called
          f_policy, f_fails, f_gate, f_created, f_workers, f_wpc, f_slot, f_slots,
          f_firstFailure, f_workerErrors, f_stop, f_caller, f_outcome,
          g_fails, g_arrived, g_state, g_wpc, g_bodies, g_errors, g_created,
          g_workers, g_seen, g_caller, g_outcome,
          m_max_threads, m_fails, m_task, m_errors, m_next, m_drained, m_caller, m_outcome,
          s_fails, s_setupFails, s_next_index, s_submitted, s_wpc, s_held,
          s_drained, s_processed, s_slots, s_caller, s_outcome,
          c_start, c_end, c_chunk_start, c_i, c_chunks, c_done,
          l_fails, l_next_idx, l_pc, l_chunk_start, l_index, l_chunk_end, l_calls

Fixed == INSTANCE FixedSlotExecutor
    WITH policy <- f_policy, fails <- f_fails, gate <- f_gate, created <- f_created,
         workers <- f_workers,
         wpc <- f_wpc, slot <- f_slot, slots <- f_slots, firstFailure <- f_firstFailure,
         workerErrors <- f_workerErrors, stop <- f_stop, caller <- f_caller,
         outcome <- f_outcome

Group == INSTANCE JoinedWorkerGroup
    WITH WorkerCount <- GroupWorkers, fails <- g_fails, arrived <- g_arrived, state <- g_state, wpc <- g_wpc,
         bodies <- g_bodies, errors <- g_errors, created <- g_created,
         workers <- g_workers, seen <- g_seen,
         caller <- g_caller, outcome <- g_outcome

Map == INSTANCE OrderedParallelMap
    WITH max_threads <- m_max_threads, fails <- m_fails, task <- m_task, errors <- m_errors,
         next <- m_next, drained <- m_drained, caller <- m_caller, outcome <- m_outcome

Steal == INSTANCE OrderedWorkStealingMap
    WITH fails <- s_fails, setupFails <- s_setupFails,
         next_index <- s_next_index, submitted <- s_submitted, wpc <- s_wpc,
         held <- s_held, drained <- s_drained, processed <- s_processed, slots <- s_slots,
         caller <- s_caller, outcome <- s_outcome

Chunks == INSTANCE Chunking
    WITH Width <- ChunkWidth, start <- c_start, end <- c_end,
         chunk_start <- c_chunk_start, i <- c_i, chunks <- c_chunks, done <- c_done

Loop == INSTANCE ParallelForStealing
    WITH Start <- LoopStart, End <- LoopEnd, fails <- l_fails, next_idx <- l_next_idx, pc <- l_pc,
         chunk_start <- l_chunk_start, index <- l_index, chunk_end <- l_chunk_end,
         calls <- l_calls

fvars == <<f_policy, f_fails, f_gate, f_created, f_workers, f_wpc, f_slot, f_slots,
           f_firstFailure, f_workerErrors, f_stop, f_caller, f_outcome>>
gvars == <<g_fails, g_arrived, g_state, g_wpc, g_bodies, g_errors, g_created,
           g_workers, g_seen, g_caller, g_outcome>>
mvars == <<m_max_threads, m_fails, m_task, m_errors, m_next, m_drained, m_caller,
           m_outcome>>
svars == <<s_fails, s_setupFails, s_next_index, s_submitted, s_wpc, s_held,
           s_drained, s_processed, s_slots, s_caller, s_outcome>>
cvars == <<c_start, c_end, c_chunk_start, c_i, c_chunks, c_done>>
lvars == <<l_fails, l_next_idx, l_pc, l_chunk_start, l_index, l_chunk_end, l_calls>>
vars == <<which, fvars, gvars, mvars, svars, cvars, lvars>>

Init ==
    /\ which \in {"fixed", "group", "map", "steal", "chunks", "loop"}
    /\ Fixed!Init /\ (which # "fixed" => f_fails = {} /\ f_policy = "drain_all")
    /\ Group!Init /\ (which # "group" => g_fails = {})
    /\ Map!Init /\ (which # "map" => m_fails = {} /\ m_max_threads = 1)
    /\ Steal!Init /\ (which # "steal" => s_fails = {} /\ ~s_setupFails)
    /\ Chunks!Init /\ (which # "chunks" => c_start = 0 /\ c_end = 0)
    /\ Loop!Init /\ (which # "loop" => l_fails = {})

InFixed(A) == which = "fixed" /\ A /\ UNCHANGED <<which, gvars, mvars, svars, cvars, lvars>>
InGroup(A) == which = "group" /\ A /\ UNCHANGED <<which, fvars, mvars, svars, cvars, lvars>>
InMap(A) == which = "map" /\ A /\ UNCHANGED <<which, fvars, gvars, svars, cvars, lvars>>
InSteal(A) == which = "steal" /\ A /\ UNCHANGED <<which, fvars, gvars, mvars, cvars, lvars>>
InChunks(A) == which = "chunks" /\ A /\ UNCHANGED <<which, fvars, gvars, mvars, svars, lvars>>
InLoop(A) == which = "loop" /\ A /\ UNCHANGED <<which, fvars, gvars, mvars, svars, cvars>>

Next ==
    \/ InFixed(Fixed!Next) \/ InGroup(Group!Next) \/ InMap(Map!Next) \/ InSteal(Steal!Next)
    \/ InChunks(Chunks!Next) \/ InLoop(Loop!Next)

\* Every thread of the call that was picked is scheduled fairly; a weak CAS
\* may fail by itself, but not for ever.
FairSpec ==
    /\ Init /\ [][Next]_vars
    /\ WF_vars(InFixed(Fixed!Caller))
    /\ \A w \in Fixed!Ordinals : WF_vars(InFixed(Fixed!Worker(w)))
    /\ WF_vars(InGroup(Group!Caller))
    /\ \A w \in Group!Ordinals : WF_vars(InGroup(Group!Worker(w)))
    /\ WF_vars(InMap(Map!Caller)) /\ WF_vars(InMap(Map!Pool))
    /\ WF_vars(InSteal(Steal!Caller))
    /\ \A w \in Steal!Ordinals : WF_vars(InSteal(Steal!Worker(w)))
    /\ WF_vars(InChunks(Chunks!SubmitChunk \/ Chunks!EndLoop))
    /\ \A w \in Workers : /\ WF_vars(InLoop(Loop!Load(w) \/ Loop!Call(w)))
                          /\ WF_vars(InLoop(Loop!Worker(w)))
                          /\ SF_vars(InLoop(Loop!Claim(w)))

-----------------------------------------------------------------------------
\* All or none behind a launch gate: no operation begins unless every thread
\* exists and has arrived, so a launch that fails half-way starts nothing
\* (execute_fixed_slots and run_joined_worker_group).
AllOrNone == Fixed!AllOrNone /\ Group!NoEarlyBody

\* None of the four calls ends, by a result or by an error, while a thread or
\* a queued task can still touch its locals: each of them was recorded when it
\* was started, and is joined or drained on every path.
NoWorkerOutlives == /\ Fixed!NoWorkerOutlives /\ Group!NoWorkerOutlives
                    /\ Map!NothingOutlives
                    /\ Steal!NoWorkerOutlives

\* Each executor implements OrderedOutcome: its result and the error it
\* reports do not depend on the schedule.
KeepsPromise == /\ Fixed!KeepsPromise /\ Group!KeepsPromise
                /\ Map!KeepsPromise /\ Steal!KeepsPromise

\* Every index is handed out once: no two workers own a slot or race past
\* each other on a cursor, at the top of the size_t range either, and the
\* chunks reach the end of the range; the CAS loop leaves out only what a
\* callback's exception abandons.
EachIndexOnce ==
    /\ Fixed!OneWriter /\ Steal!ClaimsDisjoint
    /\ Chunks!ChunksDisjoint /\ Chunks!RangeCovered
    /\ Loop!AtMostOnce /\ Loop!NothingSkipped

\* The call that was picked returns, and an index loop ends.
CallReturns ==
    /\ <>(which # "fixed" \/ f_caller = "returned")
    /\ <>(which # "group" \/ g_caller = "returned")
    /\ <>(which # "map" \/ m_caller = "returned")
    /\ <>(which # "steal" \/ s_caller = "returned")
    /\ <>((which = "chunks" => c_done) /\ (which = "loop" => Loop!AllEnded))
==============================================================================

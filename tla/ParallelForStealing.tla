--------------------------- MODULE ParallelForStealing ---------------------------
(***************************************************************************)
(* parallel_for_stealing (include/gnfs/util/thread_pool.hpp): every worker  *)
(* claims the next grain of the range with a compare-and-swap on a shared   *)
(* cursor of Width values, and calls the callback on each of its indices.   *)
(* The load and the CAS are separate steps; a weak CAS may fail by itself.  *)
(***************************************************************************)
EXTENDS Integers

CONSTANTS Workers,   \* one task per worker thread
          Start, End, Grain,
          Width      \* number of values of size_t

Range == Start..(End - 1)

VARIABLES
    fails,       \* the indices whose callback throws
    next_idx,    \* the shared cursor
    pc,          \* "load", "claim", "call", "failed" (its future threw), "done"
    chunk_start, \* the cursor value a worker has seen
    index,       \* the index a worker calls next
    chunk_end,   \* the end of its chunk
    calls        \* how often each index has been called

vars == <<fails, next_idx, pc, chunk_start, index, chunk_end, calls>>

Init ==
    /\ fails \in SUBSET Range
    /\ next_idx = Start
    /\ pc = [w \in Workers |-> "load"]
    /\ chunk_start = [w \in Workers |-> Start]
    /\ index = [w \in Workers |-> Start]
    /\ chunk_end = [w \in Workers |-> Start]
    /\ calls = [n \in Range |-> 0]

\* next_idx.load, then the test of the inner loop.
Load(w) ==
    /\ pc[w] = "load"
    /\ chunk_start' = [chunk_start EXCEPT ![w] = next_idx]
    /\ pc' = [pc EXCEPT ![w] = IF next_idx < End THEN "claim" ELSE "done"]
    /\ UNCHANGED <<fails, next_idx, index, chunk_end, calls>>

\* Mutant: a whole grain is claimed at the end of the range too.
ChunkLenUncut(w) == Grain

\* min(grain, remaining)
ChunkLen(w) == LET remaining == End - chunk_start[w]
               IN  IF Grain < remaining THEN Grain ELSE remaining

\* compare_exchange_weak succeeds on an unchanged cursor.
Claim(w) ==
    /\ pc[w] = "claim" /\ next_idx = chunk_start[w]
    /\ next_idx' = (chunk_start[w] + ChunkLen(w)) % Width
    /\ index' = [index EXCEPT ![w] = chunk_start[w]]
    /\ chunk_end' = [chunk_end EXCEPT ![w] = chunk_start[w] + ChunkLen(w)]
    /\ pc' = [pc EXCEPT ![w] = "call"]
    /\ UNCHANGED <<fails, chunk_start, calls>>

\* Mutant: the failed CAS does not reload the cursor.
ClaimFailsStale(w) ==
    /\ pc[w] = "claim"
    /\ UNCHANGED vars

\* It fails, reloads chunk_start, and the inner loop tests it again.
ClaimFails(w) ==
    /\ pc[w] = "claim"
    /\ chunk_start' = [chunk_start EXCEPT ![w] = next_idx]
    /\ pc' = [pc EXCEPT ![w] = IF next_idx < End THEN "claim" ELSE "done"]
    /\ UNCHANGED <<fails, next_idx, index, chunk_end, calls>>

\* func(i); an exception leaves the task and with it the rest of the chunk.
Call(w) ==
    /\ pc[w] = "call"
    /\ calls' = [calls EXCEPT ![index[w]] = @ + 1]
    /\ index' = [index EXCEPT ![w] = @ + 1]
    /\ pc' = [pc EXCEPT ![w] = IF index[w] \in fails THEN "failed"
                               ELSE IF index[w] + 1 < chunk_end[w] THEN "call"
                               ELSE "load"]
    /\ UNCHANGED <<fails, next_idx, chunk_start, chunk_end>>

Worker(w) == Load(w) \/ Claim(w) \/ ClaimFails(w) \/ Call(w)
AllEnded == \A w \in Workers : pc[w] \in {"failed", "done"}
Ended == AllEnded /\ UNCHANGED vars

Next == (\E w \in Workers : Worker(w)) \/ Ended

Spec == Init /\ [][Next]_vars


-----------------------------------------------------------------------------
\* No index is called twice, at the top of the size_t range either.
AtMostOnce == \A n \in Range : calls[n] <= 1

\* Without exceptions every index has been called when the workers are done;
\* with them, a call is missing only if some callback threw, and a worker that
\* ended normally left no index unclaimed.
NothingSkipped ==
    AllEnded =>
        /\ (\E w \in Workers : pc[w] = "done") => next_idx = End
        /\ \A n \in Range : calls[n] = 0 =>
              \E w \in Workers : pc[w] = "failed"
==================================================================================

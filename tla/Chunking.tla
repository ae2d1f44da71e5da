-------------------------------- MODULE Chunking --------------------------------
(***************************************************************************)
(* How parallel_for_index (include/gnfs/util/thread_pool.hpp) cuts an index *)
(* range into chunks, in size_t arithmetic of Width values: the loop must   *)
(* neither wrap nor leave an index out when the range ends at SIZE_MAX.     *)
(***************************************************************************)
EXTENDS Integers

CONSTANTS Width,        \* number of values of size_t
          NumThreads    \* workers_.size()

SizeT == 0..(Width - 1)

\* Mutant: the usual ceiling division, whose sum may wrap.
ChunkSizeWrapping(distance) == ((distance + NumThreads - 1) % Width) \div NumThreads

\* chunk_size
ChunkSize(distance) ==
    distance \div NumThreads + (IF distance % NumThreads # 0 THEN 1 ELSE 0)

VARIABLES start, end,    \* the range of the call
          chunk_start,   \* loop state
          i,             \* chunks submitted
          chunks,        \* the chunks, as pairs of bounds
          done

vars == <<start, end, chunk_start, i, chunks, done>>

Init ==
    /\ start \in SizeT /\ end \in SizeT
    /\ chunk_start = start /\ i = 0 /\ chunks = {}
    /\ done = (start >= end)

SubmitChunk ==
    /\ ~done
    /\ i < NumThreads /\ chunk_start < end
    /\ LET remaining == end - chunk_start
           size == ChunkSize(end - start)
           chunk_end == (chunk_start + (IF size < remaining THEN size ELSE remaining)) % Width
       IN  /\ chunks' = chunks \cup {<<chunk_start, chunk_end>>}
           /\ chunk_start' = chunk_end
    /\ i' = i + 1
    /\ UNCHANGED <<start, end, done>>

EndLoop ==
    /\ ~done
    /\ ~(i < NumThreads /\ chunk_start < end)
    /\ done' = TRUE
    /\ UNCHANGED <<start, end, chunk_start, i, chunks>>

Ended == done /\ UNCHANGED vars

Next == SubmitChunk \/ EndLoop \/ Ended

Spec == Init /\ [][Next]_vars

-----------------------------------------------------------------------------
\* The chunks handed out so far are exactly the range before chunk_start, each
\* index in one chunk.
ChunksDisjoint ==
    \A n \in SizeT :
        IF start <= n /\ n < chunk_start
        THEN \E c \in chunks : /\ c[1] <= n /\ n < c[2]
                               /\ \A d \in chunks \ {c} : ~(d[1] <= n /\ n < d[2])
        ELSE \A c \in chunks : ~(c[1] <= n /\ n < c[2])

\* When the loop ends the whole range has been handed out: NumThreads chunks of
\* chunk_size always reach the end, and never pass it.
RangeCovered ==
    (done /\ start < end) => chunk_start = end
=================================================================================

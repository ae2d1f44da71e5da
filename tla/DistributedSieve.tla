-------------------------- MODULE DistributedSieve --------------------------
(***************************************************************************)
(* The forked sieve pool of src/src/sieve/distributed_sieve.cpp: a master  *)
(* splits the special-Q range into chunks, gives every non-empty chunk a   *)
(* private lease and a forked child, reaps the children in chunk order     *)
(* with a watchdog, validates what each wrote, retries a failed chunk      *)
(* once, and merges.  Children run on their own: they finish, fail, hang,  *)
(* or die at any moment, also after the master has lost track of them.     *)
(*                                                                         *)
(* A relation is a record [ab, src]: its identity and the chunk that       *)
(* produced it.  Pipe frames, descriptors and relation files are reduced   *)
(* to whether the master finds them valid.                                 *)
(***************************************************************************)
EXTENDS Naturals, Sequences, SequencesExt, FiniteSets

CONSTANTS Workers,  \* cfg.num_workers
          Total,    \* length of the effective special-Q range
          Yield,    \* what the sieve of chunk i finds: a sequence of ab values
          Timeout,  \* cfg.worker_timeout_ms in ticks, 0 = no deadline
          Grace,    \* WORKER_TERMINATION_GRACE in ticks
          MaxAge    \* bound: ages saturate here

ASSUME SieveAssumption ==
  /\ Workers \in Nat \ {0} /\ Total \in Nat \ {0}
  /\ Timeout \in Nat /\ Grace \in Nat \ {0} /\ MaxAge \in Nat
  /\ \A i \in 1..Workers : Yield[i] \in Seq(ToSet(Yield[i]))

Slots == 1..Workers
Attempts == 1..2

\* split_sq_range: the remainder goes to the first chunks, so that with more
\* workers than special-Qs the last chunks are empty.
ChunkLen(i) == Total \div Workers + (IF i <= Total % Workers THEN 1 ELSE 0)
IsEmpty(i) == ChunkLen(i) = 0

Rows(i) == IF IsEmpty(i) THEN <<>>
           ELSE [k \in DOMAIN Yield[i] |-> [ab |-> Yield[i][k], src |-> i]]

VARIABLES
  seeded,    \* which overload was called
  stage,     \* where the master is
  cur,       \* the slot its loop is at
  watch,     \* inside finish_attempt: the state of the watchdog
  waited,    \* ticks since the current wait (or grace period) began
  attempts, finished, reaped, success, kind, lease, relations,  \* WorkerSlot
  child,     \* child[i][a]: the process of attempt a of chunk i
  age,       \* ticks the current attempt of chunk i has been running
  refused,   \* a removal of the slot's lease was refused or not durable
  merged     \* the vector returned

slotVars == <<attempts, finished, reaped, success, kind, lease, relations, refused>>
vars == <<seeded, stage, cur, watch, waited, slotVars, child, age, merged>>

Live(c) == c.state \in {"running", "hung"}
NoChild == [state |-> "none", code |-> "none", valid |-> FALSE, reaped |-> FALSE]
NewChild == [NoChild EXCEPT !.state = "running"]

Over == stage \in {"returned", "providerError", "workerError"}

Init ==
  /\ seeded \in BOOLEAN
  /\ stage = "prepare" /\ cur = 1 /\ watch = "idle" /\ waited = 0
  /\ attempts = [i \in Slots |-> 0]
  /\ finished = [i \in Slots |-> FALSE]
  /\ reaped = [i \in Slots |-> TRUE]
  /\ success = [i \in Slots |-> FALSE]
  /\ kind = [i \in Slots |-> "none"]
  /\ lease = [i \in Slots |-> 0]
  /\ relations = [i \in Slots |-> <<>>]
  /\ refused = [i \in Slots |-> FALSE]
  /\ child = [i \in Slots |-> [a \in Attempts |-> NoChild]]
  /\ age = [i \in Slots |-> 0]
  /\ merged = <<>>

-----------------------------------------------------------------------------
(* The child process of attempt a: child_worker_main.                      *)

ChildEnds(i, a, code, valid) ==
  /\ Live(child[i][a])
  /\ child' = [child EXCEPT ![i][a].state = "ended", ![i][a].code = code,
                            ![i][a].valid = valid]

\* _exit(0) after the hand-off and the report; what the master later reads
\* may still be damaged.
ChildSucceeds(i, a) ==
  /\ child[i][a].state = "running"
  /\ \E valid \in BOOLEAN : ChildEnds(i, a, "ok", valid)

\* _exit(1), or death by a signal, the watchdog's included.
ChildDies(i, a) == ChildEnds(i, a, "failed", FALSE)

\* ChildSeedProviderBoundary: the provider threw, _exit(2).
ChildProviderThrows(i, a) ==
  /\ seeded /\ child[i][a].state = "running"
  /\ ChildEnds(i, a, "fatal", FALSE)

\* A child that never comes back, and that may ignore SIGTERM.
ChildHangs(i, a) ==
  /\ child[i][a].state = "running"
  /\ child' = [child EXCEPT ![i][a].state = "hung"]

ChildStep ==
  /\ \E i \in Slots, a \in Attempts :
       \/ ChildSucceeds(i, a) \/ ChildDies(i, a)
       \/ ChildProviderThrows(i, a) \/ ChildHangs(i, a)
  /\ UNCHANGED <<seeded, stage, cur, watch, waited, slotVars, age, merged>>

-----------------------------------------------------------------------------
(* cleanup_attempt.  Held is the lease the slot owns when it is called     *)
(* (0 = none); done is what the call returns.  Without a confirmed reap it *)
(* leaves the lease alone.                                                 *)

Cleanup(i, held, done) ==
  \/ /\ done /\ (held # 0 => reaped[i])
     /\ lease' = [lease EXCEPT ![i] = 0]
     /\ UNCHANGED refused
  \/ /\ ~done /\ held # 0
     /\ lease' = [lease EXCEPT ![i] = held]
     /\ refused' = [refused EXCEPT ![i] = @ \/ reaped[i]]

\* Stage 0.  reconcile_empty_slot for a chunk without work: its lease
\* namespace is reserved and removed at once, either of which may fail.
Prepare ==
  /\ stage = "prepare"
  /\ IF IsEmpty(cur)
       THEN /\ finished' = [finished EXCEPT ![cur] = TRUE]
            /\ \E done \in BOOLEAN, held \in {0, 1} :
                 \/ /\ held = 0 /\ ~done                 \* the reservation failed
                    /\ success' = success
                    /\ kind' = [kind EXCEPT ![cur] = "retryable"]
                    /\ UNCHANGED <<lease, refused>>
                 \/ /\ held = 1 /\ Cleanup(cur, held, done)
                    /\ success' = [success EXCEPT ![cur] = done]
                    /\ kind' = [kind EXCEPT ![cur] = IF done THEN "none" ELSE "retryable"]
       ELSE UNCHANGED <<finished, success, kind, lease, refused>>
  /\ IF cur = Workers THEN stage' = "start" /\ cur' = 1
                      ELSE stage' = stage /\ cur' = cur + 1
  /\ UNCHANGED <<seeded, watch, waited, attempts, reaped, relations, child, age, merged>>

\* start_attempt ends without a child: the lease of the last attempt is not
\* removed, or it is and a new one cannot be reserved.
StartRefused(i) ==
  /\ \E done \in BOOLEAN : Cleanup(i, lease[i], done)
  /\ finished' = [finished EXCEPT ![i] = TRUE]
  /\ UNCHANGED <<attempts, reaped, child, age>>

\* Mutant: a failed spawn keeps its lease.
SpawnFailsKeepingLease(i) ==
  /\ lease[i] # 0 => reaped[i]
  /\ finished' = [finished EXCEPT ![i] = TRUE]
  /\ lease' = [lease EXCEPT ![i] = attempts[i] + 1]
  /\ UNCHANGED <<attempts, reaped, refused, child, age>>

\* pipe() or fork() failed under a fresh lease, which is cleaned up.
SpawnFails(i) ==
  /\ lease[i] # 0 => reaped[i]
  /\ finished' = [finished EXCEPT ![i] = TRUE]
  /\ \E done \in BOOLEAN : Cleanup(i, attempts[i] + 1, done)
  /\ UNCHANGED <<attempts, reaped, child, age>>

Spawn(i) ==
  /\ lease[i] # 0 => reaped[i]
  /\ attempts' = [attempts EXCEPT ![i] = @ + 1]
  /\ lease' = [lease EXCEPT ![i] = attempts[i] + 1]
  /\ reaped' = [reaped EXCEPT ![i] = FALSE]
  /\ finished' = [finished EXCEPT ![i] = FALSE]
  /\ child' = [child EXCEPT ![i][attempts[i] + 1] = NewChild]
  /\ age' = [age EXCEPT ![i] = 0]
  /\ UNCHANGED refused

\* The fields start_attempt resets before anything can fail.
ResetSlot(i) ==
  /\ success' = [success EXCEPT ![i] = FALSE]
  /\ kind' = [kind EXCEPT ![i] = "none"]
  /\ relations' = [relations EXCEPT ![i] = <<>>]

NextSlot(following) ==
  IF cur = Workers THEN stage' = following /\ cur' = 1
                   ELSE stage' = stage /\ cur' = cur + 1

\* Stage 1: start every slot that is not finished.
Start ==
  /\ stage = "start"
  /\ \/ /\ finished[cur]
        /\ UNCHANGED <<slotVars, child, age>>
     \/ /\ ~finished[cur]
        /\ ResetSlot(cur)
        /\ StartRefused(cur) \/ SpawnFails(cur) \/ Spawn(cur)
  /\ NextSlot("wait")
  /\ UNCHANGED <<seeded, watch, waited, merged>>

-----------------------------------------------------------------------------
(* finish_attempt: wait_and_decode, then validate and clean up.            *)

Current == child[cur][attempts[cur]]

\* Mutant: the master stops waiting at the first provider failure.
WaitNextUntilFatal ==
  /\ stage = "wait" /\ watch = "idle"
  /\ IF \E i \in Slots : kind[i] = "fatal" THEN stage' = "retry" /\ cur' = 1 /\ UNCHANGED watch
     ELSE IF finished[cur] THEN NextSlot("retry") /\ UNCHANGED watch
     ELSE watch' = "polling" /\ UNCHANGED <<stage, cur>>
  /\ waited' = 0
  /\ UNCHANGED <<seeded, slotVars, child, age, merged>>

\* Stage 2 waits for the slots in order; the deadline counts from here.
WaitNext ==
  /\ stage = "wait" /\ watch = "idle"
  /\ IF finished[cur] THEN NextSlot("retry") /\ UNCHANGED watch
                      ELSE watch' = "polling" /\ UNCHANGED <<stage, cur>>
  /\ waited' = 0
  /\ UNCHANGED <<seeded, slotVars, child, age, merged>>

Tick ==
  /\ Timeout > 0
  /\ \/ watch = "polling" /\ waited < Timeout
     \/ watch = "grace" /\ waited < Grace
  /\ waited' = waited + 1
  /\ age' = [i \in Slots |->
               IF \E a \in Attempts : a = attempts[i] /\ Live(child[i][a]) /\ age[i] < MaxAge
                 THEN age[i] + 1 ELSE age[i]]
  /\ UNCHANGED <<seeded, stage, cur, watch, slotVars, child, merged>>

\* The deadline passed: SIGTERM, then a grace period.
Terminate ==
  /\ watch = "polling" /\ Timeout > 0 /\ waited >= Timeout
  /\ watch' = "grace" /\ waited' = 0
  /\ UNCHANGED <<seeded, stage, cur, slotVars, child, age, merged>>

\* Mutant: the watchdog trusts SIGTERM.
KillWithTermOnly ==
  /\ watch = "grace" /\ waited >= Grace
  /\ waited' = 0
  /\ UNCHANGED <<seeded, stage, cur, watch, slotVars, child, age, merged>>

\* SIGKILL, then a blocking waitpid.
Kill ==
  /\ watch = "grace" /\ waited >= Grace
  /\ watch' = "killed"
  /\ UNCHANGED <<seeded, stage, cur, waited, slotVars, child, age, merged>>

\* decode_worker_result: a child reaped late is retryable whatever it says.
DecodedKind(code, timedOut) ==
  IF code = "ok" /\ ~timedOut THEN "none"
  ELSE IF code = "fatal" /\ ~timedOut THEN "fatal" ELSE "retryable"

\* waitpid returns the child's status.
Reap ==
  /\ watch \in {"polling", "grace", "killed"}
  /\ Current.state = "ended"
  /\ reaped' = [reaped EXCEPT ![cur] = TRUE]
  /\ finished' = [finished EXCEPT ![cur] = TRUE]
  /\ kind' = [kind EXCEPT ![cur] = DecodedKind(Current.code, watch # "polling")]
  /\ child' = [child EXCEPT ![cur][attempts[cur]].reaped = TRUE]
  /\ watch' = "collect" /\ waited' = 0
  /\ UNCHANGED <<seeded, stage, cur, attempts, success, lease, relations, refused, age, merged>>

Advance == NextSlot(IF stage = "wait" THEN "retry" ELSE "merge")

\* Mutant: an uncertain waitpid is taken for a child that failed.
WaitFailsAsChildFailure ==
  /\ watch \in {"polling", "grace", "killed"}
  /\ finished' = [finished EXCEPT ![cur] = TRUE]
  /\ reaped' = [reaped EXCEPT ![cur] = TRUE]
  /\ kind' = [kind EXCEPT ![cur] = "retryable"]
  /\ watch' = "collect" /\ waited' = 0
  /\ UNCHANGED <<seeded, stage, cur, attempts, success, lease, relations, refused, child, age, merged>>

\* waitpid failed for another reason: whether the child still runs is
\* unknown, its lease is left alone.
WaitFails ==
  /\ watch \in {"polling", "grace", "killed"}
  /\ finished' = [finished EXCEPT ![cur] = TRUE]
  /\ reaped' = [reaped EXCEPT ![cur] = FALSE]
  /\ kind' = [kind EXCEPT ![cur] = "unreaped"]
  /\ success' = [success EXCEPT ![cur] = FALSE]
  /\ relations' = [relations EXCEPT ![cur] = <<>>]
  /\ watch' = "idle" /\ waited' = 0
  /\ Advance
  /\ UNCHANGED <<seeded, attempts, lease, refused, child, age, merged>>

\* Mutant: exit status 0 is taken for a valid store.
CollectUnvalidated ==
  /\ watch = "collect"
  /\ \E cleaned \in BOOLEAN :
       LET good == kind[cur] = "none" /\ cleaned IN
       /\ Cleanup(cur, lease[cur], cleaned)
       /\ success' = [success EXCEPT ![cur] = good]
       /\ relations' = [relations EXCEPT ![cur] = IF good THEN Rows(cur) ELSE <<>>]
       /\ kind' = [kind EXCEPT ![cur] = IF ~good /\ @ = "none" THEN "retryable" ELSE @]
  /\ watch' = "idle"
  /\ Advance
  /\ UNCHANGED <<seeded, waited, attempts, finished, reaped, child, age, merged>>

\* The report and the store are read and compared, then the lease removed.
Collect ==
  /\ watch = "collect"
  /\ \E cleaned \in BOOLEAN :
       LET good == kind[cur] = "none" /\ Current.valid /\ cleaned IN
       /\ Cleanup(cur, lease[cur], cleaned)
       /\ success' = [success EXCEPT ![cur] = good]
       /\ relations' = [relations EXCEPT ![cur] = IF good THEN Rows(cur) ELSE <<>>]
       /\ kind' = [kind EXCEPT ![cur] = IF ~good /\ @ = "none" THEN "retryable" ELSE @]
  /\ watch' = "idle"
  /\ Advance
  /\ UNCHANGED <<seeded, waited, attempts, finished, reaped, child, age, merged>>

-----------------------------------------------------------------------------
(* Stage 3: one sequential retry.                                          *)

ProviderFailed == \E i \in Slots : kind[i] = "fatal"
\* Mutant: no wave-wide check before a retry.
RetriesReapSafeAlways == TRUE

RetriesReapSafe == \A i \in Slots : reaped[i]

RetrySkipped(i) == success[i] \/ IsEmpty(i) \/ ~RetriesReapSafe

Retry ==
  /\ stage = "retry" /\ watch = "idle"
  /\ \/ /\ ProviderFailed
        /\ stage' = "merge" /\ cur' = 1
        /\ UNCHANGED <<slotVars, child, age, watch>>
     \/ /\ ~ProviderFailed /\ RetrySkipped(cur)
        /\ NextSlot("merge")
        /\ UNCHANGED <<slotVars, child, age, watch>>
     \/ /\ ~ProviderFailed /\ ~RetrySkipped(cur)
        /\ ResetSlot(cur)
        /\ \/ StartRefused(cur) /\ NextSlot("merge") /\ UNCHANGED watch
           \/ SpawnFails(cur) /\ NextSlot("merge") /\ UNCHANGED watch
           \/ Spawn(cur) /\ watch' = "polling" /\ UNCHANGED <<stage, cur>>
  /\ waited' = 0
  /\ UNCHANGED <<seeded, merged>>

-----------------------------------------------------------------------------
(* Stage 4: merge in chunk order, the first row with an ab value wins.     *)

\* Mutant: no deduplication across chunks.
AddRowTwice(acc, row) == Append(acc, row)

AddRow(acc, row) ==
  IF \E k \in DOMAIN acc : acc[k].ab = row.ab THEN acc ELSE Append(acc, row)
AddSlot(acc, i) == FoldLeft(AddRow, acc, IF success[i] THEN relations[i] ELSE <<>>)

\* Mutant: judged by the failure kind, which a start that failed leaves at "none".
FailedSeededByKind == seeded /\ \E i \in Slots : kind[i] # "none"
FailedSeeded == seeded /\ \E i \in Slots : ~success[i]

Merge ==
  /\ stage = "merge"
  /\ \/ ProviderFailed /\ stage' = "providerError" /\ UNCHANGED merged
     \/ ~ProviderFailed /\ FailedSeeded /\ stage' = "workerError" /\ UNCHANGED merged
     \/ /\ ~ProviderFailed /\ ~FailedSeeded /\ stage' = "returned"
        /\ merged' = FoldLeft(AddSlot, <<>>, [i \in Slots |-> i])
  /\ UNCHANGED <<seeded, cur, watch, waited, slotVars, child, age>>

MasterStep == Prepare \/ Start \/ WaitNext \/ Terminate \/ Kill \/ Reap \/ Collect
                \/ Retry \/ Merge

\* SIGKILL takes effect.
ChildKilled ==
  /\ watch = "killed" /\ ChildDies(cur, attempts[cur])
  /\ UNCHANGED <<seeded, stage, cur, watch, waited, slotVars, age, merged>>

Ended == Over /\ UNCHANGED vars

Next == MasterStep \/ WaitFails \/ Tick \/ ChildStep \/ ChildKilled \/ Ended

Spec == Init /\ [][Next]_vars

\* The master runs on, time passes and SIGKILL is delivered.  Nothing makes a
\* child finish or waitpid fail.
Fairness == WF_vars(MasterStep) /\ WF_vars(Tick) /\ WF_vars(ChildKilled)
FairSpec == Spec /\ Fairness

-----------------------------------------------------------------------------
\* Every field in its range; at most two attempts per chunk.
TypeOK ==
  /\ seeded \in BOOLEAN
  /\ stage \in {"prepare", "start", "wait", "retry", "merge",
                "returned", "providerError", "workerError"}
  /\ cur \in Slots
  /\ watch \in {"idle", "polling", "grace", "killed", "collect"}
  /\ waited \in Nat
  /\ attempts \in [Slots -> 0..2]
  /\ finished \in [Slots -> BOOLEAN] /\ reaped \in [Slots -> BOOLEAN]
  /\ success \in [Slots -> BOOLEAN] /\ refused \in [Slots -> BOOLEAN]
  /\ kind \in [Slots -> {"none", "retryable", "fatal", "unreaped"}]
  /\ lease \in [Slots -> 0..2]
  /\ DOMAIN relations = Slots /\ \A i \in Slots : relations[i] \in {<<>>, Rows(i)}
  /\ child \in [Slots -> [Attempts ->
       [state : {"none", "running", "hung", "ended"},
        code : {"none", "ok", "failed", "fatal"}, valid : BOOLEAN, reaped : BOOLEAN]]]
  /\ age \in [Slots -> 0..MaxAge]

\* As long as a child may still write, the lease it was given is in place and
\* belongs to no other attempt: whatever the master lost track of, it neither
\* removed the directory under a live writer nor gave it to a second one.
LeaseNotPulled ==
  \A i \in Slots, a \in Attempts : Live(child[i][a]) => lease[i] = a

\* A chunk is counted as done only if its last attempt exited with 0, was
\* reaped, left a store that agrees with its report, and its lease is gone.
SuccessHasEvidence ==
  \A i \in Slots : success[i] /\ ~IsEmpty(i) =>
    /\ attempts[i] \in Attempts /\ lease[i] = 0
    /\ LET c == child[i][attempts[i]] IN c.state = "ended" /\ c.code = "ok" /\ c.valid /\ c.reaped

\* When the call ends, by a result or by either error, every child has been
\* reaped, except one on which waitpid itself failed: then its chunk failed
\* and its lease is still in place.
WaveAccountedFor ==
  Over => \A i \in Slots, a \in Attempts : child[i][a].state # "none" =>
            \/ child[i][a].reaped
            \/ kind[i] = "unreaped" /\ lease[i] = a /\ ~success[i]

\* A lease still there when the call ends belongs to a failed chunk, and
\* its removal was refused or its child was never reaped.
LeasesConverge ==
  Over => \A i \in Slots : lease[i] # 0 => ~success[i] /\ (refused[i] \/ ~reaped[i])

\* The seeded overload returns the relations of every chunk or none: it never
\* returns part of the range.
SeededAllOrError ==
  stage = "returned" /\ seeded =>
    \A i \in Slots : \A r \in ToSet(Rows(i)) : \E m \in ToSet(merged) : m.ab = r.ab

\* The result holds each relation of the chunks that succeeded once, the copy
\* of the first such chunk, and nothing of a chunk that failed.
Candidates == UNION {ToSet(Rows(i)) : i \in {j \in Slots : success[j]}}
FirstOccurrence ==
  stage = "returned" =>
    /\ IsInjective([k \in DOMAIN merged |-> merged[k].ab])
    /\ ToSet(merged) = {r \in Candidates : \A q \in Candidates : q.ab = r.ab => r.src <= q.src}

\* What the two overloads return (run_distributed_sieve_impl, stage 4).
ResultExact == SeededAllOrError /\ FirstOccurrence

\* A second attempt starts only when no child of the whole wave is alive and
\* no chunk reported a provider failure, and only for a chunk that failed.
RetryIsSafe ==
  [][\A i \in Slots : attempts[i] = 1 /\ attempts'[i] = 2 =>
       /\ \A j \in Slots, a \in Attempts : ~Live(child[j][a])
       /\ \A j \in Slots : kind[j] # "fatal"
       /\ ~success[i]]_vars

\* With a deadline the call ends, even if every child hangs and ignores
\* SIGTERM.
CallEnds == <>Over

\* distributed_sieve.hpp: "A provider exception is never retried".
ProviderNeverRetried ==
  \A i \in Slots : attempts[i] = 2 => child[i][1].code # "fatal"

\* distributed_sieve.hpp, worker_timeout_ms: "Maximum wall-clock time for one
\* worker attempt", with the grace period that follows it.
AttemptWithinTimeout ==
  \A i \in Slots : age[i] <= Timeout + Grace
=============================================================================

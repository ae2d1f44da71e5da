--------------------------- MODULE WorkerCoordinator ---------------------------
(***************************************************************************)
(* A durable wave and the rounds that drive it                              *)
(* (coordinate_missing_distributed_sieve_workers_v1 on a                    *)
(* DistributedSieveWaveStore).  A master process holds the wave lock, reads *)
(* what is on disk, reconciles dead attempts, starts the missing ones,      *)
(* waits for their children and adopts the handoffs.  It may die between    *)
(* any two steps; its children live on, keep the wave lock and the BaseLock *)
(* of their attempt, and may still publish.                                 *)
(***************************************************************************)
EXTENDS Integers, FiniteSets

CONSTANTS NumChunks,   \* chunks of the manifest, in manifest order
          Empty,       \* the chunks whose special-q range is empty
          Budget,      \* max_worker_attempts
          MaxFaults    \* bound on crashes, failed calls and lost launches

ASSUME WaveAssumption ==
    /\ NumChunks \in Nat /\ Empty \subseteq 0..(NumChunks - 1)
    /\ Budget \in Nat \ {0} /\ MaxFaults \in Nat

Chunks == 0..(NumChunks - 1)
Work == Chunks \ Empty
Ordinals == 0..(Budget - 1)
Attempts == Work \X Ordinals
None == -1

VARIABLES
    \* On disk.
    records,     \* of each chunk, its AttemptStarted records: a chain from 0
    unstarted,   \* chunks whose next attempt has a BaseLock and no record
    cleaned,     \* attempts whose private lease was rolled back
    handoff,     \* of each chunk, the ordinals that published a handoff
    failure,     \* chunks with a terminal failure record
    \* The worker processes.
    live,        \* attempts whose child runs
    \* The master process.
    quarantined, \* attempts whose receipt, and BaseLock, it will never release
    pc,          \* "down", "idle" or the phase of the round
    slot,        \* the chunk the phase is at
    first,       \* latest ordinal of the initial observation (initial_attempt)
    plan,        \* actions
    ordinal,     \* launch_ordinals
    expected,    \* expected_adopted_handoffs
    known,       \* launched children not yet waited for
    exact,       \* the batch was launched as a whole
    certain,     \* every wait so far was terminal
    adopted,     \* the handoffs the result holds
    outcome,     \* status of the last round
    \* History.
    quiet,       \* the round met no fault and no child of an earlier one
    faults       \* faults so far

disk == <<records, unstarted, cleaned, handoff, failure>>
plans == <<plan, ordinal, expected>>
batch == <<known, exact, certain>>
history == <<quiet, faults>>
vars == <<disk, live, quarantined, pc, slot, first, plans, batch, adopted, outcome, history>>

Phases == {"observe", "retry", "reconcile", "busy", "publish", "post", "claim",
           "start", "launch", "wait", "final", "adopt"}
InRound == pc \in Phases
Outcomes == {"none", "running", "crashed", "call_failed", "observation_failed",
             "incomplete_attempt", "retry_busy", "attempt_reconciliation_failed",
             "retry_exhausted", "attempt_preparation_failed", "wait_uncertain",
             "launch_failed", "final_observation_failed",
             "handoff_adoption_failed", "succeeded"}

-----------------------------------------------------------------------------
\* observe_worker_chunks_v1

Latest(c) == records[c] - 1

\* The namespaces an observation accepts.
Consistent ==
    \A c \in Work :
        /\ handoff[c] \subseteq {Latest(c)}
        /\ c \in failure => handoff[c] = {} /\ records[c] = Budget

\* DistributedSieveWorkerChunkDurableStateV1
DurableState(c) ==
    CASE c \in Empty -> "empty"
      [] c \in failure -> "terminal"
      [] c \notin Empty \cup failure /\ handoff[c] # {} -> "handoff"
      [] c \notin Empty \cup failure /\ handoff[c] = {}
            /\ (records[c] > 0 \/ c \in unstarted) -> "incomplete"
      [] OTHER -> "missing"

Locked(a) == a \in live \cup quarantined

\* recovery_slots that still are to be recovered: the terminal chunk alone,
\* if there is one.
Recovering(p) ==
    LET R == {c \in Chunks : p[c] = "recover"}
    IN  IF R \cap failure # {} THEN R \cap failure ELSE R
Launching(p) == {c \in Chunks : p[c] = "launch"}

\* Go on with phase p at the first chunk of S from c on, or with phase q.
Proceed(S, c, p, q) ==
    \/ \E d \in S : /\ d >= c /\ \A e \in S : e >= c => d <= e
                    /\ pc' = p /\ slot' = d
    \/ /\ \A d \in S : d < c
       /\ pc' = q /\ slot' = 0

-----------------------------------------------------------------------------
NoPlan == /\ plan' = [c \in Chunks |-> "none"]
          /\ ordinal' = [c \in Chunks |-> None]
          /\ expected' = [c \in Chunks |-> None]
NoBatch == known' = {} /\ exact' = TRUE /\ certain' = TRUE

Init ==
    /\ records = [c \in Chunks |-> 0] /\ unstarted = {} /\ cleaned = {}
    /\ handoff = [c \in Chunks |-> {}] /\ failure = {}
    /\ live = {} /\ quarantined = {}
    /\ pc = "down" /\ slot = 0
    /\ first = [c \in Chunks |-> None] /\ plan = [c \in Chunks |-> "none"]
    /\ ordinal = [c \in Chunks |-> None] /\ expected = [c \in Chunks |-> None]
    /\ known = {} /\ exact = TRUE /\ certain = TRUE
    /\ adopted = {} /\ outcome = "none" /\ quiet = FALSE /\ faults = 0

\* The round returns status o; its locals and the receipts it held are gone.
Return(o) == pc' = "idle" /\ outcome' = o /\ slot' = 0 /\ NoPlan /\ NoBatch

\* The master opens the wave store: every descriptor of the wave lock, its
\* predecessor's and those of the children, is closed.
Open ==
    /\ pc = "down" /\ live = {}
    /\ pc' = "idle"
    /\ UNCHANGED <<disk, live, quarantined, slot, first, plans, batch, adopted, outcome, history>>

\* The caller drops the last result, with the claim and the locks in it, and
\* asks for a round.
BeginRound ==
    /\ pc = "idle"
    /\ pc' = "observe" /\ adopted' = {} /\ outcome' = "running"
    /\ quiet' = (live = {} /\ quarantined = {})
    /\ UNCHANGED <<disk, live, quarantined, slot, first, plans, batch, faults>>

-----------------------------------------------------------------------------
\* initial_observation and the plan drawn from it.
Observe ==
    /\ pc = "observe"
    /\ first' = [c \in Chunks |-> Latest(c)]
    /\ \/ /\ ~Consistent \/ Cardinality(failure) > 1
          /\ Return("observation_failed")
       \/ /\ \E c \in Work : DurableState(c) = "incomplete" /\ records[c] = 0
          /\ Return("incomplete_attempt")
       \/ /\ Work = {}
          /\ Return("succeeded")
       \/ /\ Consistent /\ Cardinality(failure) <= 1 /\ Work # {}
          /\ \A c \in Work : DurableState(c) = "incomplete" => records[c] > 0
          /\ plan' = [c \in Chunks |->
                        CASE DurableState(c) = "empty" -> "empty"
                          [] DurableState(c) = "missing" -> "launch"
                          [] DurableState(c) = "handoff" -> "adopt"
                          [] OTHER -> "recover"]
          /\ ordinal' = [c \in Chunks |-> IF plan'[c] = "launch" THEN 0 ELSE None]
          /\ expected' = [c \in Chunks |-> IF plan'[c] = "adopt" THEN Latest(c) ELSE None]
          /\ IF Recovering(plan') # {} THEN pc' = "retry" /\ UNCHANGED slot
             ELSE Proceed(Launching(plan'), 0, "claim", "final")
          /\ UNCHANGED <<batch, outcome>>
    /\ UNCHANGED <<disk, live, quarantined, adopted, history>>

\* What the second look at a chunk that is to be recovered allows.
StillIncomplete(c) == DurableState(c) = "incomplete" /\ Latest(c) = first[c]
LateHandoff(c) == DurableState(c) = "handoff" /\ Latest(c) = first[c]

\* retry_observation: a handoff that came in the meantime is adopted.
ObserveAgain ==
    /\ pc = "retry"
    /\ \/ /\ Consistent
          /\ \A c \in Recovering(plan) : \/ StillIncomplete(c) \/ LateHandoff(c)
                                         \/ c \in failure
          /\ plan' = [c \in Chunks |-> IF c \in Recovering(plan) /\ LateHandoff(c)
                                       THEN "adopt" ELSE plan[c]]
          /\ expected' = [c \in Chunks |-> IF c \in Recovering(plan) /\ LateHandoff(c)
                                           THEN first[c] ELSE expected[c]]
          /\ Proceed(Recovering(plan'), 0, "reconcile", "post")
          /\ UNCHANGED <<ordinal, batch, outcome>>
       \/ /\ ~Consistent \/ \E c \in Recovering(plan) :
                ~StillIncomplete(c) /\ ~LateHandoff(c) /\ c \notin failure
          /\ Return("observation_failed")
    /\ UNCHANGED <<disk, live, quarantined, first, adopted, history>>

AdoptLate(c) ==
    /\ plan' = [plan EXCEPT ![c] = "adopt"]
    /\ expected' = [expected EXCEPT ![c] = first[c]]
    /\ Proceed(Recovering(plan'), c + 1, "reconcile", "post")
    /\ UNCHANGED <<ordinal, batch, outcome>>

\* open_worker_attempt_private_lease_root finds the BaseLock taken.
RetryBusy(c) ==
    /\ pc = "reconcile" /\ slot = c
    /\ Locked(<<c, first[c]>>)
    /\ pc' = "busy"
    /\ UNCHANGED <<disk, live, quarantined, slot, first, plans, batch, adopted, outcome, history>>

\* try_adopt_late_handoff
TryAdoptLateHandoff(c) ==
    /\ pc = "busy" /\ slot = c
    /\ \/ /\ Consistent /\ LateHandoff(c)
          /\ AdoptLate(c)
       \/ /\ Consistent /\ StillIncomplete(c)
          /\ Return("retry_busy")
       \/ /\ ~Consistent \/ (~LateHandoff(c) /\ ~StillIncomplete(c))
          /\ Return("observation_failed")
    /\ UNCHANGED <<disk, live, quarantined, first, adopted, history>>

\* What a held BaseLock authorises: nothing, while another chunk's terminal
\* record stands or a later BaseLock exists; adopting a handoff that is there;
\* or else rolling the lease back and starting the next attempt or giving up.
ReconcileHeld(c, budget) ==
    \/ /\ failure \subseteq {c} /\ c \notin unstarted /\ handoff[c] = {}
       /\ cleaned' = cleaned \cup {<<c, first[c]>>}
       /\ IF records[c] >= budget
          THEN pc' = "publish" /\ UNCHANGED <<slot, ordinal>>
          ELSE /\ ordinal' = [ordinal EXCEPT ![c] = first[c] + 1]
               /\ Proceed(Recovering(plan), c + 1, "reconcile", "post")
       /\ UNCHANGED <<plan, expected, batch, outcome>>
    \/ /\ failure = {} /\ c \notin unstarted /\ handoff[c] # {}
       /\ AdoptLate(c)
       /\ UNCHANGED cleaned
    \/ /\ \/ ~(failure \subseteq {c}) \/ c \in unstarted
          \/ failure = {c} /\ handoff[c] # {}
       /\ Return("attempt_reconciliation_failed")
       /\ UNCHANGED cleaned

\* Mutant: the attempt is rolled back while its child may still publish.
ReconcileUnlocked(c) ==
    /\ pc = "reconcile" /\ slot = c
    /\ ReconcileHeld(c, Budget)
    /\ UNCHANGED <<records, unstarted, handoff, failure, live, quarantined, first, adopted, history>>

\* Mutant: the chunk is given up with one attempt left.
ReconcileEarly(c) ==
    /\ pc = "reconcile" /\ slot = c /\ ~Locked(<<c, first[c]>>)
    /\ ReconcileHeld(c, Budget - 1)
    /\ UNCHANGED <<records, unstarted, handoff, failure, live, quarantined, first, adopted, history>>

\* open_worker_attempt_private_lease_root takes the BaseLock and
\* reconcile_worker_attempt_started works under it.
Reconcile(c) ==
    /\ pc = "reconcile" /\ slot = c /\ ~Locked(<<c, first[c]>>)
    /\ ReconcileHeld(c, Budget)
    /\ UNCHANGED <<records, unstarted, handoff, failure, live, quarantined, first, adopted, history>>

\* publish_chunk_terminal_failure_v1, still under the BaseLock; it writes,
\* completes or confirms the record.
PublishFailure(c) ==
    /\ pc = "publish" /\ slot = c
    /\ failure' = failure \cup {c}
    /\ Return("retry_exhausted")
    /\ UNCHANGED <<records, unstarted, cleaned, handoff, live, quarantined, first, adopted, history>>

AgreesWithPlan ==
    \A c \in Chunks :
        CASE plan[c] = "recover" -> StillIncomplete(c)
          [] plan[c] = "adopt" -> handoff[c] = {expected[c]} /\ c \notin failure
          [] plan[c] = "launch" -> DurableState(c) = "missing"
          [] OTHER -> DurableState(c) = "empty"

\* Mutant: what was reconciled is not marked for launch.
ObserveReconciledUnmarked ==
    /\ pc = "post"
    /\ \/ /\ Consistent /\ AgreesWithPlan
          /\ Proceed(Launching(plan), 0, "claim", "final")
          /\ UNCHANGED <<plans, batch, outcome>>
       \/ /\ ~(Consistent /\ AgreesWithPlan)
          /\ Return("observation_failed")
    /\ UNCHANGED <<disk, live, quarantined, first, adopted, history>>

\* post_reconciliation_observation: the disk agrees with the plan, chunk by
\* chunk, and what was reconciled is launched.
ObserveReconciled ==
    /\ pc = "post"
    /\ \/ /\ Consistent /\ AgreesWithPlan
          /\ plan' = [c \in Chunks |-> IF plan[c] = "recover" THEN "launch" ELSE plan[c]]
          /\ Proceed(Launching(plan'), 0, "claim", "final")
          /\ UNCHANGED <<ordinal, expected, batch, outcome>>
       \/ /\ ~(Consistent /\ AgreesWithPlan)
          /\ Return("observation_failed")
    /\ UNCHANGED <<disk, live, quarantined, first, adopted, history>>

-----------------------------------------------------------------------------
\* create_worker_attempt_private_lease_root and
\* reserve_worker_attempt_private_lease: the next BaseLock, under those of
\* the chunk's earlier attempts.
ClaimAttempt(c) ==
    /\ pc = "claim" /\ slot = c
    /\ LET free == /\ failure = {} /\ handoff[c] = {}
                   /\ records[c] = ordinal[c] /\ c \notin unstarted
                   /\ \A o \in Ordinals : o < ordinal[c] => ~Locked(<<c, o>>)
       IN
       \/ /\ free
          /\ unstarted' = unstarted \cup {c}
          /\ pc' = "start"
          /\ UNCHANGED <<slot, plans, batch, outcome>>
       \/ /\ ~free
          /\ Return("attempt_preparation_failed")
          /\ UNCHANGED unstarted
    /\ UNCHANGED <<records, cleaned, handoff, failure, live, quarantined, first, adopted, history>>

\* publish_worker_attempt_started: the attempt is on record before anything runs.
StartAttempt(c) ==
    /\ pc = "start" /\ slot = c
    /\ records' = [records EXCEPT ![c] = @ + 1]
    /\ unstarted' = unstarted \ {c}
    /\ Proceed(Launching(plan), c + 1, "claim", "launch")
    /\ UNCHANGED <<cleaned, handoff, failure, live, quarantined, first, plans, batch,
                   adopted, outcome, history>>

Children(S) == {<<c, ordinal[c]>> : c \in S}

\* launch_worker_process_batch_v1: all of the batch gets a child.
LaunchBatch ==
    /\ pc = "launch"
    /\ live' = live \cup Children(Launching(plan))
    /\ known' = Launching(plan)
    /\ pc' = "wait"
    /\ UNCHANGED <<disk, quarantined, slot, first, plans, exact, certain, adopted, outcome, history>>

\* Some or none of it does; or nobody can tell, and every receipt is leaked.
LaunchLost ==
    /\ pc = "launch" /\ faults < MaxFaults
    /\ \E S \in SUBSET Launching(plan) :
        /\ live' = live \cup Children(S)
        /\ \/ /\ S # Launching(plan)
              /\ known' = S /\ UNCHANGED quarantined
           \/ /\ known' = {}
              /\ quarantined' = quarantined \cup Children(Launching(plan))
    /\ exact' = FALSE /\ pc' = "wait"
    /\ quiet' = FALSE /\ faults' = faults + 1
    /\ UNCHANGED <<disk, slot, first, plans, certain, adopted, outcome>>

\* Mutant: a child that ended without a handoff is waited for again.
ReapHanded(c) ==
    /\ pc = "wait" /\ c \in known /\ <<c, ordinal[c]>> \notin live /\ handoff[c] # {}
    /\ known' = known \ {c}
    /\ UNCHANGED <<disk, live, quarantined, pc, slot, first, plans, exact, certain,
                   adopted, outcome, history>>

\* wait_terminal
Reap(c) ==
    /\ pc = "wait" /\ c \in known /\ <<c, ordinal[c]>> \notin live
    /\ known' = known \ {c}
    /\ UNCHANGED <<disk, live, quarantined, pc, slot, first, plans, exact, certain,
                   adopted, outcome, history>>

\* waitpid fails: the receipt is leaked when the owner is destroyed.
WaitUncertain(c) ==
    /\ pc = "wait" /\ c \in known /\ faults < MaxFaults
    /\ known' = known \ {c} /\ certain' = FALSE
    /\ quarantined' = quarantined \cup {<<c, ordinal[c]>>}
    /\ quiet' = FALSE /\ faults' = faults + 1
    /\ UNCHANGED <<disk, live, pc, slot, first, plans, exact, adopted, outcome>>

EndWait ==
    /\ pc = "wait" /\ known = {}
    /\ \/ ~certain /\ Return("wait_uncertain")
       \/ certain /\ ~exact /\ Return("launch_failed")
       \/ /\ certain /\ exact
          /\ pc' = "final"
          /\ UNCHANGED <<slot, plans, batch, outcome>>
    /\ UNCHANGED <<disk, live, quarantined, first, adopted, history>>

-----------------------------------------------------------------------------
\* The attempt whose handoff the round looks for.
ExpectedOrdinal(c) == IF plan[c] = "adopt" THEN expected[c] ELSE ordinal[c]
ExactHandoffs == \A c \in Work : handoff[c] = {ExpectedOrdinal(c)}

\* Mutant: the children's exits are taken for their handoffs.
ObserveFinalUnchecked ==
    /\ pc = "final"
    /\ Proceed(Work, 0, "adopt", "idle")
    /\ UNCHANGED <<plans, batch, outcome>>
    /\ UNCHANGED <<disk, live, quarantined, first, adopted, history>>

\* final_observation: every chunk has the handoff that the plan, or the
\* ledger of this round, names.
ObserveFinal ==
    /\ pc = "final"
    /\ \/ /\ Consistent /\ failure = {} /\ ExactHandoffs
          /\ Proceed(Work, 0, "adopt", "idle")
          /\ UNCHANGED <<plans, batch, outcome>>
       \/ /\ Consistent /\ failure = {}
          /\ \E c \in Work :
                /\ handoff[c] # {ExpectedOrdinal(c)}
                /\ \A d \in Work : d < c => handoff[d] = {ExpectedOrdinal(d)}
                /\ Return(IF DurableState(c) = "incomplete"
                          THEN "incomplete_attempt" ELSE "final_observation_failed")
       \/ /\ ~Consistent \/ failure # {}
          /\ Return("final_observation_failed")
    /\ UNCHANGED <<disk, live, quarantined, first, adopted, history>>

\* adopt_worker_handoff_v1, which takes the BaseLock and keeps it.
Adopt(c) ==
    /\ pc = "adopt" /\ slot = c
    /\ LET free == ~Locked(<<c, Latest(c)>>) /\ failure = {} /\ c \notin unstarted
       IN
       \/ /\ free
          /\ adopted' = adopted \cup {<<c, Latest(c)>>}
          /\ IF \E d \in Work : d > c
             THEN /\ Proceed(Work, c + 1, "adopt", "idle")
                  /\ UNCHANGED <<plans, batch, outcome>>
             ELSE Return("succeeded")
       \/ /\ ~free
          /\ Return("handoff_adoption_failed")
          /\ UNCHANGED adopted
    /\ UNCHANGED <<disk, live, quarantined, first, history>>

-----------------------------------------------------------------------------
\* A system call of the phase fails, or an observation finds its two looks at
\* the disk to differ, and the round returns the error.  While it waits
\* nothing is called that could.
CallFails ==
    /\ InRound /\ pc # "wait" /\ faults < MaxFaults
    /\ Return("call_failed")
    /\ quiet' = FALSE /\ faults' = faults + 1
    /\ UNCHANGED <<disk, live, quarantined, first, adopted>>

\* The master dies: its locks and leaked receipts go, its children stay.
Crash ==
    /\ pc # "down" /\ faults < MaxFaults
    /\ pc' = "down" /\ outcome' = "crashed" /\ slot' = 0 /\ NoPlan /\ NoBatch
    /\ quarantined' = {} /\ adopted' = {}
    /\ quiet' = FALSE /\ faults' = faults + 1
    /\ UNCHANGED <<disk, live, first>>

\* A child publishes its handoff, through the lease it has open.
PublishHandoff(a) ==
    /\ a \in live
    /\ handoff' = [handoff EXCEPT ![a[1]] = @ \cup {a[2]}]
    /\ UNCHANGED <<records, unstarted, cleaned, failure, live, quarantined, pc, slot,
                   first, plans, batch, adopted, outcome, history>>

\* A child ends, with a handoff or without.
ChildExit(a) ==
    /\ a \in live
    /\ live' = live \ {a}
    /\ UNCHANGED <<disk, quarantined, pc, slot, first, plans, batch, adopted, outcome, history>>

-----------------------------------------------------------------------------
RoundStep ==
    \/ Observe \/ ObserveAgain \/ ObserveReconciled \/ ObserveFinal
    \/ LaunchBatch \/ EndWait
    \/ \E c \in Work : \/ RetryBusy(c) \/ TryAdoptLateHandoff(c) \/ Reconcile(c)
                       \/ PublishFailure(c) \/ ClaimAttempt(c) \/ StartAttempt(c)
                       \/ Reap(c) \/ Adopt(c)
Fault == CallFails \/ Crash \/ LaunchLost \/ \E c \in Work : WaitUncertain(c)

Next ==
    \/ Open \/ BeginRound \/ RoundStep \/ Fault
    \/ \E a \in Attempts : PublishHandoff(a) \/ ChildExit(a)

Spec == Init /\ [][Next]_vars

\* The thread of the round runs, and a child's work on its chunk ends.
FairSpec ==
    /\ Spec /\ WF_vars(RoundStep)
    /\ \A a \in Attempts : WF_vars(ChildExit(a))
-----------------------------------------------------------------------------
TypeOK ==
    /\ records \in [Chunks -> 0..Budget] /\ handoff \in [Chunks -> SUBSET Ordinals]
    /\ unstarted \subseteq Work /\ failure \subseteq Work
    /\ cleaned \subseteq Attempts /\ live \subseteq Attempts
    /\ quarantined \subseteq Attempts /\ adopted \subseteq Attempts
    /\ pc \in Phases \cup {"down", "idle"} /\ slot \in Chunks \cup {0}
    /\ first \in [Chunks -> -1..(Budget - 1)]
    /\ plan \in [Chunks -> {"none", "empty", "launch", "recover", "adopt"}]
    /\ ordinal \in [Chunks -> -1..(Budget - 1)]
    /\ expected \in [Chunks -> -1..(Budget - 1)]
    /\ known \subseteq Work /\ exact \in BOOLEAN /\ certain \in BOOLEAN
    /\ outcome \in Outcomes
    /\ quiet \in BOOLEAN /\ faults \in 0..MaxFaults

\* While a child may still publish, its attempt is the last one of its chunk,
\* keeps its lease and is not given up: neither a later round nor another
\* master starts a rival, rolls it back or declares the chunk failed.
ChildUndisturbed ==
    \A a \in live : /\ a[2] = Latest(a[1])
                    /\ a \notin cleaned /\ a[1] \notin failure

\* A handoff, once published, keeps its lease: no reconciliation that began
\* before it was published removes it.
HandoffKept == \A c \in Work : \A o \in handoff[c] : <<c, o>> \notin cleaned

\* A round that succeeds holds the one handoff each chunk has on disk.
SuccessIsExact ==
    outcome = "succeeded" =>
        \A c \in Work : \E o \in Ordinals : handoff[c] = {o} /\ <<c, o>> \in adopted

\* A round that met no fault, no child of an earlier round and no abandoned
\* reservation has moved the wave on: all handed over, or given up, or one
\* more attempt on record.
RoundProgress ==
    pc = "idle" /\ quiet /\ unstarted = {} =>
        \/ outcome \in {"succeeded", "retry_exhausted"}
        \/ \E c \in Work : Latest(c) > first[c]

\* Whatever crashes and whatever arrives late, the wave is a WaveLedger.
Ledger == INSTANCE WaveLedger
            WITH attempts <- [c \in Work |-> records[c]],
                 handed <- {c \in Work : handoff[c] # {}},
                 failed <- failure,
                 accepted <- outcome = "succeeded"
KeepsLedger == Ledger!Spec

\* Every round returns, or its process dies.
RoundEnds == [](InRound => <>~InRound)

\* Says the design: a reservation that was never started is rolled back and
\* costs no attempt.
PrestartRolledBack == pc = "idle" /\ quiet => unstarted = {}
================================================================================

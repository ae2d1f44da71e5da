------------------------ MODULE WorkerCoordinatorProofs ------------------------
(***************************************************************************)
(* Proofs about WorkerCoordinator for any number of chunks, any budget and  *)
(* any number of faults.  The safety of a live child and of its handoff     *)
(* rests on what the master knows in each phase of a round: Reconciling,    *)
(* Publishing and Claiming say which part of what it read is still true.    *)
(* Quiet says what a round that nothing disturbs still has before it.       *)
(***************************************************************************)
EXTENDS WorkerCoordinator, FiniteSetTheorems, TLAPS

DiskTypes ==
  /\ records \in [Chunks -> 0..Budget] /\ handoff \in [Chunks -> SUBSET Ordinals]
  /\ unstarted \subseteq Work /\ failure \subseteq Work
  /\ cleaned \subseteq Attempts /\ live \subseteq Attempts

RoundTypes ==
  /\ quarantined \subseteq Attempts /\ adopted \subseteq Attempts
  /\ pc \in Phases \cup {"down", "idle"} /\ slot \in Chunks \cup {0}
  /\ first \in [Chunks -> -1..(Budget - 1)]
  /\ plan \in [Chunks -> {"none", "empty", "launch", "recover", "adopt"}]
  /\ ordinal \in [Chunks -> -1..(Budget - 1)]
  /\ expected \in [Chunks -> -1..(Budget - 1)]
  /\ known \subseteq Work /\ exact \in BOOLEAN /\ certain \in BOOLEAN
  /\ outcome \in Outcomes /\ quiet \in BOOLEAN /\ faults \in 0..MaxFaults

\* What the records on disk say together; observe_worker_chunks_v1 relies on it.
Coherent ==
  /\ \A c \in Work : handoff[c] \subseteq {Latest(c)}
  /\ \A c \in failure : handoff[c] = {} /\ records[c] = Budget
  /\ \A c, d \in failure : c = d
  /\ \A a \in cleaned : a[2] <= Latest(a[1])

Planned ==
  /\ \A c \in Chunks : plan[c] \in {"launch", "recover", "adopt"} => c \in Work
  /\ InRound => outcome = "running"

Abandoned(c) == \A a \in live : a[1] # c

\* From the first observation until an attempt starts, the latest attempt of
\* every chunk is the one observed.
Reconciling ==
  /\ pc \in {"retry", "reconcile", "busy", "publish", "post"} => \A c \in Chunks :
       first[c] = Latest(c) /\ (plan[c] = "recover" => records[c] > 0)
  /\ pc \in {"reconcile", "busy", "publish"} => plan[slot] = "recover"

Publishing == pc = "publish" =>
  /\ records[slot] = Budget /\ handoff[slot] = {}
  /\ failure \subseteq {slot} /\ Abandoned(slot)

Started(c) ==
  /\ ordinal[c] = Latest(c) /\ ordinal[c] \in Ordinals
  /\ <<c, ordinal[c]>> \notin cleaned /\ c \notin failure

\* The chunks before the slot have their new attempt on record, and the one
\* at the slot has the BaseLocks of its earlier attempts.
Claiming ==
  /\ pc \in {"claim", "start"} =>
       /\ slot \in Launching(plan)
       /\ \A c \in Launching(plan) : c < slot => Started(c)
  /\ pc = "start" =>
       /\ records[slot] = ordinal[slot]
       /\ handoff[slot] = {} /\ failure = {} /\ Abandoned(slot)
  /\ pc = "launch" => \A c \in Launching(plan) : Started(c)
  /\ pc = "wait" => \A c \in known : ordinal[c] \in Ordinals

Adopting ==
  /\ pc = "adopt" => \A c \in Work :
       handoff[c] # {} /\ (c < slot => <<c, Latest(c)>> \in adopted)
  /\ outcome = "succeeded" => \A c \in Work :
       handoff[c] # {} /\ <<c, Latest(c)>> \in adopted

DiskInv == DiskTypes /\ Coherent /\ ChildUndisturbed /\ HandoffKept
RoundInv == RoundTypes /\ Planned /\ Reconciling /\ Publishing /\ Claiming /\ Adopting
Inv == DiskInv /\ RoundInv

-----------------------------------------------------------------------------
\* What is on disk and who is alive.

LEMMA ChunkFacts ==
  /\ Work \subseteq Chunks /\ Chunks \subseteq Int /\ Budget \in Nat \ {0}
  /\ 0 \in Ordinals /\ 0 \in 0..Budget /\ 0 \in -1..(Budget - 1) /\ None \in -1..(Budget - 1)
  /\ Ordinals \subseteq -1..(Budget - 1) /\ 0 \in 0..MaxFaults
BY WaveAssumption DEF Work, Chunks, Ordinals, None

LEMMA AttemptPair ==
  ASSUME NEW a \in Attempts
  PROVE  /\ a = <<a[1], a[2]>> /\ a[1] \in Work /\ a[2] \in Ordinals
         /\ a[1] \in Chunks /\ a[2] \in Int
<1>1. PICK c \in Work, o \in Ordinals : a = <<c, o>>
  BY DEF Attempts
<1>2. c \in Chunks /\ o \in Int
  BY ChunkFacts DEF Ordinals
<1> QED
  BY <1>1, <1>2

LEMMA InitInv == Init => Inv
<1> SUFFICES ASSUME Init PROVE Inv
  OBVIOUS
<1>1. DiskInv
  BY ChunkFacts DEF Init, DiskInv, DiskTypes, Coherent, ChildUndisturbed, HandoffKept
<1>2. RoundTypes
  BY ChunkFacts DEF Init, RoundTypes, Outcomes
<1>3. Planned /\ Reconciling /\ Publishing /\ Claiming /\ Adopting
  BY DEF Init, Planned, InRound, Phases, Reconciling, Publishing, Claiming, Adopting
<1> QED
  BY <1>1, <1>2, <1>3 DEF Inv, RoundInv

\* A child is of the latest attempt: while nobody holds the BaseLock of that
\* attempt, the chunk has no child.
LEMMA FreeLatest ==
  ASSUME DiskInv, NEW c \in Work, ~Locked(<<c, Latest(c)>>)
  PROVE  Abandoned(c)
<1> SUFFICES ASSUME NEW a \in live, a[1] = c PROVE FALSE
  BY DEF Abandoned
<1>1. a = <<a[1], a[2]>>
  BY AttemptPair DEF DiskInv, DiskTypes
<1>2. a = <<c, Latest(c)>>
  BY <1>1 DEF DiskInv, ChildUndisturbed
<1> QED
  BY <1>2 DEF Locked

\* A change of state that keeps the disk and adds no child.
LEMMA DiskUntouched ==
  ASSUME DiskInv, UNCHANGED <<records, cleaned, handoff, failure>>,
         unstarted' \subseteq Work, live' \subseteq live
  PROVE  DiskInv'
BY DEF DiskInv, DiskTypes, Coherent, ChildUndisturbed, HandoffKept, Latest

LEMMA DiskReconcile ==
  ASSUME Inv, NEW c \in Work, Reconcile(c)
  PROVE  DiskInv'
<1>1. first[c] = Latest(c) /\ first[c] \in Ordinals /\ c \in Chunks
  <2>1. c \in Chunks /\ first[c] = Latest(c) /\ records[c] > 0 /\ records[c] \in 0..Budget
    BY ChunkFacts DEF Reconcile, Inv, RoundInv, Reconciling, DiskInv, DiskTypes
  <2> QED
    BY <2>1, ChunkFacts DEF Latest, Ordinals
<1>2. CASE cleaned' = cleaned \cup {<<c, first[c]>>} /\ handoff[c] = {}
  <2>1. /\ <<c, first[c]>> \in Attempts /\ <<c, first[c]>> \notin live
        /\ UNCHANGED <<records, unstarted, handoff, failure, live>>
    BY <1>1 DEF Reconcile, Locked, Attempts
  <2>2. DiskTypes'
    BY <1>2, <2>1 DEF Inv, DiskInv, DiskTypes
  <2>3. Coherent'
    <3>1. first[c] <= Latest(c)
      BY <1>1, ChunkFacts DEF Ordinals
    <3>2. \A a \in cleaned' : a[2] <= Latest(a[1])
      BY <1>2, <3>1 DEF Inv, DiskInv, Coherent
    <3> QED
      BY <2>1, <3>2 DEF Inv, DiskInv, Coherent, Latest
  <2>4. ChildUndisturbed'
    BY <1>2, <2>1 DEF Inv, DiskInv, ChildUndisturbed, Latest
  <2>5. HandoffKept'
    BY <1>2, <2>1 DEF Inv, DiskInv, HandoffKept
  <2> QED
    BY <2>2, <2>3, <2>4, <2>5 DEF DiskInv
<1>3. CASE cleaned' = cleaned
  BY <1>3, DiskUntouched DEF Reconcile, Inv, DiskInv, DiskTypes
<1> QED
  BY <1>2, <1>3 DEF Reconcile, ReconcileHeld

LEMMA DiskPublishFailure ==
  ASSUME Inv, NEW c \in Work, PublishFailure(c)
  PROVE  DiskInv'
<1>1. /\ records[c] = Budget /\ handoff[c] = {} /\ Abandoned(c)
      /\ failure' = {c} /\ UNCHANGED <<records, unstarted, cleaned, handoff, live>>
  BY DEF PublishFailure, Inv, RoundInv, Publishing
<1>2. DiskTypes' /\ HandoffKept'
  BY <1>1 DEF Inv, DiskInv, DiskTypes, HandoffKept
<1>3. Coherent'
  BY <1>1 DEF Inv, DiskInv, Coherent, Latest
<1>4. ChildUndisturbed'
  BY <1>1 DEF Inv, DiskInv, ChildUndisturbed, Abandoned, Latest
<1> QED
  BY <1>2, <1>3, <1>4 DEF DiskInv

LEMMA DiskStartAttempt ==
  ASSUME Inv, NEW c \in Work, StartAttempt(c)
  PROVE  DiskInv'
<1>1. /\ records[c] = ordinal[c] /\ handoff[c] = {} /\ failure = {} /\ Abandoned(c)
      /\ records' = [records EXCEPT ![c] = records[c] + 1] /\ unstarted' = unstarted \ {c}
      /\ UNCHANGED <<cleaned, handoff, failure, live>>
  BY DEF StartAttempt, Inv, RoundInv, Claiming
<1>2. c \in Chunks /\ records[c] \in 0..Budget /\ ordinal[c] \in -1..(Budget - 1)
  BY ChunkFacts DEF Inv, DiskInv, DiskTypes, RoundInv, RoundTypes
<1>3. records[c] + 1 \in 0..Budget
  BY <1>1, <1>2, ChunkFacts
<1>4. records' \in [Chunks -> 0..Budget] /\ records'[c] = records[c] + 1
      /\ \A d \in Chunks : d # c => records'[d] = records[d]
  BY <1>1, <1>2, <1>3 DEF Inv, DiskInv, DiskTypes
<1>5. DiskTypes'
  BY <1>1, <1>4 DEF Inv, DiskInv, DiskTypes
<1>6. Coherent'
  <2>1. \A d \in Work : handoff'[d] \subseteq {Latest(d)'}
    BY <1>1, <1>4, ChunkFacts DEF Inv, DiskInv, Coherent, Latest
  <2>2. \A a \in cleaned' : a[2] <= Latest(a[1])'
    <3> SUFFICES ASSUME NEW a \in cleaned PROVE a[2] <= Latest(a[1])'
      BY <1>1
    <3>1. a[2] <= Latest(a[1]) /\ a[1] \in Chunks /\ a[2] \in Int
      BY AttemptPair DEF Inv, DiskInv, DiskTypes, Coherent
    <3>2. records'[a[1]] = records[a[1]] \/ records'[a[1]] = records[a[1]] + 1
      BY <3>1, <1>4
    <3>3. records[a[1]] \in 0..Budget
      BY <3>1 DEF Inv, DiskInv, DiskTypes
    <3> QED
      BY <3>1, <3>2, <3>3, ChunkFacts DEF Latest
  <2> QED
    BY <1>1, <2>1, <2>2 DEF Coherent
<1>7. ChildUndisturbed'
  <2> SUFFICES ASSUME NEW a \in live
               PROVE  a[2] = Latest(a[1])' /\ a \notin cleaned /\ a[1] \notin failure
    BY <1>1 DEF ChildUndisturbed
  <2>1. a[1] # c /\ a[1] \in Chunks
    BY <1>1, AttemptPair DEF Abandoned, Inv, DiskInv, DiskTypes
  <2> QED
    BY <2>1, <1>4 DEF Inv, DiskInv, ChildUndisturbed, Latest
<1>8. HandoffKept'
  BY <1>1 DEF Inv, DiskInv, HandoffKept
<1> QED
  BY <1>5, <1>6, <1>7, <1>8 DEF DiskInv

\* LaunchBatch and LaunchLost: only the attempts of the batch get a child.
LEMMA DiskLaunch ==
  ASSUME Inv, NEW S \in SUBSET Launching(plan), pc = "launch",
         live' = live \cup Children(S), UNCHANGED disk
  PROVE  DiskInv' /\ Children(Launching(plan)) \subseteq Attempts
<1>1. \A c \in Launching(plan) : c \in Work /\ Started(c)
  BY DEF Inv, RoundInv, Claiming, Planned, Launching
<1>2. Children(Launching(plan)) \subseteq Attempts /\ Children(S) \subseteq Attempts
  BY <1>1 DEF Children, Attempts, Started
<1>3. \A a \in Children(S) : a[2] = Latest(a[1]) /\ a \notin cleaned /\ a[1] \notin failure
  BY <1>1 DEF Children, Started
<1>4. DiskTypes'
  BY <1>2 DEF Inv, DiskInv, DiskTypes, disk
<1>5. ChildUndisturbed'
  BY <1>3 DEF Inv, DiskInv, ChildUndisturbed, disk, Latest
<1>6. Coherent' /\ HandoffKept'
  BY DEF Inv, DiskInv, Coherent, HandoffKept, disk, Latest
<1> QED
  BY <1>2, <1>4, <1>5, <1>6 DEF DiskInv

LEMMA DiskPublishHandoff ==
  ASSUME Inv, NEW a \in Attempts, PublishHandoff(a)
  PROVE  DiskInv'
<1>1. /\ a = <<a[1], a[2]>> /\ a[1] \in Work /\ a[1] \in Chunks /\ a[2] \in Ordinals
      /\ a[2] = Latest(a[1]) /\ a \notin cleaned /\ a[1] \notin failure
      /\ handoff' = [handoff EXCEPT ![a[1]] = handoff[a[1]] \cup {a[2]}]
      /\ UNCHANGED <<records, unstarted, cleaned, failure, live>>
  BY AttemptPair DEF PublishHandoff, Inv, DiskInv, ChildUndisturbed
<1>2. handoff' \in [Chunks -> SUBSET Ordinals]
      /\ handoff'[a[1]] = handoff[a[1]] \cup {a[2]}
      /\ \A c \in Chunks : c # a[1] => handoff'[c] = handoff[c]
  BY <1>1 DEF Inv, DiskInv, DiskTypes
<1>3. DiskTypes'
  BY <1>1, <1>2 DEF Inv, DiskInv, DiskTypes
<1>4. Coherent'
  BY <1>1, <1>2, ChunkFacts DEF Inv, DiskInv, DiskTypes, Coherent, Latest
<1>5. HandoffKept'
  BY <1>1, <1>2, ChunkFacts DEF Inv, DiskInv, HandoffKept
<1>6. ChildUndisturbed'
  BY <1>1 DEF Inv, DiskInv, ChildUndisturbed, Latest
<1> QED
  BY <1>3, <1>4, <1>5, <1>6 DEF DiskInv

-----------------------------------------------------------------------------
\* What the master knows in each phase.

DurableStates == {"empty", "terminal", "handoff", "incomplete", "missing"}

LEMMA DurableStateFacts ==
  ASSUME DiskTypes, NEW c \in Chunks
  PROVE  /\ DurableState(c) \in DurableStates
         /\ (DurableState(c) = "empty") <=> (c \in Empty)
         /\ DurableState(c) = "terminal" => c \in failure
<1>1. c \in failure => c \notin Empty
  BY DEF DiskTypes, Work
<1>2. CASE c \in Empty
  BY <1>1, <1>2 DEF DurableState, DurableStates
<1>3. CASE c \in failure
  BY <1>1, <1>3 DEF DurableState, DurableStates
<1>4. CASE c \notin Empty \cup failure
  BY <1>4 DEF DurableState, DurableStates
<1> QED
  BY <1>2, <1>3, <1>4

LEMMA PlanMembers ==
  /\ \A c \in Recovering(plan) : c \in Chunks /\ plan[c] = "recover"
  /\ \A c \in Launching(plan) : c \in Chunks /\ plan[c] = "launch"
BY DEF Recovering, Launching

LEMMA PlanMembersNext ==
  /\ \A c \in Recovering(plan') : c \in Chunks /\ plan'[c] = "recover"
  /\ \A c \in Launching(plan') : c \in Chunks /\ plan'[c] = "launch"
BY DEF Recovering, Launching

Returned ==
  /\ pc' \in {"idle", "down"} /\ slot' = 0 /\ NoPlan /\ NoBatch
  /\ outcome' \in Outcomes

\* A round that returns forgets what it knew; only its success promises more.
LEMMA RoundReturned ==
  ASSUME Inv, Returned, UNCHANGED first,
         quarantined' \subseteq Attempts, adopted' \subseteq Attempts,
         quiet' \in BOOLEAN, faults' \in 0..MaxFaults,
         outcome' = "succeeded" =>
           \A c \in Work : handoff'[c] # {} /\ <<c, Latest(c)'>> \in adopted'
  PROVE  RoundInv'
<1>1. RoundTypes'
  <2>1. first' \in [Chunks -> -1..(Budget - 1)]
    BY DEF Inv, RoundInv, RoundTypes
  <2>2. /\ plan' \in [Chunks -> {"none", "empty", "launch", "recover", "adopt"}]
        /\ ordinal' \in [Chunks -> -1..(Budget - 1)]
        /\ expected' \in [Chunks -> -1..(Budget - 1)]
    BY ChunkFacts DEF Returned, NoPlan
  <2> QED
    BY <2>1, <2>2 DEF RoundTypes, Returned, NoBatch
<1>2. Planned'
  BY DEF Planned, InRound, Phases, Returned, NoPlan
<1>3. Reconciling' /\ Publishing' /\ Claiming' /\ Adopting'
  BY DEF Reconciling, Publishing, Claiming, Adopting, Returned
<1> QED
  BY <1>1, <1>2, <1>3 DEF RoundInv

\* The same for a step that returns with an error.
LEMMA RoundFailed ==
  ASSUME Inv, NEW o \in Outcomes \ {"succeeded"}, Return(o),
         UNCHANGED <<quarantined, first, history>>, adopted' \subseteq Attempts
  PROVE  RoundInv'
<1>1. Returned /\ outcome' # "succeeded"
  BY DEF Return, Returned
<1>2. quarantined' \subseteq Attempts /\ quiet' \in BOOLEAN /\ faults' \in 0..MaxFaults
  BY DEF Inv, RoundInv, RoundTypes, history
<1> QED
  BY <1>1, <1>2, RoundReturned

LEMMA RoundOpenBegin ==
  ASSUME Inv, Open \/ BeginRound
  PROVE  RoundInv'
<1>1. RoundTypes'
  BY DEF Open, BeginRound, Inv, RoundInv, RoundTypes, Phases, Outcomes, plans, batch, history
<1>2. Planned' /\ Reconciling' /\ Publishing' /\ Claiming' /\ Adopting'
  BY DEF Open, BeginRound, Inv, RoundInv, Planned, InRound, Phases, Reconciling,
         Publishing, Claiming, Adopting, plans, disk, Latest
<1> QED
  BY <1>1, <1>2 DEF RoundInv

\* Going on to the first chunk to launch, or past the launches.
LEMMA NextToLaunch ==
  ASSUME NEW S \in SUBSET Chunks, Proceed(S, 0, "claim", "final")
  PROVE  /\ pc' \in {"claim", "final"} /\ slot' \in Chunks \cup {0}
         /\ pc' = "claim" => slot' \in S /\ \A e \in S : ~(e < slot')
<1>1. \A e \in S : e \in Int /\ e >= 0
  BY DEF Chunks
<1>2. CASE \E d \in S : /\ d >= 0 /\ \A e \in S : e >= 0 => d <= e
                        /\ pc' = "claim" /\ slot' = d
  <2>1. PICK d \in S : /\ \A e \in S : e >= 0 => d <= e
                       /\ pc' = "claim" /\ slot' = d
    BY <1>2
  <2>2. \A e \in S : ~(e < d)
    BY <1>1, <2>1
  <2> QED
    BY <2>1, <2>2
<1> QED
  BY <1>2 DEF Proceed

LEMMA RoundObserve ==
  ASSUME Inv, Observe
  PROVE  RoundInv'
<1>1. /\ first' = [c \in Chunks |-> Latest(c)] /\ pc = "observe" /\ outcome = "running"
      /\ UNCHANGED <<records, unstarted, cleaned, handoff, failure, live, quarantined, adopted>>
      /\ UNCHANGED history
  BY DEF Observe, disk, Inv, RoundInv, Planned, InRound, Phases
<1>2. first' \in [Chunks -> -1..(Budget - 1)]
  BY <1>1, ChunkFacts DEF Latest, Inv, DiskInv, DiskTypes
<1>3. CASE \E o \in Outcomes : Return(o) /\ (o = "succeeded" => Work = {})
  <2>1. Returned /\ (outcome' = "succeeded" => Work = {})
    BY <1>3 DEF Return, Returned
  <2>2. RoundTypes'
    BY <1>1, <1>2, <2>1, ChunkFacts DEF Inv, RoundInv, RoundTypes, Returned, NoPlan, NoBatch, history
  <2>3. Planned'
    BY <2>1 DEF Planned, InRound, Phases, Returned, NoPlan
  <2>4. Reconciling' /\ Publishing' /\ Claiming' /\ Adopting'
    BY <2>1 DEF Reconciling, Publishing, Claiming, Adopting, Returned
  <2> QED
    BY <2>2, <2>3, <2>4 DEF RoundInv
<1>4. CASE /\ Consistent /\ Work # {}
           /\ \A c \in Work : DurableState(c) = "incomplete" => records[c] > 0
           /\ plan' = [c \in Chunks |->
                        CASE DurableState(c) = "empty" -> "empty"
                          [] DurableState(c) = "missing" -> "launch"
                          [] DurableState(c) = "handoff" -> "adopt"
                          [] OTHER -> "recover"]
           /\ ordinal' = [c \in Chunks |-> IF plan'[c] = "launch" THEN 0 ELSE None]
           /\ expected' = [c \in Chunks |-> IF plan'[c] = "adopt" THEN Latest(c) ELSE None]
           /\ IF Recovering(plan') # {} THEN pc' = "retry" /\ UNCHANGED slot
              ELSE Proceed(Launching(plan'), 0, "claim", "final")
           /\ UNCHANGED <<batch, outcome>>
  <2>1. /\ pc' \in {"retry", "claim", "final"} /\ slot' \in Chunks \cup {0}
        /\ pc' = "claim" => /\ slot' \in Launching(plan')
                            /\ \A e \in Launching(plan') : ~(e < slot')
    <3>1. Recovering(plan') = {} => Proceed(Launching(plan'), 0, "claim", "final")
      BY <1>4
    <3>2. slot \in Chunks \cup {0}
      BY DEF Inv, RoundInv, RoundTypes
    <3> QED
      BY <1>4, <3>1, <3>2, NextToLaunch DEF Launching
  <2>2. \A c \in Chunks : plan'[c] = "recover" => DurableState(c) \in {"terminal", "incomplete"}
    BY <1>4, DurableStateFacts DEF DurableStates, Inv, DiskInv
  <2>3. \A c \in Chunks : /\ plan'[c] \in {"launch", "recover", "adopt"} => c \in Work
                          /\ plan'[c] \in {"empty", "launch", "recover", "adopt"}
    BY <1>4, DurableStateFacts DEF DurableStates, Work, Inv, DiskInv
  <2>4. \A c \in Chunks : first'[c] = Latest(c)' /\ (plan'[c] = "recover" => records'[c] > 0)
    <3>1. \A c \in failure : records[c] > 0
      BY ChunkFacts DEF Inv, DiskInv, Coherent
    <3> QED
      BY <1>1, <1>4, <2>2, <2>3, <3>1, DurableStateFacts DEF Latest, Inv, DiskInv
  <2>5. ordinal' \in [Chunks -> -1..(Budget - 1)] /\ expected' \in [Chunks -> -1..(Budget - 1)]
    <3>1. \A c \in Chunks : Latest(c) \in -1..(Budget - 1)
      BY ChunkFacts DEF Latest, Inv, DiskInv, DiskTypes
    <3> QED
      BY <1>4, <3>1, ChunkFacts
  <2>6. plan' \in [Chunks -> {"none", "empty", "launch", "recover", "adopt"}]
    BY <1>4, <2>3
  <2>7. RoundTypes'
    BY <1>1, <1>2, <1>4, <2>1, <2>5, <2>6
    DEF Inv, RoundInv, RoundTypes, Phases, batch, history
  <2>8. Planned'
    BY <1>1, <1>4, <2>3 DEF Planned
  <2>9. Reconciling' /\ Publishing' /\ Claiming'
    BY <2>1, <2>4 DEF Reconciling, Publishing, Claiming
  <2>10. Adopting'
    BY <1>1, <1>4, <2>1 DEF Adopting
  <2> QED
    BY <2>7, <2>8, <2>9, <2>10 DEF RoundInv
<1> QED
  BY <1>3, <1>4 DEF Observe, Outcomes

\* The steps over the chunks to recover: the plan only turns "recover" into
\* "adopt", and the phase goes on at a chunk that is still to be recovered.
LEMMA RoundRecovers ==
  ASSUME Inv, pc \in {"retry", "reconcile", "busy"},
         plan' = [c \in Chunks |-> plan'[c]], \A c \in Chunks :
            plan'[c] = plan[c] \/ (plan[c] = "recover" /\ plan'[c] = "adopt"),
         expected' \in [Chunks -> -1..(Budget - 1)],
         ordinal' \in [Chunks -> -1..(Budget - 1)],
         \/ pc' \in {"reconcile", "publish"} /\ slot' \in Chunks /\ plan'[slot'] = "recover"
         \/ pc' = "post" /\ slot' = 0,
         pc' = "publish" => Publishing',
         UNCHANGED <<records, handoff, quarantined, first, adopted, history, batch, outcome>>
  PROVE  RoundInv'
<1>1. \A c \in Chunks : plan'[c] \in {"none", "empty", "launch", "recover", "adopt"}
  BY DEF Inv, RoundInv, RoundTypes
<1>2. plan' \in [Chunks -> {"none", "empty", "launch", "recover", "adopt"}]
  BY <1>1
<1>3. RoundTypes'
  BY <1>2 DEF Inv, RoundInv, RoundTypes, Phases, batch, history
<1>4. Planned'
  BY DEF Inv, RoundInv, Planned, InRound, Phases
<1>5. Reconciling'
  BY DEF Inv, RoundInv, Reconciling, Latest
<1>6. Publishing' /\ Claiming'
  BY DEF Publishing, Claiming
<1>7. Adopting'
  BY DEF Inv, RoundInv, Planned, InRound, Phases, Adopting
<1> QED
  BY <1>3, <1>4, <1>5, <1>6, <1>7 DEF RoundInv

\* Going on among the chunks to recover.
LEMMA NextToRecover ==
  ASSUME NEW c \in Int, Proceed(Recovering(plan'), c, "reconcile", "post")
  PROVE  \/ pc' = "reconcile" /\ slot' \in Chunks /\ plan'[slot'] = "recover"
         \/ pc' = "post" /\ slot' = 0
BY PlanMembersNext DEF Proceed

LEMMA RoundObserveAgain ==
  ASSUME Inv, ObserveAgain
  PROVE  RoundInv'
<1>1. pc = "retry" /\ UNCHANGED <<records, handoff, quarantined, first, adopted, history>>
  BY DEF ObserveAgain, disk
<1>2. CASE Return("observation_failed")
  BY <1>1, <1>2, RoundFailed DEF Outcomes, Inv, RoundInv, RoundTypes
<1>3. CASE /\ plan' = [c \in Chunks |-> IF c \in Recovering(plan) /\ LateHandoff(c)
                                        THEN "adopt" ELSE plan[c]]
           /\ expected' = [c \in Chunks |-> IF c \in Recovering(plan) /\ LateHandoff(c)
                                            THEN first[c] ELSE expected[c]]
           /\ Proceed(Recovering(plan'), 0, "reconcile", "post")
           /\ UNCHANGED <<ordinal, batch, outcome>>
  <2>1. \/ pc' = "reconcile" /\ slot' \in Chunks /\ plan'[slot'] = "recover"
        \/ pc' = "post" /\ slot' = 0
    BY <1>3, NextToRecover
  <2>2. /\ plan' = [c \in Chunks |-> plan'[c]]
        /\ \A c \in Chunks : plan'[c] = plan[c] \/ (plan[c] = "recover" /\ plan'[c] = "adopt")
    BY <1>3, PlanMembers
  <2>3. /\ expected' \in [Chunks -> -1..(Budget - 1)] /\ ordinal' \in [Chunks -> -1..(Budget - 1)]
    BY <1>3 DEF Inv, RoundInv, RoundTypes
  <2> QED
    BY <1>1, <1>3, <2>1, <2>2, <2>3, RoundRecovers
<1> QED
  BY <1>2, <1>3 DEF ObserveAgain

LEMMA RoundAdoptLate ==
  ASSUME Inv, NEW c \in Work, pc \in {"reconcile", "busy"}, slot = c, AdoptLate(c),
         UNCHANGED <<records, handoff, quarantined, first, adopted, history>>
  PROVE  RoundInv'
<1>1. c \in Chunks /\ c + 1 \in Int /\ plan[c] = "recover"
  BY ChunkFacts DEF Inv, RoundInv, Reconciling
<1>2. /\ plan' = [plan EXCEPT ![c] = "adopt"] /\ expected' = [expected EXCEPT ![c] = first[c]]
      /\ UNCHANGED <<ordinal, batch, outcome>>
      /\ Proceed(Recovering(plan'), c + 1, "reconcile", "post")
  BY DEF AdoptLate
<1>3. \/ pc' = "reconcile" /\ slot' \in Chunks /\ plan'[slot'] = "recover"
      \/ pc' = "post" /\ slot' = 0
  BY <1>1, <1>2, NextToRecover
<1>4. /\ plan' = [d \in Chunks |-> plan'[d]]
      /\ \A d \in Chunks : plan'[d] = plan[d] \/ (plan[d] = "recover" /\ plan'[d] = "adopt")
  BY <1>1, <1>2 DEF Inv, RoundInv, RoundTypes
<1>5. /\ expected' \in [Chunks -> -1..(Budget - 1)] /\ ordinal' \in [Chunks -> -1..(Budget - 1)]
  BY <1>1, <1>2 DEF Inv, RoundInv, RoundTypes
<1> QED
  BY <1>2, <1>3, <1>4, <1>5, RoundRecovers

LEMMA RoundBusy ==
  ASSUME Inv, NEW c \in Work, RetryBusy(c) \/ TryAdoptLateHandoff(c)
  PROVE  RoundInv'
<1>1. CASE RetryBusy(c)
  <2>1. RoundTypes' /\ Planned'
    BY <1>1 DEF RetryBusy, Inv, RoundInv, RoundTypes, Planned, InRound, Phases, plans, batch, history
  <2>2. Reconciling' /\ Publishing' /\ Claiming'
    BY <1>1 DEF RetryBusy, Inv, RoundInv, Reconciling, Publishing, Claiming, plans, disk, Latest
  <2>3. Adopting'
    BY <1>1 DEF RetryBusy, Inv, RoundInv, Planned, InRound, Phases, Adopting
  <2> QED
    BY <2>1, <2>2, <2>3 DEF RoundInv
<1>2. CASE TryAdoptLateHandoff(c)
  <2>1. /\ pc \in {"reconcile", "busy"} /\ slot = c
        /\ UNCHANGED <<records, handoff, quarantined, first, adopted, history>>
    BY <1>2 DEF TryAdoptLateHandoff, disk
  <2>2. CASE AdoptLate(c)
    BY <2>1, <2>2, RoundAdoptLate
  <2>3. CASE \E o \in Outcomes \ {"succeeded"} : Return(o)
    BY <2>1, <2>3, RoundFailed DEF Inv, RoundInv, RoundTypes
  <2> QED
    BY <1>2, <2>2, <2>3 DEF TryAdoptLateHandoff, Outcomes
<1> QED
  BY <1>1, <1>2

LEMMA RoundReconcile ==
  ASSUME Inv, NEW c \in Work, Reconcile(c)
  PROVE  RoundInv'
<1>1. /\ pc = "reconcile" /\ slot = c /\ ~Locked(<<c, first[c]>>)
      /\ UNCHANGED <<records, unstarted, handoff, failure, live>>
      /\ UNCHANGED <<quarantined, first, adopted, history>>
  BY DEF Reconcile
<1>2. c \in Chunks /\ c + 1 \in Int /\ plan[c] = "recover" /\ first[c] = Latest(c)
  BY <1>1, ChunkFacts DEF Inv, RoundInv, Reconciling
<1>3. records[c] \in 0..Budget
  BY <1>2 DEF Inv, DiskInv, DiskTypes
<1>4. CASE AdoptLate(c)
  BY <1>1, <1>4, RoundAdoptLate
<1>5. CASE Return("attempt_reconciliation_failed")
  BY <1>1, <1>5, RoundFailed DEF Outcomes, Inv, RoundInv, RoundTypes
<1>6. CASE /\ failure \subseteq {c} /\ handoff[c] = {}
           /\ records[c] >= Budget /\ pc' = "publish" /\ UNCHANGED <<slot, ordinal>>
           /\ UNCHANGED <<plan, expected, batch, outcome>>
  <2>1. Abandoned(c)
    BY <1>1, <1>2, FreeLatest DEF Inv
  <2>2. records[c] = Budget
    BY <1>3, <1>6, ChunkFacts
  <2>3. Publishing'
    BY <1>1, <1>6, <2>1, <2>2 DEF Publishing, Abandoned
  <2>4. plan' = [d \in Chunks |-> plan'[d]] /\ ordinal' \in [Chunks -> -1..(Budget - 1)]
        /\ expected' \in [Chunks -> -1..(Budget - 1)] /\ slot' \in Chunks /\ plan'[slot'] = "recover"
    BY <1>1, <1>2, <1>6 DEF Inv, RoundInv, RoundTypes
  <2> QED
    BY <1>1, <1>6, <2>3, <2>4, RoundRecovers
<1>7. CASE /\ ~(records[c] >= Budget)
           /\ ordinal' = [ordinal EXCEPT ![c] = first[c] + 1]
           /\ Proceed(Recovering(plan), c + 1, "reconcile", "post")
           /\ UNCHANGED <<plan, expected, batch, outcome>>
  <2>1. first[c] + 1 \in -1..(Budget - 1)
    BY <1>2, <1>3, <1>7, ChunkFacts DEF Latest
  <2>2. \/ pc' = "reconcile" /\ slot' \in Chunks /\ plan'[slot'] = "recover"
        \/ pc' = "post" /\ slot' = 0
    BY <1>7, PlanMembers DEF Proceed
  <2>3. plan' = [d \in Chunks |-> plan'[d]] /\ ordinal' \in [Chunks -> -1..(Budget - 1)]
        /\ expected' \in [Chunks -> -1..(Budget - 1)]
    BY <1>7, <2>1 DEF Inv, RoundInv, RoundTypes
  <2> QED
    BY <1>1, <1>7, <2>2, <2>3, RoundRecovers
<1> QED
  BY <1>4, <1>5, <1>6, <1>7 DEF Reconcile, ReconcileHeld

LEMMA RoundObserveReconciled ==
  ASSUME Inv, ObserveReconciled
  PROVE  RoundInv'
<1>1. pc = "post" /\ UNCHANGED <<records, handoff, failure, cleaned, quarantined, first, adopted, history>>
  BY DEF ObserveReconciled, disk
<1>2. CASE Return("observation_failed")
  BY <1>1, <1>2, RoundFailed DEF Outcomes, Inv, RoundInv, RoundTypes
<1>3. CASE /\ plan' = [c \in Chunks |-> IF plan[c] = "recover" THEN "launch" ELSE plan[c]]
           /\ Proceed(Launching(plan'), 0, "claim", "final")
           /\ UNCHANGED <<ordinal, expected, batch, outcome>>
  <2>1. /\ pc' \in {"claim", "final"} /\ slot' \in Chunks \cup {0}
        /\ pc' = "claim" => /\ slot' \in Launching(plan')
                            /\ \A e \in Launching(plan') : ~(e < slot')
    <3>1. Proceed(Launching(plan'), 0, "claim", "final")
      BY <1>3
    <3> QED
      BY <3>1, NextToLaunch DEF Launching
  <2>2. plan' \in [Chunks -> {"none", "empty", "launch", "recover", "adopt"}]
    BY <1>3 DEF Inv, RoundInv, RoundTypes
  <2>3. RoundTypes'
    BY <1>1, <1>3, <2>1, <2>2 DEF Inv, RoundInv, RoundTypes, Phases, batch, history
  <2>4. Planned'
    BY <1>1, <1>3 DEF Inv, RoundInv, Planned, InRound, Phases
  <2>5. Reconciling' /\ Publishing' /\ Claiming'
    BY <2>1 DEF Reconciling, Publishing, Claiming
  <2>6. Adopting'
    BY <1>1, <1>3, <2>1 DEF Inv, RoundInv, Planned, InRound, Phases, Adopting
  <2> QED
    BY <2>3, <2>4, <2>5, <2>6 DEF RoundInv
<1> QED
  BY <1>2, <1>3 DEF ObserveReconciled

LEMMA RoundClaimAttempt ==
  ASSUME Inv, NEW c \in Work, ClaimAttempt(c)
  PROVE  RoundInv'
<1>1. /\ pc = "claim" /\ slot = c
      /\ UNCHANGED <<records, cleaned, handoff, failure, live, quarantined, first, adopted, history>>
  BY DEF ClaimAttempt
<1>2. CASE Return("attempt_preparation_failed")
  BY <1>1, <1>2, RoundFailed DEF Outcomes, Inv, RoundInv, RoundTypes
<1>3. CASE /\ failure = {} /\ handoff[c] = {} /\ records[c] = ordinal[c]
           /\ \A o \in Ordinals : o < ordinal[c] => ~Locked(<<c, o>>)
           /\ pc' = "start" /\ UNCHANGED <<slot, plans, batch, outcome>>
  <2>1. Abandoned(c)
    <3> SUFFICES ASSUME NEW a \in live, a[1] = c PROVE FALSE
      BY DEF Abandoned
    <3>1. a \in Attempts /\ a[2] = Latest(a[1])
      BY DEF Inv, DiskInv, DiskTypes, ChildUndisturbed
    <3>2. /\ a = <<c, a[2]>> /\ a[2] \in Ordinals /\ a[2] \in Int
          /\ a[2] = records[c] - 1
      BY <3>1, AttemptPair DEF Latest
    <3>3. a[2] < ordinal[c]
      <4>1. ordinal[c] \in Int
        BY ChunkFacts DEF Inv, RoundInv, RoundTypes
      <4> QED
        BY <1>3, <3>2, <4>1
    <3> QED
      BY <1>3, <3>2, <3>3 DEF Locked
  <2>2. RoundTypes' /\ Planned'
    BY <1>1, <1>3
    DEF Inv, RoundInv, RoundTypes, Planned, InRound, Phases, plans, batch, history
  <2>3. Claiming'
    BY <1>1, <1>3, <2>1 DEF Inv, RoundInv, Claiming, Started, Launching, Abandoned, Latest, plans
  <2>4. Reconciling' /\ Publishing'
    BY <1>3 DEF Reconciling, Publishing
  <2>5. Adopting'
    BY <1>1, <1>3 DEF Inv, RoundInv, Planned, InRound, Phases, Adopting
  <2> QED
    BY <2>2, <2>3, <2>4, <2>5 DEF RoundInv
<1> QED
  BY <1>2, <1>3 DEF ClaimAttempt

LEMMA RoundStartAttempt ==
  ASSUME Inv, NEW c \in Work, StartAttempt(c)
  PROVE  RoundInv'
<1>1. /\ pc = "start" /\ slot = c /\ records[c] = ordinal[c] /\ failure = {}
      /\ c \in Launching(plan) /\ \A d \in Launching(plan) : d < c => Started(d)
      /\ records' = [records EXCEPT ![c] = records[c] + 1]
      /\ UNCHANGED <<cleaned, failure, quarantined, first, plans, batch, adopted, outcome, history>>
  BY DEF StartAttempt, Inv, RoundInv, Claiming
<1>2. /\ c \in Chunks /\ records[c] \in 0..Budget /\ ordinal[c] \in -1..(Budget - 1)
      /\ records'[c] = records[c] + 1 /\ \A d \in Chunks : d # c => records'[d] = records[d]
  BY <1>1, ChunkFacts DEF Inv, DiskInv, DiskTypes, RoundInv, RoundTypes
<1>3. Started(c)'
  <2>1. ordinal[c] \in Ordinals /\ ordinal[c] = Latest(c)' /\ ~(ordinal[c] <= Latest(c))
    BY <1>1, <1>2, ChunkFacts DEF Ordinals, Latest
  <2>2. <<c, ordinal[c]>> \notin cleaned
    BY <2>1 DEF Inv, DiskInv, Coherent
  <2> QED
    BY <1>1, <2>1, <2>2 DEF Started, plans
<1>4. ASSUME NEW d \in Launching(plan), d < c + 1
      PROVE  Started(d)'
  <2>1. CASE d = c
    BY <1>3, <2>1
  <2>2. CASE d # c
    <3>1. d \in Chunks /\ d < c
      BY <1>2, <1>4, <2>2, ChunkFacts DEF Launching
    <3>2. Started(d) /\ records'[d] = records[d]
      BY <1>1, <1>2, <2>2, <3>1
    <3> QED
      BY <1>1, <3>2 DEF Started, Latest, plans
  <2> QED
    BY <2>1, <2>2
<1>5. \/ /\ pc' = "claim" /\ slot' \in Launching(plan)
         /\ \A d \in Launching(plan) : d < slot' => d < c + 1
      \/ pc' = "launch" /\ slot' = 0 /\ \A d \in Launching(plan) : d < c + 1
  <2>1. Proceed(Launching(plan), c + 1, "claim", "launch")
    BY DEF StartAttempt
  <2>2. c \in Int /\ Launching(plan) \subseteq Int
    BY ChunkFacts DEF Launching
  <2> QED
    BY <2>1, <2>2 DEF Proceed
<1>6. UNCHANGED <<plan, ordinal, expected, known, exact, certain>>
  BY <1>1 DEF plans, batch
<1>7. RoundTypes' /\ Planned'
  BY <1>1, <1>5, <1>6, PlanMembers
  DEF Inv, RoundInv, RoundTypes, Planned, InRound, Phases, history
<1>8. Claiming'
  BY <1>4, <1>5, <1>6 DEF Claiming, Launching
<1>9. Reconciling' /\ Publishing' /\ Adopting'
  BY <1>1, <1>5 DEF Reconciling, Publishing, Adopting, Inv, RoundInv, Planned, InRound, Phases
<1> QED
  BY <1>7, <1>8, <1>9 DEF RoundInv

LEMMA RoundLaunch ==
  ASSUME Inv, LaunchBatch \/ LaunchLost
  PROVE  RoundInv'
<1>1. /\ pc = "launch" /\ pc' = "wait" /\ outcome = "running"
      /\ UNCHANGED <<records, handoff, plan, ordinal, expected, slot, first, certain, adopted, outcome>>
  BY DEF LaunchBatch, LaunchLost, disk, plans, Inv, RoundInv, Planned, InRound, Phases
<1>2. /\ exact' \in BOOLEAN /\ quiet' \in BOOLEAN /\ faults' \in 0..MaxFaults
      /\ known' \subseteq Launching(plan)
  <2>1. exact \in BOOLEAN /\ quiet \in BOOLEAN /\ faults \in 0..MaxFaults
    BY DEF Inv, RoundInv, RoundTypes
  <2>2. CASE LaunchBatch
    BY <2>1, <2>2 DEF LaunchBatch, history
  <2>3. CASE LaunchLost
    <3>1. faults < MaxFaults /\ faults' = faults + 1 /\ exact' = FALSE /\ quiet' = FALSE
      BY <2>3 DEF LaunchLost
    <3>2. known' \subseteq Launching(plan)
      BY <2>3 DEF LaunchLost
    <3>3. faults' \in 0..MaxFaults
      BY <2>1, <3>1, WaveAssumption
    <3> QED
      BY <3>1, <3>2, <3>3
  <2> QED
    BY <2>2, <2>3
<1>3. Children(Launching(plan)) \subseteq Attempts
      /\ \A c \in Launching(plan) : c \in Work /\ ordinal[c] \in Ordinals
  <2>1. \A c \in Launching(plan) : c \in Work /\ ordinal[c] \in Ordinals
    <3> SUFFICES ASSUME NEW c \in Launching(plan)
                 PROVE  c \in Work /\ ordinal[c] \in Ordinals
      OBVIOUS
    <3>1. c \in Work
      BY PlanMembers DEF Inv, RoundInv, Planned
    <3>2. ordinal[c] \in Ordinals
      BY <1>1 DEF Inv, RoundInv, Claiming, Started
    <3> QED
      BY <3>1, <3>2
  <2> QED
    BY <2>1 DEF Children, Attempts
<1>4. quarantined' \subseteq Attempts
  BY <1>3 DEF LaunchBatch, LaunchLost, Inv, RoundInv, RoundTypes
<1>5. RoundTypes' /\ Planned'
  BY <1>1, <1>2, <1>3, <1>4 DEF Inv, RoundInv, RoundTypes, Planned, InRound, Phases
<1>6. Reconciling' /\ Publishing' /\ Claiming' /\ Adopting'
  BY <1>1, <1>2, <1>3 DEF Reconciling, Publishing, Claiming, Adopting
<1> QED
  BY <1>5, <1>6 DEF RoundInv

LEMMA RoundWait ==
  ASSUME Inv, EndWait \/ \E c \in Work : Reap(c) \/ WaitUncertain(c)
  PROVE  RoundInv'
<1>1. CASE EndWait
  <2>1. pc = "wait" /\ UNCHANGED <<disk, quarantined, first, adopted, history>>
    BY <1>1 DEF EndWait
  <2>2. CASE \E o \in Outcomes \ {"succeeded"} : Return(o)
    BY <2>1, <2>2, RoundFailed DEF Inv, RoundInv, RoundTypes
  <2>3. CASE pc' = "final" /\ UNCHANGED <<slot, plans, batch, outcome>>
    <3>1. RoundTypes' /\ Planned'
      BY <2>1, <2>3
      DEF Inv, RoundInv, RoundTypes, Planned, InRound, Phases, plans, batch, history
    <3>2. Reconciling' /\ Publishing' /\ Claiming' /\ Adopting'
      BY <2>1, <2>3 DEF Reconciling, Publishing, Claiming, Adopting, Inv, RoundInv,
                        Planned, InRound, Phases
    <3> QED
      BY <3>1, <3>2 DEF RoundInv
  <2> QED
    BY <1>1, <2>2, <2>3 DEF EndWait, Outcomes
<1>2. ASSUME NEW c \in Work, Reap(c) \/ WaitUncertain(c)
      PROVE  RoundInv'
  <2>1. /\ pc = "wait" /\ pc' = "wait" /\ c \in known /\ known' = known \ {c}
        /\ ordinal[c] \in Ordinals
        /\ UNCHANGED <<disk, slot, first, plan, ordinal, expected, exact, adopted, outcome>>
    BY <1>2 DEF Reap, WaitUncertain, plans, Inv, RoundInv, Claiming
  <2>2. certain' \in BOOLEAN /\ quiet' \in BOOLEAN /\ faults' \in 0..MaxFaults
    <3>1. certain \in BOOLEAN /\ quiet \in BOOLEAN /\ faults \in 0..MaxFaults
      BY DEF Inv, RoundInv, RoundTypes
    <3>2. CASE Reap(c)
      BY <3>1, <3>2 DEF Reap, history
    <3>3. CASE WaitUncertain(c)
      <4>1. faults < MaxFaults /\ faults' = faults + 1 /\ certain' = FALSE /\ quiet' = FALSE
        BY <3>3 DEF WaitUncertain
      <4>2. faults' \in 0..MaxFaults
        BY <3>1, <4>1, WaveAssumption
      <4> QED
        BY <4>1, <4>2
    <3> QED
      BY <1>2, <3>2, <3>3
  <2>3. quarantined' \subseteq Attempts
    BY <1>2, <2>1 DEF Reap, WaitUncertain, Attempts, Inv, RoundInv, RoundTypes
  <2>4. RoundTypes' /\ Planned'
    BY <2>1, <2>2, <2>3 DEF Inv, RoundInv, RoundTypes, Planned, InRound, Phases
  <2>5. Reconciling' /\ Publishing' /\ Claiming' /\ Adopting'
    BY <2>1 DEF Reconciling, Publishing, Claiming, Adopting, Inv, RoundInv, Planned, InRound, Phases
  <2> QED
    BY <2>4, <2>5 DEF RoundInv
<1> QED
  BY <1>1, <1>2

LEMMA RoundObserveFinal ==
  ASSUME Inv, ObserveFinal
  PROVE  RoundInv'
<1>1. /\ pc = "final" /\ outcome = "running"
      /\ UNCHANGED <<records, handoff, quarantined, first, adopted, history>>
  BY DEF ObserveFinal, disk, Inv, RoundInv, Planned, InRound, Phases
<1>2. CASE \E o \in Outcomes \ {"succeeded"} : Return(o)
  BY <1>1, <1>2, RoundFailed DEF Inv, RoundInv, RoundTypes
<1>3. CASE ExactHandoffs /\ Proceed(Work, 0, "adopt", "idle") /\ UNCHANGED <<plans, batch, outcome>>
  <2>1. /\ pc' \in {"adopt", "idle"} /\ slot' \in Chunks \cup {0}
        /\ pc' = "adopt" => \A d \in Work : ~(d < slot')
    <3>1. \A d \in Work : d \in Chunks /\ d \in Int /\ d >= 0
      BY DEF Work, Chunks
    <3>2. CASE \E d \in Work : /\ d >= 0 /\ \A e \in Work : e >= 0 => d <= e
                               /\ pc' = "adopt" /\ slot' = d
      <4>1. PICK d \in Work : /\ \A e \in Work : e >= 0 => d <= e
                              /\ pc' = "adopt" /\ slot' = d
        BY <3>2
      <4>2. \A e \in Work : ~(e < d)
        BY <3>1, <4>1
      <4> QED
        BY <3>1, <4>1, <4>2
    <3>3. CASE pc' = "idle" /\ slot' = 0
      BY <3>3
    <3> QED
      BY <1>3, <3>2, <3>3 DEF Proceed
  <2>2. RoundTypes' /\ Planned'
    BY <1>1, <1>3, <2>1 DEF Inv, RoundInv, RoundTypes, Planned, InRound, Phases, plans, batch, history
  <2>3. Reconciling' /\ Publishing' /\ Claiming'
    BY <2>1 DEF Reconciling, Publishing, Claiming
  <2>4. Adopting'
    BY <1>1, <1>3, <2>1 DEF Adopting, ExactHandoffs
  <2> QED
    BY <2>2, <2>3, <2>4 DEF RoundInv
<1> QED
  BY <1>2, <1>3 DEF ObserveFinal, Outcomes

LEMMA RoundAdopt ==
  ASSUME Inv, NEW c \in Work, Adopt(c)
  PROVE  RoundInv'
<1>1. /\ pc = "adopt" /\ slot = c /\ outcome = "running"
      /\ UNCHANGED <<records, handoff, quarantined, first, history>>
      /\ \A d \in Work : handoff[d] # {} /\ (d < c => <<d, Latest(d)>> \in adopted)
  BY DEF Adopt, disk, Inv, RoundInv, Adopting, Planned, InRound, Phases
<1>2. CASE Return("handoff_adoption_failed") /\ UNCHANGED adopted
  BY <1>1, <1>2, RoundFailed DEF Outcomes, Inv, RoundInv, RoundTypes
<1>3. ASSUME adopted' = adopted \cup {<<c, Latest(c)>>}
      PROVE  adopted' \subseteq Attempts /\ \A d \in Work : d < c + 1 => <<d, Latest(d)'>> \in adopted'
  <2>1. Latest(c) \in Ordinals
    <3>1. PICK o \in handoff[c] : TRUE
      BY <1>1
    <3>2. o = Latest(c)
      BY DEF Inv, DiskInv, Coherent
    <3>3. handoff[c] \subseteq Ordinals
      BY ChunkFacts DEF Inv, DiskInv, DiskTypes
    <3> QED
      BY <3>2, <3>3
  <2>2. adopted' \subseteq Attempts
    BY <1>3, <2>1 DEF Attempts, Inv, RoundInv, RoundTypes
  <2>3. ASSUME NEW d \in Work, d < c + 1
        PROVE  <<d, Latest(d)'>> \in adopted'
    <3>1. d = c \/ d < c
      BY <2>3, ChunkFacts
    <3> QED
      BY <1>1, <1>3, <3>1 DEF Latest
  <2> QED
    BY <2>2, <2>3
<1>4. CASE /\ adopted' = adopted \cup {<<c, Latest(c)>>} /\ \E d \in Work : d > c
           /\ Proceed(Work, c + 1, "adopt", "idle") /\ UNCHANGED <<plans, batch, outcome>>
  <2>1. /\ pc' = "adopt" /\ slot' \in Work /\ \A d \in Work : d < slot' => d < c + 1
    <3>1. Work \subseteq Int /\ c \in Int
      BY ChunkFacts
    <3> QED
      BY <1>4, <3>1 DEF Proceed
  <2>2. RoundTypes' /\ Planned'
    BY <1>1, <1>3, <1>4, <2>1, ChunkFacts
    DEF Inv, RoundInv, RoundTypes, Planned, InRound, Phases, plans, batch, history
  <2>3. Reconciling' /\ Publishing' /\ Claiming'
    BY <2>1 DEF Reconciling, Publishing, Claiming
  <2>4. Adopting'
    BY <1>1, <1>3, <1>4, <2>1 DEF Adopting
  <2> QED
    BY <2>2, <2>3, <2>4 DEF RoundInv
<1>5. CASE /\ adopted' = adopted \cup {<<c, Latest(c)>>} /\ ~(\E d \in Work : d > c)
           /\ Return("succeeded")
  <2>1. Returned
    BY <1>5 DEF Return, Returned, Outcomes
  <2>2. \A d \in Work : d < c + 1
    BY <1>5, ChunkFacts
  <2>3. \A d \in Work : handoff'[d] # {} /\ <<d, Latest(d)'>> \in adopted'
    BY <1>1, <1>3, <1>5, <2>2
  <2>4. quarantined' \subseteq Attempts /\ quiet' \in BOOLEAN /\ faults' \in 0..MaxFaults
    BY <1>1 DEF Inv, RoundInv, RoundTypes, history
  <2> QED
    BY <1>1, <1>3, <1>5, <2>1, <2>3, <2>4, RoundReturned
<1> QED
  BY <1>2, <1>4, <1>5 DEF Adopt

LEMMA RoundBroken ==
  ASSUME Inv, CallFails \/ Crash \/ \E c \in Work : PublishFailure(c)
  PROVE  RoundInv'
<1>1. CASE \E c \in Work : PublishFailure(c)
  <2>1. Return("retry_exhausted") /\ UNCHANGED <<quarantined, first, adopted, history>>
    BY <1>1 DEF PublishFailure
  <2> QED
    BY <2>1, RoundFailed DEF Outcomes, Inv, RoundInv, RoundTypes
<1>2. CASE CallFails \/ Crash
  <2>1. Returned /\ outcome' # "succeeded" /\ UNCHANGED first
    BY <1>2 DEF CallFails, Crash, Return, Returned, Outcomes
  <2>2. quarantined' \subseteq Attempts /\ adopted' \subseteq Attempts
    BY <1>2 DEF CallFails, Crash, Inv, RoundInv, RoundTypes
  <2>3. quiet' = FALSE /\ faults' = faults + 1 /\ faults < MaxFaults
    BY <1>2 DEF CallFails, Crash
  <2>4. faults' \in 0..MaxFaults
    BY <2>3, WaveAssumption DEF Inv, RoundInv, RoundTypes
  <2>5. quiet' \in BOOLEAN
    BY <2>3
  <2> QED
    BY <2>1, <2>2, <2>4, <2>5, RoundReturned
<1> QED
  BY <1>1, <1>2

LEMMA RoundChild ==
  ASSUME Inv, NEW a \in Attempts, PublishHandoff(a) \/ ChildExit(a)
  PROVE  RoundInv'
<1>1. /\ UNCHANGED <<records, cleaned, failure, quarantined, pc, slot, first, plan, ordinal,
                     expected, known, exact, certain, adopted, outcome, quiet, faults>>
      /\ live' \subseteq live /\ a \in live
  BY DEF PublishHandoff, ChildExit, disk, plans, batch, history
<1>2. a[1] \in Chunks /\ 0 \in Chunks /\ slot \in Chunks
  <2>1. a[1] \in Chunks
    BY AttemptPair
  <2>2. 0 \in Chunks
    BY <2>1, WaveAssumption DEF Chunks
  <2> QED
    BY <2>1, <2>2 DEF Inv, RoundInv, RoundTypes
<1>3. /\ \A c \in Chunks : c # a[1] => handoff'[c] = handoff[c]
      /\ \A c \in Chunks : handoff[c] \subseteq handoff'[c]
  BY <1>2 DEF PublishHandoff, ChildExit, disk, Inv, DiskInv, DiskTypes
<1>4. RoundTypes' /\ Planned' /\ Reconciling'
  BY <1>1 DEF Inv, RoundInv, RoundTypes, Planned, InRound, Reconciling, Latest
<1>5. Publishing'
  BY <1>1, <1>2, <1>3 DEF Inv, RoundInv, Publishing, Abandoned
<1>6. Claiming'
  BY <1>1, <1>2, <1>3 DEF Inv, RoundInv, Claiming, Abandoned, Started, Launching, Latest
<1>7. Adopting'
  BY <1>1, <1>3, ChunkFacts DEF Inv, RoundInv, Adopting, Latest
<1> QED
  BY <1>4, <1>5, <1>6, <1>7 DEF RoundInv

-----------------------------------------------------------------------------
\* The invariant, and what it gives.

LEMMA NextInv == Inv /\ [Next]_vars => Inv'
<1> SUFFICES ASSUME Inv, [Next]_vars PROVE Inv'
  OBVIOUS
<1>1. CASE Open \/ BeginRound
  BY <1>1, RoundOpenBegin, DiskUntouched DEF Open, BeginRound, disk, Inv, DiskInv, DiskTypes
<1>2. CASE Observe
  BY <1>2, RoundObserve, DiskUntouched DEF Observe, disk, Inv, DiskInv, DiskTypes
<1>3. CASE ObserveAgain
  BY <1>3, RoundObserveAgain, DiskUntouched DEF ObserveAgain, disk, Inv, DiskInv, DiskTypes
<1>4. CASE ObserveReconciled
  BY <1>4, RoundObserveReconciled, DiskUntouched
  DEF ObserveReconciled, disk, Inv, DiskInv, DiskTypes
<1>5. CASE ObserveFinal
  BY <1>5, RoundObserveFinal, DiskUntouched DEF ObserveFinal, disk, Inv, DiskInv, DiskTypes
<1>6. CASE LaunchBatch
  BY <1>6, RoundLaunch, DiskLaunch DEF LaunchBatch, Inv
<1>7. CASE LaunchLost
  BY <1>7, RoundLaunch, DiskLaunch DEF LaunchLost, Inv
<1>8. CASE EndWait
  BY <1>8, RoundWait, DiskUntouched DEF EndWait, disk, Inv, DiskInv, DiskTypes
<1>9. ASSUME NEW c \in Work, RetryBusy(c) \/ TryAdoptLateHandoff(c)
      PROVE  Inv'
  BY <1>9, RoundBusy, DiskUntouched
  DEF RetryBusy, TryAdoptLateHandoff, disk, Inv, DiskInv, DiskTypes
<1>10. ASSUME NEW c \in Work, Reconcile(c)
       PROVE  Inv'
  BY <1>10, RoundReconcile, DiskReconcile DEF Inv
<1>11. ASSUME NEW c \in Work, PublishFailure(c)
       PROVE  Inv'
  BY <1>11, RoundBroken, DiskPublishFailure DEF Inv
<1>12. ASSUME NEW c \in Work, ClaimAttempt(c)
       PROVE  Inv'
  <2>1. UNCHANGED <<records, cleaned, handoff, failure, live>> /\ unstarted' \subseteq Work
    BY <1>12 DEF ClaimAttempt, Inv, DiskInv, DiskTypes
  <2> QED
    BY <2>1, <1>12, RoundClaimAttempt, DiskUntouched DEF Inv
<1>13. ASSUME NEW c \in Work, StartAttempt(c)
       PROVE  Inv'
  BY <1>13, RoundStartAttempt, DiskStartAttempt DEF Inv
<1>14. ASSUME NEW c \in Work, Reap(c) \/ WaitUncertain(c)
       PROVE  Inv'
  BY <1>14, RoundWait, DiskUntouched DEF Reap, WaitUncertain, disk, Inv, DiskInv, DiskTypes
<1>15. ASSUME NEW c \in Work, Adopt(c)
       PROVE  Inv'
  BY <1>15, RoundAdopt, DiskUntouched DEF Adopt, disk, Inv, DiskInv, DiskTypes
<1>16. CASE CallFails \/ Crash
  BY <1>16, RoundBroken, DiskUntouched DEF CallFails, Crash, disk, Inv, DiskInv, DiskTypes
<1>17. ASSUME NEW a \in Attempts, PublishHandoff(a)
       PROVE  Inv'
  BY <1>17, RoundChild, DiskPublishHandoff DEF Inv
<1>18. ASSUME NEW a \in Attempts, ChildExit(a)
       PROVE  Inv'
  BY <1>18, RoundChild, DiskUntouched DEF ChildExit, disk, Inv, DiskInv, DiskTypes
<1>19. CASE UNCHANGED vars
  <2>1. RoundInv'
    BY <1>19 DEF vars, disk, plans, batch, history, Inv, RoundInv, RoundTypes, Planned, InRound,
                 Reconciling, Publishing, Claiming, Adopting, Started, Abandoned, Launching, Latest
  <2> QED
    BY <1>19, <2>1, DiskUntouched DEF vars, disk, Inv, DiskInv, DiskTypes
<1> QED
  BY <1>1, <1>2, <1>3, <1>4, <1>5, <1>6, <1>7, <1>8, <1>9, <1>10, <1>11, <1>12, <1>13, <1>14,
     <1>15, <1>16, <1>17, <1>18, <1>19
  DEF Next, RoundStep, Fault

\* Inv holds in every state of a wave, whatever crashes and whatever arrives late.
THEOREM WaveInvariant == Spec => []Inv
<1>1. Init => Inv
  BY InitInv
<1>2. Inv /\ [Next]_vars => Inv'
  BY NextInv
<1> QED
  BY <1>1, <1>2, PTL DEF Spec

\* TypeOK: in particular no chunk gets more attempts than the manifest allows.
THEOREM WaveTypeCorrect == Spec => []TypeOK
<1>1. Inv => TypeOK
  BY DEF Inv, DiskInv, RoundInv, DiskTypes, RoundTypes, TypeOK
<1> QED
  BY <1>1, WaveInvariant, PTL

\* ChildUndisturbed: no round of any master overtakes a child that may still
\* publish, by a rival attempt, a rollback of its lease or a terminal record.
THEOREM ChildrenUndisturbed == Spec => []ChildUndisturbed
<1>1. Inv => ChildUndisturbed
  BY DEF Inv, DiskInv
<1> QED
  BY <1>1, WaveInvariant, PTL

\* HandoffKept: no reconciliation rolls back the lease of a published handoff.
THEOREM HandoffsKept == Spec => []HandoffKept
<1>1. Inv => HandoffKept
  BY DEF Inv, DiskInv
<1> QED
  BY <1>1, WaveInvariant, PTL

\* SuccessIsExact: a round that succeeds holds the one handoff of every chunk.
THEOREM SuccessExact == Spec => []SuccessIsExact
<1>1. Inv => SuccessIsExact
  <2> SUFFICES ASSUME Inv, outcome = "succeeded", NEW c \in Work
               PROVE  \E o \in Ordinals : handoff[c] = {o} /\ <<c, o>> \in adopted
    BY DEF SuccessIsExact
  <2>1. handoff[c] # {} /\ <<c, Latest(c)>> \in adopted
    BY DEF Inv, RoundInv, Adopting
  <2>2. handoff[c] \subseteq {Latest(c)} /\ handoff[c] \subseteq Ordinals
    BY ChunkFacts DEF Inv, DiskInv, Coherent, DiskTypes
  <2>3. handoff[c] = {Latest(c)} /\ Latest(c) \in Ordinals
    BY <2>1, <2>2
  <2> QED
    BY <2>1, <2>3
<1> QED
  BY <1>1, WaveInvariant, PTL

-----------------------------------------------------------------------------
\* A quiet round moves the wave on.

Still == live = {} /\ quarantined = {}

\* The plan agrees with the disk, which nobody else writes.
Fits(c) ==
  /\ plan[c] \in {"empty", "launch", "adopt", "recover"}
  /\ plan[c] = "empty" <=> c \in Empty
  /\ plan[c] = "launch" => records[c] = 0 /\ handoff[c] = {} /\ ordinal[c] = 0
  /\ plan[c] = "adopt" => handoff[c] = {expected[c]}
  /\ plan[c] = "recover" => handoff[c] = {} /\ records[c] > 0
  /\ c \in failure => plan[c] = "recover"

Renewed(c) == ordinal[c] = first[c] + 1
Ready(c) == records[c] = ordinal[c] /\ handoff[c] = {} /\ first[c] = ordinal[c] - 1
Moved == \E c \in Work : Latest(c) > first[c]
AllThere ==
  /\ Still /\ failure = {} /\ Work # {}
  /\ \A c \in Work : plan[c] = "adopt" /\ handoff[c] = {expected[c]}

\* What is still to come of a quiet round in each phase.  An abandoned
\* reservation may stop it anywhere, and then it is there at the end.
Quiet == quiet =>
  /\ pc \notin {"down", "busy"}
  /\ pc \in {"observe", "retry", "reconcile", "post", "claim", "start", "launch"} => Still
  /\ pc \in {"retry", "reconcile", "post"} => Work # {} /\ \A c \in Chunks : Fits(c)
  /\ pc = "reconcile" => /\ slot \in Recovering(plan)
                         /\ \A c \in Recovering(plan) : c < slot => Renewed(c)
  /\ pc = "post" => failure = {} /\ \A c \in Recovering(plan) : Renewed(c)
  /\ pc \in {"claim", "start"} => /\ failure = {}
                                  /\ \A c \in Launching(plan) :
                                       IF c < slot THEN Latest(c) > first[c] ELSE Ready(c)
  /\ pc \in {"launch", "wait"} => Moved
  /\ pc \in {"final", "adopt"} => Moved \/ AllThere
  /\ pc = "idle" /\ unstarted = {} => Moved \/ outcome \in {"succeeded", "retry_exhausted"}

LEMMA DurableStateCases ==
  ASSUME DiskTypes, NEW c \in Chunks
  PROVE  /\ (DurableState(c) = "terminal") <=> (c \in failure)
         /\ (DurableState(c) = "handoff") <=> (c \notin Empty \cup failure /\ handoff[c] # {})
         /\ (DurableState(c) = "incomplete") <=>
              (c \notin Empty \cup failure /\ handoff[c] = {} /\ (records[c] > 0 \/ c \in unstarted))
         /\ (DurableState(c) = "missing") <=>
              (c \notin Empty \cup failure /\ handoff[c] = {} /\ ~(records[c] > 0) /\ c \notin unstarted)
<1>1. c \in failure => c \notin Empty
  BY DEF DiskTypes, Work
<1>2. CASE c \in Empty
  BY <1>1, <1>2 DEF DurableState
<1>3. CASE c \in failure
  BY <1>1, <1>3 DEF DurableState
<1>4. CASE c \notin Empty \cup failure /\ handoff[c] # {}
  BY <1>4 DEF DurableState
<1>5. CASE c \notin Empty \cup failure /\ handoff[c] = {} /\ (records[c] > 0 \/ c \in unstarted)
  BY <1>5 DEF DurableState
<1>6. CASE c \notin Empty \cup failure /\ handoff[c] = {} /\ ~(records[c] > 0) /\ c \notin unstarted
  BY <1>6 DEF DurableState
<1> QED
  BY <1>2, <1>3, <1>4, <1>5, <1>6

\* An observation never finds the records of a wave to contradict each other.
LEMMA AlwaysConsistent ==
  ASSUME DiskInv
  PROVE  Consistent /\ ~(Cardinality(failure) > 1)
<1>1. Consistent
  BY DEF DiskInv, Coherent, Consistent
<1>2. CASE failure = {}
  BY <1>1, <1>2, FS_EmptySet
<1>3. ASSUME NEW c \in failure
      PROVE  ~(Cardinality(failure) > 1)
  <2>1. failure = {c}
    BY <1>3 DEF DiskInv, Coherent
  <2> QED
    BY <2>1, FS_Singleton
<1> QED
  BY <1>1, <1>2, <1>3

\* Going on from c: past it, at the first chunk of S or in the next phase.
LEMMA NextFrom ==
  ASSUME NEW S \in SUBSET Chunks, NEW c \in Int, NEW p, NEW q, Proceed(S, c, p, q)
  PROVE  \/ /\ pc' = p /\ slot' \in S /\ slot' >= c
            /\ \A e \in S : e < slot' => e < c
         \/ pc' = q /\ \A e \in S : e < c
<1>1. \A e \in S : e \in Int
  BY DEF Chunks
<1>2. CASE \E d \in S : /\ d >= c /\ \A e \in S : e >= c => d <= e
                        /\ pc' = p /\ slot' = d
  <2>1. PICK d \in S : /\ d >= c /\ \A e \in S : e >= c => d <= e
                       /\ pc' = p /\ slot' = d
    BY <1>2
  <2>2. \A e \in S : e < d => e < c
    BY <1>1, <2>1
  <2> QED
    BY <2>1, <2>2
<1>3. CASE (\A d \in S : d < c) /\ pc' = q /\ slot' = 0
  BY <1>3
<1> QED
  BY <1>2, <1>3 DEF Proceed

\* A chunk given up is the only one to be recovered.
LEMMA RecoveringAll ==
  ASSUME Inv, \A c \in Chunks : Fits(c)
  PROVE  /\ failure = {} => Recovering(plan) = {c \in Chunks : plan[c] = "recover"}
         /\ \A c \in failure : Recovering(plan) = {c} /\ failure = {c}
<1>1. failure = {} => Recovering(plan) = {c \in Chunks : plan[c] = "recover"}
  BY DEF Recovering
<1>2. ASSUME NEW c \in failure
      PROVE  Recovering(plan) = {c} /\ failure = {c}
  <2>1. failure = {c} /\ c \in Chunks
    BY ChunkFacts DEF Inv, DiskInv, Coherent, DiskTypes
  <2>2. plan[c] = "recover"
    BY <2>1 DEF Fits
  <2> QED
    BY <2>1, <2>2 DEF Recovering
<1> QED
  BY <1>1, <1>2

LEMMA QuietBegin ==
  ASSUME Quiet, Open \/ BeginRound
  PROVE  Quiet'
BY DEF Open, BeginRound, Quiet, Still, history

\* Steps that end the quiet.
LEMMA QuietFault ==
  ASSUME CallFails \/ Crash \/ LaunchLost \/ \E c \in Work : WaitUncertain(c)
  PROVE  Quiet'
<1>1. quiet' = FALSE
  BY DEF CallFails, Crash, LaunchLost, WaitUncertain
<1> QED
  BY <1>1 DEF Quiet

LEMMA QuietObserve ==
  ASSUME Inv, Quiet, Observe
  PROVE  Quiet'
<1> SUFFICES ASSUME quiet, Still PROVE Quiet'
  BY DEF Quiet, Observe, history
<1>1. /\ pc = "observe" /\ first' = [c \in Chunks |-> Latest(c)]
      /\ UNCHANGED <<records, unstarted, handoff, failure, live, quarantined>> /\ DiskTypes
  BY DEF Observe, disk, Inv, DiskInv
<1>2. Consistent /\ ~(Cardinality(failure) > 1)
  BY AlwaysConsistent DEF Inv
<1>3. CASE (\E c \in Work : DurableState(c) = "incomplete" /\ records[c] = 0) /\ Return("incomplete_attempt")
  <2>1. PICK c \in Work : DurableState(c) = "incomplete" /\ records[c] = 0
    BY <1>3
  <2>2. c \in unstarted'
    BY <1>1, <2>1, DurableStateCases, ChunkFacts
  <2>3. pc' = "idle"
    BY <1>3 DEF Return
  <2> QED
    BY <2>2, <2>3 DEF Quiet
<1>4. CASE Return("succeeded")
  BY <1>4 DEF Return, Quiet
<1>5. CASE /\ Work # {}
           /\ \A c \in Work : DurableState(c) = "incomplete" => records[c] > 0
           /\ plan' = [c \in Chunks |->
                        CASE DurableState(c) = "empty" -> "empty"
                          [] DurableState(c) = "missing" -> "launch"
                          [] DurableState(c) = "handoff" -> "adopt"
                          [] OTHER -> "recover"]
           /\ ordinal' = [c \in Chunks |-> IF plan'[c] = "launch" THEN 0 ELSE None]
           /\ expected' = [c \in Chunks |-> IF plan'[c] = "adopt" THEN Latest(c) ELSE None]
           /\ IF Recovering(plan') # {} THEN pc' = "retry" /\ UNCHANGED slot
              ELSE Proceed(Launching(plan'), 0, "claim", "final")
  <2>1. ASSUME NEW c \in Chunks
        PROVE  /\ plan'[c] = "empty" <=> DurableState(c) = "empty"
               /\ plan'[c] = "launch" <=> DurableState(c) = "missing"
               /\ plan'[c] = "adopt" <=> DurableState(c) = "handoff"
               /\ plan'[c] = "recover" <=> DurableState(c) \in {"terminal", "incomplete"}
               /\ plan'[c] \in {"empty", "launch", "adopt", "recover"}
    <3>1. /\ DurableState(c) = "empty" => plan'[c] = "empty"
          /\ DurableState(c) = "missing" => plan'[c] = "launch"
          /\ DurableState(c) = "handoff" => plan'[c] = "adopt"
          /\ DurableState(c) = "terminal" => plan'[c] = "recover"
          /\ DurableState(c) = "incomplete" => plan'[c] = "recover"
      BY <1>5
    <3>2. DurableState(c) \in {"empty", "terminal", "handoff", "incomplete", "missing"}
      BY <1>1, DurableStateFacts DEF DurableStates
    <3> QED
      BY <3>1, <3>2
  <2>2. ASSUME NEW c \in Chunks
        PROVE  Fits(c)' /\ first'[c] = Latest(c)
    <3>1. c \in failure => records[c] > 0 /\ handoff[c] = {}
      BY ChunkFacts DEF Inv, DiskInv, Coherent
    <3>2. records[c] \in 0..Budget
      BY <1>1 DEF DiskTypes
    <3>3. handoff[c] # {} /\ c \notin Empty => handoff[c] = {Latest(c)}
      BY DEF Inv, DiskInv, Coherent, Work
    <3>4. c \notin Empty /\ c \notin failure /\ DurableState(c) = "incomplete" => records[c] > 0
      BY <1>5 DEF Work
    <3>5. plan'[c] = "adopt" => handoff[c] = {expected'[c]}
      BY <1>1, <1>5, <2>1, <3>3, DurableStateCases
    <3>6. plan'[c] = "launch" => records[c] = 0 /\ handoff[c] = {} /\ ordinal'[c] = 0
      BY <1>1, <1>5, <2>1, <3>2, DurableStateCases
    <3>7. plan'[c] = "recover" => handoff[c] = {} /\ records[c] > 0
      BY <1>1, <2>1, <3>1, <3>4, DurableStateCases
    <3>8. c \in failure => plan'[c] = "recover"
      BY <1>1, <2>1, DurableStateCases
    <3>9. plan'[c] = "empty" <=> c \in Empty
      BY <1>1, <2>1, DurableStateFacts
    <3> QED
      BY <1>1, <2>1, <3>5, <3>6, <3>7, <3>8, <3>9 DEF Fits
  <2>3. CASE Recovering(plan') # {}
    BY <1>1, <1>5, <2>2, <2>3 DEF Quiet, Still
  <2>4. CASE Recovering(plan') = {}
    <3>1. \A c \in Chunks : plan'[c] # "recover"
      <4> SUFFICES ASSUME NEW c \in Chunks, plan'[c] = "recover" PROVE FALSE
        OBVIOUS
      <4>1. \A d \in failure' : d \in Chunks /\ plan'[d] = "recover"
        BY <1>1, <2>2, ChunkFacts DEF Fits, DiskTypes
      <4>2. failure' = failure
        BY <1>1
      <4> QED
        BY <2>4, <4>1, <4>2 DEF Recovering
    <3>2. failure = {}
      BY <1>1, <2>2, <3>1, ChunkFacts DEF Fits, DiskTypes
    <3>3. Launching(plan') \in SUBSET Chunks /\ Proceed(Launching(plan'), 0, "claim", "final")
      BY <1>5, <2>4 DEF Launching
    <3>4. \A c \in Launching(plan') : Ready(c)'
      <4> SUFFICES ASSUME NEW c \in Launching(plan') PROVE Ready(c)'
        OBVIOUS
      <4>1. c \in Chunks /\ plan'[c] = "launch"
        BY PlanMembersNext
      <4>2. records[c] = 0 /\ handoff[c] = {} /\ ordinal'[c] = 0 /\ first'[c] = Latest(c)
        BY <1>1, <2>2, <4>1 DEF Fits
      <4> QED
        BY <1>1, <4>2 DEF Ready, Latest
    <3>5. CASE pc' = "claim"
      BY <1>1, <3>2, <3>3, <3>4, <3>5, NextToLaunch DEF Quiet, Still
    <3>6. CASE pc' = "final" /\ \A e \in Launching(plan') : e < 0
      <4>1. \A c \in Work : plan'[c] = "adopt"
        <5> SUFFICES ASSUME NEW c \in Work PROVE plan'[c] = "adopt"
          OBVIOUS
        <5>1. c \in Chunks /\ c \notin Empty /\ ~(c < 0)
          BY DEF Work, Chunks
        <5>2. plan'[c] # "launch"
          BY <3>6, <5>1 DEF Launching
        <5> QED
          BY <2>2, <3>1, <5>1, <5>2 DEF Fits
      <4>2. AllThere'
        BY <1>1, <1>5, <2>2, <3>2, <4>1, ChunkFacts DEF AllThere, Still, Fits
      <4> QED
        BY <3>6, <4>2 DEF Quiet
    <3> QED
      BY <3>3, <3>5, <3>6, NextFrom
  <2> QED
    BY <2>3, <2>4
<1> QED
  BY <1>2, <1>3, <1>4, <1>5 DEF Observe

LEMMA QuietObserveAgain ==
  ASSUME Inv, Quiet, ObserveAgain
  PROVE  Quiet'
<1> SUFFICES ASSUME quiet PROVE Quiet'
  BY DEF Quiet, ObserveAgain, history
<1>1. /\ pc = "retry" /\ Still /\ Work # {} /\ (\A c \in Chunks : Fits(c)) /\ DiskTypes
      /\ UNCHANGED <<records, unstarted, handoff, failure, live, quarantined, first>>
  BY DEF ObserveAgain, Quiet, disk, Inv, DiskInv
<1>2. ASSUME NEW c \in Recovering(plan)
      PROVE  ~LateHandoff(c) /\ (StillIncomplete(c) \/ c \in failure)
  <2>1. c \in Chunks /\ plan[c] = "recover"
    BY PlanMembers
  <2>2. handoff[c] = {} /\ records[c] > 0 /\ c \notin Empty /\ first[c] = Latest(c)
    BY <1>1, <2>1 DEF Fits, Inv, RoundInv, Reconciling
  <2> QED
    BY <1>1, <2>1, <2>2, DurableStateCases DEF LateHandoff, StillIncomplete
<1>3. Consistent
  BY AlwaysConsistent DEF Inv
<1>4. /\ plan' = [c \in Chunks |-> IF c \in Recovering(plan) /\ LateHandoff(c)
                                   THEN "adopt" ELSE plan[c]]
      /\ expected' = [c \in Chunks |-> IF c \in Recovering(plan) /\ LateHandoff(c)
                                       THEN first[c] ELSE expected[c]]
      /\ Proceed(Recovering(plan'), 0, "reconcile", "post")
      /\ UNCHANGED ordinal
  BY <1>2, <1>3 DEF ObserveAgain
<1>5. \A c \in Chunks : plan'[c] = plan[c] /\ expected'[c] = expected[c]
  BY <1>2, <1>4
<1>6. plan' = plan
  <2>1. plan = [c \in Chunks |-> plan[c]] /\ plan' = [c \in Chunks |-> plan'[c]]
    BY <1>4 DEF Inv, RoundInv, RoundTypes
  <2> QED
    BY <1>5, <2>1
<1>7. \A c \in Chunks : Fits(c)'
  BY <1>1, <1>4, <1>5, <1>6 DEF Fits
<1>8. Recovering(plan)' = Recovering(plan') /\ Recovering(plan') = Recovering(plan)
  BY <1>1, <1>6 DEF Recovering
<1>9. Recovering(plan) \in SUBSET Chunks /\ \A e \in Recovering(plan) : ~(e < 0)
  BY DEF Recovering, Chunks
<1>10. \/ pc' = "reconcile" /\ slot' \in Recovering(plan) /\ \A e \in Recovering(plan) : ~(e < slot')
       \/ pc' = "post" /\ Recovering(plan) = {}
  <2>1. \/ /\ pc' = "reconcile" /\ slot' \in Recovering(plan) /\ slot' >= 0
           /\ \A e \in Recovering(plan) : e < slot' => e < 0
        \/ pc' = "post" /\ \A e \in Recovering(plan) : e < 0
    BY <1>4, <1>8, <1>9, NextFrom
  <2> QED
    BY <1>9, <2>1
<1>11. CASE pc' = "reconcile" /\ slot' \in Recovering(plan) /\ \A e \in Recovering(plan) : ~(e < slot')
  BY <1>1, <1>7, <1>8, <1>11 DEF Quiet, Still
<1>12. CASE pc' = "post" /\ Recovering(plan) = {}
  <2>1. failure = {}
    BY <1>1, <1>12, RecoveringAll
  <2> QED
    BY <1>1, <1>7, <1>8, <1>12, <2>1 DEF Quiet, Still
<1> QED
  BY <1>10, <1>11, <1>12

\* In a quiet round no BaseLock is taken and no handoff comes late.
LEMMA QuietBusy ==
  ASSUME Quiet, NEW c \in Work, RetryBusy(c) \/ TryAdoptLateHandoff(c)
  PROVE  Quiet'
BY DEF Quiet, RetryBusy, TryAdoptLateHandoff, Locked, Still, history

LEMMA QuietReconcile ==
  ASSUME Inv, Quiet, NEW c \in Work, Reconcile(c)
  PROVE  Quiet'
<1> SUFFICES ASSUME quiet PROVE Quiet'
  BY DEF Quiet, Reconcile, history
<1>1. /\ pc = "reconcile" /\ slot = c /\ Still /\ Work # {} /\ (\A d \in Chunks : Fits(d))
      /\ c \in Recovering(plan) /\ \A d \in Recovering(plan) : d < c => Renewed(d)
      /\ DiskTypes /\ UNCHANGED <<records, unstarted, handoff, failure, live, quarantined, first>>
  BY DEF Reconcile, Quiet, Inv, DiskInv
<1>2. c \in Chunks /\ c \in Int /\ plan[c] = "recover" /\ handoff[c] = {}
  BY <1>1, PlanMembers, ChunkFacts DEF Fits
<1>3. failure \subseteq {c}
  BY <1>1, RecoveringAll
<1>4. CASE pc' = "publish"
  BY <1>4 DEF Quiet
<1>5. CASE c \in unstarted /\ Return("attempt_reconciliation_failed")
  <2>1. c \in unstarted' /\ pc' = "idle"
    BY <1>1, <1>5 DEF Return
  <2> QED
    BY <2>1 DEF Quiet
<1>6. CASE /\ records[c] < Budget
           /\ ordinal' = [ordinal EXCEPT ![c] = first[c] + 1]
           /\ Proceed(Recovering(plan), c + 1, "reconcile", "post")
           /\ UNCHANGED <<plan, expected>>
  <2>1. failure = {}
    <3>1. c \notin failure
      BY <1>6, ChunkFacts DEF Inv, DiskInv, Coherent
    <3> QED
      BY <1>3, <3>1
  <2>2. /\ ordinal'[c] = first[c] + 1
        /\ \A d \in Chunks : d # c => ordinal'[d] = ordinal[d]
    BY <1>2, <1>6 DEF Inv, RoundInv, RoundTypes
  <2>3. \A d \in Chunks : Fits(d)'
    BY <1>1, <1>2, <1>6, <2>2 DEF Fits
  <2>4. /\ Recovering(plan)' = Recovering(plan) /\ Recovering(plan) \in SUBSET Chunks
        /\ Recovering(plan) \subseteq Int
    BY <1>1, <1>6, ChunkFacts DEF Recovering
  <2>5. ASSUME NEW d \in Recovering(plan), d < c + 1
        PROVE  Renewed(d)'
    <3>1. d \in Chunks /\ (d = c \/ d < c)
      BY <1>2, <2>4, <2>5
    <3>2. CASE d = c
      BY <1>1, <2>2, <3>2 DEF Renewed
    <3>3. CASE d # c
      BY <1>1, <2>2, <3>1, <3>3 DEF Renewed
    <3> QED
      BY <3>2, <3>3
  <2>6. \/ /\ pc' = "reconcile" /\ slot' \in Recovering(plan)
           /\ \A e \in Recovering(plan) : e < slot' => e < c + 1
        \/ pc' = "post" /\ \A e \in Recovering(plan) : e < c + 1
    <3>1. c + 1 \in Int
      BY <1>2
    <3> QED
      BY <1>6, <2>4, <3>1, NextFrom
  <2> QED
    BY <1>1, <2>1, <2>3, <2>4, <2>5, <2>6 DEF Quiet, Still
<1>7. ~(records[c] >= Budget) => records[c] < Budget
  BY <1>1, <1>2, ChunkFacts DEF DiskTypes
<1> QED
  BY <1>2, <1>3, <1>4, <1>5, <1>6, <1>7 DEF Reconcile, ReconcileHeld

LEMMA QuietPublishFailure ==
  ASSUME Quiet, NEW c \in Work, PublishFailure(c)
  PROVE  Quiet'
BY DEF Quiet, PublishFailure, Return

LEMMA QuietObserveReconciled ==
  ASSUME Inv, Quiet, ObserveReconciled
  PROVE  Quiet'
<1> SUFFICES ASSUME quiet PROVE Quiet'
  BY DEF Quiet, ObserveReconciled, history
<1>1. /\ pc = "post" /\ Still /\ Work # {} /\ (\A c \in Chunks : Fits(c))
      /\ failure = {} /\ (\A c \in Recovering(plan) : Renewed(c)) /\ DiskTypes
      /\ UNCHANGED <<records, unstarted, handoff, failure, live, quarantined, first>>
  BY DEF ObserveReconciled, Quiet, disk, Inv, DiskInv
<1>2. Consistent
  BY AlwaysConsistent DEF Inv
<1>3. Recovering(plan) = {c \in Chunks : plan[c] = "recover"}
  BY <1>1, RecoveringAll
<1>4. CASE AgreesWithPlan
  <2>1. /\ plan' = [c \in Chunks |-> IF plan[c] = "recover" THEN "launch" ELSE plan[c]]
        /\ Proceed(Launching(plan'), 0, "claim", "final")
        /\ UNCHANGED <<ordinal, expected>>
    BY <1>2, <1>4 DEF ObserveReconciled
  <2>2. ASSUME NEW c \in Launching(plan')
        PROVE  Ready(c)'
    <3>1. c \in Chunks /\ plan[c] \in {"launch", "recover"} /\ Fits(c)
      BY <1>1, <2>1, PlanMembersNext
    <3>2. first[c] = Latest(c) /\ records[c] \in 0..Budget
      BY <1>1, <3>1 DEF Inv, RoundInv, Reconciling, DiskTypes
    <3>3. ordinal[c] = records[c] /\ handoff[c] = {}
      <4>1. CASE plan[c] = "launch"
        BY <3>1, <4>1 DEF Fits
      <4>2. CASE plan[c] = "recover"
        <5>1. Renewed(c)
          BY <1>1, <1>3, <3>1, <4>2
        <5> QED
          BY <3>1, <3>2, <4>2, <5>1 DEF Fits, Renewed, Latest
      <4> QED
        BY <3>1, <4>1, <4>2
    <3> QED
      BY <1>1, <2>1, <3>2, <3>3 DEF Ready, Latest
  <2>3. Launching(plan') \in SUBSET Chunks /\ Launching(plan)' = Launching(plan')
    BY DEF Launching
  <2>4. CASE pc' = "claim"
    BY <1>1, <2>1, <2>2, <2>3, <2>4, NextToLaunch DEF Quiet, Still
  <2>5. CASE pc' = "final" /\ \A e \in Launching(plan') : e < 0
    <3>1. ASSUME NEW c \in Work
          PROVE  plan'[c] = "adopt" /\ handoff[c] = {expected[c]}
      <4>1. c \in Chunks /\ c \notin Empty /\ ~(c < 0) /\ Fits(c)
        BY <1>1 DEF Work, Chunks
      <4>2. plan'[c] # "launch"
        BY <2>5, <4>1 DEF Launching
      <4> QED
        BY <2>1, <4>1, <4>2 DEF Fits
    <3> QED
      BY <1>1, <2>1, <2>5, <3>1 DEF Quiet, AllThere, Still
  <2> QED
    BY <2>1, <2>3, <2>4, <2>5, NextFrom
<1>5. CASE ~AgreesWithPlan
  <2>1. pc' = "idle"
    BY <1>5 DEF ObserveReconciled, Return
  <2>2. unstarted # {}
    <3> SUFFICES ASSUME unstarted = {} PROVE AgreesWithPlan
      BY <1>5
    <3> SUFFICES ASSUME NEW c \in Chunks
                 PROVE  CASE plan[c] = "recover" -> StillIncomplete(c)
                          [] plan[c] = "adopt" -> handoff[c] = {expected[c]} /\ c \notin failure
                          [] plan[c] = "launch" -> DurableState(c) = "missing"
                          [] OTHER -> DurableState(c) = "empty"
      BY DEF AgreesWithPlan
    <3>1. Fits(c) /\ first[c] = Latest(c) /\ c \notin failure /\ records[c] \in 0..Budget
      BY <1>1 DEF Inv, RoundInv, Reconciling, DiskTypes
    <3>2. CASE plan[c] = "recover"
      <4>1. StillIncomplete(c)
        BY <1>1, <3>1, <3>2, DurableStateCases DEF Fits, StillIncomplete
      <4> QED
        BY <3>2, <4>1
    <3>3. CASE plan[c] = "adopt"
      <4>1. handoff[c] = {expected[c]}
        BY <3>1, <3>3 DEF Fits
      <4> QED
        BY <3>1, <3>3, <4>1
    <3>4. CASE plan[c] = "launch"
      <4>0. ~(records[c] > 0)
        BY <3>1, <3>4 DEF Fits
      <4>1. DurableState(c) = "missing"
        BY <1>1, <3>1, <3>4, <4>0, DurableStateCases DEF Fits
      <4> QED
        BY <3>4, <4>1
    <3>5. CASE plan[c] = "empty"
      <4>1. DurableState(c) = "empty"
        BY <1>1, <3>1, <3>5, DurableStateFacts DEF Fits
      <4> QED
        BY <3>5, <4>1
    <3> QED
      BY <3>1, <3>2, <3>3, <3>4, <3>5 DEF Fits
  <2> QED
    BY <1>1, <2>1, <2>2 DEF Quiet
<1> QED
  BY <1>4, <1>5

LEMMA QuietClaimAttempt ==
  ASSUME Inv, Quiet, NEW c \in Work, ClaimAttempt(c)
  PROVE  Quiet'
<1> SUFFICES ASSUME quiet PROVE Quiet'
  BY DEF Quiet, ClaimAttempt, history
<1>1. /\ pc = "claim" /\ slot = c /\ Still /\ failure = {} /\ c \in Launching(plan) /\ c \in Int
      /\ \A d \in Launching(plan) : IF d < c THEN Latest(d) > first[d] ELSE Ready(d)
      /\ UNCHANGED <<records, handoff, failure, live, quarantined, first>>
  BY ChunkFacts DEF ClaimAttempt, Quiet, Inv, RoundInv, Claiming
<1>2. handoff[c] = {} /\ records[c] = ordinal[c] /\ \A o \in Ordinals : ~Locked(<<c, o>>)
  BY <1>1 DEF Ready, Still, Locked
<1>3. CASE c \in unstarted
  BY <1>1, <1>3 DEF ClaimAttempt, Return, Quiet
<1>4. CASE c \notin unstarted
  <2>1. pc' = "start" /\ UNCHANGED <<slot, plan, ordinal>>
    BY <1>1, <1>2, <1>4 DEF ClaimAttempt, plans
  <2> QED
    BY <1>1, <2>1 DEF Quiet, Still, Launching, Ready, Latest
<1> QED
  BY <1>3, <1>4

LEMMA QuietStartAttempt ==
  ASSUME Inv, Quiet, NEW c \in Work, StartAttempt(c)
  PROVE  Quiet'
<1> SUFFICES ASSUME quiet PROVE Quiet'
  BY DEF Quiet, StartAttempt, history
<1>1. /\ pc = "start" /\ slot = c /\ Still /\ failure = {} /\ c \in Launching(plan) /\ c \in Chunks
      /\ \A d \in Launching(plan) : IF d < c THEN Latest(d) > first[d] ELSE Ready(d)
      /\ records' = [records EXCEPT ![c] = records[c] + 1] /\ DiskTypes
      /\ UNCHANGED <<handoff, failure, live, quarantined, first, plan, ordinal>>
  BY ChunkFacts DEF StartAttempt, Quiet, Inv, RoundInv, Claiming, DiskInv, plans
<1>2. /\ records'[c] = records[c] + 1
      /\ \A d \in Chunks : d # c => records'[d] = records[d]
  BY <1>1 DEF DiskTypes
<1>3. Latest(c)' > first[c]
  <2>1. records[c] \in Int /\ Ready(c)
    BY <1>1, ChunkFacts DEF DiskTypes
  <2> QED
    BY <1>2, <2>1 DEF Ready, Latest
<1>4. ASSUME NEW d \in Launching(plan)
      PROVE  /\ d < c + 1 => Latest(d)' > first[d]
             /\ ~(d < c + 1) => Ready(d)'
  <2>1. d \in Chunks /\ d \in Int /\ c \in Int
    BY <1>1, ChunkFacts DEF Launching
  <2>2. CASE d = c
    BY <1>3, <2>1, <2>2
  <2>3. CASE d # c
    <3>1. records'[d] = records[d] /\ (d < c + 1 <=> d < c)
      BY <1>2, <2>1, <2>3
    <3> QED
      BY <1>1, <3>1 DEF Latest, Ready
  <2> QED
    BY <2>2, <2>3
<1>5. /\ Launching(plan)' = Launching(plan) /\ Launching(plan) \in SUBSET Chunks
      /\ Launching(plan) \subseteq Int /\ c + 1 \in Int
  <2>1. Launching(plan)' = Launching(plan) /\ Launching(plan) \in SUBSET Chunks
    BY <1>1 DEF Launching
  <2>2. c \in Int /\ Chunks \subseteq Int
    BY <1>1, ChunkFacts
  <2>3. Launching(plan) \subseteq Int
    BY <2>1, <2>2
  <2> QED
    BY <2>1, <2>2, <2>3
<1>6. \/ /\ pc' = "claim" /\ slot' \in Launching(plan) /\ slot' >= c + 1
         /\ \A e \in Launching(plan) : e < slot' => e < c + 1
      \/ pc' = "launch"
  BY <1>5, NextFrom DEF StartAttempt
<1>7. CASE /\ pc' = "claim" /\ slot' \in Launching(plan) /\ slot' >= c + 1
           /\ \A e \in Launching(plan) : e < slot' => e < c + 1
  <2>1. ASSUME NEW d \in Launching(plan)
        PROVE  /\ d < slot' => Latest(d)' > first'[d]
               /\ ~(d < slot') => Ready(d)'
    <3>1. d < slot' <=> d < c + 1
      BY <1>5, <1>7
    <3> QED
      BY <1>1, <1>4, <3>1
  <2> QED
    BY <1>1, <1>5, <1>7, <2>1 DEF Quiet, Still
<1>8. CASE pc' = "launch"
  BY <1>1, <1>3, <1>8 DEF Quiet, Still, Moved
<1> QED
  BY <1>6, <1>7, <1>8

LEMMA QuietWait ==
  ASSUME Quiet, LaunchBatch \/ EndWait \/ \E c \in Work : Reap(c)
  PROVE  Quiet'
<1>1. /\ quiet' = quiet /\ UNCHANGED <<records, first>>
      /\ pc \in {"launch", "wait"} /\ pc' \in {"wait", "final", "idle"}
  BY DEF LaunchBatch, EndWait, Reap, Return, history, disk
<1>2. quiet => Moved'
  BY <1>1 DEF Quiet, Moved, Latest
<1> QED
  BY <1>1, <1>2 DEF Quiet

LEMMA QuietObserveFinal ==
  ASSUME Inv, Quiet, ObserveFinal
  PROVE  Quiet'
<1> SUFFICES ASSUME quiet PROVE Quiet'
  BY DEF Quiet, ObserveFinal, history
<1>1. /\ pc = "final" /\ pc' \in {"adopt", "idle"}
      /\ UNCHANGED <<records, unstarted, handoff, failure, live, quarantined, first>>
  BY DEF ObserveFinal, Proceed, Return, disk
<1>2. CASE Moved
  BY <1>1, <1>2 DEF Quiet, Moved, Latest
<1>3. CASE AllThere
  <2>1. Consistent
    BY AlwaysConsistent DEF Inv
  <2>2. ExactHandoffs /\ \A c \in Work : handoff[c] = {ExpectedOrdinal(c)}
    BY <1>3 DEF AllThere, ExactHandoffs, ExpectedOrdinal
  <2>3. Proceed(Work, 0, "adopt", "idle") /\ UNCHANGED <<plan, expected>>
    BY <1>3, <2>1, <2>2 DEF ObserveFinal, AllThere, plans
  <2>4. pc' = "adopt"
    <3>1. ~(\A d \in Work : d < 0)
      BY <1>3 DEF AllThere, Work, Chunks
    <3> QED
      BY <2>3, <3>1 DEF Proceed
  <2>5. AllThere'
    BY <1>1, <1>3, <2>3 DEF AllThere, Still
  <2> QED
    BY <2>4, <2>5 DEF Quiet
<1> QED
  BY <1>1, <1>2, <1>3 DEF Quiet

LEMMA QuietAdopt ==
  ASSUME Inv, Quiet, NEW c \in Work, Adopt(c)
  PROVE  Quiet'
<1> SUFFICES ASSUME quiet PROVE Quiet'
  BY DEF Quiet, Adopt, history
<1>1. /\ pc = "adopt" /\ pc' \in {"adopt", "idle"}
      /\ UNCHANGED <<records, unstarted, handoff, failure, live, quarantined, first>>
  BY DEF Adopt, Proceed, Return, disk
<1>2. CASE Moved
  BY <1>1, <1>2 DEF Quiet, Moved, Latest
<1>3. CASE AllThere
  <2>1. ~Locked(<<c, Latest(c)>>) /\ failure = {}
    BY <1>3 DEF AllThere, Still, Locked
  <2>2. CASE c \in unstarted /\ pc' = "idle"
    BY <1>1, <2>2 DEF Quiet
  <2>3. CASE c \notin unstarted
    <3>1. CASE \E d \in Work : d > c
      <4>1. Proceed(Work, c + 1, "adopt", "idle") /\ UNCHANGED <<plan, expected>>
        BY <2>1, <2>3, <3>1 DEF Adopt, plans
      <4>2. ~(\A d \in Work : d < c + 1)
        BY <3>1, ChunkFacts
      <4>3. pc' = "adopt"
        BY <4>1, <4>2 DEF Proceed
      <4>4. AllThere'
        BY <1>1, <1>3, <4>1 DEF AllThere, Still
      <4> QED
        BY <4>3, <4>4 DEF Quiet
    <3>2. CASE ~(\E d \in Work : d > c)
      BY <2>1, <2>3, <3>2 DEF Adopt, Return, Quiet
    <3> QED
      BY <3>1, <3>2
  <2>4. c \in unstarted => pc' = "idle"
    BY DEF Adopt, Return
  <2> QED
    BY <2>2, <2>3, <2>4
<1> QED
  BY <1>1, <1>2, <1>3 DEF Quiet

\* A child that is there is of an earlier round, or of an attempt that this
\* round has just put on record.
LEMMA QuietChild ==
  ASSUME Quiet, NEW a \in Attempts, PublishHandoff(a) \/ ChildExit(a)
  PROVE  Quiet'
<1>1. /\ ~Still /\ UNCHANGED <<records, unstarted, pc, first, outcome, quiet>>
  BY DEF PublishHandoff, ChildExit, Still, disk, history
<1>2. Moved' = Moved /\ ~AllThere
  BY <1>1 DEF Moved, Latest, AllThere
<1> QED
  BY <1>1, <1>2 DEF Quiet

LEMMA NextQuiet == Inv /\ Quiet /\ [Next]_vars => Quiet'
<1> SUFFICES ASSUME Inv, Quiet, [Next]_vars PROVE Quiet'
  OBVIOUS
<1>1. CASE UNCHANGED vars
  BY <1>1 DEF vars, disk, plans, history, Quiet, Still, Fits, Renewed, Ready, Moved, AllThere,
              Recovering, Launching, Latest
<1> QED
  BY <1>1, QuietBegin, QuietFault, QuietObserve, QuietObserveAgain, QuietBusy, QuietReconcile,
     QuietPublishFailure, QuietObserveReconciled, QuietClaimAttempt, QuietStartAttempt, QuietWait,
     QuietObserveFinal, QuietAdopt, QuietChild
  DEF Next, RoundStep, Fault

\* RoundProgress: a round without faults, in a wave where no child runs and no
\* reservation was abandoned, succeeds, gives a chunk up or puts one more
\* attempt on record; it never returns with nothing done.
THEOREM RoundsProgress == Spec => []RoundProgress
<1>1. Init => Quiet
  BY DEF Init, Quiet
<1>2. Inv /\ Quiet /\ [Next]_vars => Quiet'
  BY NextQuiet
<1>3. Quiet => RoundProgress
  BY DEF Quiet, Moved, RoundProgress
<1> QED
  BY <1>1, <1>2, <1>3, WaveInvariant, PTL DEF Spec

-----------------------------------------------------------------------------
\* The durable wave implements WaveLedger.

LedgerStep == [Ledger!Next]_(Ledger!vars)

\* A step that writes neither an attempt, a handoff nor a failure.
LEMMA LedgerUnwritten ==
  ASSUME Inv, Inv', UNCHANGED <<records, handoff, failure>>,
         outcome' = "succeeded" /\ outcome # "succeeded" => failure = {}
  PROVE  LedgerStep
<1>1. CASE (outcome' = "succeeded") <=> (outcome = "succeeded")
  BY <1>1 DEF LedgerStep, Ledger!vars
<1>2. CASE outcome = "succeeded" /\ outcome' # "succeeded"
  <2>1. Ledger!Drop
    BY <1>2 DEF Ledger!Drop
  <2> QED
    BY <2>1 DEF LedgerStep, Ledger!Next
<1>3. CASE outcome # "succeeded" /\ outcome' = "succeeded"
  <2>1. \A c \in Work : handoff[c] # {}
    BY <1>3 DEF Inv, RoundInv, Adopting
  <2>2. Ledger!Accept
    BY <1>3, <2>1 DEF Ledger!Accept
  <2> QED
    BY <2>2 DEF LedgerStep, Ledger!Next
<1> QED
  BY <1>1, <1>2, <1>3

LEMMA LedgerStartAttempt ==
  ASSUME Inv, NEW c \in Work, StartAttempt(c)
  PROVE  LedgerStep
<1>1. /\ records[c] = ordinal[c] /\ handoff[c] = {} /\ failure = {}
      /\ records' = [records EXCEPT ![c] = records[c] + 1]
      /\ UNCHANGED <<handoff, failure, outcome>>
  BY DEF StartAttempt, Inv, RoundInv, Claiming
<1>2. c \in Chunks /\ records[c] < Budget
  BY <1>1, ChunkFacts DEF Inv, DiskInv, DiskTypes, RoundInv, RoundTypes
<1>3. \A d \in Work : records'[d] = IF d = c THEN records[c] + 1 ELSE records[d]
  BY <1>1, <1>2, ChunkFacts DEF Inv, DiskInv, DiskTypes
<1>4. Ledger!Attempt(c)
  BY <1>1, <1>2, <1>3 DEF Ledger!Attempt
<1> QED
  BY <1>4 DEF LedgerStep, Ledger!Next

LEMMA LedgerPublishFailure ==
  ASSUME Inv, NEW c \in Work, PublishFailure(c)
  PROVE  LedgerStep
<1>1. /\ records[c] = Budget /\ handoff[c] = {} /\ failure \subseteq {c} /\ failure' = {c}
      /\ UNCHANGED <<records, handoff>> /\ outcome # "succeeded" /\ outcome' # "succeeded"
  BY DEF PublishFailure, Return, Inv, RoundInv, Publishing, Planned, InRound, Phases
<1>2. CASE failure = {c}
  BY <1>1, <1>2 DEF LedgerStep, Ledger!vars
<1>3. CASE failure = {}
  <2>1. Ledger!GiveUp(c)
    BY <1>1, <1>3 DEF Ledger!GiveUp
  <2> QED
    BY <2>1 DEF LedgerStep, Ledger!Next
<1> QED
  BY <1>1, <1>2, <1>3

LEMMA LedgerPublishHandoff ==
  ASSUME Inv, NEW a \in Attempts, PublishHandoff(a)
  PROVE  LedgerStep
<1>1. /\ a[1] \in Work /\ a[1] \in Chunks /\ a[2] \in Ordinals
      /\ a[2] = Latest(a[1]) /\ a[1] \notin failure
      /\ handoff' = [handoff EXCEPT ![a[1]] = handoff[a[1]] \cup {a[2]}]
      /\ UNCHANGED <<records, failure, outcome>>
  BY AttemptPair DEF PublishHandoff, Inv, DiskInv, ChildUndisturbed
<1>2. /\ handoff'[a[1]] # {}
      /\ \A c \in Work : c # a[1] => handoff'[c] = handoff[c]
  BY <1>1, ChunkFacts DEF Inv, DiskInv, DiskTypes
<1>3. CASE handoff[a[1]] # {}
  <2>1. \A c \in Work : handoff'[c] # {} <=> handoff[c] # {}
    BY <1>2, <1>3
  <2> QED
    BY <1>1, <2>1 DEF LedgerStep, Ledger!vars
<1>4. CASE handoff[a[1]] = {}
  <2>1. records[a[1]] > 0
    <3>1. records[a[1]] \in 0..Budget /\ a[2] \in 0..(Budget - 1)
      BY <1>1 DEF Ordinals, Inv, DiskInv, DiskTypes
    <3>2. a[2] = records[a[1]] - 1
      BY <1>1 DEF Latest
    <3> QED
      BY <3>1, <3>2, ChunkFacts
  <2>2. {c \in Work : handoff'[c] # {}} = {c \in Work : handoff[c] # {}} \cup {a[1]}
    BY <1>1, <1>2
  <2>3. Ledger!HandOver(a[1])
    BY <1>1, <1>4, <2>1, <2>2 DEF Ledger!HandOver
  <2> QED
    BY <1>1, <2>3 DEF LedgerStep, Ledger!Next
<1> QED
  BY <1>3, <1>4

LEMMA NextLedger == Inv /\ Inv' /\ [Next]_vars => LedgerStep
<1> SUFFICES ASSUME Inv, Inv', [Next]_vars PROVE LedgerStep
  OBVIOUS
<1>1. CASE Observe
  <2>1. UNCHANGED <<records, handoff, failure>>
    BY <1>1 DEF Observe, disk
  <2>2. outcome' = "succeeded" /\ outcome # "succeeded" => failure = {}
    BY <1>1 DEF Observe, Return, Inv, DiskInv, DiskTypes
  <2> QED
    BY <2>1, <2>2, LedgerUnwritten
<1>2. ASSUME NEW c \in Work, Adopt(c)
      PROVE  LedgerStep
  <2>1. UNCHANGED <<records, handoff, failure>>
    BY <1>2 DEF Adopt, disk
  <2>2. outcome' = "succeeded" /\ outcome # "succeeded" => failure = {}
    BY <1>2 DEF Adopt, Return
  <2> QED
    BY <2>1, <2>2, LedgerUnwritten
<1>3. ASSUME NEW c \in Work, Reconcile(c)
      PROVE  LedgerStep
  <2>1. UNCHANGED <<records, handoff, failure>> /\ (outcome' = "succeeded" => outcome = "succeeded")
    BY <1>3 DEF Reconcile, ReconcileHeld, AdoptLate, Return
  <2> QED
    BY <2>1, LedgerUnwritten
<1>4. CASE \/ Open \/ BeginRound \/ ObserveAgain \/ ObserveReconciled \/ ObserveFinal
           \/ LaunchBatch \/ LaunchLost \/ EndWait \/ CallFails \/ Crash \/ UNCHANGED vars
  <2>1. UNCHANGED <<records, handoff, failure>>
    BY <1>4 DEF Open, BeginRound, ObserveAgain, ObserveReconciled, ObserveFinal, LaunchBatch,
                LaunchLost, EndWait, CallFails, Crash, vars, disk
  <2>2. outcome' = "succeeded" => outcome = "succeeded"
    BY <1>4 DEF Open, BeginRound, ObserveAgain, ObserveReconciled, ObserveFinal, LaunchBatch,
                LaunchLost, EndWait, CallFails, Crash, Return, vars
  <2> QED
    BY <2>1, <2>2, LedgerUnwritten
<1>5. ASSUME NEW c \in Work, \/ RetryBusy(c) \/ TryAdoptLateHandoff(c) \/ ClaimAttempt(c)
                             \/ Reap(c) \/ WaitUncertain(c)
      PROVE  LedgerStep
  <2>1. UNCHANGED <<records, handoff, failure>> /\ (outcome' = "succeeded" => outcome = "succeeded")
    BY <1>5 DEF RetryBusy, TryAdoptLateHandoff, AdoptLate, ClaimAttempt, Reap, WaitUncertain,
                Return, disk
  <2> QED
    BY <2>1, LedgerUnwritten
<1>6. ASSUME NEW a \in Attempts, ChildExit(a)
      PROVE  LedgerStep
  BY <1>6, LedgerUnwritten DEF ChildExit, disk
<1> QED
  BY <1>1, <1>2, <1>3, <1>4, <1>5, <1>6, LedgerStartAttempt, LedgerPublishFailure,
     LedgerPublishHandoff
  DEF Next, RoundStep, Fault

LEMMA InitLedger == Init => Ledger!Init
BY ChunkFacts DEF Init, Ledger!Init

\* KeepsLedger: through every crash, lost launch and late child the records on
\* disk and the result of a round behave as a WaveLedger.
THEOREM WaveKeepsLedger == Spec => KeepsLedger
<1>1. Init => Ledger!Init
  BY InitLedger
<1>2. Inv /\ Inv' /\ [Next]_vars => [Ledger!Next]_(Ledger!vars)
  BY NextLedger DEF LedgerStep
<1> QED
  BY <1>1, <1>2, WaveInvariant, PTL DEF Spec, KeepsLedger, Ledger!Spec
================================================================================

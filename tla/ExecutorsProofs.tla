---------------------------- MODULE ExecutorsProofs ----------------------------
(***************************************************************************)
(* Proofs about MCExecutors, for any number of slots, workers and indices.  *)
(* Each executor has an invariant of its own: the launch gate, the slots of *)
(* a partition, the claims on a shared counter, the indices before a        *)
(* cursor.  From them follow the safety properties of the run, and that     *)
(* every step of an executor is a step of OrderedOutcome or changes nothing *)
(* of it.                                                                   *)
(***************************************************************************)
EXTENDS MCExecutors, FiniteSetTheorems, WellFoundedInduction, TLAPS

\* A set of naturals has a least element.
LEMMA LeastElement ==
  ASSUME NEW S \in SUBSET Nat, S # {}
  PROVE  \E x \in S : \A y \in S : x <= y
<1>1. PICK x \in S : \A y \in S : ~(<<y, x>> \in OpToRel(<, Nat))
  BY NatLessThanWellFounded, WFMin
<1>2. \A y \in S : ~(y < x)
  BY <1>1 DEF OpToRel
<1> QED
  BY <1>2

-----------------------------------------------------------------------------
\* The partitions of make_partitions.

Base == SlotCount \div Fixed!WorkerCount
Extra == SlotCount % Fixed!WorkerCount

\* Division with remainder, for the number of slots and workers.
LEMMA Division ==
  /\ Fixed!WorkerCount \in Nat \ {0} /\ SlotCount \in Nat \ {0}
  /\ Base \in Nat /\ Extra \in 0..(Fixed!WorkerCount - 1)
  /\ SlotCount = Fixed!WorkerCount * Base + Extra
<1>1. Fixed!WorkerCount \in Nat \ {0} /\ SlotCount \in Nat \ {0}
  BY ExecutorsAssumption DEF Fixed!WorkerCount
<1> QED
  BY <1>1 DEF Base, Extra

LEMMA PartitionForm ==
  ASSUME NEW w \in Fixed!Ordinals
  PROVE  /\ Fixed!PartitionBegin(w) = w * Base + (IF w < Extra THEN w ELSE Extra)
         /\ Fixed!PartitionEnd(w) = (w + 1) * Base + (IF w + 1 < Extra THEN w + 1 ELSE Extra)
         /\ Fixed!PartitionBegin(w) \in Nat /\ Fixed!PartitionEnd(w) \in Nat
         /\ Fixed!PartitionBegin(w) <= Fixed!PartitionEnd(w)
<1>1. w \in Nat /\ (w + 1) * Base = w * Base + Base /\ w * Base \in Nat
  BY Division DEF Fixed!Ordinals
<1>2. Fixed!PartitionBegin(w) = w * Base + (IF w < Extra THEN w ELSE Extra)
  BY DEF Fixed!PartitionBegin, Base, Extra
<1>3. Fixed!PartitionEnd(w) = Fixed!PartitionBegin(w) + Base + (IF w < Extra THEN 1 ELSE 0)
  BY DEF Fixed!PartitionEnd, Base, Extra
<1> QED
  BY <1>1, <1>2, <1>3, Division

\* The first partition begins at slot 0, each begins where the one before it
\* ends, and the last one ends at slot_count: no slot is without a worker or
\* has two.
THEOREM PartitionsTile ==
  /\ Fixed!PartitionBegin(0) = 0
  /\ Fixed!PartitionEnd(Fixed!WorkerCount - 1) = SlotCount
  /\ \A w \in Fixed!Ordinals :
       /\ Fixed!PartitionBegin(w) <= Fixed!PartitionEnd(w)
       /\ w + 1 \in Fixed!Ordinals => Fixed!PartitionEnd(w) = Fixed!PartitionBegin(w + 1)
<1>1. Fixed!PartitionBegin(0) = 0
  BY Division DEF Fixed!PartitionBegin, Base, Extra
<1>2. Fixed!WorkerCount - 1 \in Fixed!Ordinals
  BY Division DEF Fixed!Ordinals
<1>3. Fixed!PartitionEnd(Fixed!WorkerCount - 1) = SlotCount
  <2>1. Fixed!PartitionEnd(Fixed!WorkerCount - 1)
           = Fixed!WorkerCount * Base
               + (IF Fixed!WorkerCount < Extra THEN Fixed!WorkerCount ELSE Extra)
    BY <1>2, PartitionForm, Division
  <2> QED
    BY <2>1, Division
<1>4. ASSUME NEW w \in Fixed!Ordinals, w + 1 \in Fixed!Ordinals
      PROVE  Fixed!PartitionEnd(w) = Fixed!PartitionBegin(w + 1)
  BY <1>4, PartitionForm
<1> QED
  BY <1>1, <1>3, <1>4, PartitionForm

LEMMA PartitionsDisjoint ==
  /\ \A v, w \in Fixed!Ordinals : v < w => Fixed!PartitionEnd(v) <= Fixed!PartitionBegin(w)
  /\ \A w \in Fixed!Ordinals : Fixed!PartitionEnd(w) <= SlotCount
<1>1. ASSUME NEW v \in Fixed!Ordinals, NEW w \in Fixed!Ordinals, v < w
      PROVE  Fixed!PartitionEnd(v) <= Fixed!PartitionBegin(w)
  <2>1. v \in Nat /\ w \in Nat /\ v + 1 <= w
    BY <1>1, Division DEF Fixed!Ordinals
  <2>2. (v + 1) * Base <= w * Base /\ (v + 1) * Base \in Nat /\ w * Base \in Nat
    <3>1. PICK k \in Nat : w = v + 1 + k
      <4>1. w - (v + 1) \in Nat /\ w = v + 1 + (w - (v + 1))
        BY <2>1
      <4> QED
        BY <4>1
    <3>2. w * Base = (v + 1) * Base + k * Base /\ k * Base \in Nat
      BY <2>1, <3>1, Division
    <3> QED
      BY <2>1, <3>2, Division
  <2>3. (IF v + 1 < Extra THEN v + 1 ELSE Extra) <= (IF w < Extra THEN w ELSE Extra)
    BY <2>1, Division
  <2> QED
    BY <2>1, <2>2, <2>3, PartitionForm, Division
<1>2. ASSUME NEW w \in Fixed!Ordinals
      PROVE  Fixed!PartitionEnd(w) <= SlotCount
  <2>1. Fixed!WorkerCount - 1 \in Fixed!Ordinals /\ w <= Fixed!WorkerCount - 1 /\ w \in Nat
    BY Division DEF Fixed!Ordinals
  <2>2. CASE w = Fixed!WorkerCount - 1
    BY <2>2, PartitionsTile, Division
  <2>3. CASE w < Fixed!WorkerCount - 1
    <3>1. Fixed!PartitionEnd(w) <= Fixed!PartitionBegin(Fixed!WorkerCount - 1)
      BY <1>1, <2>1, <2>3
    <3> QED
      BY <2>1, <3>1, PartitionsTile, PartitionForm, Division
  <2> QED
    BY <2>1, <2>2, <2>3, Division
<1> QED
  BY <1>1, <1>2

\* Every slot lies in the partition of some worker.
LEMMA PartitionsCover ==
  ASSUME NEW s \in Fixed!Slots
  PROVE  \E w \in Fixed!Ordinals : Fixed!PartitionBegin(w) <= s /\ s < Fixed!PartitionEnd(w)
<1> DEFINE After == {w \in Fixed!Ordinals : s < Fixed!PartitionEnd(w)}
<1>1. s \in Nat /\ s < SlotCount
  BY Division DEF Fixed!Slots
<1>2. After \in SUBSET Nat
  BY DEF Fixed!Ordinals
<1>3. Fixed!WorkerCount - 1 \in After
  BY <1>1, PartitionsTile, Division DEF Fixed!Ordinals
<1>4. PICK w \in After : \A v \in After : w <= v
  BY <1>2, <1>3, LeastElement
<1>5. w \in Fixed!Ordinals /\ w \in Nat /\ s < Fixed!PartitionEnd(w)
  BY <1>2, <1>4
<1>6. CASE w = 0
  BY <1>1, <1>5, <1>6, PartitionsTile
<1>7. CASE w # 0
  <2>1. w - 1 \in Fixed!Ordinals /\ ~(w <= w - 1) /\ (w - 1) + 1 = w
    BY <1>5, <1>7, Division DEF Fixed!Ordinals
  <2>2. ~(s < Fixed!PartitionEnd(w - 1))
    BY <1>4, <2>1
  <2>3. Fixed!PartitionEnd(w - 1) = Fixed!PartitionBegin(w)
    BY <1>5, <2>1, PartitionsTile
  <2> QED
    BY <1>1, <1>5, <2>2, <2>3, PartitionForm
<1> QED
  BY <1>6, <1>7
-----------------------------------------------------------------------------
\* execute_fixed_slots: the launch gate.

FixedTypes ==
  /\ f_policy \in {"cancel_remaining", "drain_all"} /\ f_fails \subseteq Fixed!Slots
  /\ f_gate \in [arrived : Nat, released : BOOLEAN, cancelled : BOOLEAN]
  /\ f_created \in 0..Fixed!WorkerCount /\ f_caller \in Fixed!CallerPc
  /\ f_wpc \in [Fixed!Ordinals -> Fixed!WorkerPc] /\ f_slot \in [Fixed!Ordinals -> Nat]
  /\ f_slots \in [Fixed!Slots -> {"empty", "value", "error"}]
  /\ f_firstFailure \in Nat \cup {Fixed!NoFailure}
  /\ f_workerErrors \subseteq Fixed!Ordinals /\ f_stop \in BOOLEAN

\* The workers that were counted at the gate.
Arrived == {w \in Fixed!Ordinals : f_wpc[w] \notin {"none", "start"} /\ w \notin f_workerErrors}

\* The gate opens once all of them exist and have arrived, and then none of
\* them has failed to, so it is not cancelled any more.
Gate ==
  /\ f_gate.arrived = Cardinality(Arrived)
  /\ \A w \in Fixed!Ordinals : (f_wpc[w] = "none") <=> ~(w < f_created)
  /\ \A w \in Fixed!Ordinals : f_wpc[w] = "broken" => w \in f_workerErrors
  /\ \A w \in f_workerErrors : f_wpc[w] \in {"broken", "done"}
  /\ f_stop => f_workerErrors # {}
  /\ f_caller \in {"release", "join"} => f_created = Fixed!WorkerCount
  /\ f_gate.released => /\ Arrived = Fixed!Ordinals /\ ~f_gate.cancelled
                        /\ f_caller \in {"join", "returned"}
  /\ \A w \in Fixed!Ordinals : f_wpc[w] = "done" => f_gate.released \/ f_gate.cancelled
  /\ f_caller = "join" => f_gate.released
  /\ \A w \in Fixed!Ordinals : f_wpc[w] \in {"check", "operate", "publish"} => f_gate.released
  /\ \A s \in Fixed!Slots : f_slots[s] # "empty" => f_gate.released

\* Every thread that has been started and has not ended is held by the vector
\* that the call empties before it ends.
Owned == \A w \in Fixed!Ordinals : f_wpc[w] \notin {"none", "done"} => w \in f_workers

Ended == f_outcome # Fixed!Pending => f_caller = "returned" /\ f_workers = {}

FixedInv == FixedTypes /\ Gate /\ Owned /\ Ended

LEMMA FixedFacts ==
  /\ Fixed!Ordinals \subseteq Nat /\ Fixed!Slots \subseteq Nat /\ Fixed!WorkerCount \in Nat
  /\ \A n \in 0..Fixed!WorkerCount : n # Fixed!WorkerCount => n \in Fixed!Ordinals /\ n + 1 \in 0..Fixed!WorkerCount
  /\ IsFiniteSet(Fixed!Ordinals) /\ Cardinality(Fixed!Ordinals) = Fixed!WorkerCount
<1>1. /\ Fixed!Ordinals \subseteq Nat /\ Fixed!Slots \subseteq Nat /\ Fixed!WorkerCount \in Nat
      /\ \A n \in 0..Fixed!WorkerCount : n # Fixed!WorkerCount => n \in Fixed!Ordinals /\ n + 1 \in 0..Fixed!WorkerCount
  BY Division DEF Fixed!Ordinals, Fixed!Slots
<1>2. IsFiniteSet(Fixed!Ordinals) /\ Cardinality(Fixed!Ordinals) = Fixed!WorkerCount
  <2>1. Fixed!WorkerCount - 1 \in Int /\ ~(0 > Fixed!WorkerCount - 1)
        /\ (Fixed!WorkerCount - 1) - 0 + 1 = Fixed!WorkerCount
    BY Division
  <2> QED
    BY <2>1, FS_Interval DEF Fixed!Ordinals
<1> QED
  BY <1>1, <1>2

LEMMA ArrivedFinite ==
  /\ IsFiniteSet(Arrived) /\ Cardinality(Arrived) \in Nat
  /\ Cardinality(Arrived) = Fixed!WorkerCount => Arrived = Fixed!Ordinals
  /\ IsFiniteSet(Arrived') /\ Cardinality(Arrived') \in Nat
<1>1. Arrived \in SUBSET Fixed!Ordinals /\ Arrived' \in SUBSET Fixed!Ordinals
  BY DEF Arrived
<1> QED
  BY <1>1, FixedFacts, FS_Subset, FS_CardinalityType

\* While the gate is open every worker has arrived and none has failed.
LEMMA GateOpen ==
  ASSUME FixedInv, f_gate.released
  PROVE  /\ f_workerErrors = {} /\ ~f_stop /\ ~f_gate.cancelled /\ f_created = Fixed!WorkerCount
         /\ f_gate.arrived = Fixed!WorkerCount /\ f_caller \in {"join", "returned"}
         /\ \A w \in Fixed!Ordinals : f_wpc[w] \notin {"none", "start", "broken"}
<1>1. Arrived = Fixed!Ordinals /\ ~f_gate.cancelled /\ f_caller \in {"join", "returned"}
  BY DEF FixedInv, Gate
<1>2. f_workerErrors = {} /\ ~f_stop
      /\ \A w \in Fixed!Ordinals : f_wpc[w] \notin {"none", "start", "broken"}
  BY <1>1 DEF FixedInv, FixedTypes, Gate, Arrived
<1>3. f_created = Fixed!WorkerCount
  <2> SUFFICES ASSUME f_created # Fixed!WorkerCount PROVE FALSE
    OBVIOUS
  <2>1. f_created \in Fixed!Ordinals /\ ~(f_created < f_created)
    BY FixedFacts DEF FixedInv, FixedTypes
  <2> QED
    BY <1>2, <2>1 DEF FixedInv, Gate
<1>4. f_gate.arrived = Fixed!WorkerCount
  BY <1>1, FixedFacts DEF FixedInv, Gate
<1> QED
  BY <1>1, <1>2, <1>3, <1>4

LEMMA FixedInitInv == Fixed!Init => FixedInv
<1> SUFFICES ASSUME Fixed!Init PROVE FixedInv
  OBVIOUS
<1>1. FixedTypes
  <2>1. f_slot \in [Fixed!Ordinals -> Nat]
    BY PartitionForm DEF Fixed!Init
  <2>2. /\ f_wpc \in [Fixed!Ordinals -> Fixed!WorkerPc]
        /\ f_slots \in [Fixed!Slots -> {"empty", "value", "error"}]
    BY DEF Fixed!Init, Fixed!WorkerPc
  <2>3. f_gate \in [arrived : Nat, released : BOOLEAN, cancelled : BOOLEAN]
        /\ f_created \in 0..Fixed!WorkerCount
    BY Division DEF Fixed!Init
  <2> QED
    BY <2>1, <2>2, <2>3 DEF Fixed!Init, FixedTypes, Fixed!CallerPc
<1>2. Arrived = {}
  BY DEF Fixed!Init, Arrived
<1>3. Gate
  BY <1>2, FS_EmptySet, FixedFacts DEF Fixed!Init, Gate
<1> QED
  BY <1>1, <1>3 DEF FixedInv, Owned, Ended, Fixed!Init

LEMMA FixedLaunch ==
  ASSUME FixedInv, Fixed!Launch
  PROVE  FixedInv'
<1>1. /\ f_caller = "launch" /\ f_created < Fixed!WorkerCount
      /\ f_wpc' = [f_wpc EXCEPT ![f_created] = "start"] /\ f_created' = f_created + 1
      /\ f_workers' = f_workers \cup {f_created}
      /\ f_caller' = IF f_created' = Fixed!WorkerCount THEN "release" ELSE "launch"
      /\ UNCHANGED <<f_policy, f_fails, f_gate, f_slot, f_slots, f_firstFailure,
                     f_workerErrors, f_stop, f_outcome>>
  BY DEF Fixed!Launch, Fixed!infraVars
<1>2. /\ f_created \in Fixed!Ordinals /\ f_created + 1 \in 0..Fixed!WorkerCount
      /\ f_created \in Nat /\ f_wpc[f_created] = "none" /\ ~f_gate.released
      /\ f_created \notin f_workerErrors
  <2>1. /\ f_created \in Fixed!Ordinals /\ f_created + 1 \in 0..Fixed!WorkerCount
        /\ f_created \in Nat /\ ~(f_created < f_created)
    BY <1>1, FixedFacts DEF FixedInv, FixedTypes
  <2> QED
    BY <1>1, <2>1 DEF FixedInv, Gate
<1>3. /\ f_wpc'[f_created] = "start" /\ \A w \in Fixed!Ordinals : w # f_created => f_wpc'[w] = f_wpc[w]
      /\ f_wpc' \in [Fixed!Ordinals -> Fixed!WorkerPc]
  BY <1>1, <1>2 DEF FixedInv, FixedTypes, Fixed!WorkerPc
<1>4. Arrived' = Arrived
  BY <1>1, <1>2, <1>3 DEF Arrived
<1>5. \A w \in Fixed!Ordinals : (w < f_created + 1) <=> (w = f_created \/ w < f_created)
  BY <1>2, FixedFacts
<1>6. FixedTypes'
  BY <1>1, <1>2, <1>3 DEF FixedInv, FixedTypes, Fixed!CallerPc
<1>7. Gate'
  BY <1>1, <1>2, <1>3, <1>4, <1>5 DEF FixedInv, Gate
<1> QED
  BY <1>1, <1>3, <1>6, <1>7 DEF FixedInv, Owned, Ended

LEMMA FixedGateSteps ==
  ASSUME FixedInv, Fixed!LaunchFails \/ Fixed!Release
  PROVE  FixedInv'
<1>1. CASE Fixed!LaunchFails
  <2>1. /\ f_caller = "launch" /\ f_gate' = [f_gate EXCEPT !.cancelled = TRUE] /\ f_caller' = "abort"
        /\ UNCHANGED <<f_policy, f_fails, f_created, f_workers, f_wpc, f_slot, f_slots, f_firstFailure,
                       f_workerErrors, f_stop, f_outcome>>
    BY <1>1 DEF Fixed!LaunchFails, Fixed!infraVars, Fixed!workerVars
  <2>2. /\ Arrived' = Arrived /\ f_gate'.arrived = f_gate.arrived
        /\ f_gate'.released = f_gate.released /\ f_gate'.cancelled
    BY <2>1 DEF Arrived, FixedInv, FixedTypes
  <2>3. FixedTypes'
    BY <2>1 DEF FixedInv, FixedTypes, Fixed!CallerPc
  <2>4. Gate'
    BY <2>1, <2>2 DEF FixedInv, Gate
  <2> QED
    BY <2>1, <2>3, <2>4 DEF FixedInv, Owned, Ended
<1>2. CASE Fixed!Release
  <2>1. /\ f_caller = "release" /\ (f_gate.arrived = Fixed!WorkerCount \/ f_gate.cancelled)
        /\ f_gate' = [f_gate EXCEPT !.released = ~f_gate.cancelled]
        /\ f_caller' = IF f_gate.cancelled THEN "abort" ELSE "join"
        /\ UNCHANGED <<f_policy, f_fails, f_created, f_workers, f_wpc, f_slot, f_slots, f_firstFailure,
                       f_workerErrors, f_stop, f_outcome>>
    BY <1>2 DEF Fixed!Release, Fixed!infraVars, Fixed!workerVars
  <2>2. /\ Arrived' = Arrived /\ f_gate'.arrived = f_gate.arrived
        /\ f_gate'.released = ~f_gate.cancelled /\ f_gate'.cancelled = f_gate.cancelled
    BY <2>1 DEF Arrived, FixedInv, FixedTypes
  <2>3. FixedTypes'
    BY <2>1 DEF FixedInv, FixedTypes, Fixed!CallerPc
  <2>4. ~f_gate.released /\ (~f_gate.cancelled => Arrived = Fixed!Ordinals)
    BY <2>1, ArrivedFinite DEF FixedInv, Gate
  <2>5. Gate'
    BY <2>1, <2>2, <2>4 DEF FixedInv, Gate
  <2> QED
    BY <2>1, <2>3, <2>5 DEF FixedInv, Owned, Ended
<1> QED
  BY <1>1, <1>2

\* A worker of a call that has not returned goes from one place to the next.
LEMMA FixedJoined ==
  ASSUME FixedInv, NEW w \in Fixed!Ordinals, f_wpc[w] \notin {"none", "done"}
  PROVE  f_outcome = Fixed!Pending
BY DEF FixedInv, Owned, Ended

LEMMA FixedArrive ==
  ASSUME FixedInv, NEW w \in Fixed!Ordinals, Fixed!Arrive(w)
  PROVE  FixedInv'
<1>1. /\ f_wpc[w] = "start" /\ f_gate' = [f_gate EXCEPT !.arrived = f_gate.arrived + 1]
      /\ f_wpc' = [f_wpc EXCEPT ![w] = "gate"]
      /\ UNCHANGED <<f_policy, f_fails, f_created, f_workers, f_slot, f_slots, f_firstFailure,
                     f_workerErrors, f_stop, f_caller, f_outcome>>
  BY DEF Fixed!Arrive, Fixed!infraVars
<1>2. /\ f_wpc'[w] = "gate" /\ \A v \in Fixed!Ordinals : v # w => f_wpc'[v] = f_wpc[v]
      /\ f_wpc' \in [Fixed!Ordinals -> Fixed!WorkerPc]
      /\ f_gate'.arrived = f_gate.arrived + 1 /\ f_gate'.released = f_gate.released
      /\ f_gate'.cancelled = f_gate.cancelled
      /\ f_gate' \in [arrived : Nat, released : BOOLEAN, cancelled : BOOLEAN]
  BY <1>1 DEF FixedInv, FixedTypes, Fixed!WorkerPc
<1>3. w \notin Arrived /\ Arrived' = Arrived \cup {w} /\ ~f_gate.released
  BY <1>1, <1>2 DEF FixedInv, Gate, Arrived
<1>4. Cardinality(Arrived') = Cardinality(Arrived) + 1
  BY <1>3, ArrivedFinite, FS_AddElement
<1>5. FixedTypes'
  BY <1>1, <1>2 DEF FixedInv, FixedTypes
<1>6. Gate'
  BY <1>1, <1>2, <1>3, <1>4 DEF FixedInv, Gate
<1> QED
  BY <1>1, <1>2, <1>5, <1>6, FixedJoined DEF FixedInv, Owned, Ended

LEMMA FixedArriveFails ==
  ASSUME FixedInv, NEW w \in Fixed!Ordinals, Fixed!ArriveFails(w)
  PROVE  FixedInv'
<1>1. /\ f_wpc[w] = "start" /\ f_workerErrors' = f_workerErrors \cup {w} /\ f_stop' = TRUE
      /\ f_wpc' = [f_wpc EXCEPT ![w] = "broken"]
      /\ UNCHANGED <<f_policy, f_fails, f_gate, f_created, f_workers, f_slot, f_slots, f_firstFailure,
                     f_caller, f_outcome>>
  BY DEF Fixed!ArriveFails
<1>2. /\ f_wpc'[w] = "broken" /\ \A v \in Fixed!Ordinals : v # w => f_wpc'[v] = f_wpc[v]
      /\ f_wpc' \in [Fixed!Ordinals -> Fixed!WorkerPc]
  BY <1>1 DEF FixedInv, FixedTypes, Fixed!WorkerPc
<1>3. w \notin Arrived /\ Arrived' = Arrived /\ ~f_gate.released
  BY <1>1, <1>2 DEF FixedInv, FixedTypes, Gate, Arrived
<1>5. FixedTypes'
  BY <1>1, <1>2 DEF FixedInv, FixedTypes
<1>6. Gate'
  BY <1>1, <1>2, <1>3 DEF FixedInv, FixedTypes, Gate
<1> QED
  BY <1>1, <1>2, <1>5, <1>6, FixedJoined DEF FixedInv, Owned, Ended

LEMMA FixedCancelGate ==
  ASSUME FixedInv, NEW w \in Fixed!Ordinals, Fixed!CancelGate(w)
  PROVE  FixedInv'
<1>1. /\ f_wpc[w] = "broken" /\ f_gate' = [f_gate EXCEPT !.cancelled = TRUE]
      /\ f_wpc' = [f_wpc EXCEPT ![w] = "done"]
      /\ UNCHANGED <<f_policy, f_fails, f_created, f_workers, f_slot, f_slots, f_firstFailure,
                     f_workerErrors, f_stop, f_caller, f_outcome>>
  BY DEF Fixed!CancelGate, Fixed!infraVars
<1>2. /\ f_wpc'[w] = "done" /\ \A v \in Fixed!Ordinals : v # w => f_wpc'[v] = f_wpc[v]
      /\ f_wpc' \in [Fixed!Ordinals -> Fixed!WorkerPc]
      /\ f_gate'.arrived = f_gate.arrived /\ f_gate'.released = f_gate.released
      /\ f_gate'.cancelled
  BY <1>1 DEF FixedInv, FixedTypes, Fixed!WorkerPc
<1>3. Arrived' = Arrived /\ ~f_gate.released
  BY <1>1, <1>2 DEF FixedInv, Gate, Arrived
<1>5. FixedTypes'
  BY <1>1, <1>2 DEF FixedInv, FixedTypes
<1>6. Gate'
  BY <1>1, <1>2, <1>3 DEF FixedInv, FixedTypes, Gate
<1> QED
  BY <1>1, <1>2, <1>5, <1>6, FixedJoined DEF FixedInv, Owned, Ended

\* From the gate on.
LEMMA FixedPast ==
  ASSUME FixedInv, NEW w \in Fixed!Ordinals,
         Fixed!PassGate(w) \/ Fixed!Check(w) \/ Fixed!Operate(w) \/ Fixed!Publish(w)
  PROVE  FixedInv'
<1>1. /\ f_wpc[w] \in {"gate", "check", "operate", "publish"}
      /\ UNCHANGED <<f_policy, f_fails, f_gate, f_created, f_workers, f_workerErrors, f_stop, f_caller, f_outcome>>
  BY DEF Fixed!PassGate, Fixed!Check, Fixed!Operate, Fixed!Publish, Fixed!infraVars
<1>2. /\ f_wpc'[w] \in {"check", "operate", "publish", "done"}
      /\ \A v \in Fixed!Ordinals : v # w => f_wpc'[v] = f_wpc[v]
      /\ f_wpc' \in [Fixed!Ordinals -> Fixed!WorkerPc]
      /\ f_wpc'[w] # "done" => f_gate.released
      /\ f_gate.released \/ f_gate.cancelled
  <2>1. CASE Fixed!PassGate(w)
    BY <2>1 DEF FixedInv, FixedTypes, Fixed!WorkerPc, Fixed!PassGate
  <2>2. CASE Fixed!Check(w)
    BY <2>2 DEF FixedInv, FixedTypes, Gate, Fixed!WorkerPc, Fixed!Check
  <2>3. CASE Fixed!Operate(w)
    BY <2>3 DEF FixedInv, FixedTypes, Gate, Fixed!WorkerPc, Fixed!Operate
  <2>4. CASE Fixed!Publish(w)
    BY <2>4 DEF FixedInv, FixedTypes, Gate, Fixed!WorkerPc, Fixed!Publish
  <2> QED
    BY <2>1, <2>2, <2>3, <2>4
<1>3. Arrived' = Arrived
  BY <1>1, <1>2 DEF Arrived
<1>4. /\ f_slots' \in [Fixed!Slots -> {"empty", "value", "error"}] /\ f_slot' \in [Fixed!Ordinals -> Nat]
      /\ f_firstFailure' \in Nat \cup {Fixed!NoFailure}
      /\ \A s \in Fixed!Slots : f_slots'[s] # f_slots[s] => f_gate.released
  <2>1. CASE Fixed!PassGate(w) \/ Fixed!Check(w)
    BY <2>1 DEF FixedInv, FixedTypes, Fixed!PassGate, Fixed!Check
  <2>2. CASE Fixed!Operate(w)
    BY <2>2, FixedFacts DEF FixedInv, FixedTypes, Gate, Fixed!Operate
  <2>3. CASE Fixed!Publish(w)
    BY <2>3 DEF FixedInv, FixedTypes, Fixed!Publish
  <2> QED
    BY <2>1, <2>2, <2>3
<1>5. FixedTypes'
  BY <1>1, <1>2, <1>4 DEF FixedInv, FixedTypes
<1>6. Gate'
  <2>1. \A v \in Fixed!Ordinals : /\ f_wpc'[v] = "none" <=> f_wpc[v] = "none"
                                  /\ f_wpc'[v] = "broken" <=> f_wpc[v] = "broken"
                                  /\ f_wpc[v] = "done" => f_wpc'[v] = "done"
    BY <1>1, <1>2
  <2>2. \A v \in Fixed!Ordinals : f_wpc'[v] \in {"check", "operate", "publish"} => f_gate.released
    BY <1>1, <1>2 DEF FixedInv, Gate
  <2>3. \A s \in Fixed!Slots : f_slots'[s] # "empty" => f_gate.released
    BY <1>4 DEF FixedInv, Gate
  <2> QED
    BY <1>1, <1>2, <1>3, <2>1, <2>2, <2>3 DEF FixedInv, FixedTypes, Gate
<1> QED
  BY <1>1, <1>2, <1>5, <1>6, FixedJoined DEF FixedInv, Owned, Ended

\* A thread that is joined has ended, so the others are still held.
LEMMA FixedJoin ==
  ASSUME FixedInv, Fixed!Join
  PROVE  FixedInv'
<1>1. /\ f_caller \in {"join", "abort"}
      /\ \E w \in f_workers : f_wpc[w] = "done" /\ f_workers' = f_workers \ {w}
      /\ UNCHANGED <<f_policy, f_fails, f_gate, f_created, f_wpc, f_slot, f_slots, f_firstFailure,
                     f_workerErrors, f_stop, f_caller, f_outcome>>
  BY DEF Fixed!Join, Fixed!workerVars, Fixed!infraVars
<1>2. FixedTypes' /\ Gate'
  BY <1>1 DEF FixedInv, FixedTypes, Gate, Arrived
<1>3. Owned' /\ Ended'
  BY <1>1 DEF FixedInv, Owned, Ended
<1> QED
  BY <1>2, <1>3 DEF FixedInv

LEMMA FixedReturn ==
  ASSUME FixedInv, Fixed!ReturnAborted \/ Fixed!ReturnErrors \/ Fixed!ReturnValues
  PROVE  FixedInv'
<1>1. /\ f_caller \in {"abort", "join"} /\ f_caller' = "returned" /\ f_workers = {}
      /\ UNCHANGED <<f_policy, f_fails, f_gate, f_created, f_workers, f_wpc, f_slot, f_slots, f_firstFailure,
                     f_workerErrors, f_stop>>
  BY DEF Fixed!ReturnAborted, Fixed!ReturnErrors, Fixed!ReturnValues, Fixed!ReturnResult,
         Fixed!workerVars, Fixed!infraVars
<1>2. FixedTypes' /\ Gate' /\ Owned' /\ Ended'
  BY <1>1 DEF FixedInv, FixedTypes, Gate, Owned, Ended, Arrived, Fixed!CallerPc
<1> QED
  BY <1>2 DEF FixedInv

LEMMA FixedNextInv == FixedInv /\ [Fixed!Next]_fvars => FixedInv'
<1> SUFFICES ASSUME FixedInv, [Fixed!Next]_fvars PROVE FixedInv'
  OBVIOUS
<1>1. CASE UNCHANGED fvars
  BY <1>1 DEF fvars, FixedInv, FixedTypes, Gate, Owned, Ended, Arrived
<1>2. CASE Fixed!Returned
  BY <1>1, <1>2 DEF Fixed!Returned, Fixed!vars, Fixed!workerVars, Fixed!infraVars, fvars
<1> QED
  BY <1>1, <1>2, FixedLaunch, FixedGateSteps, FixedArrive, FixedArriveFails, FixedCancelGate,
     FixedPast, FixedJoin, FixedReturn
  DEF Fixed!Next, Fixed!Caller, Fixed!Worker

-----------------------------------------------------------------------------
\* execute_fixed_slots: who writes which slot, and what the call reports.

Cancelled == f_policy = "cancel_remaining" /\ f_firstFailure # Fixed!NoFailure

\* A worker has handled the slots of its partition up to its own, and nobody
\* else has touched the rest of them.
Partition(w) ==
  /\ Fixed!PartitionBegin(w) <= f_slot[w] /\ f_slot[w] <= Fixed!PartitionEnd(w)
  /\ f_wpc[w] \in {"operate", "publish"} => f_slot[w] < Fixed!PartitionEnd(w)
  /\ \A s \in Fixed!Slots : Fixed!PartitionBegin(w) <= s /\ s < f_slot[w] => f_slots[s] # "empty"
  /\ \A s \in Fixed!Slots : f_slot[w] < s /\ s < Fixed!PartitionEnd(w) => f_slots[s] = "empty"
  /\ f_wpc[w] \in {"none", "start", "gate", "check", "operate"} =>
       \A s \in Fixed!Slots : s = f_slot[w] /\ s < Fixed!PartitionEnd(w) => f_slots[s] = "empty"
  /\ f_wpc[w] = "publish" => f_slots[f_slot[w]] = "error" /\ f_policy = "cancel_remaining"
  /\ f_wpc[w] = "done" /\ f_gate.released => f_slot[w] = Fixed!PartitionEnd(w) \/ Cancelled

Verdicts ==
  /\ \A s \in Fixed!Slots : /\ f_slots[s] = "error" => s \in f_fails
                            /\ f_slots[s] = "value" => s \notin f_fails
  /\ f_firstFailure # Fixed!NoFailure =>
       /\ f_firstFailure \in Fixed!Slots /\ f_slots[f_firstFailure] = "error"
       /\ f_policy = "cancel_remaining"

SlotBooks == (\A w \in Fixed!Ordinals : Partition(w)) /\ Verdicts

LEMMA BooksInit == Fixed!Init => SlotBooks
<1> SUFFICES ASSUME Fixed!Init PROVE SlotBooks
  OBVIOUS
<1>1. ASSUME NEW w \in Fixed!Ordinals
      PROVE  Partition(w)
  <2>1. f_slot[w] = Fixed!PartitionBegin(w) /\ f_wpc[w] = "none"
        /\ \A s \in Fixed!Slots : f_slots[s] = "empty"
    BY DEF Fixed!Init
  <2>2. Fixed!PartitionBegin(w) \in Nat /\ Fixed!PartitionBegin(w) <= Fixed!PartitionEnd(w)
    BY PartitionForm
  <2>3. \A s \in Fixed!Slots : ~(Fixed!PartitionBegin(w) <= s /\ s < Fixed!PartitionBegin(w))
    BY <2>2, FixedFacts
  <2> QED
    BY <2>1, <2>2, <2>3 DEF Partition
<1> QED
  BY <1>1 DEF SlotBooks, Verdicts, Fixed!Init

\* A step that touches no slot: where a worker may go.
Goes(w) ==
  /\ f_wpc'[w] \in {"operate", "publish"} => f_slot[w] < Fixed!PartitionEnd(w)
  /\ f_wpc'[w] \in {"none", "start", "gate", "check", "operate"} =>
       f_wpc[w] \in {"none", "start", "gate", "check", "operate"}
  /\ f_wpc'[w] = "publish" => f_wpc[w] = "publish"
  /\ f_wpc'[w] = "done" /\ f_gate'.released =>
       \/ f_wpc[w] = "done" /\ f_gate.released
       \/ f_slot[w] = Fixed!PartitionEnd(w) \/ Cancelled'

LEMMA Stays ==
  ASSUME SlotBooks, NEW w \in Fixed!Ordinals, f_wpc'[w] = f_wpc[w],
         f_gate'.released => f_gate.released \/ f_wpc[w] # "done"
  PROVE  Goes(w)
BY DEF SlotBooks, Partition, Goes

LEMMA BooksUntouched ==
  ASSUME SlotBooks, UNCHANGED <<f_policy, f_fails, f_slots, f_slot>>,
         f_firstFailure' = f_firstFailure \/ (Verdicts' /\ Cancelled'),
         \A w \in Fixed!Ordinals : Goes(w)
  PROVE  SlotBooks'
<1>1. Cancelled => Cancelled'
  BY DEF Cancelled
<1>2. Verdicts'
  BY DEF SlotBooks, Verdicts
<1>3. ASSUME NEW w \in Fixed!Ordinals
      PROVE  Partition(w)'
  <2>1. Partition(w)
    BY DEF SlotBooks
  <2> QED
    BY <1>1, <2>1 DEF Partition, Goes
<1> QED
  BY <1>2, <1>3 DEF SlotBooks

\* The steps of the caller.
LEMMA BooksCaller ==
  ASSUME FixedInv, SlotBooks, Fixed!Caller
  PROVE  SlotBooks'
<1>1. UNCHANGED <<f_policy, f_fails, f_slots, f_slot, f_firstFailure>>
  BY DEF Fixed!Caller, Fixed!Launch, Fixed!LaunchFails, Fixed!Release, Fixed!Join, Fixed!ReturnAborted,
         Fixed!ReturnErrors, Fixed!ReturnValues, Fixed!ReturnResult, Fixed!workerVars
<1>2. CASE Fixed!Launch
  <2>1. /\ f_created \in Fixed!Ordinals /\ f_wpc[f_created] = "none"
        /\ f_wpc' = [f_wpc EXCEPT ![f_created] = "start"] /\ f_gate' = f_gate
    <3>1. f_created \in Fixed!Ordinals /\ ~(f_created < f_created)
      BY <1>2, FixedFacts DEF Fixed!Launch, FixedInv, FixedTypes
    <3> QED
      BY <1>2, <3>1 DEF Fixed!Launch, FixedInv, Gate
  <2>2. /\ f_wpc'[f_created] = "start"
        /\ \A w \in Fixed!Ordinals : w # f_created => f_wpc'[w] = f_wpc[w]
    BY <2>1 DEF FixedInv, FixedTypes
  <2>3. \A w \in Fixed!Ordinals : Goes(w)
    <3>1. ASSUME NEW w \in Fixed!Ordinals, w # f_created
          PROVE  Goes(w)
      BY <2>1, <2>2, <3>1, Stays
    <3>2. Goes(f_created)
      BY <2>1, <2>2 DEF Goes
    <3> QED
      BY <3>1, <3>2
  <2> QED
    BY <1>1, <2>3, BooksUntouched
<1>3. CASE Fixed!Release
  <2>1. /\ f_wpc' = f_wpc /\ f_gate'.released = ~f_gate.cancelled /\ ~f_gate.released
    BY <1>3 DEF Fixed!Release, Fixed!workerVars, FixedInv, FixedTypes, Gate
  <2>2. ASSUME NEW w \in Fixed!Ordinals, f_gate'.released
        PROVE  f_wpc[w] # "done"
    BY <2>1, <2>2 DEF FixedInv, Gate
  <2>3. \A w \in Fixed!Ordinals : Goes(w)
    BY <2>1, <2>2, Stays
  <2> QED
    BY <1>1, <2>3, BooksUntouched
<1>4. CASE \/ Fixed!LaunchFails \/ Fixed!Join \/ Fixed!ReturnAborted \/ Fixed!ReturnErrors
           \/ Fixed!ReturnValues
  <2>1. f_wpc' = f_wpc /\ f_gate'.released = f_gate.released
    BY <1>4 DEF Fixed!LaunchFails, Fixed!Join, Fixed!ReturnAborted, Fixed!ReturnErrors, Fixed!ReturnValues,
       Fixed!ReturnResult, Fixed!workerVars, FixedInv, FixedTypes
  <2>2. \A w \in Fixed!Ordinals : Goes(w)
    BY <2>1, Stays
  <2> QED
    BY <1>1, <2>2, BooksUntouched
<1> QED
  BY <1>2, <1>3, <1>4 DEF Fixed!Caller

\* The steps of a worker on its way to the slots.
LEMMA BooksGate ==
  ASSUME FixedInv, SlotBooks, NEW w \in Fixed!Ordinals,
         \/ Fixed!Arrive(w) \/ Fixed!ArriveFails(w) \/ Fixed!CancelGate(w) \/ Fixed!PassGate(w)
         \/ Fixed!Check(w)
  PROVE  SlotBooks'
<1>1. /\ UNCHANGED <<f_policy, f_fails, f_slots, f_slot, f_firstFailure>>
      /\ f_gate'.released = f_gate.released
  BY DEF Fixed!Arrive, Fixed!ArriveFails, Fixed!CancelGate, Fixed!PassGate, Fixed!Check,
         FixedInv, FixedTypes
<1>2. \A v \in Fixed!Ordinals : v # w => f_wpc'[v] = f_wpc[v]
  BY DEF Fixed!Arrive, Fixed!ArriveFails, Fixed!CancelGate, Fixed!PassGate, Fixed!Check,
         FixedInv, FixedTypes
<1>3. /\ f_wpc'[w] = "operate" => f_slot[w] < Fixed!PartitionEnd(w)
      /\ f_wpc'[w] # "publish"
      /\ f_wpc'[w] \in {"none", "start", "gate", "check", "operate"} =>
                f_wpc[w] \in {"none", "start", "gate", "check", "operate"}
      /\ f_wpc'[w] = "done" /\ f_gate.released =>
           f_slot[w] = Fixed!PartitionEnd(w) \/ Cancelled
  <2>1. CASE Fixed!Arrive(w) \/ Fixed!ArriveFails(w)
    BY <2>1 DEF Fixed!Arrive, Fixed!ArriveFails, FixedInv, FixedTypes
  <2>2. CASE Fixed!CancelGate(w) \/ Fixed!PassGate(w)
    BY <2>2, GateOpen DEF Fixed!CancelGate, Fixed!PassGate, FixedInv, FixedTypes
  <2>3. CASE Fixed!Check(w)
    <3>1. /\ f_wpc[w] = "check"
          /\ f_wpc'[w] = IF \/ f_slot[w] >= Fixed!PartitionEnd(w) \/ f_stop
                            \/ f_policy = "cancel_remaining" /\ f_firstFailure # Fixed!NoFailure
                         THEN "done" ELSE "operate"
      BY <2>3 DEF Fixed!Check, FixedInv, FixedTypes
    <3>2. /\ f_slot[w] \in Nat /\ Fixed!PartitionEnd(w) \in Nat
          /\ f_slot[w] <= Fixed!PartitionEnd(w) /\ ~f_stop
      BY <3>1, PartitionForm, GateOpen DEF FixedInv, FixedTypes, Gate, SlotBooks, Partition
    <3> QED
      BY <3>1, <3>2 DEF Cancelled
  <2> QED
    BY <2>1, <2>2, <2>3
<1>4. Goes(w) /\ \A v \in Fixed!Ordinals : v # w => Goes(v)
  <2>1. Cancelled' = Cancelled
    BY <1>1 DEF Cancelled
  <2> QED
    BY <1>1, <1>2, <1>3, <2>1, Stays DEF Goes
<1> QED
  BY <1>1, <1>4, BooksUntouched

LEMMA BooksPublish ==
  ASSUME FixedInv, SlotBooks, NEW w \in Fixed!Ordinals, Fixed!Publish(w)
  PROVE  SlotBooks'
<1>1. /\ f_wpc[w] = "publish" /\ f_wpc' = [f_wpc EXCEPT ![w] = "done"]
      /\ f_firstFailure' = IF f_firstFailure = Fixed!NoFailure THEN f_slot[w] ELSE f_firstFailure
      /\ UNCHANGED <<f_policy, f_fails, f_gate, f_slots, f_slot>>
  BY DEF Fixed!Publish
<1>2. /\ f_slots[f_slot[w]] = "error" /\ f_policy = "cancel_remaining"
      /\ f_slot[w] < Fixed!PartitionEnd(w) /\ f_slot[w] \in Nat
  BY <1>1 DEF SlotBooks, Partition, FixedInv, FixedTypes
<1>3. f_slot[w] \in Fixed!Slots
  <2>1. Fixed!PartitionEnd(w) <= SlotCount /\ Fixed!PartitionEnd(w) \in Nat
    BY PartitionsDisjoint, PartitionForm
  <2> QED
    BY <1>2, <2>1, Division DEF Fixed!Slots
<1>4. Verdicts' /\ Cancelled'
  <2>1. f_slot[w] # Fixed!NoFailure
    BY <1>2 DEF Fixed!NoFailure
  <2> QED
    BY <1>1, <1>2, <1>3, <2>1 DEF SlotBooks, Verdicts, Cancelled
<1>5. \A v \in Fixed!Ordinals : f_wpc'[v] = IF v = w THEN "done" ELSE f_wpc[v]
  BY <1>1 DEF FixedInv, FixedTypes
<1>6. \A v \in Fixed!Ordinals : Goes(v)
  <2>1. Goes(w)
    BY <1>4, <1>5 DEF Goes
  <2>2. \A v \in Fixed!Ordinals : v # w => Goes(v)
    BY <1>1, <1>5, Stays
  <2> QED
    BY <2>1, <2>2
<1> QED
  BY <1>1, <1>4, <1>6, BooksUntouched

\* The slot a worker is at lies in no other partition.
LEMMA OwnSlot ==
  ASSUME FixedInv, SlotBooks, NEW w \in Fixed!Ordinals, f_slot[w] < Fixed!PartitionEnd(w)
  PROVE  /\ f_slot[w] \in Fixed!Slots /\ f_slot[w] \in Nat
         /\ Fixed!PartitionBegin(w) <= f_slot[w]
         /\ \A v \in Fixed!Ordinals : v # w =>
              /\ ~(Fixed!PartitionBegin(v) <= f_slot[w] /\ f_slot[w] < Fixed!PartitionEnd(v))
              /\ f_slot[v] < Fixed!PartitionEnd(v) => f_slot[v] # f_slot[w]
<1>1. /\ Fixed!PartitionEnd(w) <= SlotCount /\ Fixed!PartitionEnd(w) \in Nat
      /\ Fixed!PartitionBegin(w) \in Nat
  BY PartitionsDisjoint, PartitionForm
<1>2. f_slot[w] \in Nat /\ Fixed!PartitionBegin(w) <= f_slot[w]
  BY DEF FixedInv, FixedTypes, SlotBooks, Partition
<1>3. f_slot[w] \in Fixed!Slots
  BY <1>1, <1>2, Division DEF Fixed!Slots
<1>4. ASSUME NEW v \in Fixed!Ordinals, v # w
      PROVE  /\ ~(Fixed!PartitionBegin(v) <= f_slot[w] /\ f_slot[w] < Fixed!PartitionEnd(v))
             /\ f_slot[v] < Fixed!PartitionEnd(v) => f_slot[v] # f_slot[w]
  <2>1. /\ Fixed!PartitionBegin(v) \in Nat /\ Fixed!PartitionEnd(v) \in Nat /\ f_slot[v] \in Nat
        /\ Fixed!PartitionBegin(v) <= f_slot[v]
    BY PartitionForm DEF FixedInv, FixedTypes, SlotBooks, Partition
  <2>2. v < w \/ w < v
    BY <1>4, FixedFacts
  <2>3. \/ Fixed!PartitionEnd(v) <= Fixed!PartitionBegin(w)
        \/ Fixed!PartitionEnd(w) <= Fixed!PartitionBegin(v)
    BY <2>2, PartitionsDisjoint
  <2> QED
    BY <1>1, <1>2, <2>1, <2>3
<1> QED
  BY <1>2, <1>3, <1>4

LEMMA BooksOperate ==
  ASSUME FixedInv, SlotBooks, NEW w \in Fixed!Ordinals, Fixed!Operate(w)
  PROVE  SlotBooks'
<1>1. /\ f_wpc[w] = "operate" /\ f_slot[w] < Fixed!PartitionEnd(w)
      /\ UNCHANGED <<f_policy, f_fails, f_gate, f_firstFailure>>
  BY DEF Fixed!Operate, SlotBooks, Partition
<1>2. /\ f_slot[w] \in Fixed!Slots /\ f_slot[w] \in Nat /\ Fixed!PartitionBegin(w) <= f_slot[w]
      /\ f_slots[f_slot[w]] = "empty" /\ Fixed!PartitionEnd(w) \in Nat
      /\ Fixed!PartitionBegin(w) \in Nat
  BY <1>1, OwnSlot, PartitionForm DEF SlotBooks, Partition
<1>3. /\ \A s \in Fixed!Slots : s # f_slot[w] => f_slots'[s] = f_slots[s]
      /\ f_slots'[f_slot[w]] = IF f_slot[w] \in f_fails THEN "error" ELSE "value"
      /\ \A v \in Fixed!Ordinals : v # w => f_slot'[v] = f_slot[v] /\ f_wpc'[v] = f_wpc[v]
      /\ \/ f_slot'[w] = f_slot[w] + 1 /\ f_wpc'[w] = "check"
         \/ /\ f_slot'[w] = f_slot[w] /\ f_wpc'[w] = "publish"
            /\ f_slot[w] \in f_fails /\ f_policy = "cancel_remaining"
  BY <1>2 DEF Fixed!Operate, FixedInv, FixedTypes
<1>4. Verdicts'
  BY <1>1, <1>2, <1>3 DEF SlotBooks, Verdicts
<1>5. ASSUME NEW v \in Fixed!Ordinals, v # w
      PROVE  Partition(v)'
  <2>1. Partition(v) /\ Fixed!PartitionBegin(v) \in Nat /\ Fixed!PartitionEnd(v) \in Nat
        /\ f_slot[v] \in Nat /\ f_slot'[v] = f_slot[v] /\ f_wpc'[v] = f_wpc[v]
    BY <1>3, <1>5, PartitionForm DEF SlotBooks, FixedInv, FixedTypes
  <2>2. ~(Fixed!PartitionBegin(v) <= f_slot[w] /\ f_slot[w] < Fixed!PartitionEnd(v))
    BY <1>1, <1>5, OwnSlot
  <2>3. /\ \A s \in Fixed!Slots : Fixed!PartitionBegin(v) <= s /\ s < Fixed!PartitionEnd(v)
                                     => f_slots'[s] = f_slots[s]
        /\ \A s \in Fixed!Slots : f_slots[s] # "empty" => f_slots'[s] # "empty"
    BY <1>2, <1>3, <2>2
  <2>4. \A s \in Fixed!Slots : s \in Nat
    BY FixedFacts
  <2>5. f_wpc[v] = "publish" => f_slot[v] \in Fixed!Slots /\ f_slots'[f_slot[v]] = "error"
    BY <1>5, <2>1, <2>3, OwnSlot DEF Partition
  <2> QED
    BY <1>1, <2>1, <2>3, <2>4, <2>5 DEF Partition, Cancelled
<1>6. Partition(w)'
  <2>1. Partition(w) /\ \A s \in Fixed!Slots : s \in Nat
    BY FixedFacts DEF SlotBooks
  <2>2. CASE f_slot'[w] = f_slot[w] + 1 /\ f_wpc'[w] = "check"
    <3>1. \A s \in Fixed!Slots : (s < f_slot[w] + 1) <=> (s < f_slot[w] \/ s = f_slot[w])
      BY <1>2, <2>1
    <3>2. /\ \A s \in Fixed!Slots : f_slot[w] + 1 < s => f_slot[w] < s
          /\ \A s \in Fixed!Slots : s = f_slot[w] + 1 => f_slot[w] < s
          /\ f_slot[w] + 1 <= Fixed!PartitionEnd(w) /\ Fixed!PartitionBegin(w) <= f_slot[w] + 1
          /\ ~(f_slot[w] < f_slot[w])
      BY <1>1, <1>2, <2>1
    <3> QED
      BY <1>1, <1>2, <1>3, <2>1, <2>2, <3>1, <3>2 DEF Partition
  <2>3. CASE /\ f_slot'[w] = f_slot[w] /\ f_wpc'[w] = "publish"
             /\ f_slot[w] \in f_fails /\ f_policy = "cancel_remaining"
    <3>1. ~(f_slot[w] < f_slot[w])
      BY <1>2
    <3> QED
      BY <1>1, <1>2, <1>3, <2>1, <2>3, <3>1 DEF Partition
  <2> QED
    BY <1>3, <2>2, <2>3
<1> QED
  BY <1>4, <1>5, <1>6 DEF SlotBooks

LEMMA BooksNext == FixedInv /\ SlotBooks /\ [Fixed!Next]_fvars => SlotBooks'
<1> SUFFICES ASSUME FixedInv, SlotBooks, [Fixed!Next]_fvars PROVE SlotBooks'
  OBVIOUS
<1>1. CASE UNCHANGED fvars
  BY <1>1 DEF fvars, SlotBooks, Partition, Verdicts, Cancelled
<1>2. CASE Fixed!Returned
  BY <1>1, <1>2 DEF Fixed!Returned, Fixed!vars, Fixed!workerVars, Fixed!infraVars, fvars
<1> QED
  BY <1>1, <1>2, BooksCaller, BooksGate, BooksPublish, BooksOperate DEF Fixed!Next, Fixed!Worker

PromiseStep == [Fixed!Promise!Next]_(Fixed!Promise!vars)
Ran == {s \in Fixed!Slots : f_slots[s] # "empty"}

\* When a call that was not cancelled has joined its workers, every slot has
\* been handled.
LEMMA AllHandled ==
  ASSUME FixedInv, SlotBooks, f_workers = {}, f_caller = "join", ~Cancelled
  PROVE  Ran = Fixed!Slots
<1>1. f_gate.released
  BY DEF FixedInv, Gate
<1>2. ASSUME NEW s \in Fixed!Slots
      PROVE  f_slots[s] # "empty"
  <2>1. PICK w \in Fixed!Ordinals : Fixed!PartitionBegin(w) <= s /\ s < Fixed!PartitionEnd(w)
    BY PartitionsCover
  <2>2. f_wpc[w] = "done"
    BY <1>1, GateOpen DEF FixedInv, Owned
  <2> QED
    BY <1>1, <2>1, <2>2 DEF SlotBooks, Partition
<1> QED
  BY <1>2 DEF Ran

LEMMA PromiseReturned ==
  ASSUME FixedInv, SlotBooks,
         Fixed!ReturnAborted \/ Fixed!ReturnErrors \/ Fixed!ReturnValues
  PROVE  Fixed!Promise!Next
<1>1. /\ f_outcome = Fixed!Promise!Pending /\ f_workers = {}
      /\ UNCHANGED <<f_policy, f_fails, f_slots>> /\ f_fails \subseteq Fixed!Slots
      /\ f_slots \in [Fixed!Slots -> {"empty", "value", "error"}]
  BY DEF Fixed!ReturnAborted, Fixed!ReturnErrors, Fixed!ReturnValues, Fixed!ReturnResult,
         Fixed!workerVars, FixedInv, FixedTypes, Ended, Fixed!Pending, Fixed!Promise!Pending
<1>2. CASE Fixed!ReturnAborted
  <2>1. Ran = {}
    BY <1>2, GateOpen DEF Fixed!ReturnAborted, FixedInv, Gate, Ran
  <2>2. Fixed!Promise!Break
    BY <1>1, <1>2, <2>1
    DEF Fixed!ReturnAborted, Fixed!ReturnResult, Fixed!Promise!Break, Fixed!Promise!Infrastructure, Ran
  <2> QED
    BY <2>2 DEF Fixed!Promise!Next
<1>3. CASE Fixed!ReturnErrors
  <2>1. f_caller = "join" /\ f_workerErrors = {}
    BY <1>3, GateOpen DEF Fixed!ReturnErrors, FixedInv, Gate
  <2>2. CASE Cancelled /\ f_outcome' = <<"failed", f_firstFailure>>
    <3>1. f_firstFailure \in Fixed!Slots /\ f_slots[f_firstFailure] = "error"
          /\ f_firstFailure \in f_fails /\ f_policy # "drain_all"
      BY <2>2 DEF Cancelled, SlotBooks, Verdicts
    <3>2. Fixed!Promise!Fail(f_firstFailure)
      BY <1>1, <2>2, <3>1 DEF Fixed!Promise!Fail, Fixed!Promise!Failed
    <3> QED
      BY <3>1, <3>2 DEF Fixed!Promise!Next
  <2>3. CASE ~Cancelled /\ \E s \in Fixed!SlotErrors : /\ \A r \in Fixed!SlotErrors : s <= r
                                                      /\ f_outcome' = <<"failed", s>>
    <3>1. PICK s \in Fixed!SlotErrors : /\ \A r \in Fixed!SlotErrors : s <= r
                                        /\ f_outcome' = <<"failed", s>>
      BY <2>3
    <3>2. s \in Fixed!Slots /\ f_slots[s] = "error" /\ s \in f_fails
      BY DEF Fixed!SlotErrors, SlotBooks, Verdicts
    <3>3. \A j \in f_fails : s <= j
      <4> SUFFICES ASSUME NEW j \in f_fails PROVE j \in Fixed!SlotErrors
        BY <3>1
      <4>1. j \in Fixed!Slots /\ f_slots[j] # "empty"
        BY <1>1, <2>1, <2>3, AllHandled DEF Ran
      <4> QED
        BY <1>1, <4>1 DEF Fixed!SlotErrors, SlotBooks, Verdicts
    <3>4. Fixed!Promise!Fail(s)
      BY <1>1, <3>1, <3>2, <3>3 DEF Fixed!Promise!Fail, Fixed!Promise!Failed
    <3> QED
      BY <3>2, <3>4 DEF Fixed!Promise!Next
  <2> QED
    BY <1>3, <2>1, <2>2, <2>3 DEF Fixed!ReturnErrors, Fixed!ReturnResult, Cancelled
<1>4. CASE Fixed!ReturnValues
  <2>1. Ran = Fixed!Slots
    BY <1>1, <1>4, AllHandled DEF Fixed!ReturnValues, Cancelled
  <2>2. \A s \in Fixed!Slots : f_slots[s] = "value" /\ s \notin f_fails
    BY <1>1, <1>4, <2>1 DEF Fixed!ReturnValues, Fixed!SlotErrors, Ran, SlotBooks, Verdicts
  <2>3. f_outcome' = <<"success">> /\ f_fails = {}
    BY <1>1, <1>4, <2>2 DEF Fixed!ReturnValues, Fixed!ReturnResult
  <2>4. Fixed!Promise!Succeed
    BY <1>1, <2>1, <2>3 DEF Fixed!Promise!Succeed, Fixed!Promise!Success, Ran
  <2> QED
    BY <2>4 DEF Fixed!Promise!Next
<1> QED
  BY <1>2, <1>3, <1>4

LEMMA PromiseRun ==
  ASSUME FixedInv, SlotBooks, NEW w \in Fixed!Ordinals, Fixed!Operate(w)
  PROVE  Fixed!Promise!Next
<1>1. /\ f_wpc[w] = "operate" /\ f_slot[w] < Fixed!PartitionEnd(w)
      /\ UNCHANGED <<f_policy, f_fails, f_outcome>>
  BY DEF Fixed!Operate, SlotBooks, Partition
<1>2. f_slot[w] \in Fixed!Slots /\ f_slots[f_slot[w]] = "empty"
  BY <1>1, OwnSlot DEF SlotBooks, Partition
<1>3. /\ \A s \in Fixed!Slots : s # f_slot[w] => f_slots'[s] = f_slots[s]
      /\ f_slots'[f_slot[w]] # "empty"
  BY <1>2 DEF Fixed!Operate, FixedInv, FixedTypes
<1>4. f_slot[w] \notin Ran /\ Ran' = Ran \cup {f_slot[w]}
  BY <1>2, <1>3 DEF Ran
<1>5. f_outcome = Fixed!Promise!Pending
  BY <1>1, FixedJoined DEF Fixed!Pending, Fixed!Promise!Pending
<1>6. PICK s \in Fixed!Slots : s = f_slot[w]
  BY <1>2
<1>7. Fixed!Promise!Run(s)
  BY <1>1, <1>4, <1>5, <1>6 DEF Fixed!Promise!Run, Ran
<1> QED
  BY <1>7 DEF Fixed!Promise!Next

LEMMA FixedPromise == FixedInv /\ SlotBooks /\ [Fixed!Next]_fvars => PromiseStep
<1> SUFFICES ASSUME FixedInv, SlotBooks, [Fixed!Next]_fvars PROVE PromiseStep
  OBVIOUS
<1>1. CASE \/ Fixed!Launch \/ Fixed!LaunchFails \/ Fixed!Release \/ Fixed!Join \/ Fixed!Returned
           \/ UNCHANGED fvars
           \/ \E w \in Fixed!Ordinals : \/ Fixed!Arrive(w) \/ Fixed!ArriveFails(w)
                                        \/ Fixed!CancelGate(w) \/ Fixed!PassGate(w)
                                        \/ Fixed!Check(w) \/ Fixed!Publish(w)
  <2>1. UNCHANGED <<f_policy, f_fails, f_slots, f_outcome>>
    BY <1>1 DEF fvars, Fixed!Launch, Fixed!LaunchFails, Fixed!Release, Fixed!Join, Fixed!Returned, Fixed!vars,
       Fixed!workerVars, Fixed!Arrive, Fixed!ArriveFails, Fixed!CancelGate, Fixed!PassGate,
       Fixed!Check, Fixed!Publish
  <2> QED
    BY <2>1 DEF PromiseStep, Fixed!Promise!vars
<1> QED
  BY <1>1, PromiseReturned, PromiseRun DEF PromiseStep, Fixed!Next, Fixed!Caller, Fixed!Worker

LEMMA FixedPromiseInit == Fixed!Init => Fixed!Promise!Init
<1> SUFFICES ASSUME Fixed!Init PROVE Fixed!Promise!Init
  OBVIOUS
<1>1. \A s \in Fixed!Slots : f_slots[s] = "empty"
  BY DEF Fixed!Init
<1> QED
  BY <1>1 DEF Fixed!Init, Fixed!Promise!Init, Fixed!Pending, Fixed!Promise!Pending

FixedBooks == FixedInv /\ SlotBooks

LEMMA FixedPart ==
  /\ Init => FixedBooks
  /\ FixedBooks /\ [Next]_vars => FixedBooks'
  /\ [Next]_vars => [Fixed!Next]_fvars
<1>1. [Next]_vars => [Fixed!Next]_fvars
  BY DEF Next, vars, InFixed, InGroup, InMap, InSteal, InChunks, InLoop
<1>2. Init => FixedBooks
  BY FixedInitInv, BooksInit DEF Init, FixedBooks
<1> QED
  BY <1>1, <1>2, FixedNextInv, BooksNext DEF FixedBooks

LEMMA FixedSafe ==
  ASSUME FixedBooks
  PROVE  Fixed!AllOrNone /\ Fixed!OneWriter /\ Fixed!NoWorkerOutlives
<1>1. Fixed!AllOrNone
  BY GateOpen DEF FixedBooks, FixedInv, Gate, Fixed!AllOrNone
<1>2. Fixed!OneWriter
  BY OwnSlot DEF FixedBooks, SlotBooks, Partition, Fixed!OneWriter
<1>3. Fixed!NoWorkerOutlives
  BY DEF FixedBooks, FixedInv, Owned, Ended, Fixed!NoWorkerOutlives
<1> QED
  BY <1>1, <1>2, <1>3

\* execute_fixed_slots reports what OrderedOutcome promises: success only when
\* every slot has its value, otherwise an error that did happen, and under
\* drain_all the one of the lowest slot.
THEOREM FixedKeepsPromise == FairSpec => Fixed!KeepsPromise
<1>1. Init => Fixed!Promise!Init
  BY FixedPromiseInit DEF Init
<1>2. FixedBooks /\ [Next]_vars => [Fixed!Promise!Next]_(Fixed!Promise!vars)
  BY FixedPart, FixedPromise DEF FixedBooks, PromiseStep
<1>3. Init => FixedBooks
  BY FixedPart
<1>4. FixedBooks /\ [Next]_vars => FixedBooks'
  BY FixedPart
<1> QED
  BY <1>1, <1>2, <1>3, <1>4, PTL DEF FairSpec, Fixed!KeepsPromise, Fixed!Promise!Spec

-----------------------------------------------------------------------------
\* run_joined_worker_group.

GroupPcs == {"none", "arrive", "announce", "load", "wait", "asleep", "body", "done"}
GroupCallers == {"launch", "load", "wait", "asleep", "store", "wakeReleased", "wakeCancelled",
                 "join", "abort", "returned"}

\* The threads that arrived_workers_ counts.
GroupArrived == {w \in Group!Ordinals : g_wpc[w] \notin {"none", "arrive"}}

\* A body runs only behind a gate that was released after the last arrival, a
\* thread ends without one only behind a gate that was cancelled, and a thread
\* that has not ended is held by the vector that the call empties.
GroupInv ==
  /\ g_fails \subseteq Group!Ordinals /\ g_bodies \subseteq Group!Ordinals
  /\ g_errors = g_bodies \cap g_fails
  /\ g_wpc \in [Group!Ordinals -> GroupPcs] /\ g_created \in 0..GroupWorkers
  /\ g_caller \in GroupCallers /\ g_state \in {"launching", "released", "cancelled"}
  /\ \A w \in Group!Ordinals : (g_wpc[w] = "none") <=> ~(w < g_created)
  /\ g_caller \in {"load", "wait", "asleep", "store", "wakeReleased", "join"} =>
       g_created = GroupWorkers
  /\ g_state = "launching" => g_caller \in {"launch", "load", "wait", "asleep", "store"}
  /\ g_state = "released" =>
       g_created = GroupWorkers /\ g_caller \in {"wakeReleased", "join", "returned"}
  /\ g_state = "cancelled" => g_caller \in {"wakeCancelled", "abort", "returned"}
  /\ \A w \in Group!Ordinals : /\ g_wpc[w] = "body" => g_state = "released"
                               /\ g_wpc[w] = "done" => w \in g_bodies \/ g_state = "cancelled"
                               /\ w \in g_bodies => g_wpc[w] = "done" /\ g_state = "released"
  /\ g_arrived = Cardinality(GroupArrived)
  /\ g_caller = "store" \/ g_state = "released" => GroupArrived = Group!Ordinals
  /\ \A w \in Group!Ordinals : g_wpc[w] \notin {"none", "done"} => w \in g_workers
  /\ g_outcome # <<"pending">> => g_caller = "returned" /\ g_workers = {}

LEMMA GroupFacts ==
  /\ Group!Ordinals \subseteq Nat /\ GroupWorkers \in Nat \ {0} /\ 0 \in 0..GroupWorkers
  /\ \A n \in 0..GroupWorkers : n < GroupWorkers =>
       n \in Group!Ordinals /\ n + 1 \in 0..GroupWorkers /\ ~(n < n)
  /\ \A n \in 0..GroupWorkers : ~(n < GroupWorkers) => n = GroupWorkers
  /\ \A w \in Group!Ordinals : w < GroupWorkers /\ ~(w < 0)
BY ExecutorsAssumption DEF Group!Ordinals

LEMMA GroupCounts ==
  /\ IsFiniteSet(Group!Ordinals) /\ Cardinality(Group!Ordinals) = GroupWorkers
  /\ IsFiniteSet(GroupArrived) /\ Cardinality(GroupArrived) \in Nat
  /\ Cardinality(GroupArrived) = GroupWorkers => GroupArrived = Group!Ordinals
<1>1. GroupWorkers - 1 \in Int /\ ~(0 > GroupWorkers - 1)
      /\ (GroupWorkers - 1) - 0 + 1 = GroupWorkers
  BY GroupFacts
<1>2. IsFiniteSet(Group!Ordinals) /\ Cardinality(Group!Ordinals) = GroupWorkers
  BY <1>1, FS_Interval DEF Group!Ordinals
<1>3. GroupArrived \in SUBSET Group!Ordinals
  BY DEF GroupArrived
<1> QED
  BY <1>2, <1>3, FS_Subset, FS_CardinalityType

LEMMA GroupInit == Group!Init => GroupInv
<1> SUFFICES ASSUME Group!Init PROVE GroupInv
  OBVIOUS
<1>1. GroupArrived = {} /\ Cardinality(GroupArrived) = 0
  <2>1. GroupArrived = {}
    BY DEF Group!Init, GroupArrived
  <2> QED
    BY <2>1, FS_EmptySet
<1> QED
  BY <1>1, GroupFacts DEF Group!Init, GroupInv, GroupPcs, GroupCallers

LEMMA GroupCaller ==
  ASSUME GroupInv, Group!Caller
  PROVE  GroupInv'
<1>1. CASE Group!LaunchThread
  <2>1. /\ g_created \in Group!Ordinals /\ g_created + 1 \in 0..GroupWorkers /\ g_created \in Nat
        /\ g_wpc[g_created] = "none"
    BY <1>1, GroupFacts DEF Group!LaunchThread, GroupInv
  <2>2. /\ g_wpc'[g_created] = "arrive" /\ g_wpc' \in [Group!Ordinals -> GroupPcs]
        /\ \A w \in Group!Ordinals : w # g_created => g_wpc'[w] = g_wpc[w]
        /\ g_created' = g_created + 1 /\ g_workers' = g_workers \cup {g_created}
        /\ g_caller' = IF g_created' = GroupWorkers THEN "load" ELSE "launch"
        /\ g_caller = "launch"
        /\ UNCHANGED <<g_fails, g_arrived, g_state, g_bodies, g_errors, g_outcome>>
    BY <1>1, <2>1 DEF Group!LaunchThread, GroupInv, GroupPcs
  <2>3. \A w \in Group!Ordinals : (w < g_created + 1) <=> (w = g_created \/ w < g_created)
    BY <2>1, GroupFacts
  <2>4. GroupArrived' = GroupArrived
    BY <2>1, <2>2 DEF GroupArrived
  <2> QED
    BY <2>1, <2>2, <2>3, <2>4 DEF GroupInv, GroupCallers
<1>2. CASE Group!LaunchThreadFails
  BY <1>2 DEF Group!LaunchThreadFails, GroupInv, GroupCallers, GroupArrived
<1>3. CASE Group!LoadArrived \/ Group!WaitArrived
  <2>1. /\ GroupArrived' = GroupArrived
        /\ g_caller' = "store" => GroupArrived = Group!Ordinals
    BY <1>3, GroupCounts DEF Group!LoadArrived, Group!WaitArrived, GroupInv, GroupArrived
  <2> QED
    BY <1>3, <2>1 DEF Group!LoadArrived, Group!WaitArrived, GroupInv, GroupCallers
<1>4. CASE Group!StoreReleased
  <2>1. GroupArrived' = GroupArrived
    BY <1>4 DEF Group!StoreReleased, GroupArrived
  <2> QED
    BY <1>4, <2>1 DEF Group!StoreReleased, GroupInv, GroupCallers
<1>5. CASE Group!WakeGate
  <2>1. /\ g_wpc' \in [Group!Ordinals -> GroupPcs]
        /\ \A w \in Group!Ordinals : g_wpc'[w] = IF g_wpc[w] = "asleep" THEN "load" ELSE g_wpc[w]
    BY <1>5 DEF Group!WakeGate, GroupInv, GroupPcs
  <2>2. GroupArrived' = GroupArrived
    BY <2>1 DEF GroupArrived
  <2> QED
    BY <1>5, <2>1, <2>2 DEF Group!WakeGate, GroupInv, GroupCallers
<1>6. CASE Group!Join \/ Group!Return
  <2>1. GroupArrived' = GroupArrived
    BY <1>6 DEF Group!Join, Group!Return, GroupArrived
  <2> QED
    BY <1>6, <2>1 DEF Group!Join, Group!Return, GroupInv, GroupCallers
<1> QED
  BY <1>1, <1>2, <1>3, <1>4, <1>5, <1>6 DEF Group!Caller

LEMMA GroupWorker ==
  ASSUME GroupInv, NEW w \in Group!Ordinals, Group!Worker(w)
  PROVE  GroupInv'
<1>1. /\ g_wpc[w] \notin {"none", "done"} /\ g_outcome = <<"pending">>
      /\ UNCHANGED <<g_fails, g_state, g_created, g_workers, g_outcome>>
  BY DEF Group!Worker, Group!Arrive, Group!Announce, Group!LoadState, Group!WaitState, Group!Body,
         GroupInv
<1>2. /\ \A v \in Group!Ordinals : v # w => g_wpc'[v] = g_wpc[v]
      /\ g_wpc' \in [Group!Ordinals -> GroupPcs]
      /\ g_wpc'[w] \notin {"none", "arrive"}
  BY DEF Group!Worker, Group!Arrive, Group!Announce, Group!LoadState, Group!WaitState, Group!Body,
         GroupInv, GroupPcs
<1>3. /\ g_arrived' = Cardinality(GroupArrived')
      /\ g_caller' = "store" \/ g_state' = "released" => GroupArrived' = Group!Ordinals
  <2>1. CASE Group!Arrive(w)
    <3>1. /\ w \notin GroupArrived /\ GroupArrived' = GroupArrived \cup {w}
          /\ g_arrived' = g_arrived + 1 /\ g_caller' = g_caller
      BY <1>2, <2>1 DEF Group!Arrive, GroupArrived
    <3>2. Cardinality(GroupArrived') = Cardinality(GroupArrived) + 1
      BY <3>1, GroupCounts, FS_AddElement
    <3> QED
      BY <1>1, <3>1, <3>2 DEF GroupInv
  <2>2. CASE \/ Group!Announce(w) \/ Group!LoadState(w) \/ Group!WaitState(w) \/ Group!Body(w)
    <3>1. /\ g_wpc[w] \notin {"none", "arrive"} /\ g_arrived' = g_arrived
          /\ g_caller' = "store" => g_caller = "store"
      BY <2>2 DEF Group!Announce, Group!LoadState, Group!WaitState, Group!Body
    <3>2. GroupArrived' = GroupArrived
      BY <1>2, <3>1 DEF GroupArrived
    <3> QED
      BY <1>1, <3>1, <3>2 DEF GroupInv
  <2> QED
    BY <2>1, <2>2 DEF Group!Worker
<1>4. CASE Group!Arrive(w) \/ Group!Announce(w) \/ Group!WaitState(w)
  <2>1. /\ g_wpc'[w] \notin {"body", "done"} /\ UNCHANGED <<g_bodies, g_errors>>
        /\ g_caller' = g_caller \/ (g_caller = "asleep" /\ g_caller' = "load")
    BY <1>4 DEF Group!Arrive, Group!Announce, Group!WaitState, GroupInv
  <2> QED
    BY <1>1, <1>2, <1>3, <2>1 DEF GroupInv, GroupCallers
<1>5. CASE Group!LoadState(w)
  <2>1. /\ UNCHANGED <<g_bodies, g_errors, g_caller>>
        /\ g_wpc'[w] = CASE g_state = "launching" -> "wait"
                         [] g_state = "released" -> "body"
                         [] OTHER -> "done"
    BY <1>5 DEF Group!LoadState, GroupInv
  <2>2. /\ g_wpc'[w] = "body" => g_state = "released"
        /\ g_wpc'[w] = "done" => g_state = "cancelled"
    BY <2>1 DEF GroupInv
  <2> QED
    BY <1>1, <1>2, <1>3, <2>1, <2>2 DEF GroupInv
<1>6. CASE Group!Body(w)
  <2>1. /\ g_wpc[w] = "body" /\ g_wpc'[w] = "done" /\ g_bodies' = g_bodies \cup {w}
        /\ g_errors' = IF w \in g_fails THEN g_errors \cup {w} ELSE g_errors
        /\ UNCHANGED g_caller
    BY <1>6 DEF Group!Body, GroupInv
  <2> QED
    BY <1>1, <1>2, <1>3, <2>1 DEF GroupInv
<1> QED
  BY <1>4, <1>5, <1>6 DEF Group!Worker

LEMMA GroupNext == GroupInv /\ [Group!Next]_gvars => GroupInv'
<1> SUFFICES ASSUME GroupInv, [Group!Next]_gvars PROVE GroupInv'
  OBVIOUS
<1>1. CASE UNCHANGED gvars
  BY <1>1 DEF gvars, GroupInv, GroupArrived
<1>2. CASE Group!Returned
  BY <1>1, <1>2 DEF Group!Returned, Group!vars, gvars
<1> QED
  BY <1>1, <1>2, GroupCaller, GroupWorker DEF Group!Next

GroupPromiseStep == [Group!Promise!Next]_(Group!Promise!vars)

LEMMA GroupReturns ==
  ASSUME GroupInv, Group!Return
  PROVE  Group!Promise!Next
<1>1. /\ g_outcome = Group!Promise!Pending /\ UNCHANGED <<g_fails, g_bodies>>
      /\ g_caller \in {"join", "abort"} /\ g_workers = {}
      /\ g_outcome' = IF g_caller = "abort" THEN <<"infrastructure">>
                      ELSE IF g_errors = {} THEN <<"success">>
                      ELSE <<"failed", CHOOSE w \in g_errors : \A v \in g_errors : w <= v>>
  BY DEF Group!Return, GroupInv, Group!Promise!Pending
<1>2. CASE g_caller = "abort"
  <2>1. g_bodies = {}
    BY <1>2 DEF GroupInv
  <2>2. Group!Promise!Break
    BY <1>1, <1>2, <2>1 DEF Group!Promise!Break, Group!Promise!Infrastructure
  <2> QED
    BY <2>2 DEF Group!Promise!Next
<1>3. CASE g_caller = "join"
  <2>1. g_bodies = Group!Ordinals /\ g_errors = g_fails
    <3>1. g_state = "released" /\ g_created = GroupWorkers
      BY <1>3 DEF GroupInv
    <3>2. \A w \in Group!Ordinals : g_wpc[w] = "done" /\ w \in g_bodies
      BY <1>1, <3>1, GroupFacts DEF GroupInv
    <3> QED
      BY <3>2 DEF GroupInv
  <2>2. CASE g_errors = {}
    <3>1. Group!Promise!Succeed
      BY <1>1, <1>3, <2>1, <2>2 DEF Group!Promise!Succeed, Group!Promise!Success
    <3> QED
      BY <3>1 DEF Group!Promise!Next
  <2>3. CASE g_errors # {}
    <3> DEFINE m == CHOOSE w \in g_errors : \A v \in g_errors : w <= v
    <3>1. m \in g_errors /\ \A v \in g_errors : m <= v
      <4>1. g_errors \in SUBSET Nat
        BY GroupFacts DEF GroupInv
      <4> QED
        BY <2>3, <4>1, LeastElement
    <3>2. g_outcome' = <<"failed", m>>
      BY <1>1, <1>3, <2>3
    <3> HIDE DEF m
    <3>3. PICK i \in Group!Ordinals : i = m
      BY <3>1 DEF GroupInv
    <3>4. Group!Promise!Fail(i)
      BY <1>1, <2>1, <3>1, <3>2, <3>3 DEF Group!Promise!Fail, Group!Promise!Failed
    <3> QED
      BY <3>4 DEF Group!Promise!Next
  <2> QED
    BY <2>2, <2>3
<1> QED
  BY <1>1, <1>2, <1>3

LEMMA GroupPromise == GroupInv /\ [Group!Next]_gvars => GroupPromiseStep
<1> SUFFICES ASSUME GroupInv, [Group!Next]_gvars PROVE GroupPromiseStep
  OBVIOUS
<1>1. CASE Group!Return
  BY <1>1, GroupReturns DEF GroupPromiseStep
<1>2. ASSUME NEW w \in Group!Ordinals, Group!Body(w)
      PROVE  GroupPromiseStep
  <2>1. /\ w \notin g_bodies /\ g_bodies' = g_bodies \cup {w} /\ UNCHANGED <<g_fails, g_outcome>>
        /\ g_outcome = Group!Promise!Pending
    BY <1>2 DEF Group!Body, GroupInv, Group!Promise!Pending
  <2>2. Group!Promise!Run(w)
    BY <2>1 DEF Group!Promise!Run
  <2> QED
    BY <2>2 DEF GroupPromiseStep, Group!Promise!Next
<1>3. CASE UNCHANGED <<g_fails, g_bodies, g_outcome>>
  BY <1>3 DEF GroupPromiseStep, Group!Promise!vars
<1> QED
  BY <1>1, <1>2, <1>3 DEF Group!Next, Group!Caller, Group!Worker, gvars, Group!LaunchThread,
     Group!LaunchThreadFails, Group!LoadArrived, Group!WaitArrived, Group!StoreReleased,
     Group!WakeGate, Group!Join, Group!Arrive, Group!Announce, Group!LoadState, Group!WaitState,
     Group!Returned, Group!vars

LEMMA GroupPart ==
  /\ Init => GroupInv /\ Group!Promise!Init
  /\ GroupInv /\ [Next]_vars => GroupInv' /\ GroupPromiseStep
  /\ GroupInv => Group!NoEarlyBody /\ Group!NoWorkerOutlives
<1>1. [Next]_vars => [Group!Next]_gvars
  BY DEF Next, vars, InFixed, InGroup, InMap, InSteal, InChunks, InLoop
<1>2. Init => GroupInv /\ Group!Promise!Init
  BY GroupInit DEF Init, Group!Init, Group!Promise!Init, Group!Promise!Pending
<1>3. GroupInv => Group!NoEarlyBody /\ Group!NoWorkerOutlives
  BY GroupCounts DEF GroupInv, Group!NoEarlyBody, Group!NoWorkerOutlives
<1> QED
  BY <1>1, <1>2, <1>3, GroupNext, GroupPromise

\* run_joined_worker_group reports what OrderedOutcome promises: all bodies ran
\* or none, and the error is the one of the lowest ordinal.
THEOREM GroupKeepsPromise == FairSpec => Group!KeepsPromise
<1>1. Init => GroupInv /\ Group!Promise!Init
  BY GroupPart
<1>2. GroupInv /\ [Next]_vars => GroupInv' /\ [Group!Promise!Next]_(Group!Promise!vars)
  BY GroupPart DEF GroupPromiseStep
<1> QED
  BY <1>1, <1>2, PTL DEF FairSpec, Group!KeepsPromise, Group!Promise!Spec

-----------------------------------------------------------------------------
\* ordered_parallel_map.

MapTasks == {"new", "queued", "running", "done"}
MapCallers == {"inline", "construct", "submit", "drain", "drainFailed", "choose",
               "chooseFailed", "returned"}

\* The submitted tasks are those before next, the drained ones have ended, and
\* the errors are those of the ended tasks.
MapInv ==
  /\ m_fails \subseteq Map!Indices /\ m_errors = Map!Ended \cap m_fails
  /\ m_task \in [Map!Indices -> MapTasks] /\ m_caller \in MapCallers
  /\ m_next \in 0..Count /\ m_drained \in 0..Count /\ m_drained <= m_next
  /\ \A i \in Map!Indices : (m_task[i] = "new") <=> ~(i < m_next)
  /\ \A i \in Map!Indices : i < m_drained => m_task[i] = "done"
  /\ m_caller \in {"inline", "construct"} => \A i \in Map!Indices : m_task[i] \in {"new", "done"}
  /\ m_caller = "construct" => m_next = 0
  /\ m_caller = "drain" => m_next = Count
  /\ m_caller = "choose" => m_next = Count /\ \A i \in Map!Indices : m_task[i] = "done"
  /\ m_caller = "chooseFailed" => m_drained = m_next
  /\ m_outcome # <<"pending">> => m_caller = "returned" /\ Map!NothingOutlives
  /\ Map!SubmissionErrorLast

LEMMA MapFacts ==
  /\ Map!Indices \subseteq Nat /\ Count \in Nat \ {0} /\ 0 \in 0..Count
  /\ \A n \in 0..Count : n < Count => n \in Map!Indices /\ n + 1 \in 0..Count /\ ~(n < n)
  /\ \A n \in 0..Count : n \in Nat
  /\ \A i \in Map!Indices : i < Count /\ ~(i < 0)
BY ExecutorsAssumption DEF Map!Indices

LEMMA MapInit == Map!Init => MapInv
<1> SUFFICES ASSUME Map!Init PROVE MapInv
  OBVIOUS
<1>1. /\ m_fails \subseteq Map!Indices /\ m_errors = {} /\ m_next = 0 /\ m_drained = 0
      /\ m_task = [i \in Map!Indices |-> "new"] /\ m_caller \in {"inline", "construct"}
      /\ m_outcome = <<"pending">>
  BY DEF Map!Init
<1>2. Map!Ended = {} /\ m_outcome # <<"infrastructure">>
  BY <1>1 DEF Map!Ended
<1> QED
  BY <1>1, <1>2, MapFacts DEF MapInv, MapTasks, MapCallers, Map!SubmissionErrorLast

LEMMA MapSubmits ==
  ASSUME MapInv, Map!InvokeInline \/ Map!SubmitIndex
  PROVE  MapInv'
<1>1. /\ m_next < Count /\ m_next \in Map!Indices /\ m_next + 1 \in 0..Count /\ m_next \in Nat
      /\ m_next' = m_next + 1 /\ m_task[m_next] = "new" /\ m_drained \in Nat
      /\ UNCHANGED <<m_fails, m_drained, m_outcome>> /\ m_caller \in {"inline", "submit"}
      /\ m_outcome = <<"pending">>
  BY MapFacts DEF Map!InvokeInline, Map!SubmitIndex, MapInv
<1>2. PICK t \in {"queued", "done"} :
        /\ m_task' = [m_task EXCEPT ![m_next] = t]
        /\ t = "done" => m_caller = "inline" /\ m_caller' = "inline"
        /\ t = "queued" => m_caller = "submit" /\ m_caller' \in {"submit", "drain"}
        /\ m_errors' = IF t = "done" /\ m_next \in m_fails THEN m_errors \cup {m_next} ELSE m_errors
        /\ m_caller' = "drain" => m_next' = Count
  <2>1. CASE Map!InvokeInline
    BY <2>1 DEF Map!InvokeInline
  <2>2. CASE Map!SubmitIndex
    BY <2>2 DEF Map!SubmitIndex
  <2> QED
    BY <2>1, <2>2
<1>3. /\ m_task'[m_next] = t /\ \A i \in Map!Indices : i # m_next => m_task'[i] = m_task[i]
      /\ m_task' \in [Map!Indices -> MapTasks]
  BY <1>1, <1>2 DEF MapInv, MapTasks
<1>4. \A i \in Map!Indices : (i < m_next + 1) <=> (i = m_next \/ i < m_next)
  BY <1>1, MapFacts
<1>5. m_errors' = Map!Ended' \cap m_fails
  BY <1>1, <1>2, <1>3 DEF MapInv, Map!Ended
<1>6. m_drained <= m_next + 1 /\ \A i \in Map!Indices : i < m_drained => i # m_next
  BY <1>1, MapFacts DEF MapInv
<1>7. Map!SubmissionErrorLast'
  BY <1>1 DEF Map!SubmissionErrorLast
<1> QED
  BY <1>1, <1>2, <1>3, <1>4, <1>5, <1>6, <1>7 DEF MapInv, MapCallers

\* The steps that touch no task, but for the return.
LEMMA MapCaller ==
  ASSUME MapInv, \/ Map!InvokeInlineEnd \/ Map!SubmitFails \/ Map!Drain \/ Map!Drained
                 \/ (Map!Construct /\ m_outcome' = m_outcome)
  PROVE  MapInv'
<1>1. /\ UNCHANGED <<m_fails, m_task, m_errors, m_next, m_outcome>>
      /\ m_caller # "returned" /\ m_outcome = <<"pending">>
  BY DEF Map!InvokeInlineEnd, Map!SubmitFails, Map!Drain, Map!Drained, Map!Construct, MapInv
<1>2. Map!Ended' = Map!Ended /\ Map!SubmissionErrorLast'
  BY <1>1 DEF Map!Ended, Map!SubmissionErrorLast
<1>3. CASE Map!InvokeInlineEnd
  BY <1>1, <1>2, <1>3, MapFacts DEF Map!InvokeInlineEnd, MapInv, MapCallers
<1>4. CASE Map!SubmitFails \/ (Map!Construct /\ m_outcome' = m_outcome)
  BY <1>1, <1>2, <1>4 DEF Map!SubmitFails, Map!Construct, Map!Return, MapInv, MapCallers
<1>5. CASE Map!Drain
  <2>1. /\ m_drained \in Nat /\ m_drained + 1 <= m_next /\ m_drained + 1 \in 0..Count
        /\ m_drained' = m_drained + 1 /\ m_task[m_drained] = "done" /\ m_caller' = m_caller
    BY <1>5, MapFacts DEF Map!Drain, MapInv
  <2>2. \A i \in Map!Indices : (i < m_drained + 1) <=> (i = m_drained \/ i < m_drained)
    BY <2>1, MapFacts
  <2>3. m_caller \in {"drain", "drainFailed"}
    BY <1>5 DEF Map!Drain
  <2> QED
    BY <1>1, <1>2, <2>1, <2>2, <2>3 DEF MapInv
<1>6. CASE Map!Drained
  <2>1. /\ m_caller \in {"drain", "drainFailed"} /\ m_drained = m_next /\ m_drained' = m_drained
        /\ m_caller' = IF m_caller = "drain" THEN "choose" ELSE "chooseFailed"
    BY <1>6 DEF Map!Drained
  <2> QED
    BY <1>1, <1>2, <2>1, MapFacts DEF MapInv, MapCallers
<1> QED
  BY <1>3, <1>4, <1>5, <1>6

LEMMA MapReturns ==
  ASSUME MapInv, Map!Choose \/ (Map!Construct /\ m_outcome' # m_outcome)
  PROVE  MapInv'
<1>1. /\ UNCHANGED <<m_fails, m_task, m_errors, m_next, m_drained>> /\ m_caller' = "returned"
      /\ m_caller \in {"choose", "chooseFailed", "construct"}
      /\ m_outcome' = <<"infrastructure">> => m_errors = {} /\ m_caller # "choose"
  <2>1. CASE Map!Choose
    <3>1. <<"success">> # <<"infrastructure">>
      OBVIOUS
    <3>2. m_errors # {} => m_outcome' # <<"infrastructure">>
      BY <2>1 DEF Map!Choose, Map!Return
    <3> QED
      BY <2>1, <3>1, <3>2 DEF Map!Choose, Map!Return
  <2>2. CASE Map!Construct /\ m_outcome' # m_outcome
    <3>1. Map!Ended = {}
      BY <2>2, MapFacts DEF Map!Construct, Map!Ended, MapInv
    <3> QED
      BY <2>2, <3>1 DEF Map!Construct, Map!Return, MapInv
  <2> QED
    BY <2>1, <2>2
<1>2. \A i \in Map!Indices : m_task[i] \in {"new", "done"}
  BY <1>1 DEF MapInv
<1>3. m_caller # "choose" =>
        \A i \in Map!Ended : \A j \in Map!Indices \ Map!Ended : i < j
  <2> SUFFICES ASSUME m_caller # "choose", NEW i \in Map!Ended, NEW j \in Map!Indices \ Map!Ended
               PROVE  i < j
    OBVIOUS
  <2>1. i \in Map!Indices /\ m_task[i] = "done" /\ m_task[j] = "new"
    BY <1>2 DEF Map!Ended
  <2>2. i < m_next /\ ~(j < m_next) /\ i \in Nat /\ j \in Nat /\ m_next \in Nat
    BY <2>1, MapFacts DEF MapInv
  <2> QED
    BY <2>2
<1>4. Map!Ended' = Map!Ended /\ Map!NothingOutlives'
  BY <1>1, <1>2 DEF Map!Ended, Map!NothingOutlives
<1>5. Map!SubmissionErrorLast'
  BY <1>1, <1>3, <1>4 DEF Map!SubmissionErrorLast, MapInv
<1> QED
  BY <1>1, <1>4, <1>5 DEF MapInv, MapCallers

LEMMA MapPool ==
  ASSUME MapInv, NEW i \in Map!Indices, Map!Start(i) \/ Map!Finish(i)
  PROVE  MapInv' /\ m_outcome = <<"pending">> /\ i \notin Map!Ended
<1>1. /\ m_task[i] \in {"queued", "running"} /\ m_outcome = <<"pending">>
      /\ m_task' \in [Map!Indices -> MapTasks] /\ m_task'[i] \in {"running", "done"}
      /\ \A j \in Map!Indices : j # i => m_task'[j] = m_task[j]
      /\ UNCHANGED <<m_fails, m_next, m_drained, m_caller, m_outcome>>
  BY DEF Map!Start, Map!Finish, MapInv, MapTasks, Map!NothingOutlives
<1>2. m_errors' = IF m_task'[i] = "done" /\ i \in m_fails THEN m_errors \cup {i} ELSE m_errors
  BY DEF Map!Start, Map!Finish, MapInv
<1>3. m_errors' = Map!Ended' \cap m_fails /\ i \notin Map!Ended
  BY <1>1, <1>2 DEF MapInv, Map!Ended
<1>4. Map!SubmissionErrorLast'
  BY <1>1 DEF Map!SubmissionErrorLast
<1> QED
  BY <1>1, <1>3, <1>4 DEF MapInv

LEMMA MapNext == MapInv /\ [Map!Next]_mvars => MapInv'
<1> SUFFICES ASSUME MapInv, [Map!Next]_mvars PROVE MapInv'
  OBVIOUS
<1>1. CASE UNCHANGED mvars
  BY <1>1 DEF mvars, MapInv, Map!Ended, Map!NothingOutlives, Map!SubmissionErrorLast
<1>2. CASE Map!Returned
  BY <1>1, <1>2 DEF Map!Returned, Map!vars, mvars
<1> QED
  BY <1>1, <1>2, MapSubmits, MapCaller, MapReturns, MapPool DEF Map!Next, Map!Caller, Map!Pool

MapPromiseStep == [Map!Promise!Next]_(Map!Promise!vars)

LEMMA MapPromiseReturns ==
  ASSUME MapInv, Map!Choose \/ (Map!Construct /\ m_outcome' # m_outcome)
  PROVE  Map!Promise!Next
<1>1. /\ UNCHANGED <<m_fails, m_task>> /\ Map!Ended' = Map!Ended
      /\ m_outcome = Map!Promise!Pending
  BY DEF Map!Choose, Map!Construct, Map!Ended, MapInv, Map!Promise!Pending
<1>2. CASE m_outcome' = <<"infrastructure">>
  <2>1. Map!Promise!Break
    BY <1>1, <1>2 DEF Map!Promise!Break, Map!Promise!Infrastructure
  <2> QED
    BY <2>1 DEF Map!Promise!Next
<1>3. CASE Map!Choose /\ m_errors # {}
  <2>1. m_outcome' = <<"failed", Map!Least(m_errors)>>
    BY <1>3 DEF Map!Choose, Map!Return
  <2> DEFINE m == Map!Least(m_errors)
  <2>2. m \in m_errors /\ \A j \in m_errors : m <= j
    <3>1. m_errors \in SUBSET Nat
      BY MapFacts DEF MapInv
    <3> QED
      BY <1>3, <3>1, LeastElement DEF Map!Least
  <2>3. m_outcome' = <<"failed", m>>
    BY <2>1
  <2> HIDE DEF m
  <2>4. PICK i \in Map!Indices : i = m /\ i \in Map!Ended \cap m_fails
    BY <2>2 DEF MapInv, Map!Ended
  <2>5. \A j \in m_fails : i <= j
    <3> SUFFICES ASSUME NEW j \in m_fails PROVE i <= j
      OBVIOUS
    <3>1. j \in Map!Indices /\ j \in Nat /\ i \in Nat
      BY MapFacts DEF MapInv
    <3>2. CASE j \in Map!Ended
      BY <2>2, <2>4, <3>2 DEF MapInv
    <3>3. CASE j \notin Map!Ended
      <4>1. m_caller = "chooseFailed" /\ m_drained = m_next
        BY <1>3, <3>1, <3>3 DEF Map!Choose, MapInv, Map!Ended
      <4>2. ~(j < m_next) /\ i < m_next /\ m_next \in Nat
        BY <2>4, <3>1, <3>3, <4>1, MapFacts DEF MapInv, Map!Ended
      <4> QED
        BY <3>1, <4>2
    <3> QED
      BY <3>2, <3>3
  <2>6. Map!Promise!Fail(i)
    BY <1>1, <2>3, <2>4, <2>5 DEF Map!Promise!Fail, Map!Promise!Failed
  <2> QED
    BY <2>6 DEF Map!Promise!Next
<1>4. CASE Map!Choose /\ m_errors = {} /\ m_caller = "choose"
  <2>1. Map!Ended = Map!Indices /\ m_fails = {} /\ m_outcome' = <<"success">>
    BY <1>4 DEF Map!Choose, Map!Return, MapInv, Map!Ended
  <2>2. Map!Promise!Succeed
    BY <1>1, <2>1 DEF Map!Promise!Succeed, Map!Promise!Success
  <2> QED
    BY <2>2 DEF Map!Promise!Next
<1>5. CASE Map!Choose /\ m_errors = {} /\ m_caller = "chooseFailed"
  BY <1>2, <1>5 DEF Map!Choose, Map!Return
<1>6. CASE Map!Construct /\ m_outcome' # m_outcome
  BY <1>2, <1>6 DEF Map!Construct, Map!Return
<1> QED
  BY <1>3, <1>4, <1>5, <1>6 DEF Map!Choose

LEMMA MapRuns ==
  ASSUME MapInv, NEW i \in Map!Indices, i \notin Map!Ended, Map!Ended' = Map!Ended \cup {i},
         UNCHANGED <<m_fails, m_outcome>>, m_outcome = <<"pending">>
  PROVE  MapPromiseStep
<1>1. Map!Promise!Run(i)
  BY DEF Map!Promise!Run, Map!Promise!Pending
<1> QED
  BY <1>1 DEF MapPromiseStep, Map!Promise!Next

LEMMA MapPromise == MapInv /\ [Map!Next]_mvars => MapPromiseStep
<1> SUFFICES ASSUME MapInv, [Map!Next]_mvars PROVE MapPromiseStep
  OBVIOUS
<1>1. CASE Map!Choose \/ (Map!Construct /\ m_outcome' # m_outcome)
  BY <1>1, MapPromiseReturns DEF MapPromiseStep
<1>2. CASE Map!InvokeInline
  <2>1. /\ m_next \in Map!Indices /\ m_task[m_next] = "new"
        /\ m_task' = [m_task EXCEPT ![m_next] = "done"]
        /\ m_outcome = <<"pending">> /\ UNCHANGED <<m_fails, m_outcome>>
    BY <1>2, MapFacts DEF Map!InvokeInline, MapInv
  <2>2. PICK i \in Map!Indices : i = m_next
    BY <2>1
  <2>3. i \notin Map!Ended /\ Map!Ended' = Map!Ended \cup {i}
    BY <2>1, <2>2 DEF Map!Ended, MapInv
  <2> QED
    BY <2>1, <2>3, MapRuns
<1>3. ASSUME NEW i \in Map!Indices, Map!Finish(i)
      PROVE  MapPromiseStep
  <2>1. Map!Ended' = Map!Ended \cup {i}
    BY <1>3 DEF Map!Finish, Map!Ended, MapInv
  <2> QED
    BY <1>3, <2>1, MapPool, MapRuns DEF Map!Finish
<1>4. CASE Map!SubmitIndex
  <2>1. m_next \in Map!Indices /\ m_task[m_next] = "new"
    BY <1>4, MapFacts DEF Map!SubmitIndex, MapInv
  <2>2. Map!Ended' = Map!Ended /\ UNCHANGED <<m_fails, m_outcome>>
    BY <1>4, <2>1 DEF Map!SubmitIndex, Map!Ended, MapInv
  <2> QED
    BY <2>2 DEF MapPromiseStep, Map!Promise!vars
<1>5. ASSUME NEW i \in Map!Indices, Map!Start(i)
      PROVE  MapPromiseStep
  <2>1. Map!Ended' = Map!Ended /\ UNCHANGED <<m_fails, m_outcome>>
    BY <1>5 DEF Map!Start, Map!Ended, MapInv
  <2> QED
    BY <2>1 DEF MapPromiseStep, Map!Promise!vars
<1>6. CASE UNCHANGED <<m_fails, m_task, m_outcome>>
  BY <1>6 DEF MapPromiseStep, Map!Promise!vars, Map!Ended
<1> QED
  BY <1>1, <1>2, <1>3, <1>4, <1>5, <1>6 DEF Map!Next, Map!Caller, Map!Pool, mvars,
     Map!InvokeInlineEnd, Map!SubmitFails, Map!Drain, Map!Drained, Map!Construct, Map!Returned,
     Map!vars

LEMMA MapPart ==
  /\ Init => MapInv /\ Map!Promise!Init
  /\ MapInv /\ [Next]_vars => MapInv' /\ MapPromiseStep
  /\ MapInv => Map!NothingOutlives /\ Map!SubmissionErrorLast
<1>1. [Next]_vars => [Map!Next]_mvars
  BY DEF Next, vars, InFixed, InGroup, InMap, InSteal, InChunks, InLoop
<1>2. Init => MapInv /\ Map!Promise!Init
  BY MapInit DEF Init, Map!Init, Map!Promise!Init, Map!Promise!Pending, Map!Ended
<1>3. MapInv => Map!NothingOutlives /\ Map!SubmissionErrorLast
  BY DEF MapInv, Map!NothingOutlives
<1> QED
  BY <1>1, <1>2, <1>3, MapNext, MapPromise

\* ordered_parallel_map reports what OrderedOutcome promises, the error of the
\* lowest index; a failure to submit is reported only when no task failed.
THEOREM MapKeepsPromise == FairSpec => Map!KeepsPromise
<1>1. Init => MapInv /\ Map!Promise!Init
  BY MapPart
<1>2. MapInv /\ [Next]_vars => MapInv' /\ [Map!Promise!Next]_(Map!Promise!vars)
  BY MapPart DEF MapPromiseStep
<1>3. MapInv => Map!SubmissionErrorLast
  BY MapPart
<1> QED
  BY <1>1, <1>2, <1>3, PTL DEF FairSpec, Map!KeepsPromise, Map!Promise!Spec

-----------------------------------------------------------------------------
\* ordered_work_stealing_map: the index a worker holds was claimed by it alone
\* and has not been handled, an index that was never claimed has no slot, and
\* the submitted workers are the first ones.
Handled == {i \in Steal!Indices : s_slots[i] # "empty"}

\* No submitted worker is left.
StealEnded == \A w \in Steal!Ordinals : s_wpc[w] \in {"none", "done"}

StealInv ==
  /\ s_fails \subseteq Steal!Indices /\ s_next_index \in Nat
  /\ s_submitted \in 0..Steal!ActiveWorkers
  /\ s_wpc \in [Steal!Ordinals -> {"none", "claim", "operate", "done"}]
  /\ s_held \in [Steal!Ordinals -> Steal!Indices \cup {Steal!Idle}]
  /\ s_slots \in [Steal!Indices -> {"empty", "value", "error"}]
  /\ \A w \in Steal!Ordinals : (s_held[w] = Steal!Idle) <=> s_wpc[w] # "operate"
  /\ \A w \in Steal!Ordinals : s_held[w] # Steal!Idle => s_held[w] < s_next_index
  /\ \A i \in Steal!Indices : s_slots[i] # "empty" => i < s_next_index
  /\ \A w \in Steal!Ordinals : (s_wpc[w] = "none") <=> ~(w < s_submitted)
  /\ s_drained \in Nat /\ s_drained <= s_submitted
  /\ \A w \in Steal!Ordinals : w < s_drained => s_wpc[w] = "done"
  /\ s_outcome # <<"pending">> => s_caller = "returned"
  /\ s_caller = "setup" => s_submitted = 0
  /\ s_caller \in {"returned", "setup"} => StealEnded
  /\ Steal!ClaimsDisjoint
  /\ \A i \in Steal!Indices : s_slots[i] # "empty" =>
       s_slots[i] = IF i \in s_fails THEN "error" ELSE "value"
  /\ \A i \in Steal!Indices : i < s_next_index =>
       i \in Handled \/ \E w \in Steal!Ordinals : s_held[w] = i
  /\ \A w \in Steal!Ordinals : s_wpc[w] = "done" => ~(s_next_index < Count)
  /\ s_caller = "drain" => s_submitted = Steal!ActiveWorkers
  /\ s_processed = Cardinality(Handled)

LEMMA StealFacts ==
  /\ Count \in Nat \ {0} /\ Steal!ActiveWorkers \in Nat \ {0}
  /\ Steal!Ordinals \subseteq Nat /\ Steal!Indices \subseteq Nat /\ Steal!Idle \notin Steal!Indices
  /\ \A n \in Nat : n < Count => n \in Steal!Indices
  /\ \A n \in Nat : n < Steal!ActiveWorkers => n \in Steal!Ordinals
  /\ IsFiniteSet(Steal!Indices) /\ Cardinality(Steal!Indices) = Count
<1>1. /\ Count \in Nat \ {0} /\ Steal!ActiveWorkers \in Nat \ {0}
      /\ Steal!Ordinals \subseteq Nat /\ Steal!Indices \subseteq Nat /\ Steal!Idle \notin Steal!Indices
      /\ \A n \in Nat : n < Count => n \in Steal!Indices
      /\ \A n \in Nat : n < Steal!ActiveWorkers => n \in Steal!Ordinals
  BY ExecutorsAssumption DEF Steal!ActiveWorkers, Steal!Ordinals, Steal!Indices, Steal!Idle
<1>2. Count - 1 \in Int /\ ~(0 > Count - 1) /\ (Count - 1) - 0 + 1 = Count
  BY <1>1
<1> QED
  BY <1>1, <1>2, FS_Interval DEF Steal!Indices

LEMMA StealInit == Steal!Init => StealInv
<1> SUFFICES ASSUME Steal!Init PROVE StealInv
  OBVIOUS
<1>1. \A w \in Steal!Ordinals : s_wpc[w] = "none" /\ s_held[w] = Steal!Idle /\ ~(w < 0)
  BY StealFacts DEF Steal!Init
<1>2. \A i \in Steal!Indices : s_slots[i] = "empty"
  BY DEF Steal!Init
<1>3. s_submitted \in 0..Steal!ActiveWorkers
  BY StealFacts DEF Steal!Init
<1>4. /\ s_wpc \in [Steal!Ordinals -> {"none", "claim", "operate", "done"}]
      /\ s_held \in [Steal!Ordinals -> Steal!Indices \cup {Steal!Idle}]
      /\ s_slots \in [Steal!Indices -> {"empty", "value", "error"}]
  BY DEF Steal!Init
<1>5. Handled = {} /\ Cardinality(Handled) = 0
  BY <1>2, FS_EmptySet DEF Handled
<1> QED
  BY <1>1, <1>2, <1>3, <1>4, <1>5, StealFacts DEF StealInv, Steal!Init, StealEnded, Steal!ClaimsDisjoint

LEMMA StealSubmits ==
  ASSUME StealInv, Steal!SubmitWorker
  PROVE  StealInv'
<1>1. /\ s_caller = "submit" /\ s_submitted < Steal!ActiveWorkers
      /\ s_wpc' = [s_wpc EXCEPT ![s_submitted] = "claim"] /\ s_submitted' = s_submitted + 1
      /\ s_caller' \in {"drain", "submit"} /\ s_outcome = <<"pending">>
      /\ s_caller' = "drain" => s_submitted' = Steal!ActiveWorkers
      /\ UNCHANGED <<s_fails, s_next_index, s_held, s_slots, s_processed, s_drained, s_outcome>>
  BY DEF Steal!SubmitWorker, StealInv
<1>2. /\ s_submitted \in Nat /\ s_submitted \in Steal!Ordinals
      /\ s_submitted + 1 \in 0..Steal!ActiveWorkers
      /\ ~(s_submitted < s_submitted)
  BY <1>1, StealFacts DEF StealInv
<1>3. /\ s_wpc[s_submitted] = "none" /\ s_wpc'[s_submitted] = "claim"
      /\ \A w \in Steal!Ordinals : w # s_submitted => s_wpc'[w] = s_wpc[w]
      /\ s_wpc' \in [Steal!Ordinals -> {"none", "claim", "operate", "done"}]
  BY <1>1, <1>2 DEF StealInv
<1>4. \A w \in Steal!Ordinals : (w < s_submitted + 1) <=> (w = s_submitted \/ w < s_submitted)
  BY <1>2, StealFacts
<1> QED
  BY <1>1, <1>2, <1>3, <1>4 DEF StealInv, Steal!ClaimsDisjoint, Handled

\* Once every submitted worker was waited for, none is left.
LEMMA StealDrained ==
  ASSUME StealInv, s_drained = s_submitted
  PROVE  StealEnded
BY DEF StealInv, StealEnded

\* The caller's other steps touch no worker.
LEMMA StealCaller ==
  ASSUME StealInv,
         \/ Steal!Setup \/ Steal!SubmitWorkerFails \/ Steal!Drain \/ Steal!FinishFailed
         \/ Steal!Finish
  PROVE  StealInv'
<1>1. /\ UNCHANGED <<s_fails, s_submitted, s_next_index, s_wpc, s_held, s_slots, s_processed>>
      /\ s_caller' = "returned" => StealEnded
      /\ s_caller' # "returned" => s_outcome' = s_outcome /\ s_outcome = <<"pending">>
      /\ s_caller' = "drain" => s_caller = "drain"
      /\ s_caller' # "setup"
  BY StealDrained DEF Steal!Setup, Steal!SubmitWorkerFails, Steal!Drain, Steal!FinishFailed,
     Steal!Finish, Steal!Return, Steal!workerVars, StealInv
<1>2. /\ s_drained' \in Nat /\ s_drained' <= s_submitted
      /\ \A w \in Steal!Ordinals : w < s_drained' => s_wpc[w] = "done"
  <2>1. CASE s_drained' = s_drained
    BY <2>1 DEF StealInv
  <2>2. CASE Steal!Drain
    <3>1. /\ s_drained < s_submitted /\ s_wpc[s_drained] = "done" /\ s_drained' = s_drained + 1
          /\ s_drained \in Nat /\ s_submitted \in Nat
      BY <2>2 DEF Steal!Drain, StealInv
    <3>2. \A w \in Steal!Ordinals : w < s_drained + 1 => w = s_drained \/ w < s_drained
      BY <3>1, StealFacts
    <3> QED
      BY <3>1, <3>2 DEF StealInv
  <2> QED
    BY <2>1, <2>2 DEF Steal!Setup, Steal!SubmitWorkerFails, Steal!FinishFailed, Steal!Finish,
       Steal!Return
<1>3. /\ (StealEnded <=> StealEnded') /\ Handled' = Handled
      /\ (Steal!ClaimsDisjoint <=> Steal!ClaimsDisjoint')
  BY <1>1 DEF StealEnded, Steal!ClaimsDisjoint, Handled
<1> QED
  BY <1>1, <1>2, <1>3 DEF StealInv

LEMMA StealClaim ==
  ASSUME StealInv, NEW w \in Steal!Ordinals, Steal!Claim(w)
  PROVE  StealInv'
<1>1. /\ s_wpc[w] = "claim" /\ s_next_index' = s_next_index + 1 /\ s_next_index \in Nat
      /\ s_wpc' = [s_wpc EXCEPT ![w] = IF s_next_index < Count THEN "operate" ELSE "done"]
      /\ s_held' = [s_held EXCEPT ![w] = IF s_next_index < Count THEN s_next_index ELSE Steal!Idle]
      /\ UNCHANGED <<s_fails, s_submitted, s_drained, s_slots, s_processed, s_caller, s_outcome>>
  BY DEF Steal!Claim, StealInv
<1>2. /\ s_caller \notin {"returned", "setup"} /\ s_outcome = <<"pending">>
  BY <1>1 DEF StealInv, StealEnded
<1>3. /\ s_next_index < Count => s_next_index \in Steal!Indices /\ s_slots[s_next_index] = "empty"
      /\ \A v \in Steal!Ordinals : s_held[v] # s_next_index
      /\ \A n \in Nat : n < s_next_index => n < s_next_index + 1
      /\ s_next_index < s_next_index + 1 /\ s_next_index # Steal!Idle
  <2>1. ~(s_next_index < s_next_index) /\ s_next_index # Steal!Idle
    BY <1>1 DEF Steal!Idle
  <2> QED
    BY <1>1, <2>1, StealFacts DEF StealInv
<1>4. /\ \A v \in Steal!Ordinals : v # w => s_wpc'[v] = s_wpc[v] /\ s_held'[v] = s_held[v]
      /\ s_next_index < Count => s_wpc'[w] = "operate" /\ s_held'[w] = s_next_index
      /\ ~(s_next_index < Count) => s_wpc'[w] = "done" /\ s_held'[w] = Steal!Idle
      /\ s_wpc' \in [Steal!Ordinals -> {"none", "claim", "operate", "done"}]
      /\ s_held' \in [Steal!Ordinals -> Steal!Indices \cup {Steal!Idle}]
  BY <1>1, <1>3 DEF StealInv
<1>5. Steal!ClaimsDisjoint'
  BY <1>1, <1>3, <1>4 DEF StealInv, Steal!ClaimsDisjoint
<1>6. \A v \in Steal!Ordinals : s_held'[v] # Steal!Idle => s_held'[v] < s_next_index'
  <2>1. \A v \in Steal!Ordinals : v # w /\ s_held[v] # Steal!Idle =>
          s_held[v] \in Nat /\ s_held[v] < s_next_index
    BY StealFacts DEF StealInv
  <2> QED
    BY <1>1, <1>3, <1>4, <2>1
<1>7. \A i \in Steal!Indices : s_slots'[i] # "empty" => i < s_next_index'
  BY <1>1, <1>3, StealFacts DEF StealInv
<1>8. \A v \in Steal!Ordinals : /\ (s_held'[v] = Steal!Idle) <=> s_wpc'[v] # "operate"
                                /\ (s_wpc'[v] = "none") <=> ~(v < s_submitted')
  BY <1>1, <1>3, <1>4 DEF StealInv
<1>9. Handled' = Handled
  BY <1>1 DEF Handled
<1>10. ASSUME NEW i \in Steal!Indices, i < s_next_index'
       PROVE  i \in Handled' \/ \E v \in Steal!Ordinals : s_held'[v] = i
  <2>1. i \in Nat /\ (i < s_next_index \/ i = s_next_index)
    BY <1>1, <1>10, StealFacts
  <2>2. CASE i = s_next_index
    <3>1. s_next_index < Count
      BY <1>1, <2>2, ExecutorsAssumption DEF Steal!Indices
    <3> QED
      BY <1>4, <2>2, <3>1
  <2>3. CASE i < s_next_index
    <3>1. i \in Handled \/ \E v \in Steal!Ordinals : s_held[v] = i
      BY <2>3 DEF StealInv
    <3>2. s_held[w] # i
      BY <1>1, <2>1 DEF StealInv, Steal!Idle
    <3> QED
      BY <1>4, <1>9, <3>1, <3>2
  <2> QED
    BY <2>1, <2>2, <2>3
<1>11. \A v \in Steal!Ordinals : s_wpc'[v] = "done" => ~(s_next_index' < Count)
  BY <1>1, <1>4, StealFacts DEF StealInv
<1>12. s_processed' = Cardinality(Handled')
  BY <1>1, <1>9 DEF StealInv
<1>13. s_caller' = "drain" => s_submitted' = Steal!ActiveWorkers
  BY <1>1 DEF StealInv
<1>14. \A i \in Steal!Indices : s_slots'[i] # "empty" =>
         s_slots'[i] = IF i \in s_fails' THEN "error" ELSE "value"
  BY <1>1 DEF StealInv
<1>15. /\ s_fails' \subseteq Steal!Indices /\ s_next_index' \in Nat
       /\ s_submitted' \in 0..Steal!ActiveWorkers
       /\ s_slots' \in [Steal!Indices -> {"empty", "value", "error"}]
  BY <1>1 DEF StealInv
<1> QED
  BY <1>1, <1>2, <1>4, <1>5, <1>6, <1>7, <1>8, <1>10, <1>11, <1>12, <1>13, <1>14, <1>15 DEF StealInv

LEMMA StealOperate ==
  ASSUME StealInv, NEW w \in Steal!Ordinals, Steal!Operate(w)
  PROVE  StealInv'
<1>1. /\ s_wpc[w] = "operate" /\ s_held' = [s_held EXCEPT ![w] = Steal!Idle]
      /\ s_wpc' = [s_wpc EXCEPT ![w] = "claim"]
      /\ s_slots' = [s_slots EXCEPT ![s_held[w]] = IF s_held[w] \in s_fails THEN "error" ELSE "value"]
      /\ s_processed' = s_processed + 1
      /\ UNCHANGED <<s_fails, s_submitted, s_drained, s_next_index, s_caller, s_outcome>>
  BY DEF Steal!Operate
<1>2. /\ s_caller \notin {"returned", "setup"} /\ s_outcome = <<"pending">>
  BY <1>1 DEF StealInv, StealEnded
<1>3. /\ s_held[w] \in Steal!Indices /\ s_held[w] < s_next_index
      /\ \A v \in Steal!Ordinals : v # w => s_held[v] # s_held[w]
  BY <1>1 DEF StealInv, Steal!ClaimsDisjoint
<1>4. /\ \A v \in Steal!Ordinals : v # w => s_wpc'[v] = s_wpc[v] /\ s_held'[v] = s_held[v]
      /\ s_wpc'[w] = "claim" /\ s_held'[w] = Steal!Idle
      /\ s_wpc' \in [Steal!Ordinals -> {"none", "claim", "operate", "done"}]
      /\ s_held' \in [Steal!Ordinals -> Steal!Indices \cup {Steal!Idle}]
      /\ \A i \in Steal!Indices : i # s_held[w] => s_slots'[i] = s_slots[i]
      /\ s_slots' \in [Steal!Indices -> {"empty", "value", "error"}]
  BY <1>1, <1>3 DEF StealInv
<1>5. Steal!ClaimsDisjoint'
  BY <1>1, <1>3, <1>4, StealFacts DEF StealInv, Steal!ClaimsDisjoint
<1>6. /\ s_slots[s_held[w]] = "empty" /\ s_held[w] \notin Handled
      /\ s_slots'[s_held[w]] = IF s_held[w] \in s_fails THEN "error" ELSE "value"
  BY <1>1, <1>3, StealFacts DEF StealInv, Steal!ClaimsDisjoint, Handled
<1>7. Handled' = Handled \cup {s_held[w]}
  BY <1>3, <1>4, <1>6 DEF Handled
<1>8. s_processed' = Cardinality(Handled')
  <2>1. Handled \in SUBSET Steal!Indices
    BY DEF Handled
  <2>2. Cardinality(Handled \cup {s_held[w]}) = Cardinality(Handled) + 1
    BY <1>6, <2>1, StealFacts, FS_Subset, FS_AddElement
  <2> QED
    BY <1>1, <1>7, <2>2 DEF StealInv
<1>9. \A i \in Steal!Indices : i < s_next_index' =>
        i \in Handled' \/ \E v \in Steal!Ordinals : s_held'[v] = i
  <2> SUFFICES ASSUME NEW i \in Steal!Indices, i < s_next_index, i \notin Handled'
               PROVE  \E v \in Steal!Ordinals : s_held'[v] = i
    BY <1>1
  <2>1. PICK v \in Steal!Ordinals : s_held[v] = i
    BY <1>7 DEF StealInv
  <2>2. v # w
    BY <1>7, <2>1
  <2> QED
    BY <1>4, <2>1, <2>2
<1>10. \A i \in Steal!Indices : s_slots'[i] # "empty" =>
         s_slots'[i] = IF i \in s_fails' THEN "error" ELSE "value"
  BY <1>1, <1>4, <1>6 DEF StealInv
<1> QED
  BY <1>1, <1>2, <1>3, <1>4, <1>5, <1>8, <1>9, <1>10 DEF StealInv

StealPromiseStep == [Steal!Promise!Next]_(Steal!Promise!vars)

\* When the submitted workers have ended every index has been handled, so the
\* internal checks hold and the error is the lowest one.
LEMMA StealReturns ==
  ASSUME StealInv, Steal!Finish
  PROVE  Steal!Promise!Next
<1>1. /\ s_caller = "drain" /\ StealEnded /\ s_outcome = Steal!Promise!Pending
      /\ UNCHANGED <<s_fails, s_slots>>
      /\ s_outcome' = IF s_processed # Count THEN <<"logic_error">>
                      ELSE IF Steal!Errors # {} THEN <<"failed", Steal!Min(Steal!Errors)>>
                      ELSE IF \E i \in Steal!Indices : s_slots[i] = "empty" THEN <<"logic_error">>
                      ELSE <<"success">>
  BY StealDrained DEF Steal!Finish, Steal!Return, Steal!workerVars, StealInv, Steal!Promise!Pending
<1>2. ~(s_next_index < Count)
  <2>1. 0 \in Steal!Ordinals /\ 0 < Steal!ActiveWorkers
    BY StealFacts
  <2>2. s_wpc[0] = "done"
    BY <1>1, <2>1 DEF StealInv, StealEnded
  <2> QED
    BY <2>1, <2>2 DEF StealInv
<1>3. Handled = Steal!Indices
  <2>1. \A i \in Steal!Indices : i < s_next_index
    BY <1>2, ExecutorsAssumption DEF StealInv, Steal!Indices
  <2>2. \A w \in Steal!Ordinals : s_held[w] \notin Steal!Indices
    BY <1>1, StealFacts DEF StealInv, StealEnded
  <2>3. \A i \in Steal!Indices : i \in Handled
    BY <2>1, <2>2 DEF StealInv
  <2> QED
    BY <2>3 DEF Handled
<1>4. /\ s_processed = Count /\ Steal!Errors = s_fails
      /\ \A i \in Steal!Indices : s_slots[i] # "empty"
  <2>1. \A i \in Steal!Indices : s_slots[i] # "empty"
    BY <1>3 DEF Handled
  <2>2. \A i \in Steal!Indices : s_slots[i] = "error" <=> i \in s_fails
    BY <2>1 DEF StealInv
  <2>3. s_fails \subseteq Steal!Indices /\ s_processed = Cardinality(Handled)
    BY DEF StealInv
  <2>4. Steal!Errors = s_fails
    BY <2>2, <2>3 DEF Steal!Errors
  <2> QED
    BY <1>3, <2>1, <2>3, <2>4, StealFacts
<1>5. CASE s_fails = {}
  <2>1. Steal!Promise!Succeed
    BY <1>1, <1>3, <1>4, <1>5 DEF Steal!Promise!Succeed, Steal!Promise!Success, Handled
  <2> QED
    BY <2>1 DEF Steal!Promise!Next
<1>6. CASE s_fails # {}
  <2> DEFINE m == CHOOSE x \in s_fails : \A y \in s_fails : x <= y
  <2>1. m \in s_fails /\ \A y \in s_fails : m <= y
    <3>1. s_fails \in SUBSET Nat
      BY StealFacts DEF StealInv
    <3> QED
      BY <1>6, <3>1, LeastElement
  <2>2. s_outcome' = <<"failed", m>>
    BY <1>1, <1>4, <1>6 DEF Steal!Min
  <2> HIDE DEF m
  <2>3. PICK i \in Steal!Indices : i = m
    BY <2>1 DEF StealInv
  <2>4. Steal!Promise!Fail(i)
    BY <1>1, <1>3, <2>1, <2>2, <2>3 DEF Steal!Promise!Fail, Steal!Promise!Failed, Handled
  <2> QED
    BY <2>4 DEF Steal!Promise!Next
<1> QED
  BY <1>5, <1>6

LEMMA StealPromise == StealInv /\ [Steal!Next]_svars => StealPromiseStep
<1> SUFFICES ASSUME StealInv, [Steal!Next]_svars PROVE StealPromiseStep
  OBVIOUS
<1>1. CASE Steal!Finish
  BY <1>1, StealReturns DEF StealPromiseStep
<1>2. ASSUME NEW w \in Steal!Ordinals, Steal!Operate(w)
      PROVE  StealPromiseStep
  <2>1. /\ s_wpc[w] = "operate" /\ UNCHANGED <<s_fails, s_outcome>>
        /\ s_slots' = [s_slots EXCEPT ![s_held[w]] = IF s_held[w] \in s_fails THEN "error" ELSE "value"]
    BY <1>2 DEF Steal!Operate
  <2>2. /\ s_outcome = Steal!Promise!Pending
        /\ s_held[w] \in Steal!Indices /\ s_slots[s_held[w]] = "empty"
    BY <2>1 DEF StealInv, StealEnded, Steal!ClaimsDisjoint, Steal!Promise!Pending
  <2>3. PICK i \in Steal!Indices : i = s_held[w]
    BY <2>2
  <2>4. i \notin Handled /\ Handled' = Handled \cup {i}
    BY <2>1, <2>2, <2>3 DEF StealInv, Handled
  <2>5. Steal!Promise!Run(i)
    BY <2>1, <2>2, <2>4 DEF Steal!Promise!Run, Handled
  <2> QED
    BY <2>5 DEF StealPromiseStep, Steal!Promise!Next
<1>3. CASE Steal!Setup \/ Steal!FinishFailed
  <2>1. CASE UNCHANGED <<s_fails, s_slots, s_outcome>>
    BY <2>1 DEF StealPromiseStep, Steal!Promise!vars
  <2>2. CASE ~UNCHANGED <<s_fails, s_slots, s_outcome>>
    <3>1. Steal!Promise!Break
      BY <1>3, <2>2 DEF Steal!Setup, Steal!FinishFailed, Steal!Return, Steal!workerVars, StealInv,
         Steal!Promise!Break, Steal!Promise!Infrastructure, Steal!Promise!Pending
    <3> QED
      BY <3>1 DEF StealPromiseStep, Steal!Promise!Next
  <2> QED
    BY <2>1, <2>2
<1>4. CASE UNCHANGED <<s_fails, s_slots, s_outcome>>
  BY <1>4 DEF StealPromiseStep, Steal!Promise!vars
<1> QED
  BY <1>1, <1>2, <1>3, <1>4 DEF Steal!Next, Steal!Caller, Steal!Worker, svars, Steal!SubmitWorker,
     Steal!SubmitWorkerFails, Steal!Drain, Steal!Claim, Steal!Returned, Steal!vars, Steal!workerVars

LEMMA StealPart ==
  /\ Init => StealInv /\ Steal!Promise!Init
  /\ StealInv /\ [Next]_vars => StealInv' /\ StealPromiseStep
  /\ StealInv => Steal!ClaimsDisjoint /\ Steal!NoWorkerOutlives
<1>1. [Next]_vars => [Steal!Next]_svars
  BY DEF Next, vars, InFixed, InGroup, InMap, InSteal, InChunks, InLoop
<1>2. ASSUME StealInv, UNCHANGED svars
      PROVE  StealInv'
  BY <1>2 DEF svars, StealInv, StealEnded, Steal!ClaimsDisjoint, Handled
<1>3. ASSUME StealInv, Steal!Next
      PROVE  StealInv'
  <2>1. CASE Steal!Returned
    <3>1. UNCHANGED svars
      BY <2>1 DEF Steal!Returned, Steal!vars, Steal!workerVars, svars
    <3> QED
      BY <1>2, <1>3, <3>1
  <2> QED
    BY <1>3, <2>1, StealSubmits, StealCaller, StealClaim, StealOperate
    DEF Steal!Next, Steal!Caller, Steal!Worker
<1>4. StealInv => Steal!ClaimsDisjoint /\ Steal!NoWorkerOutlives
  BY DEF StealInv, StealEnded, Steal!NoWorkerOutlives
<1>5. Init => Steal!Promise!Init
  <2> SUFFICES ASSUME Init PROVE Steal!Promise!Init
    OBVIOUS
  <2>1. \A i \in Steal!Indices : s_slots[i] = "empty"
    BY DEF Init, Steal!Init
  <2> QED
    BY <2>1 DEF Init, Steal!Init, Steal!Promise!Init, Steal!Promise!Pending
<1> QED
  BY <1>1, <1>2, <1>3, <1>4, <1>5, StealInit, StealPromise DEF Init

\* ordered_work_stealing_map reports what OrderedOutcome promises: whoever
\* claimed which index, the error is the one of the lowest.
THEOREM StealKeepsPromise == FairSpec => Steal!KeepsPromise
<1>1. Init => StealInv /\ Steal!Promise!Init
  BY StealPart
<1>2. StealInv /\ [Next]_vars => StealInv' /\ [Steal!Promise!Next]_(Steal!Promise!vars)
  BY StealPart DEF StealPromiseStep
<1> QED
  BY <1>1, <1>2, PTL DEF FairSpec, Steal!KeepsPromise, Steal!Promise!Spec

-----------------------------------------------------------------------------
\* parallel_for_index: NumThreads chunks of chunk_size reach the end of the
\* range, and none passes it, so that nothing wraps.
ChunkStep == Chunks!ChunkSize(c_end - c_start)

ChunksInv ==
  /\ c_start \in Chunks!SizeT /\ c_end \in Chunks!SizeT /\ c_i \in 0..NumThreads
  /\ c_start >= c_end => c_chunk_start = c_start /\ c_chunks = {} /\ c_done
  /\ c_start < c_end =>
       /\ c_chunk_start \in c_start..c_end
       /\ c_chunk_start = c_end \/ c_chunk_start = c_start + c_i * ChunkStep
       /\ \A c \in c_chunks : /\ c[1] \in Nat /\ c[2] \in Nat
                              /\ c_start <= c[1] /\ c[1] < c[2] /\ c[2] <= c_chunk_start
       /\ c_done => c_chunk_start = c_end
  /\ Chunks!ChunksDisjoint

LEMMA ChunkFacts ==
  /\ NumThreads \in Nat \ {0} /\ ChunkWidth \in Nat \ {0}
  /\ \A n \in Chunks!SizeT : n \in Nat /\ n < ChunkWidth /\ n % ChunkWidth = n
BY ExecutorsAssumption DEF Chunks!SizeT

\* ceil(distance / NumThreads)
LEMMA StepReaches ==
  ASSUME NEW d \in Nat \ {0}
  PROVE  Chunks!ChunkSize(d) \in Nat \ {0} /\ NumThreads * Chunks!ChunkSize(d) >= d
<1> DEFINE q == d \div NumThreads
           r == d % NumThreads
<1>1. q \in Nat /\ r \in Nat /\ r < NumThreads /\ d = NumThreads * q + r
  BY ChunkFacts
<1>2. Chunks!ChunkSize(d) = q + (IF r # 0 THEN 1 ELSE 0)
  BY DEF Chunks!ChunkSize
<1> HIDE DEF q, r
<1>3. CASE r = 0
  <2>1. Chunks!ChunkSize(d) = q /\ d = NumThreads * q
    BY <1>1, <1>2, <1>3, ChunkFacts
  <2>2. q # 0
    BY <1>1, <1>3, ChunkFacts
  <2> QED
    BY <1>1, <2>1, <2>2
<1>4. CASE r # 0
  <2>1. Chunks!ChunkSize(d) = q + 1 /\ NumThreads * (q + 1) = NumThreads * q + NumThreads
    BY <1>1, <1>2, <1>4, ChunkFacts
  <2> QED
    BY <1>1, <2>1, ChunkFacts
<1> QED
  BY <1>3, <1>4

LEMMA ChunksInit == Chunks!Init => ChunksInv
<1> SUFFICES ASSUME Chunks!Init PROVE ChunksInv
  OBVIOUS
<1>1. c_start \in Nat /\ c_end \in Nat
  BY ChunkFacts DEF Chunks!Init
<1>2. c_start < c_end => ChunkStep \in Nat
  <2> SUFFICES ASSUME c_start < c_end PROVE ChunkStep \in Nat
    OBVIOUS
  <2>1. c_end - c_start \in Nat \ {0}
    BY <1>1
  <2> QED
    BY <2>1, StepReaches DEF ChunkStep
<1>3. c_start < c_end => c_start = c_start + 0 * ChunkStep /\ c_start \in c_start..c_end
  BY <1>1, <1>2
<1>4. Chunks!ChunksDisjoint
  <2>1. \A n \in Chunks!SizeT : ~(c_start <= n /\ n < c_start)
    BY <1>1, ChunkFacts
  <2> QED
    BY <2>1 DEF Chunks!Init, Chunks!ChunksDisjoint
<1>5. c_i = 0 /\ c_chunk_start = c_start /\ c_chunks = {} /\ (c_done <=> c_start >= c_end)
  BY DEF Chunks!Init
<1>6. c_i \in 0..NumThreads /\ (c_start < c_end => ~c_done) /\ (c_start >= c_end => ~(c_start < c_end))
  BY <1>1, <1>5, ChunkFacts
<1>7. c_start \in Chunks!SizeT /\ c_end \in Chunks!SizeT
  BY DEF Chunks!Init
<1> QED
  BY <1>3, <1>4, <1>5, <1>6, <1>7 DEF ChunksInv

LEMMA ChunksSubmit ==
  ASSUME ChunksInv, Chunks!SubmitChunk
  PROVE  ChunksInv'
<1> DEFINE size == ChunkStep
           remaining == c_end - c_chunk_start
           stop == c_chunk_start + (IF size < remaining THEN size ELSE remaining)
<1>1. /\ ~c_done /\ c_i < NumThreads /\ c_chunk_start < c_end
      /\ c_chunks' = c_chunks \cup {<<c_chunk_start, stop % ChunkWidth>>}
      /\ c_chunk_start' = stop % ChunkWidth /\ c_i' = c_i + 1
      /\ UNCHANGED <<c_start, c_end, c_done>>
  BY DEF Chunks!SubmitChunk, ChunkStep
<1>2. /\ c_start < c_end /\ c_start \in Nat /\ c_end \in Nat /\ c_i \in Nat
      /\ c_chunk_start \in Nat /\ c_start <= c_chunk_start
      /\ c_chunk_start = c_start + c_i * ChunkStep
  BY <1>1, ChunkFacts DEF ChunksInv
<1>3. ChunkStep \in Nat \ {0} /\ c_i * ChunkStep \in Nat /\ (c_i + 1) * ChunkStep = c_i * ChunkStep + ChunkStep
  <2>1. c_end - c_start \in Nat \ {0}
    BY <1>2
  <2>2. ChunkStep \in Nat \ {0}
    BY <2>1, StepReaches DEF ChunkStep
  <2> QED
    BY <1>2, <2>2
<1>4. /\ stop \in Nat /\ c_chunk_start < stop /\ stop <= c_end
      /\ stop = c_end \/ stop = c_start + (c_i + 1) * ChunkStep
  BY <1>1, <1>2, <1>3
<1>5. stop % ChunkWidth = stop
  <2>1. stop < ChunkWidth
    BY <1>2, <1>4, ChunkFacts DEF ChunksInv
  <2> QED
    BY <1>4, <2>1, ChunkFacts
<1> HIDE DEF stop
<1>6. /\ c_chunk_start' = stop /\ c_chunks' = c_chunks \cup {<<c_chunk_start, stop>>}
  BY <1>1, <1>5
<1>7. \A c \in c_chunks : /\ c[1] \in Nat /\ c[2] \in Nat
                          /\ c_start <= c[1] /\ c[1] < c[2] /\ c[2] <= c_chunk_start
  BY <1>2 DEF ChunksInv
<1>8. \A c \in c_chunks' : /\ c[1] \in Nat /\ c[2] \in Nat
                           /\ c_start <= c[1] /\ c[1] < c[2] /\ c[2] <= stop
  BY <1>2, <1>4, <1>6, <1>7
<1>9. Chunks!ChunksDisjoint'
  <2> DEFINE new == <<c_chunk_start, stop>>
  <2>1. new[1] = c_chunk_start /\ new[2] = stop
    OBVIOUS
  <2> HIDE DEF new
  <2>2. c_chunks' = c_chunks \cup {new}
    BY <1>6 DEF new
  <2>3. ASSUME NEW n \in Chunks!SizeT
        PROVE  IF c_start <= n /\ n < stop
               THEN \E c \in c_chunks' : /\ c[1] <= n /\ n < c[2]
                                         /\ \A d \in c_chunks' \ {c} : ~(d[1] <= n /\ n < d[2])
               ELSE \A c \in c_chunks' : ~(c[1] <= n /\ n < c[2])
    <3>1. n \in Nat
      BY ChunkFacts
    <3>2. CASE c_start <= n /\ n < c_chunk_start
      <4>1. PICK c \in c_chunks : /\ c[1] <= n /\ n < c[2]
                                  /\ \A d \in c_chunks \ {c} : ~(d[1] <= n /\ n < d[2])
        BY <3>2 DEF ChunksInv, Chunks!ChunksDisjoint
      <4>2. ~(new[1] <= n) /\ n < stop
        BY <1>2, <1>4, <2>1, <3>1, <3>2
      <4> QED
        BY <2>2, <3>2, <4>1, <4>2
    <3>3. CASE ~(c_start <= n /\ n < c_chunk_start)
      <4>1. \A c \in c_chunks : ~(c[1] <= n /\ n < c[2])
        BY <3>3 DEF ChunksInv, Chunks!ChunksDisjoint
      <4>2. c_start <= n /\ n < stop <=> new[1] <= n /\ n < new[2]
        BY <1>2, <1>4, <2>1, <3>1, <3>3
      <4> QED
        BY <2>2, <4>1, <4>2
    <3> QED
      BY <3>2, <3>3
  <2> QED
    BY <1>1, <1>6, <2>3 DEF Chunks!ChunksDisjoint
<1>10. stop = c_end \/ stop = c_start' + c_i' * ChunkStep'
  BY <1>1, <1>4 DEF ChunkStep
<1>11. c_i' \in 0..NumThreads /\ stop \in c_start..c_end /\ ~(c_start >= c_end)
  BY <1>1, <1>2, <1>4, ChunkFacts
<1> QED
  BY <1>1, <1>6, <1>8, <1>9, <1>10, <1>11 DEF ChunksInv

\* The loop ends because the range is handed out, or after NumThreads chunks.
LEMMA ChunksEnd ==
  ASSUME ChunksInv, Chunks!EndLoop
  PROVE  ChunksInv'
<1>1. /\ ~c_done /\ ~(c_i < NumThreads /\ c_chunk_start < c_end)
      /\ UNCHANGED <<c_start, c_end, c_chunk_start, c_i, c_chunks>>
  BY DEF Chunks!EndLoop
<1>2. c_start \in Nat /\ c_end \in Nat /\ c_i \in 0..NumThreads /\ c_start < c_end
  BY <1>1, ChunkFacts DEF ChunksInv
<1>3. c_chunk_start = c_end
  <2>1. c_chunk_start \in Nat /\ c_start <= c_chunk_start /\ c_chunk_start <= c_end
        /\ (c_chunk_start = c_end \/ c_chunk_start = c_start + c_i * ChunkStep)
    BY <1>2 DEF ChunksInv
  <2>2. c_chunk_start < c_end => c_i = NumThreads
    BY <1>1, <1>2, ChunkFacts
  <2>3. c_end - c_start \in Nat \ {0}
    BY <1>2
  <2>4. ChunkStep \in Nat \ {0} /\ NumThreads * ChunkStep >= c_end - c_start /\ NumThreads * ChunkStep \in Nat
    BY <2>3, StepReaches, ChunkFacts DEF ChunkStep
  <2> QED
    BY <1>2, <2>1, <2>2, <2>4
<1>4. (ChunkStep = ChunkStep') /\ (Chunks!ChunksDisjoint <=> Chunks!ChunksDisjoint')
  BY <1>1 DEF ChunkStep, Chunks!ChunksDisjoint
<1> QED
  BY <1>1, <1>2, <1>3, <1>4 DEF ChunksInv

LEMMA ChunksPart ==
  /\ Init => ChunksInv
  /\ ChunksInv /\ [Next]_vars => ChunksInv'
  /\ ChunksInv => Chunks!ChunksDisjoint /\ Chunks!RangeCovered
<1>1. [Next]_vars => [Chunks!Next]_cvars
  BY DEF Next, vars, InFixed, InGroup, InMap, InSteal, InChunks, InLoop
<1>2. ASSUME ChunksInv, UNCHANGED cvars
      PROVE  ChunksInv'
  BY <1>2 DEF cvars, ChunksInv, ChunkStep, Chunks!ChunksDisjoint
<1>3. ChunksInv /\ Chunks!Ended => ChunksInv'
  BY <1>2 DEF Chunks!Ended, Chunks!vars, cvars
<1>4. ChunksInv => Chunks!ChunksDisjoint /\ Chunks!RangeCovered
  BY DEF ChunksInv, Chunks!RangeCovered
<1> QED
  BY <1>1, <1>2, <1>3, <1>4, ChunksInit, ChunksSubmit, ChunksEnd DEF Init, Chunks!Next

-----------------------------------------------------------------------------
\* parallel_for_stealing: every index before the cursor has been called, is
\* still to be called by one worker, or was abandoned by one that failed.
Left(w) == {n \in Loop!Range : l_pc[w] = "call" /\ l_index[w] <= n /\ n < l_chunk_end[w]}

LoopTypes ==
  /\ l_fails \subseteq Loop!Range /\ l_next_idx \in LoopStart..LoopEnd
  /\ l_pc \in [Workers -> {"load", "claim", "call", "failed", "done"}]
  /\ l_chunk_start \in [Workers -> Nat] /\ l_index \in [Workers -> Nat]
  /\ l_chunk_end \in [Workers -> Nat] /\ l_calls \in [Loop!Range -> Nat]

LoopBooks ==
  /\ \A w \in Workers : l_pc[w] = "claim" => LoopStart <= l_chunk_start[w] /\ l_chunk_start[w] < LoopEnd
  /\ \A w \in Workers : l_pc[w] = "call" =>
       LoopStart <= l_index[w] /\ l_index[w] < l_chunk_end[w] /\ l_chunk_end[w] <= l_next_idx
  /\ \A v, w \in Workers : v # w => Left(v) \cap Left(w) = {}
  /\ \A n \in Loop!Range : /\ l_calls[n] <= 1
                           /\ n >= l_next_idx => l_calls[n] = 0
                           /\ \A w \in Workers : n \in Left(w) => l_calls[n] = 0
                           /\ l_calls[n] = 0 => \/ n >= l_next_idx
                                                \/ \E w \in Workers : n \in Left(w)
                                                \/ \E w \in Workers : l_pc[w] = "failed"
  /\ \A w \in Workers : l_pc[w] = "done" => l_next_idx = LoopEnd

LoopInv == LoopTypes /\ LoopBooks

LEMMA LoopFacts ==
  /\ Workers # {} /\ Grain \in Nat \ {0} /\ Width \in Nat \ {0}
  /\ LoopStart \in Nat /\ LoopEnd \in Nat /\ LoopStart < LoopEnd /\ LoopEnd < Width
  /\ \A n \in Nat : n \in Loop!Range <=> LoopStart <= n /\ n < LoopEnd
  /\ Loop!Range \subseteq Nat
BY ExecutorsAssumption DEF Loop!Range

LEMMA LoopInit == Loop!Init => LoopInv
<1> SUFFICES ASSUME Loop!Init PROVE LoopInv
  OBVIOUS
<1>1. LoopTypes
  BY LoopFacts DEF Loop!Init, LoopTypes
<1>2. \A w \in Workers : Left(w) = {} /\ l_pc[w] = "load"
  BY DEF Loop!Init, Left
<1>3. \A n \in Loop!Range : l_calls[n] = 0 /\ n >= l_next_idx
  BY LoopFacts DEF Loop!Init
<1> QED
  BY <1>1, <1>2, <1>3 DEF LoopInv, LoopBooks

\* The cursor is read, at first or after a CAS that failed.
LEMMA LoopReads ==
  ASSUME LoopInv, NEW w \in Workers, Loop!Load(w) \/ Loop!ClaimFails(w)
  PROVE  LoopInv'
<1>1. /\ l_pc[w] \in {"load", "claim"} /\ l_chunk_start' = [l_chunk_start EXCEPT ![w] = l_next_idx]
      /\ l_pc' = [l_pc EXCEPT ![w] = IF l_next_idx < LoopEnd THEN "claim" ELSE "done"]
      /\ UNCHANGED <<l_fails, l_next_idx, l_index, l_chunk_end, l_calls>>
  BY DEF Loop!Load, Loop!ClaimFails
<1>2. l_next_idx \in Nat /\ LoopStart <= l_next_idx /\ l_next_idx <= LoopEnd
  BY LoopFacts DEF LoopInv, LoopTypes
<1>3. /\ \A v \in Workers : v # w => l_pc'[v] = l_pc[v] /\ l_chunk_start'[v] = l_chunk_start[v]
      /\ l_pc'[w] = IF l_next_idx < LoopEnd THEN "claim" ELSE "done"
      /\ l_chunk_start'[w] = l_next_idx
  BY <1>1 DEF LoopInv, LoopTypes
<1>4. LoopTypes'
  BY <1>1, <1>2 DEF LoopInv, LoopTypes
<1>5. \A v \in Workers : Left(v)' = Left(v)
  BY <1>1, <1>3 DEF Left
<1>6. ~(l_next_idx < LoopEnd) => l_next_idx = LoopEnd
  BY <1>2, LoopFacts
<1> QED
  BY <1>1, <1>2, <1>3, <1>4, <1>5, <1>6 DEF LoopInv, LoopBooks

LEMMA LoopClaim ==
  ASSUME LoopInv, NEW w \in Workers, Loop!Claim(w)
  PROVE  LoopInv'
<1> DEFINE stop == l_next_idx + Loop!ChunkLen(w)
<1>1. /\ l_pc[w] = "claim" /\ l_next_idx = l_chunk_start[w]
      /\ l_next_idx' = stop % Width /\ l_index' = [l_index EXCEPT ![w] = l_next_idx]
      /\ l_chunk_end' = [l_chunk_end EXCEPT ![w] = stop] /\ l_pc' = [l_pc EXCEPT ![w] = "call"]
      /\ UNCHANGED <<l_fails, l_chunk_start, l_calls>>
  BY DEF Loop!Claim
<1>2. l_next_idx \in Nat /\ LoopStart <= l_next_idx /\ l_next_idx < LoopEnd
  BY <1>1, LoopFacts DEF LoopInv, LoopTypes, LoopBooks
<1>3. stop \in Nat /\ l_next_idx < stop /\ stop <= LoopEnd
  BY <1>1, <1>2, LoopFacts DEF Loop!ChunkLen
<1> HIDE DEF stop
<1>4. stop % Width = stop
  BY <1>3, LoopFacts
<1>5. /\ \A v \in Workers : v # w => /\ l_pc'[v] = l_pc[v] /\ l_index'[v] = l_index[v]
                                     /\ l_chunk_end'[v] = l_chunk_end[v]
      /\ l_pc'[w] = "call" /\ l_index'[w] = l_next_idx /\ l_chunk_end'[w] = stop
      /\ l_next_idx' = stop
  BY <1>1, <1>4 DEF LoopInv, LoopTypes
<1>6. LoopTypes'
  BY <1>1, <1>2, <1>3, <1>4, LoopFacts DEF LoopInv, LoopTypes
<1>7. /\ \A v \in Workers : v # w => Left(v)' = Left(v)
      /\ Left(w)' = {n \in Loop!Range : l_next_idx <= n /\ n < stop}
  BY <1>1, <1>5 DEF Left
<1>8. \A v \in Workers : /\ \A n \in Left(v) : ~(l_next_idx <= n)
                         /\ l_pc[v] = "done" => FALSE
  <2>1. \A v \in Workers : l_chunk_end[v] \in Nat
    BY DEF LoopInv, LoopTypes
  <2> QED
    BY <1>2, <2>1, LoopFacts DEF LoopInv, LoopBooks, Left
<1>9. \A n \in Loop!Range : /\ n >= stop => n >= l_next_idx /\ ~(n < stop)
                            /\ n >= l_next_idx => n >= stop \/ (l_next_idx <= n /\ n < stop)
                            /\ l_next_idx <= n => n >= l_next_idx
  BY <1>2, <1>3, LoopFacts
<1>10. \A v \in Workers : l_pc'[v] = "call" =>
        LoopStart <= l_index'[v] /\ l_index'[v] < l_chunk_end'[v] /\ l_chunk_end'[v] <= l_next_idx'
  <2>1. \A v \in Workers : l_chunk_end[v] \in Nat
    BY DEF LoopInv, LoopTypes
  <2> QED
    BY <1>2, <1>3, <1>5, <2>1 DEF LoopInv, LoopBooks
<1>11. \A u, v \in Workers : u # v => Left(u)' \cap Left(v)' = {}
  BY <1>7, <1>8 DEF LoopInv, LoopBooks
<1>12. \A n \in Loop!Range : /\ l_calls'[n] <= 1
                             /\ n >= l_next_idx' => l_calls'[n] = 0
                             /\ \A v \in Workers : n \in Left(v)' => l_calls'[n] = 0
  BY <1>1, <1>5, <1>7, <1>9 DEF LoopInv, LoopBooks
<1>13. ASSUME NEW n \in Loop!Range, l_calls'[n] = 0
       PROVE  \/ n >= l_next_idx'
              \/ \E v \in Workers : n \in Left(v)'
              \/ \E v \in Workers : l_pc'[v] = "failed"
  <2>1. CASE n >= l_next_idx
    BY <1>5, <1>7, <1>9, <2>1
  <2>2. CASE \E v \in Workers : n \in Left(v)
    BY <1>1, <1>7, <2>2 DEF Left
  <2>3. CASE \E v \in Workers : l_pc[v] = "failed"
    BY <1>1, <1>5, <2>3
  <2> QED
    BY <1>1, <1>13, <2>1, <2>2, <2>3 DEF LoopInv, LoopBooks
<1> QED
  BY <1>1, <1>5, <1>6, <1>8, <1>10, <1>11, <1>12, <1>13 DEF LoopInv, LoopBooks

LEMMA LoopCall ==
  ASSUME LoopInv, NEW w \in Workers, Loop!Call(w)
  PROVE  LoopInv'
<1> DEFINE k == l_index[w]
<1>1. /\ l_pc[w] = "call" /\ l_calls' = [l_calls EXCEPT ![k] = @ + 1]
      /\ l_index' = [l_index EXCEPT ![w] = @ + 1]
      /\ l_pc' = [l_pc EXCEPT ![w] = IF k \in l_fails THEN "failed"
                                     ELSE IF k + 1 < l_chunk_end[w] THEN "call" ELSE "load"]
      /\ UNCHANGED <<l_fails, l_next_idx, l_chunk_start, l_chunk_end>>
  BY DEF Loop!Call
<1>2. /\ l_chunk_end[w] \in Nat /\ k \in Nat /\ LoopStart <= k /\ k < l_chunk_end[w]
      /\ l_chunk_end[w] <= l_next_idx /\ l_next_idx \in Nat /\ l_next_idx <= LoopEnd
  BY <1>1, LoopFacts DEF LoopInv, LoopTypes, LoopBooks
<1>3. k \in Loop!Range /\ k \in Left(w) /\ l_calls[k] = 0 /\ ~(k >= l_next_idx)
  <2>1. k \in Loop!Range /\ ~(k >= l_next_idx)
    BY <1>2, LoopFacts
  <2>2. k \in Left(w)
    BY <1>1, <1>2, <2>1 DEF Left
  <2> QED
    BY <2>1, <2>2 DEF LoopInv, LoopBooks
<1>4. /\ \A v \in Workers : v # w => l_pc'[v] = l_pc[v] /\ l_index'[v] = l_index[v]
      /\ l_pc'[w] = IF k \in l_fails THEN "failed"
                    ELSE IF k + 1 < l_chunk_end[w] THEN "call" ELSE "load"
      /\ l_index'[w] = k + 1 /\ l_calls'[k] = 1
      /\ \A n \in Loop!Range : n # k => l_calls'[n] = l_calls[n]
  BY <1>1, <1>2, <1>3 DEF LoopInv, LoopTypes
<1>5. LoopTypes'
  BY <1>1, <1>2, <1>3 DEF LoopInv, LoopTypes
<1> HIDE DEF k
<1>6. /\ \A v \in Workers : v # w => Left(v)' = Left(v) /\ k \notin Left(v)
      /\ l_pc'[w] = "failed" \/ Left(w)' = Left(w) \ {k}
      /\ Left(w)' \subseteq Left(w) \ {k}
  <2>1. \A v \in Workers : v # w => Left(v)' = Left(v)
    BY <1>1, <1>4 DEF Left
  <2>2. \A v \in Workers : v # w => k \notin Left(v)
    BY <1>3 DEF LoopInv, LoopBooks
  <2>3. Left(w)' = {n \in Loop!Range : l_pc'[w] = "call" /\ k + 1 <= n /\ n < l_chunk_end[w]}
    BY <1>1, <1>4 DEF Left
  <2>4. Left(w) = {n \in Loop!Range : k <= n /\ n < l_chunk_end[w]}
    BY <1>1 DEF Left, k
  <2>5. \A n \in Loop!Range : n \in Nat /\ (k + 1 <= n <=> (k <= n /\ n # k))
    BY <1>2, LoopFacts
  <2>6. l_pc'[w] = "load" => \A n \in Loop!Range : ~(k + 1 <= n /\ n < l_chunk_end[w])
    BY <1>2, <1>4, LoopFacts
  <2>7. l_pc'[w] \in {"failed", "call", "load"}
    BY <1>4
  <2> QED
    BY <2>1, <2>2, <2>3, <2>4, <2>5, <2>6, <2>7
<1>7. \A v \in Workers : l_pc'[v] = "call" =>
        LoopStart <= l_index'[v] /\ l_index'[v] < l_chunk_end'[v] /\ l_chunk_end'[v] <= l_next_idx'
  <2>1. l_pc'[w] = "call" => k + 1 < l_chunk_end[w] /\ LoopStart <= k + 1
    BY <1>2, <1>4, LoopFacts
  <2> QED
    BY <1>1, <1>2, <1>4, <2>1 DEF LoopInv, LoopBooks
<1>8. \A u, v \in Workers : u # v => Left(u)' \cap Left(v)' = {}
  BY <1>6 DEF LoopInv, LoopBooks
<1>9. \A n \in Loop!Range : /\ l_calls'[n] <= 1
                            /\ n >= l_next_idx' => l_calls'[n] = 0
                            /\ \A v \in Workers : n \in Left(v)' => l_calls'[n] = 0
  BY <1>1, <1>3, <1>4, <1>6 DEF LoopInv, LoopBooks
<1>10. ASSUME NEW n \in Loop!Range, l_calls'[n] = 0
       PROVE  \/ n >= l_next_idx'
              \/ \E v \in Workers : n \in Left(v)'
              \/ \E v \in Workers : l_pc'[v] = "failed"
  <2>1. n # k /\ l_calls[n] = 0
    BY <1>4, <1>10
  <2>2. CASE n >= l_next_idx
    BY <1>1, <2>2
  <2>3. CASE \E v \in Workers : n \in Left(v)
    BY <1>6, <2>1, <2>3
  <2>4. CASE \E v \in Workers : l_pc[v] = "failed"
    BY <1>1, <1>4, <2>4
  <2> QED
    BY <2>1, <2>2, <2>3, <2>4 DEF LoopInv, LoopBooks
<1> QED
  BY <1>1, <1>4, <1>5, <1>7, <1>8, <1>9, <1>10 DEF LoopInv, LoopBooks

LEMMA LoopSafe ==
  ASSUME LoopInv
  PROVE  Loop!AtMostOnce /\ Loop!NothingSkipped
<1>1. Loop!AtMostOnce
  BY DEF LoopInv, LoopBooks, Loop!AtMostOnce
<1>2. Loop!NothingSkipped
  <2> SUFFICES ASSUME Loop!AllEnded,
                      NEW n \in Loop!Range, l_calls[n] = 0,
                      \A w \in Workers : l_pc[w] # "failed"
               PROVE  FALSE
    BY DEF LoopInv, LoopBooks, Loop!NothingSkipped
  <2>1. \A w \in Workers : l_pc[w] = "done" /\ n \notin Left(w)
    BY DEF Loop!AllEnded, Left
  <2>2. l_next_idx = LoopEnd /\ n \in Nat /\ ~(n >= LoopEnd)
    BY <2>1, LoopFacts DEF LoopInv, LoopBooks
  <2> QED
    BY <2>1, <2>2 DEF LoopInv, LoopBooks
<1> QED
  BY <1>1, <1>2

LEMMA LoopPart ==
  /\ Init => LoopInv
  /\ LoopInv /\ [Next]_vars => LoopInv'
  /\ LoopInv => Loop!AtMostOnce /\ Loop!NothingSkipped
<1>1. [Next]_vars => [Loop!Next]_lvars
  BY DEF Next, vars, InFixed, InGroup, InMap, InSteal, InChunks, InLoop
<1>2. ASSUME LoopInv, UNCHANGED lvars
      PROVE  LoopInv'
  BY <1>2 DEF lvars, LoopInv, LoopTypes, LoopBooks, Left
<1>3. LoopInv /\ Loop!Ended => LoopInv'
  BY <1>2 DEF Loop!Ended, Loop!vars, lvars
<1> QED
  BY <1>1, <1>2, <1>3, LoopInit, LoopReads, LoopClaim, LoopCall, LoopSafe
  DEF Init, Loop!Next, Loop!Worker

-----------------------------------------------------------------------------
\* Each of the four executors implements OrderedOutcome, whatever its threads
\* do and whatever fails.
THEOREM EveryExecutorKeepsPromise == FairSpec => KeepsPromise
BY FixedKeepsPromise, GroupKeepsPromise, MapKeepsPromise, StealKeepsPromise, PTL DEF KeepsPromise

\* No operation of execute_fixed_slots or of run_joined_worker_group begins
\* before every thread exists and has arrived, for any number of workers.
THEOREM AllStartOrNone == FairSpec => []AllOrNone
<1>1. Init => FixedBooks /\ GroupInv
  BY FixedPart, GroupPart
<1>2. FixedBooks /\ GroupInv /\ [Next]_vars => FixedBooks' /\ GroupInv'
  BY FixedPart, GroupPart
<1>3. FixedBooks /\ GroupInv => AllOrNone
  BY FixedSafe, GroupPart DEF AllOrNone
<1> QED
  BY <1>1, <1>2, <1>3, PTL DEF FairSpec

\* None of the four calls ends, by a result or by an error, while a thread or
\* a queued task can still touch what the call owns: whatever was started is
\* held by the vector, or among the futures, that the call waits for.
THEOREM WorkersEndFirst == FairSpec => []NoWorkerOutlives
<1> DEFINE Inv == FixedBooks /\ GroupInv /\ MapInv /\ StealInv
<1>1. Init => Inv
  BY FixedPart, GroupPart, MapPart, StealPart
<1>2. Inv /\ [Next]_vars => Inv'
  BY FixedPart, GroupPart, MapPart, StealPart
<1>3. Inv => NoWorkerOutlives
  BY FixedSafe, GroupPart, MapPart, StealPart DEF NoWorkerOutlives
<1> HIDE DEF Inv
<1> QED
  BY <1>1, <1>2, <1>3, PTL DEF FairSpec

\* Every index is handed out once and none is left out, by the partitions, the
\* shared counter, the static chunks and the CAS loop: for any range, grain and
\* number of threads, up to the largest size_t.
THEOREM IndicesOnce == FairSpec => []EachIndexOnce
<1> DEFINE Inv == FixedBooks /\ StealInv /\ ChunksInv /\ LoopInv
<1>1. Init => Inv
  BY FixedPart, StealPart, ChunksPart, LoopPart
<1>2. Inv /\ [Next]_vars => Inv'
  BY FixedPart, StealPart, ChunksPart, LoopPart
<1>3. Inv => EachIndexOnce
  BY FixedSafe, StealPart, ChunksPart, LoopPart DEF EachIndexOnce
<1> HIDE DEF Inv
<1> QED
  BY <1>1, <1>2, <1>3, PTL DEF FairSpec
================================================================================

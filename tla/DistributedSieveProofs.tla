------------------------ MODULE DistributedSieveProofs ------------------------
(***************************************************************************)
(* Proofs about DistributedSieve for any number of chunks, any split, any  *)
(* deadline.  The key fact is Custody: a child that was never reaped holds *)
(* the lease of its slot, belongs to its last attempt, and its slot is     *)
(* marked unreaped.  It is inductive with the bookkeeping of the stages.   *)
(* What the call returns is what its folds compute: the last part.         *)
(***************************************************************************)
EXTENDS DistributedSieve, Integers, WellFoundedInduction, TLAPS

Waiting == {"polling", "grace", "killed"}

Unreaped(i, a) == child[i][a].state # "none" /\ ~child[i][a].reaped

\* A child is in the process table exactly when its attempt was launched, and
\* a reaped child has ended.
Launched == \A i \in Slots, a \in Attempts :
  /\ child[i][a].state # "none" <=> a <= attempts[i]
  /\ Live(child[i][a]) => ~child[i][a].reaped

Custody == \A i \in Slots, a \in Attempts : Unreaped(i, a) =>
  lease[i] = a /\ attempts[i] = a /\ ~reaped[i] /\ ~success[i]

\* How many attempts a slot can have had when the master's loop is at cur.
Budget ==
  /\ stage = "prepare" => \A i \in Slots : attempts[i] = 0
  /\ stage = "start" => \A i \in Slots :
       IF i >= cur THEN attempts[i] = 0 ELSE attempts[i] <= 1 /\ (finished[i] \/ attempts[i] = 1)
  /\ stage = "wait" => \A i \in Slots : attempts[i] <= 1 /\ (finished[i] \/ attempts[i] = 1)
  /\ stage = "retry" => \A i \in Slots : i > cur \/ (i = cur /\ watch = "idle") => attempts[i] <= 1

\* Where the watchdog can be.
Watching ==
  /\ watch # "idle" => stage \in {"wait", "retry"} /\ attempts[cur] >= 1
  /\ watch = "collect" => reaped[cur]

\* A child nobody has waited for in vain is still ahead of the master.
Ahead == \A i \in Slots, a \in Attempts : Unreaped(i, a) /\ kind[i] # "unreaped" =>
  /\ stage \in {"start", "wait"} => ~finished[i]
  /\ \/ stage = "start"
     \/ stage = "wait" /\ i >= cur
     \/ stage = "retry" /\ i = cur /\ watch \in Waiting

Inv == TypeOK /\ Launched /\ Custody /\ Budget /\ Watching /\ Ahead

LEMMA InitInv == Init => Inv
<1> SUFFICES ASSUME Init PROVE Inv
  OBVIOUS
<1>1. 1 \in Slots /\ 0 \in 0..MaxAge /\ 0 \in Nat
  BY SieveAssumption DEF Slots
<1>2. TypeOK
  BY <1>1 DEF Init, TypeOK, NoChild
<1>3. Launched /\ Custody /\ Ahead
  BY DEF Init, Launched, Custody, Ahead, Unreaped, NoChild, Attempts, Live
<1>4. Budget /\ Watching
  BY <1>1 DEF Init, Budget, Watching
<1> QED
  BY <1>2, <1>3, <1>4 DEF Inv

SlotTypes ==
  /\ attempts \in [Slots -> 0..2] /\ lease \in [Slots -> 0..2]
  /\ finished \in [Slots -> BOOLEAN] /\ reaped \in [Slots -> BOOLEAN]
  /\ success \in [Slots -> BOOLEAN] /\ refused \in [Slots -> BOOLEAN]
  /\ kind \in [Slots -> {"none", "retryable", "fatal", "unreaped"}]
  /\ DOMAIN relations = Slots /\ \A i \in Slots : relations[i] \in {<<>>, Rows(i)}
  /\ child \in [Slots -> [Attempts ->
       [state : {"none", "running", "hung", "ended"},
        code : {"none", "ok", "failed", "fatal"}, valid : BOOLEAN, reaped : BOOLEAN]]]
  /\ age \in [Slots -> 0..MaxAge]

MasterTypes ==
  /\ seeded \in BOOLEAN
  /\ stage \in {"prepare", "start", "wait", "retry", "merge",
                "returned", "providerError", "workerError"}
  /\ cur \in Slots
  /\ watch \in {"idle", "polling", "grace", "killed", "collect"}
  /\ waited \in Nat

LEMMA TypeParts == TypeOK <=> SlotTypes /\ MasterTypes
BY DEF TypeOK, SlotTypes, MasterTypes

\* cleanup_attempt touches one slot, and its lease stays an attempt number.
LEMMA CleanupKeeps ==
  ASSUME NEW i \in Slots, NEW held \in 0..2, NEW done \in BOOLEAN,
         SlotTypes, Cleanup(i, held, done)
  PROVE  /\ lease' \in [Slots -> 0..2] /\ refused' \in [Slots -> BOOLEAN]
         /\ \A j \in Slots : j # i => lease'[j] = lease[j]
<1>1. lease' \in [Slots -> 0..2] /\ \A j \in Slots : j # i => lease'[j] = lease[j]
  <2>1. lease' = [lease EXCEPT ![i] = 0] \/ lease' = [lease EXCEPT ![i] = held]
    BY DEF Cleanup
  <2>2. lease \in [Slots -> 0..2] /\ 0 \in 0..2
    BY DEF SlotTypes
  <2> QED
    BY <2>1, <2>2
<1>2. (refused[i] \/ reaped[i]) \in BOOLEAN
  OBVIOUS
<1>3. refused' = refused \/ refused' = [refused EXCEPT ![i] = refused[i] \/ reaped[i]]
  BY DEF Cleanup
<1>4. refused' \in [Slots -> BOOLEAN]
  BY <1>2, <1>3, Zenon DEF SlotTypes
<1> QED
  BY <1>1, <1>4

StartOutcome(i) == StartRefused(i) \/ SpawnFails(i) \/ Spawn(i)

\* start_attempt for a slot with an attempt left and no child unaccounted for
\* keeps the books, and touches no other slot.
LEMMA StartKeeps ==
  ASSUME NEW i \in Slots, SlotTypes, Launched, Custody,
         attempts[i] <= 1, \A a \in Attempts : ~Unreaped(i, a),
         ResetSlot(i), StartOutcome(i)
  PROVE  /\ SlotTypes' /\ Launched' /\ Custody'
         /\ \A j \in Slots : j # i =>
              /\ attempts'[j] = attempts[j] /\ finished'[j] = finished[j]
              /\ kind'[j] = kind[j] /\ child'[j] = child[j]
         /\ attempts'[i] \in {attempts[i], attempts[i] + 1}
         /\ finished'[i] \/ attempts'[i] = attempts[i] + 1
         /\ \A a \in Attempts : Unreaped(i, a)' => Spawn(i) /\ ~finished'[i]
<1>1. /\ success' \in [Slots -> BOOLEAN] /\ kind' \in [Slots -> {"none", "retryable", "fatal", "unreaped"}]
      /\ DOMAIN relations' = Slots /\ \A j \in Slots : relations'[j] \in {<<>>, Rows(j)}
      /\ ~success'[i]
      /\ \A j \in Slots : j # i => success'[j] = success[j] /\ kind'[j] = kind[j]
  BY DEF ResetSlot, SlotTypes
<1>2. attempts[i] \in 0..1 /\ lease[i] \in 0..2 /\ attempts[i] + 1 \in 1..2
  BY DEF SlotTypes
<1>3. CASE StartRefused(i) \/ SpawnFails(i)
  <2>1. /\ lease' \in [Slots -> 0..2] /\ refused' \in [Slots -> BOOLEAN]
        /\ \A j \in Slots : j # i => lease'[j] = lease[j]
    BY <1>2, <1>3, CleanupKeeps DEF StartRefused, SpawnFails
  <2>2. /\ finished' = [finished EXCEPT ![i] = TRUE]
        /\ UNCHANGED <<attempts, reaped, child, age>>
    BY <1>3 DEF StartRefused, SpawnFails
  <2>3. SlotTypes'
    BY <1>1, <2>1, <2>2 DEF SlotTypes
  <2>4. Launched'
    BY <2>2 DEF Launched, Live
  <2>5. Custody'
    BY <1>1, <2>1, <2>2 DEF Custody, Unreaped
  <2> QED
    BY <1>1, <2>2, <2>3, <2>4, <2>5 DEF Unreaped, SlotTypes
<1>4. CASE Spawn(i)
  <2> DEFINE n == attempts[i] + 1
  <2>1. n \in Attempts /\ n \in 0..2
    BY <1>2 DEF Attempts
  <2>2. /\ attempts' \in [Slots -> 0..2] /\ lease' \in [Slots -> 0..2]
        /\ attempts'[i] = n /\ lease'[i] = n /\ ~reaped'[i] /\ ~finished'[i]
        /\ reaped' \in [Slots -> BOOLEAN] /\ finished' \in [Slots -> BOOLEAN]
        /\ age' \in [Slots -> 0..MaxAge] /\ UNCHANGED refused
        /\ \A j \in Slots : j # i => attempts'[j] = attempts[j] /\ lease'[j] = lease[j]
              /\ reaped'[j] = reaped[j] /\ finished'[j] = finished[j]
    BY <2>1, <1>4, SieveAssumption DEF Spawn, SlotTypes
  <2>3. /\ child' = [child EXCEPT ![i][n] = NewChild]
        /\ NewChild \in [state : {"none", "running", "hung", "ended"},
              code : {"none", "ok", "failed", "fatal"}, valid : BOOLEAN, reaped : BOOLEAN]
        /\ NewChild.state = "running" /\ ~NewChild.reaped
    BY <1>4 DEF Spawn, NewChild, NoChild
  <2>4. /\ \A j \in Slots : j # i => child'[j] = child[j]
        /\ \A a \in Attempts : a # n => child'[i][a] = child[i][a]
        /\ child'[i][n] = NewChild
        /\ child' \in [Slots -> [Attempts ->
            [state : {"none", "running", "hung", "ended"},
             code : {"none", "ok", "failed", "fatal"}, valid : BOOLEAN, reaped : BOOLEAN]]]
    BY <2>1, <2>3 DEF SlotTypes
  <2>5. SlotTypes'
    BY <1>1, <2>2, <2>4 DEF SlotTypes
  <2>6. Launched'
    <3> SUFFICES ASSUME NEW j \in Slots, NEW a \in Attempts
                 PROVE  /\ child'[j][a].state # "none" <=> a <= attempts'[j]
                        /\ Live(child'[j][a]) => ~child'[j][a].reaped
      BY DEF Launched
    <3>1. CASE j # i
      BY <3>1, <2>2, <2>4 DEF Launched
    <3>2. CASE j = i /\ a = n
      BY <3>2, <2>2, <2>3, <2>4, <1>2
    <3>3. CASE j = i /\ a # n
      <4>1. a <= attempts[i] <=> a <= n
        BY <3>3, <1>2 DEF Attempts
      <4> QED
        BY <4>1, <3>3, <2>2, <2>4 DEF Launched
    <3> QED
      BY <3>1, <3>2, <3>3
  <2>7. Custody'
    <3> SUFFICES ASSUME NEW j \in Slots, NEW a \in Attempts, Unreaped(j, a)'
                 PROVE  lease'[j] = a /\ attempts'[j] = a /\ ~reaped'[j] /\ ~success'[j]
      BY DEF Custody
    <3>1. CASE j # i
      <4>1. child'[j] = child[j]
        BY <3>1, <2>4
      <4>2. Unreaped(j, a)
        BY <4>1 DEF Unreaped
      <4>3. lease[j] = a /\ attempts[j] = a /\ ~reaped[j] /\ ~success[j]
        BY <4>2 DEF Custody
      <4> QED
        BY <1>1, <3>1, <2>2, <4>3
    <3>2. CASE j = i /\ a = n
      BY <1>1, <3>2, <2>2
    <3>3. CASE j = i /\ a # n
      <4>1. child'[j][a] = child[i][a]
        BY <3>3, <2>4
      <4>2. Unreaped(i, a)
        BY <4>1 DEF Unreaped
      <4> QED
        BY <4>2
    <3> QED
      BY <3>1, <3>2, <3>3
  <2> QED
    BY <1>1, <1>4, <2>2, <2>4, <2>5, <2>6, <2>7
<1> QED
  BY <1>3, <1>4 DEF StartOutcome

LEMMA NextSlotMoves ==
  ASSUME NEW f, cur \in Slots, NextSlot(f)
  PROVE  /\ cur' \in Slots
         /\ \/ cur = Workers /\ stage' = f /\ cur' = 1
            \/ cur < Workers /\ stage' = stage /\ cur' = cur + 1
BY SieveAssumption DEF NextSlot, Slots

\* Steps that only move the master or the clock.
LEMMA WatchSteps == Inv /\ (Terminate \/ Kill \/ Tick \/ Merge \/ Ended \/ UNCHANGED vars) => Inv'
<1> SUFFICES ASSUME Inv, Terminate \/ Kill \/ Tick \/ Merge \/ Ended \/ UNCHANGED vars PROVE Inv'
  OBVIOUS
<1>1. UNCHANGED <<seeded, cur, slotVars, child>>
  BY DEF Terminate, Kill, Tick, Merge, Ended, vars
<1>2. SlotTypes /\ MasterTypes
  BY TypeParts DEF Inv
<1>3. age' \in [Slots -> 0..MaxAge]
  <2>1. CASE Tick
    <3>1. age' = [i \in Slots |-> IF \E a \in Attempts : a = attempts[i] /\ Live(child[i][a]) /\ age[i] < MaxAge
                 THEN age[i] + 1 ELSE age[i]]
      BY <2>1 DEF Tick
    <3>2. \A i \in Slots : age[i] \in 0..MaxAge
      BY <1>2 DEF SlotTypes
    <3>3. \A i \in Slots : age[i] < MaxAge => age[i] + 1 \in 0..MaxAge
      BY <3>2, SieveAssumption
    <3> QED
      BY <3>1, <3>2, <3>3
  <2>2. CASE UNCHANGED age
    BY <2>2, <1>2 DEF SlotTypes
  <2> QED
    BY <2>1, <2>2 DEF Terminate, Kill, Merge, Ended, vars
<1>4. SlotTypes'
  BY <1>1, <1>2, <1>3 DEF SlotTypes, slotVars
<1>5. MasterTypes'
  BY <1>1, <1>2 DEF MasterTypes, Terminate, Kill, Tick, Merge, Ended, vars
<1>6. Launched' /\ Custody'
  BY <1>1 DEF Inv, Launched, Custody, Unreaped, slotVars, Live
<1>7. /\ \/ UNCHANGED <<stage, watch>>
         \/ stage' = stage /\ watch = "polling" /\ watch' = "grace"
         \/ stage' = stage /\ watch = "grace" /\ watch' = "killed"
         \/ stage = "merge" /\ stage' \in {"returned", "providerError", "workerError"} /\ watch' = watch
  BY DEF Terminate, Kill, Tick, Merge, Ended, vars
<1>8. Budget' /\ Watching'
  BY <1>1, <1>7 DEF Inv, Budget, Watching, slotVars
<1>9. Ahead'
  BY <1>1, <1>7 DEF Inv, Ahead, Unreaped, Waiting, slotVars
<1> QED
  BY <1>4, <1>5, <1>6, <1>8, <1>9, TypeParts DEF Inv, TypeOK, SlotTypes, MasterTypes

\* Whatever the children do, they stay unreaped and keep their slots.
LEMMA ChildSteps == Inv /\ (ChildStep \/ ChildKilled) => Inv'
<1> SUFFICES ASSUME Inv, ChildStep \/ ChildKilled PROVE Inv'
  OBVIOUS
<1> DEFINE Rec == [state : {"none", "running", "hung", "ended"},
                   code : {"none", "ok", "failed", "fatal"}, valid : BOOLEAN, reaped : BOOLEAN]
<1>1. UNCHANGED <<seeded, stage, cur, watch, waited, slotVars, age, merged>>
  BY DEF ChildStep, ChildKilled
<1>2. SlotTypes /\ MasterTypes
  BY TypeParts DEF Inv
<1>3. PICK i \in Slots, a \in Attempts :
        ChildSucceeds(i, a) \/ ChildDies(i, a) \/ ChildProviderThrows(i, a) \/ ChildHangs(i, a)
  <2>2. CASE ChildStep
    BY <2>2 DEF ChildStep
  <2>3. CASE ChildKilled
    <3>1. cur \in Slots /\ attempts[cur] \in Attempts
      <4>1. watch = "killed"
        BY <2>3 DEF ChildKilled
      <4>2. cur \in Slots /\ attempts[cur] \in 0..2
        BY <1>2 DEF MasterTypes, SlotTypes
      <4> QED
        BY <4>1, <4>2 DEF Inv, Watching, Attempts
    <3> QED
      BY <3>1, <2>3 DEF ChildKilled
  <2> QED
    BY <2>2, <2>3
<1>4. PICK r \in Rec : /\ child' = [child EXCEPT ![i][a] = r]
                       /\ r.state # "none" /\ r.reaped = child[i][a].reaped /\ Live(child[i][a])
  <2> DEFINE c == child[i][a]
  <2>1. c \in Rec /\ child[i] \in [Attempts -> Rec]
    BY <1>2 DEF SlotTypes
  <2>2. CASE ChildHangs(i, a)
    <3>1. [c EXCEPT !.state = "hung"] \in Rec
      BY <2>1
    <3>2. child' = [child EXCEPT ![i][a] = [c EXCEPT !.state = "hung"]]
      BY <2>2 DEF ChildHangs
    <3> QED
      BY <2>1, <2>2, <3>1, <3>2 DEF ChildHangs, Live
  <2>3. ASSUME NEW code \in {"ok", "failed", "fatal"}, NEW valid \in BOOLEAN,
               ChildEnds(i, a, code, valid)
        PROVE  \E r \in Rec : /\ child' = [child EXCEPT ![i][a] = r]
                 /\ r.state # "none" /\ r.reaped = child[i][a].reaped /\ Live(child[i][a])
    <3> DEFINE r == [c EXCEPT !.state = "ended", !.code = code, !.valid = valid]
    <3>1. r \in Rec /\ r.state = "ended" /\ r.reaped = c.reaped
      BY <2>1
    <3>2. child' = [child EXCEPT ![i][a] = r]
      BY <2>1, <2>3, <1>2 DEF ChildEnds, SlotTypes
    <3> QED
      BY <3>1, <3>2, <2>3 DEF ChildEnds
  <2> QED
    BY <1>3, <2>2, <2>3 DEF ChildSucceeds, ChildDies, ChildProviderThrows
<1>6. /\ child' \in [Slots -> [Attempts -> Rec]]
      /\ \A j \in Slots, b \in Attempts : ~(j = i /\ b = a) => child'[j][b] = child[j][b]
      /\ child'[i][a] = r
  BY <1>2, <1>4 DEF SlotTypes
<1>7. \A j \in Slots, b \in Attempts :
        /\ child'[j][b].state # "none" <=> child[j][b].state # "none"
        /\ child'[j][b].reaped = child[j][b].reaped
        /\ Live(child'[j][b]) => Live(child[j][b])
  BY <1>4, <1>6 DEF Live
<1>8. SlotTypes' /\ MasterTypes'
  BY <1>1, <1>2, <1>6 DEF SlotTypes, MasterTypes, slotVars
<1>9. \A j \in Slots, b \in Attempts : Unreaped(j, b)' <=> Unreaped(j, b)
  BY <1>7 DEF Unreaped
<1>10. Launched'
  BY <1>1, <1>7 DEF Inv, Launched, slotVars
<1>11. Custody' /\ Ahead'
  BY <1>1, <1>9 DEF Inv, Custody, Ahead, slotVars
<1>12. Budget' /\ Watching'
  BY <1>1 DEF Inv, Budget, Watching, slotVars
<1> QED
  BY <1>8, <1>10, <1>11, <1>12, TypeParts DEF Inv, TypeOK, SlotTypes, MasterTypes

\* Stage 0 works on slots that have no child yet.
LEMMA PrepareStep == Inv /\ Prepare => Inv'
<1> SUFFICES ASSUME Inv, Prepare PROVE Inv'
  OBVIOUS
<1>1. SlotTypes /\ MasterTypes
  BY TypeParts DEF Inv
<1>2. stage = "prepare" /\ cur \in Slots
  BY <1>1 DEF Prepare, MasterTypes
<1>3. UNCHANGED <<seeded, watch, waited, attempts, reaped, relations, child, age, merged>>
  BY DEF Prepare
<1>4. \A i \in Slots, a \in Attempts : ~Unreaped(i, a)
  BY <1>2 DEF Inv, Budget, Launched, Attempts, Unreaped
<1>5. /\ finished' \in [Slots -> BOOLEAN] /\ success' \in [Slots -> BOOLEAN]
      /\ kind' \in [Slots -> {"none", "retryable", "fatal", "unreaped"}]
      /\ lease' \in [Slots -> 0..2] /\ refused' \in [Slots -> BOOLEAN]
  <2>1. CASE IsEmpty(cur)
    <3>1. PICK done \in BOOLEAN, held \in {0, 1} :
                 \/ /\ held = 0 /\ ~done
                    /\ success' = success
                    /\ kind' = [kind EXCEPT ![cur] = "retryable"]
                    /\ UNCHANGED <<lease, refused>>
                 \/ /\ held = 1 /\ Cleanup(cur, held, done)
                    /\ success' = [success EXCEPT ![cur] = done]
                    /\ kind' = [kind EXCEPT ![cur] = IF done THEN "none" ELSE "retryable"]
      BY <2>1 DEF Prepare
    <3>2. held \in 0..2
      OBVIOUS
    <3>3. lease' \in [Slots -> 0..2] /\ refused' \in [Slots -> BOOLEAN]
      <4>1. CASE Cleanup(cur, held, done)
        <5>1. PICK c \in Slots : c = cur
          BY <1>2
        <5>2. Cleanup(c, held, done)
          BY <4>1, <5>1
        <5> QED
          BY <5>1, <5>2, <3>2, <1>1, CleanupKeeps
      <4>2. CASE UNCHANGED <<lease, refused>>
        BY <4>2, <1>1 DEF SlotTypes
      <4> QED
        BY <3>1, <4>1, <4>2
    <3>4. finished' \in [Slots -> BOOLEAN]
      BY <2>1, <1>1 DEF Prepare, SlotTypes
    <3>5. success' \in [Slots -> BOOLEAN]
      BY <3>1, <1>1 DEF SlotTypes
    <3>6. kind' \in [Slots -> {"none", "retryable", "fatal", "unreaped"}]
      BY <3>1, <1>1 DEF SlotTypes
    <3> QED
      BY <3>3, <3>4, <3>5, <3>6
  <2> QED
    BY <2>1, <1>1 DEF Prepare, SlotTypes
<1>6. cur' \in Slots /\ stage' \in {"prepare", "start"} /\ (stage' = "start" => cur' = 1)
  BY <1>2, SieveAssumption DEF Prepare, Slots
<1>7. SlotTypes' /\ MasterTypes'
  BY <1>1, <1>3, <1>5, <1>6 DEF SlotTypes, MasterTypes
<1>8. Launched'
  BY <1>3 DEF Inv, Launched
<1>9. Custody' /\ Ahead'
  BY <1>3, <1>4 DEF Custody, Ahead, Unreaped
<1>10. Budget' /\ Watching'
  BY <1>2, <1>3, <1>6 DEF Inv, Budget, Watching, Slots
<1> QED
  BY <1>7, <1>8, <1>9, <1>10, TypeParts DEF Inv, TypeOK, SlotTypes, MasterTypes

LEMMA StartStep == Inv /\ Start => Inv'
<1> SUFFICES ASSUME Inv, Start PROVE Inv'
  OBVIOUS
<1>1. SlotTypes /\ MasterTypes
  BY TypeParts DEF Inv
<1>2. /\ stage = "start" /\ cur \in Slots /\ NextSlot("wait")
      /\ UNCHANGED <<seeded, watch, waited, merged>>
      /\ attempts[cur] = 0 /\ watch = "idle"
  BY <1>1 DEF Start, MasterTypes, Inv, Budget, Watching, Slots
<1>3. /\ cur' \in Slots
      /\ \/ cur = Workers /\ stage' = "wait" /\ cur' = 1
         \/ cur < Workers /\ stage' = stage /\ cur' = cur + 1
  BY <1>2, NextSlotMoves
<1>4. MasterTypes'
  BY <1>1, <1>2, <1>3 DEF MasterTypes
<1>5. \A a \in Attempts : ~Unreaped(cur, a)
  BY <1>2 DEF Inv, Launched, Unreaped, Attempts
<1>6. CASE finished[cur] /\ UNCHANGED <<slotVars, child, age>>
  <2>1. SlotTypes'
    BY <1>1, <1>6 DEF SlotTypes, slotVars
  <2>2. Launched' /\ Custody'
    BY <1>6 DEF Inv, Launched, Custody, Unreaped, slotVars, Live
  <2>3. Budget'
    BY <1>1, <1>2, <1>3, <1>6 DEF Inv, Budget, slotVars, SlotTypes, Slots
  <2>4. Watching' /\ Ahead'
    BY <1>2, <1>3, <1>6 DEF Inv, Watching, Ahead, Unreaped, slotVars, Slots
  <2> QED
    BY <1>4, <2>1, <2>2, <2>3, <2>4, TypeParts DEF Inv, TypeOK, SlotTypes, MasterTypes
<1>7. CASE ~finished[cur] /\ ResetSlot(cur) /\ StartOutcome(cur)
  <2>1. attempts[cur] <= 1 /\ Launched /\ Custody
    BY <1>2 DEF Inv
  <2>c. PICK c \in Slots : c = cur
    BY <1>2
  <2>s. ResetSlot(c) /\ StartOutcome(c) /\ attempts[c] <= 1 /\ \A a \in Attempts : ~Unreaped(c, a)
    BY <2>c, <2>1, <1>5, <1>7
  <2>2. /\ SlotTypes' /\ Launched' /\ Custody'
        /\ \A j \in Slots : j # c =>
              /\ attempts'[j] = attempts[j] /\ finished'[j] = finished[j]
              /\ kind'[j] = kind[j] /\ child'[j] = child[j]
        /\ attempts'[c] \in {attempts[c], attempts[c] + 1}
        /\ finished'[c] \/ attempts'[c] = attempts[c] + 1
        /\ \A a \in Attempts : Unreaped(c, a)' => Spawn(c) /\ ~finished'[c]
    BY <1>1, <2>1, <2>s, StartKeeps
  <2>3. \A i \in Slots :
          IF i > cur THEN attempts'[i] = 0 ELSE attempts'[i] <= 1 /\ (finished'[i] \/ attempts'[i] = 1)
    BY <1>1, <1>2, <2>c, <2>2 DEF Inv, Budget, Slots, MasterTypes
  <2>4. Budget'
    BY <1>2, <1>3, <2>3 DEF Budget, Slots
  <2>5. Watching'
    BY <1>2 DEF Watching
  <2>6. Ahead'
    <3> SUFFICES ASSUME NEW i \in Slots, NEW a \in Attempts, Unreaped(i, a)', kind'[i] # "unreaped"
                 PROVE  ~finished'[i] /\ (stage' = "start" \/ (stage' = "wait" /\ i >= cur'))
      BY <1>2, <1>3 DEF Ahead
    <3>1. stage' = "start" \/ (stage' = "wait" /\ i >= cur')
      BY <1>2, <1>3 DEF Slots
    <3>2. CASE i = c
      BY <3>1, <3>2, <2>2
    <3>3. CASE i # c
      <4>1. Unreaped(i, a) /\ kind[i] # "unreaped"
        BY <3>3, <2>2 DEF Unreaped
      <4> QED
        BY <3>1, <3>3, <4>1, <2>2, <1>2 DEF Inv, Ahead
    <3> QED
      BY <3>2, <3>3
  <2> QED
    BY <1>4, <2>2, <2>4, <2>5, <2>6, TypeParts DEF Inv, TypeOK, SlotTypes, MasterTypes
<1> QED
  BY <1>6, <1>7 DEF Start, StartOutcome

\* Stage 2 passes only slots whose child is accounted for.
LEMMA WaitNextStep == Inv /\ WaitNext => Inv'
<1> SUFFICES ASSUME Inv, WaitNext PROVE Inv'
  OBVIOUS
<1>1. SlotTypes /\ MasterTypes
  BY TypeParts DEF Inv
<1>2. /\ stage = "wait" /\ watch = "idle" /\ cur \in Slots
      /\ UNCHANGED <<seeded, slotVars, child, age, merged>> /\ waited' = 0
  BY <1>1 DEF WaitNext, MasterTypes
<1>3. \/ /\ finished[cur] /\ watch' = "idle" /\ cur' \in Slots
         /\ \/ cur = Workers /\ stage' = "retry" /\ cur' = 1
            \/ cur < Workers /\ stage' = "wait" /\ cur' = cur + 1
      \/ ~finished[cur] /\ watch' = "polling" /\ stage' = "wait" /\ cur' = cur
  BY <1>2, NextSlotMoves DEF WaitNext
<1>4. SlotTypes'
  BY <1>1, <1>2 DEF SlotTypes, slotVars
<1>5. MasterTypes'
  BY <1>1, <1>2, <1>3 DEF MasterTypes
<1>6. Launched' /\ Custody'
  BY <1>2 DEF Inv, Launched, Custody, Unreaped, slotVars, Live
<1>7. /\ \A i \in Slots : attempts'[i] = attempts[i] /\ finished'[i] = finished[i]
                          /\ attempts[i] <= 1 /\ (finished[i] \/ attempts[i] = 1)
  BY <1>2 DEF Inv, Budget, slotVars
<1>8. Budget' /\ Watching'
  BY <1>2, <1>3, <1>7 DEF Budget, Watching
<1>9. Ahead'
  <2> SUFFICES ASSUME NEW i \in Slots, NEW a \in Attempts, Unreaped(i, a), kind[i] # "unreaped"
               PROVE  ~finished[i] /\ stage' = "wait" /\ i >= cur'
    BY <1>2, <1>3 DEF Ahead, Unreaped, slotVars
  <2>1. ~finished[i] /\ i >= cur
    BY <1>2 DEF Inv, Ahead
  <2> QED
    BY <1>2, <1>3, <2>1, SieveAssumption DEF Slots
<1> QED
  BY <1>4, <1>5, <1>6, <1>8, <1>9, TypeParts DEF Inv, TypeOK, SlotTypes, MasterTypes

\* A child that answered is no longer unreaped.
LEMMA ReapStep == Inv /\ Reap => Inv'
<1> SUFFICES ASSUME Inv, Reap PROVE Inv'
  OBVIOUS
<1> DEFINE Rec == [state : {"none", "running", "hung", "ended"},
                   code : {"none", "ok", "failed", "fatal"}, valid : BOOLEAN, reaped : BOOLEAN]
<1>1. SlotTypes /\ MasterTypes
  BY TypeParts DEF Inv
<1>2. PICK c \in Slots : c = cur
  BY <1>1 DEF MasterTypes
<1>3. PICK n \in Attempts : n = attempts[c]
  BY <1>1, <1>2 DEF Reap, Inv, Watching, SlotTypes, Attempts, Waiting
<1>4. /\ watch \in Waiting /\ watch' = "collect" /\ waited' = 0 /\ child[c][n].state = "ended"
      /\ reaped' = [reaped EXCEPT ![c] = TRUE]
      /\ finished' = [finished EXCEPT ![c] = TRUE]
      /\ kind' = [kind EXCEPT ![c] = DecodedKind(child[c][n].code, watch # "polling")]
      /\ child' = [child EXCEPT ![c][n].reaped = TRUE]
      /\ UNCHANGED <<seeded, stage, cur, attempts, success, lease, relations, refused, age, merged>>
  BY <1>2, <1>3 DEF Reap, Current, Waiting
<1>5. \A i \in Slots, a \in Attempts : child[i][a] \in Rec
  BY <1>1 DEF SlotTypes
<1>6. /\ child' \in [Slots -> [Attempts -> Rec]]
      /\ \A i \in Slots, a \in Attempts : ~(i = c /\ a = n) => child'[i][a] = child[i][a]
      /\ child'[c][n].state = "ended" /\ child'[c][n].reaped
  <2> DEFINE r == [child[c][n] EXCEPT !.reaped = TRUE]
  <2>1. r \in Rec /\ r.state = "ended" /\ r.reaped
    BY <1>4, <1>5
  <2>2. child' = [child EXCEPT ![c][n] = r]
    BY <1>4
  <2>3. child \in [Slots -> [Attempts -> Rec]]
    BY <1>1 DEF SlotTypes
  <2> QED
    BY <2>1, <2>2, <2>3
<1>7. DecodedKind(child[c][n].code, watch # "polling") \in {"none", "retryable", "fatal"}
  BY DEF DecodedKind
<1>8. /\ kind' \in [Slots -> {"none", "retryable", "fatal", "unreaped"}]
      /\ \A i \in Slots : i # c => kind'[i] = kind[i]
  BY <1>1, <1>4, <1>7 DEF SlotTypes
<1>9. /\ reaped' \in [Slots -> BOOLEAN] /\ finished' \in [Slots -> BOOLEAN]
      /\ reaped'[c] /\ finished'[c]
      /\ \A i \in Slots : i # c => reaped'[i] = reaped[i] /\ finished'[i] = finished[i]
  BY <1>1, <1>4 DEF SlotTypes
<1>10. SlotTypes' /\ MasterTypes'
  BY <1>1, <1>4, <1>6, <1>8, <1>9 DEF SlotTypes, MasterTypes
<1>11. \A i \in Slots, a \in Attempts : Unreaped(i, a)' => i # c /\ Unreaped(i, a)
  <2> SUFFICES ASSUME NEW i \in Slots, NEW a \in Attempts, Unreaped(i, a)'
               PROVE  i # c /\ Unreaped(i, a)
    OBVIOUS
  <2>1. ~(i = c /\ a = n)
    BY <1>6 DEF Unreaped
  <2>2. Unreaped(i, a)
    BY <1>6, <2>1 DEF Unreaped
  <2>3. attempts[i] = a
    BY <2>2 DEF Inv, Custody
  <2> QED
    BY <1>3, <2>1, <2>2, <2>3
<1>12. Launched'
  <2> SUFFICES ASSUME NEW i \in Slots, NEW a \in Attempts
               PROVE  /\ child'[i][a].state # "none" <=> a <= attempts'[i]
                      /\ Live(child'[i][a]) => ~child'[i][a].reaped
    BY DEF Launched
  <2>1. CASE i = c /\ a = n
    BY <1>4, <1>6, <2>1 DEF Inv, Launched, Live
  <2>2. CASE ~(i = c /\ a = n)
    BY <1>4, <1>6, <2>2 DEF Inv, Launched
  <2> QED
    BY <2>1, <2>2
<1>13. Custody'
  BY <1>4, <1>9, <1>11 DEF Inv, Custody
<1>14. Budget'
  BY <1>2, <1>4, <1>9, <1>1 DEF Inv, Budget, Watching, SlotTypes, Waiting
<1>15. Watching'
  BY <1>2, <1>4, <1>9 DEF Inv, Watching, Waiting
<1>16. Ahead'
  BY <1>2, <1>4, <1>8, <1>9, <1>11 DEF Inv, Ahead, Watching, Waiting
<1> QED
  BY <1>10, <1>12, <1>13, <1>14, <1>15, <1>16, TypeParts DEF Inv, TypeOK, SlotTypes, MasterTypes

LEMMA WaitFailsStep == Inv /\ WaitFails => Inv'
<1> SUFFICES ASSUME Inv, WaitFails PROVE Inv'
  OBVIOUS
<1>1. SlotTypes /\ MasterTypes
  BY TypeParts DEF Inv
<1>2. PICK c \in Slots : c = cur
  BY <1>1 DEF MasterTypes
<1>3. /\ watch \in Waiting /\ watch' = "idle" /\ waited' = 0
      /\ finished' = [finished EXCEPT ![c] = TRUE]
      /\ reaped' = [reaped EXCEPT ![c] = FALSE]
      /\ kind' = [kind EXCEPT ![c] = "unreaped"]
      /\ success' = [success EXCEPT ![c] = FALSE]
      /\ relations' = [relations EXCEPT ![c] = <<>>]
      /\ UNCHANGED <<seeded, attempts, lease, refused, child, age, merged>>
      /\ stage \in {"wait", "retry"}
  BY <1>2 DEF WaitFails, Waiting, Inv, Watching
<1>4. /\ cur' \in Slots
      /\ \/ cur = Workers /\ cur' = 1 /\ stage' = (IF stage = "wait" THEN "retry" ELSE "merge")
         \/ cur < Workers /\ cur' = cur + 1 /\ stage' = stage
  BY <1>1, NextSlotMoves DEF WaitFails, Advance, MasterTypes
<1>5. /\ finished' \in [Slots -> BOOLEAN] /\ reaped' \in [Slots -> BOOLEAN]
      /\ success' \in [Slots -> BOOLEAN]
      /\ \A i \in Slots : i # c => finished'[i] = finished[i] /\ reaped'[i] = reaped[i] /\ success'[i] = success[i]
      /\ finished'[c] /\ ~reaped'[c] /\ ~success'[c]
  BY <1>1, <1>3 DEF SlotTypes
<1>6. /\ kind' \in [Slots -> {"none", "retryable", "fatal", "unreaped"}]
      /\ DOMAIN relations' = Slots /\ \A i \in Slots : relations'[i] \in {<<>>, Rows(i)}
      /\ \A i \in Slots : i # c => kind'[i] = kind[i]
      /\ kind'[c] = "unreaped"
  BY <1>1, <1>3 DEF SlotTypes
<1>7. SlotTypes' /\ MasterTypes'
  BY <1>1, <1>3, <1>4, <1>5, <1>6 DEF SlotTypes, MasterTypes
<1>8. Launched' /\ Custody'
  BY <1>3, <1>5 DEF Inv, Launched, Custody, Unreaped, Live
<1>9. Budget'
  BY <1>2, <1>3, <1>4, <1>5 DEF Inv, Budget, Waiting, Slots
<1>10. Watching'
  BY <1>3 DEF Watching
<1>11. Ahead'
  <2> SUFFICES ASSUME NEW i \in Slots, NEW a \in Attempts, Unreaped(i, a), kind'[i] # "unreaped"
               PROVE  ~finished'[i] /\ stage' = "wait" /\ i >= cur'
    BY <1>3, <1>4 DEF Ahead, Unreaped
  <2>1. i # c /\ kind[i] # "unreaped"
    BY <1>6
  <2>2. stage = "wait" /\ ~finished[i] /\ i >= cur
    BY <1>2, <1>3, <2>1 DEF Inv, Ahead
  <2> QED
    BY <1>2, <1>4, <1>5, <2>1, <2>2 DEF Slots
<1> QED
  BY <1>7, <1>8, <1>9, <1>10, <1>11, TypeParts DEF Inv, TypeOK, SlotTypes, MasterTypes

LEMMA CollectStep == Inv /\ Collect => Inv'
<1> SUFFICES ASSUME Inv, Collect PROVE Inv'
  OBVIOUS
<1>1. SlotTypes /\ MasterTypes
  BY TypeParts DEF Inv
<1>2. PICK c \in Slots : c = cur
  BY <1>1 DEF MasterTypes
<1>3. /\ watch = "collect" /\ watch' = "idle" /\ reaped[c]
      /\ UNCHANGED <<seeded, waited, attempts, finished, reaped, child, age, merged>>
      /\ stage \in {"wait", "retry"}
  BY <1>2 DEF Collect, Inv, Watching
<1>4. /\ cur' \in Slots
      /\ \/ cur = Workers /\ cur' = 1 /\ stage' = (IF stage = "wait" THEN "retry" ELSE "merge")
         \/ cur < Workers /\ cur' = cur + 1 /\ stage' = stage
  BY <1>1, NextSlotMoves DEF Collect, Advance, MasterTypes
<1>5. PICK cleaned \in BOOLEAN, good \in BOOLEAN :
       /\ Cleanup(c, lease[c], cleaned)
       /\ success' = [success EXCEPT ![c] = good]
       /\ relations' = [relations EXCEPT ![c] = IF good THEN Rows(c) ELSE <<>>]
       /\ kind' = [kind EXCEPT ![c] = IF ~good /\ kind[c] = "none" THEN "retryable" ELSE kind[c]]
  <2>1. PICK cleaned \in BOOLEAN :
         LET good == kind[cur] = "none" /\ Current.valid /\ cleaned IN
         /\ Cleanup(cur, lease[cur], cleaned)
         /\ success' = [success EXCEPT ![cur] = good]
         /\ relations' = [relations EXCEPT ![cur] = IF good THEN Rows(cur) ELSE <<>>]
         /\ kind' = [kind EXCEPT ![cur] = IF ~good /\ @ = "none" THEN "retryable" ELSE @]
    BY DEF Collect
  <2> DEFINE g == kind[cur] = "none" /\ Current.valid /\ cleaned
  <2>2. g \in BOOLEAN
    OBVIOUS
  <2>3. /\ Cleanup(c, lease[c], cleaned)
        /\ success' = [success EXCEPT ![c] = g]
        /\ relations' = [relations EXCEPT ![c] = IF g THEN Rows(c) ELSE <<>>]
        /\ kind' = [kind EXCEPT ![c] = IF ~g /\ kind[c] = "none" THEN "retryable" ELSE kind[c]]
    BY <1>2, <2>1
  <2> HIDE DEF g
  <2> QED
    BY <2>2, <2>3
<1>6. /\ lease' \in [Slots -> 0..2] /\ refused' \in [Slots -> BOOLEAN]
      /\ \A j \in Slots : j # c => lease'[j] = lease[j]
  <2>1. lease[c] \in 0..2
    BY <1>1 DEF SlotTypes
  <2> QED
    BY <1>1, <1>5, <2>1, CleanupKeeps
<1>7. /\ success' \in [Slots -> BOOLEAN]
      /\ \A i \in Slots : i # c => success'[i] = success[i]
  BY <1>1, <1>5 DEF SlotTypes
<1>8. /\ kind' \in [Slots -> {"none", "retryable", "fatal", "unreaped"}]
      /\ DOMAIN relations' = Slots /\ \A i \in Slots : relations'[i] \in {<<>>, Rows(i)}
      /\ \A i \in Slots : i # c => kind'[i] = kind[i]
  BY <1>1, <1>5 DEF SlotTypes
<1>9. SlotTypes' /\ MasterTypes'
  BY <1>1, <1>3, <1>4, <1>6, <1>7, <1>8 DEF SlotTypes, MasterTypes
<1>10. \A i \in Slots, a \in Attempts : Unreaped(i, a)' => i # c /\ Unreaped(i, a)
  BY <1>3 DEF Unreaped, Inv, Custody
<1>11. Launched' /\ Custody'
  BY <1>3, <1>6, <1>7, <1>10 DEF Inv, Launched, Custody, Live
<1>12. Budget'
  BY <1>2, <1>3, <1>4 DEF Inv, Budget, Slots
<1>13. Watching'
  BY <1>3 DEF Watching
<1>14. Ahead'
  <2> SUFFICES ASSUME NEW i \in Slots, NEW a \in Attempts, Unreaped(i, a)', kind'[i] # "unreaped"
               PROVE  ~finished'[i] /\ stage' = "wait" /\ i >= cur'
    BY <1>3, <1>4 DEF Ahead
  <2>1. i # c /\ kind[i] # "unreaped" /\ Unreaped(i, a)
    BY <1>8, <1>10
  <2>2. stage = "wait" /\ ~finished[i] /\ i >= cur
    BY <1>2, <1>3, <2>1 DEF Inv, Ahead, Waiting
  <2> QED
    BY <1>2, <1>3, <1>4, <2>1, <2>2 DEF Slots
<1> QED
  BY <1>9, <1>11, <1>12, <1>13, <1>14, TypeParts DEF Inv, TypeOK, SlotTypes, MasterTypes

\* Stage 3 launches a second child only where nobody is left unreaped.
LEMMA RetryStep == Inv /\ Retry => Inv'
<1> SUFFICES ASSUME Inv, Retry PROVE Inv'
  OBVIOUS
<1>1. SlotTypes /\ MasterTypes
  BY TypeParts DEF Inv
<1>2. PICK c \in Slots : c = cur
  BY <1>1 DEF MasterTypes
<1>3. /\ stage = "retry" /\ watch = "idle" /\ waited' = 0 /\ UNCHANGED <<seeded, merged>>
      /\ attempts[c] <= 1
  BY <1>2 DEF Retry, Inv, Budget
<1>4. \A i \in Slots, a \in Attempts : Unreaped(i, a) => kind[i] = "unreaped"
  BY <1>3 DEF Inv, Ahead, Waiting
<1>5. CASE UNCHANGED <<slotVars, child, age, watch>>
  <2>1. /\ cur' \in Slots
        /\ \/ stage' = "merge"
           \/ stage' = "retry" /\ cur' = cur + 1
    BY <1>1, <1>2, <1>3, <1>5, NextSlotMoves, SieveAssumption
       DEF Retry, MasterTypes, Slots, ResetSlot, SpawnFails, StartRefused, Spawn
  <2>2. SlotTypes' /\ MasterTypes'
    BY <1>1, <1>3, <1>5, <2>1 DEF SlotTypes, MasterTypes, slotVars
  <2>3. Launched' /\ Custody'
    BY <1>5 DEF Inv, Launched, Custody, Unreaped, slotVars, Live
  <2>4. Budget' /\ Watching'
    BY <1>2, <1>3, <1>5, <2>1 DEF Inv, Budget, Watching, slotVars, Slots
  <2>5. Ahead'
    BY <1>4, <1>5, <2>1 DEF Ahead, Unreaped, slotVars
  <2> QED
    BY <2>2, <2>3, <2>4, <2>5, TypeParts DEF Inv, TypeOK, SlotTypes, MasterTypes
<1>6. CASE /\ ~RetrySkipped(cur) /\ ResetSlot(cur)
           /\ \/ StartRefused(cur) /\ NextSlot("merge") /\ UNCHANGED watch
              \/ SpawnFails(cur) /\ NextSlot("merge") /\ UNCHANGED watch
              \/ Spawn(cur) /\ watch' = "polling" /\ UNCHANGED <<stage, cur>>
  <2>1. ResetSlot(c) /\ StartOutcome(c)
    BY <1>2, <1>6 DEF StartOutcome
  <2>2. \A i \in Slots : reaped[i]
    BY <1>6 DEF RetrySkipped, RetriesReapSafe
  <2>3. \A i \in Slots, a \in Attempts : ~Unreaped(i, a)
    BY <2>2 DEF Inv, Custody
  <2>4. Launched /\ Custody
    BY DEF Inv
  <2>5. /\ SlotTypes' /\ Launched' /\ Custody'
        /\ \A j \in Slots : j # c =>
              /\ attempts'[j] = attempts[j] /\ finished'[j] = finished[j]
              /\ kind'[j] = kind[j] /\ child'[j] = child[j]
        /\ attempts'[c] \in {attempts[c], attempts[c] + 1}
        /\ finished'[c] \/ attempts'[c] = attempts[c] + 1
        /\ \A a \in Attempts : Unreaped(c, a)' => Spawn(c) /\ ~finished'[c]
    BY <1>1, <1>3, <2>1, <2>3, <2>4, StartKeeps
  <2>6. \/ /\ cur' \in Slots /\ watch' = "idle" /\ attempts'[c] = attempts[c]
           /\ \/ stage' = "merge"
              \/ stage' = "retry" /\ cur' = cur + 1
        \/ /\ cur' = cur /\ stage' = "retry" /\ watch' = "polling"
           /\ attempts'[c] = attempts[c] + 1
    <3>1. CASE (StartRefused(cur) \/ SpawnFails(cur)) /\ NextSlot("merge") /\ UNCHANGED watch
      BY <3>1, <1>1, <1>3, NextSlotMoves DEF StartRefused, SpawnFails, MasterTypes
    <3>2. CASE Spawn(cur) /\ watch' = "polling" /\ UNCHANGED <<stage, cur>>
      BY <3>2, <1>1, <1>2, <1>3 DEF Spawn, SlotTypes
    <3> QED
      BY <1>6, <3>1, <3>2
  <2>7. MasterTypes'
    BY <1>1, <1>3, <2>6 DEF MasterTypes
  <2>8. Budget'
    BY <1>1, <1>2, <1>3, <2>5, <2>6 DEF Inv, Budget, Slots, SlotTypes
  <2>n. attempts \in [Slots -> 0..2] /\ attempts[c] \in 0..2
    BY <1>1 DEF SlotTypes
  <2>9. Watching'
    BY <1>2, <1>3, <2>6, <2>n DEF Watching
  <2>10. \A i \in Slots, a \in Attempts : Unreaped(i, a)' => i = c
    BY <2>3, <2>5 DEF Unreaped
  <2>11. \A a \in Attempts : Unreaped(c, a)' => watch' = "polling" /\ cur' = c /\ stage' = "retry"
    <3> SUFFICES ASSUME NEW a \in Attempts, Unreaped(c, a)'
                 PROVE  attempts'[c] # attempts[c]
      BY <1>2, <2>6
    <3>1. attempts' = [attempts EXCEPT ![c] = attempts[c] + 1]
      BY <2>5 DEF Spawn
    <3> QED
      BY <2>n, <3>1
  <2>12. Ahead'
    BY <2>10, <2>11 DEF Ahead, Waiting
  <2> QED
    BY <2>5, <2>7, <2>8, <2>9, <2>12, TypeParts DEF Inv, TypeOK, SlotTypes, MasterTypes
<1> QED
  BY <1>5, <1>6 DEF Retry

LEMMA StepInv == Inv /\ [Next]_vars => Inv'
BY WatchSteps, ChildSteps, PrepareStep, StartStep, WaitNextStep, ReapStep, WaitFailsStep,
   CollectStep, RetryStep DEF Next, MasterStep

THEOREM InvHolds == Spec => []Inv
BY InitInv, StepInv, PTL DEF Spec

\* All fields stay in range; in particular no chunk has a third attempt.
THEOREM SieveTypeCorrect == Spec => []TypeOK
BY InvHolds, PTL DEF Inv

\* The lease of a chunk outlives every child that may write into it, for any
\* number of chunks and whatever waitpid, the deadline and the children do.
THEOREM LeaseOutlivesWriters == Spec => []LeaseNotPulled
<1>1. Inv => LeaseNotPulled
  BY DEF Inv, Launched, Custody, LeaseNotPulled, Unreaped, Live
<1> QED
  BY <1>1, InvHolds, PTL

\* When the call ends no child is left behind unnoticed.
THEOREM ChildrenAccountedFor == Spec => []WaveAccountedFor
<1>1. Inv => WaveAccountedFor
  BY DEF Inv, Custody, Ahead, WaveAccountedFor, Unreaped, Over
<1> QED
  BY <1>1, InvHolds, PTL

\* A chunk is retried only in a wave without live children, without a known
\* provider failure, and only after it failed.
THEOREM RetriesAreSafe == Spec => RetryIsSafe
<1> DEFINE Safe == \A i \in Slots : attempts[i] = 1 /\ attempts'[i] = 2 =>
       /\ \A j \in Slots, a \in Attempts : ~Live(child[j][a])
       /\ \A j \in Slots : kind[j] # "fatal"
       /\ ~success[i]
<1>1. Inv /\ [Next]_vars => [Safe]_vars
  <2> SUFFICES ASSUME Inv, Next, NEW i \in Slots, attempts[i] = 1, attempts'[i] = 2
               PROVE  /\ \A j \in Slots, a \in Attempts : ~Live(child[j][a])
                      /\ \A j \in Slots : kind[j] # "fatal"
                      /\ ~success[i]
    OBVIOUS
  <2>1. SlotTypes /\ MasterTypes
    BY TypeParts DEF Inv
  <2>2. attempts' # attempts
    OBVIOUS
  <2>3. Start \/ Retry
    BY <2>2 DEF Next, MasterStep, Prepare, WaitNext, Terminate, Kill, Reap, Collect, Merge,
       WaitFails, Tick, ChildStep, ChildKilled, Ended, slotVars, vars
  <2>4. CASE Start
    <3>1. attempts[cur] = 0 /\ cur \in Slots
      BY <2>1, <2>4 DEF Start, Inv, Budget, MasterTypes, Slots
    <3>2. attempts' = attempts \/ attempts' = [attempts EXCEPT ![cur] = attempts[cur] + 1]
      BY <2>4 DEF Start, StartRefused, SpawnFails, Spawn, slotVars
    <3>3. attempts \in [Slots -> 0..2]
      BY <2>1 DEF SlotTypes
    <3>4. attempts'[i] \in {attempts[i], 1}
      BY <3>1, <3>2, <3>3
    <3> QED
      BY <3>4
  <2>5. CASE Retry
    <3>1. Spawn(cur) /\ ~ProviderFailed /\ ~RetrySkipped(cur)
      BY <2>2, <2>5 DEF Retry, StartRefused, SpawnFails, slotVars
    <3>2. i = cur
      BY <2>1, <3>1 DEF Spawn, SlotTypes, MasterTypes
    <3>3. \A j \in Slots : reaped[j]
      BY <3>1 DEF RetrySkipped, RetriesReapSafe
    <3>4. \A j \in Slots, a \in Attempts : ~Live(child[j][a])
      BY <3>3 DEF Inv, Custody, Launched, Unreaped, Live
    <3> QED
      BY <3>1, <3>2, <3>4 DEF ProviderFailed, RetrySkipped
  <2> QED
    BY <2>3, <2>4, <2>5
<1>2. Spec => [][Safe]_vars
  BY <1>1, InvHolds, PTL DEF Spec
<1> QED
  BY <1>2 DEF RetryIsSafe
-----------------------------------------------------------------------------
(* What a success and a lease stand for.  Collected is the link between the *)
(* reap and the validation: at "collect" the slot's last child has ended    *)
(* and was reaped, and a slot without a failure has seen exit status 0.     *)

Evidence(i) == success[i] /\ ~IsEmpty(i) =>
  /\ attempts[i] \in Attempts /\ lease[i] = 0
  /\ child[i][attempts[i]].state = "ended" /\ child[i][attempts[i]].code = "ok"
  /\ child[i][attempts[i]].valid /\ child[i][attempts[i]].reaped

Collecting(i) == watch = "collect" /\ i = cur =>
  /\ attempts[i] \in Attempts
  /\ child[i][attempts[i]].state = "ended" /\ child[i][attempts[i]].reaped
  /\ kind[i] = "none" => child[i][attempts[i]].code = "ok"

\* A lease is explained by a removal that was refused, by a child whose end
\* is unknown, or by the collection the master is in the middle of.
Explained(i) == lease[i] # 0 =>
  /\ ~success[i]
  /\ refused[i] \/ ~reaped[i] \/ (watch = "collect" /\ i = cur)

SlotBooks(i) == Evidence(i) /\ Collecting(i) /\ Explained(i)
Books == \A i \in Slots : SlotBooks(i)

LEMMA InitBooks == Init => Books
BY DEF Init, Books, SlotBooks, Evidence, Collecting, Explained

\* A slot whose fields a step leaves alone keeps its books when the master is
\* not collecting it afterwards.
LEMMA OthersKeepBooks ==
  ASSUME NEW i \in Slots, SlotBooks(i), i # cur \/ watch # "collect", i # cur' \/ watch' # "collect",
         attempts'[i] = attempts[i], success'[i] = success[i], lease'[i] = lease[i],
         reaped'[i] = reaped[i], refused'[i] = refused[i], child'[i] = child[i]
  PROVE  SlotBooks(i)'
<1>1. Evidence(i)' /\ Explained(i)'
  BY DEF SlotBooks, Evidence, Explained
<1>2. Collecting(i)'
  BY DEF Collecting
<1> QED
  BY <1>1, <1>2 DEF SlotBooks

\* After cleanup_attempt a lease is left only where its removal was refused or
\* its child may still run.
LEMMA CleanupExplains ==
  ASSUME NEW i \in Slots, NEW held \in 0..2, NEW done \in BOOLEAN, SlotTypes, Cleanup(i, held, done)
  PROVE  /\ lease'[i] # 0 => ~done /\ (refused'[i] \/ ~reaped[i])
         /\ \A j \in Slots : j # i => lease'[j] = lease[j] /\ refused'[j] = refused[j]
<1>1. /\ DOMAIN lease = Slots /\ DOMAIN refused = Slots
      /\ reaped[i] \in BOOLEAN
  BY DEF SlotTypes
<1>2. CASE done /\ lease' = [lease EXCEPT ![i] = 0] /\ UNCHANGED refused
  BY <1>1, <1>2
<1>3. CASE ~done /\ lease' = [lease EXCEPT ![i] = held] /\ refused' = [refused EXCEPT ![i] = @ \/ reaped[i]]
  BY <1>1, <1>3
<1> QED
  BY <1>2, <1>3 DEF Cleanup

\* start_attempt: whatever comes of it, the slot has no success, and a lease
\* it leaves behind is explained.
LEMMA StartBooks ==
  ASSUME NEW i \in Slots, SlotTypes, Books, attempts[i] <= 1, watch # "collect", watch' # "collect",
         ResetSlot(i), StartOutcome(i)
  PROVE  Books'
<1>1. /\ ~success'[i]
      /\ \A j \in Slots : j # i => success'[j] = success[j]
  BY DEF ResetSlot, SlotTypes
<1>2. attempts[i] \in 0..1 /\ lease[i] \in 0..2 /\ attempts[i] + 1 \in 1..2 /\ attempts[i] + 1 \in 0..2
  BY DEF SlotTypes
<1>3. CASE StartRefused(i) \/ SpawnFails(i)
  <2>1. /\ lease'[i] # 0 => refused'[i] \/ ~reaped[i]
        /\ \A j \in Slots : j # i => lease'[j] = lease[j] /\ refused'[j] = refused[j]
    BY <1>2, <1>3, CleanupExplains DEF StartRefused, SpawnFails
  <2>2. UNCHANGED <<attempts, reaped, child>>
    BY <1>3 DEF StartRefused, SpawnFails
  <2>3. SlotBooks(i)'
    BY <1>1, <2>1, <2>2 DEF SlotBooks, Evidence, Collecting, Explained
  <2>4. ASSUME NEW j \in Slots, j # i PROVE SlotBooks(j)'
    BY <1>1, <2>1, <2>2, <2>4, OthersKeepBooks DEF Books
  <2> QED
    BY <2>3, <2>4 DEF Books
<1>4. CASE Spawn(i)
  <2>1. /\ ~reaped'[i]
        /\ \A j \in Slots : j # i => attempts'[j] = attempts[j] /\ lease'[j] = lease[j]
             /\ reaped'[j] = reaped[j] /\ refused'[j] = refused[j] /\ child'[j] = child[j]
    BY <1>4, <1>2 DEF Spawn, SlotTypes
  <2>2. SlotBooks(i)'
    BY <1>1, <2>1 DEF SlotBooks, Evidence, Collecting, Explained
  <2>3. ASSUME NEW j \in Slots, j # i PROVE SlotBooks(j)'
    BY <1>1, <2>1, <2>3, OthersKeepBooks DEF Books
  <2> QED
    BY <2>2, <2>3 DEF Books
<1> QED
  BY <1>3, <1>4 DEF StartOutcome

\* Steps of the clock and of the loop touch no slot, and none of them leaves
\* the collection.
LEMMA WatchBooks ==
  Inv /\ Books /\ (Terminate \/ Kill \/ Tick \/ Merge \/ Ended \/ WaitNext \/ UNCHANGED vars) => Books'
<1> SUFFICES ASSUME Inv, Books, Terminate \/ Kill \/ Tick \/ Merge \/ Ended \/ WaitNext \/ UNCHANGED vars
             PROVE  Books'
  OBVIOUS
<1>1. UNCHANGED <<slotVars, child>>
  BY DEF Terminate, Kill, Tick, Merge, Ended, WaitNext, vars
<1>2. \/ UNCHANGED <<watch, cur>>
      \/ watch # "collect" /\ watch' # "collect"
  BY DEF Terminate, Kill, Tick, Merge, Ended, WaitNext, vars
<1>3. ASSUME NEW i \in Slots PROVE SlotBooks(i)'
  <2>1. SlotBooks(i)
    BY DEF Books
  <2>2. CASE UNCHANGED <<watch, cur>>
    BY <1>1, <2>1, <2>2 DEF SlotBooks, Evidence, Collecting, Explained, slotVars
  <2>3. CASE watch # "collect" /\ watch' # "collect"
    BY <1>1, <2>1, <2>3 DEF SlotBooks, Evidence, Collecting, Explained, slotVars
  <2> QED
    BY <1>2, <2>2, <2>3
<1> QED
  BY <1>3 DEF Books

\* What a child still does cannot touch the evidence of one that has ended.
LEMMA ChildBooks == Inv /\ Books /\ (ChildStep \/ ChildKilled) => Books'
<1> SUFFICES ASSUME Inv, Books, ChildStep \/ ChildKilled PROVE Books'
  OBVIOUS
<1>1. UNCHANGED <<cur, watch, slotVars>>
  BY DEF ChildStep, ChildKilled
<1>2. SlotTypes /\ MasterTypes
  BY TypeParts DEF Inv
<1>3. \A i \in Slots, a \in Attempts : child[i][a].state = "ended" => child'[i][a] = child[i][a]
  <2>1. ASSUME NEW j \in Slots, NEW b, NEW code, NEW valid, ChildEnds(j, b, code, valid)
        PROVE  \A i \in Slots, a \in Attempts : child[i][a].state = "ended" => child'[i][a] = child[i][a]
    BY <1>2, <2>1 DEF ChildEnds, Live, SlotTypes
  <2>2. ASSUME NEW j \in Slots, NEW b, ChildHangs(j, b)
        PROVE  \A i \in Slots, a \in Attempts : child[i][a].state = "ended" => child'[i][a] = child[i][a]
    BY <1>2, <2>2 DEF ChildHangs, SlotTypes
  <2>3. cur \in Slots
    BY <1>2 DEF MasterTypes
  <2> QED
    BY <2>1, <2>2, <2>3 DEF ChildStep, ChildKilled, ChildSucceeds, ChildDies, ChildProviderThrows
<1>4. ASSUME NEW i \in Slots PROVE SlotBooks(i)'
  <2>1. SlotBooks(i)
    BY DEF Books
  <2>2. Evidence(i)'
    BY <1>1, <1>3, <2>1 DEF SlotBooks, Evidence, slotVars
  <2>3. Collecting(i)'
    BY <1>1, <1>3, <2>1 DEF SlotBooks, Collecting, slotVars
  <2>4. Explained(i)'
    BY <1>1, <2>1 DEF SlotBooks, Explained, slotVars
  <2> QED
    BY <2>2, <2>3, <2>4 DEF SlotBooks
<1> QED
  BY <1>4 DEF Books

LEMMA PrepareBooks == Inv /\ Books /\ Prepare => Books'
<1> SUFFICES ASSUME Inv, Books, Prepare PROVE Books'
  OBVIOUS
<1>1. SlotTypes /\ MasterTypes
  BY TypeParts DEF Inv
<1>2. PICK c \in Slots : c = cur
  BY <1>1 DEF MasterTypes
<1>3. UNCHANGED <<watch, attempts, reaped, child>> /\ watch # "collect"
  BY DEF Prepare, Inv, Watching
<1>4. CASE ~IsEmpty(c)
  <2>1. UNCHANGED <<success, lease, refused>>
    BY <1>2, <1>4 DEF Prepare
  <2> QED
    BY <1>3, <2>1, OthersKeepBooks DEF Books
<1>5. CASE IsEmpty(c)
  <2>1. PICK done \in BOOLEAN, held \in {0, 1} :
          \/ /\ held = 0 /\ ~done /\ success' = success
             /\ UNCHANGED <<lease, refused>>
          \/ /\ held = 1 /\ Cleanup(c, held, done)
             /\ success' = [success EXCEPT ![c] = done]
    BY <1>2, <1>5 DEF Prepare
  <2>2. CASE success' = success /\ UNCHANGED <<lease, refused>>
    BY <1>3, <2>2, OthersKeepBooks DEF Books
  <2>3. CASE held = 1 /\ Cleanup(c, held, done) /\ success' = [success EXCEPT ![c] = done]
    <3>1. /\ lease'[c] # 0 => ~done /\ (refused'[c] \/ ~reaped[c])
          /\ \A j \in Slots : j # c => lease'[j] = lease[j] /\ refused'[j] = refused[j]
      BY <1>1, <2>3, CleanupExplains
    <3>2. success'[c] = done /\ \A j \in Slots : j # c => success'[j] = success[j]
      BY <1>1, <2>3 DEF SlotTypes
    <3>3. SlotBooks(c)'
      BY <1>3, <1>5, <3>1, <3>2 DEF SlotBooks, Evidence, Collecting, Explained, IsEmpty, ChunkLen
    <3>4. ASSUME NEW j \in Slots, j # c PROVE SlotBooks(j)'
      BY <1>3, <3>1, <3>2, <3>4, OthersKeepBooks DEF Books
    <3> QED
      BY <3>3, <3>4 DEF Books
  <2> QED
    BY <2>1, <2>2, <2>3
<1> QED
  BY <1>4, <1>5

LEMMA StartStepBooks == Inv /\ Books /\ Start => Books'
<1> SUFFICES ASSUME Inv, Books, Start PROVE Books'
  OBVIOUS
<1>1. SlotTypes /\ MasterTypes /\ cur \in Slots
  BY TypeParts DEF Inv, MasterTypes
<1>2. watch # "collect" /\ watch' # "collect" /\ attempts[cur] <= 1
  BY <1>1 DEF Start, Inv, Watching, Budget, Slots
<1>3. CASE finished[cur]
  BY <1>2, <1>3, OthersKeepBooks DEF Start, Books, slotVars
<1>4. CASE ~finished[cur]
  BY <1>1, <1>2, <1>4, StartBooks DEF Start, StartOutcome
<1> QED
  BY <1>3, <1>4

LEMMA RetryBooks == Inv /\ Books /\ Retry => Books'
<1> SUFFICES ASSUME Inv, Books, Retry PROVE Books'
  OBVIOUS
<1>1. SlotTypes /\ MasterTypes /\ cur \in Slots
  BY TypeParts DEF Inv, MasterTypes
<1>2. watch # "collect" /\ watch' # "collect" /\ attempts[cur] <= 1
  BY <1>1 DEF Retry, Inv, Budget
<1>3. CASE UNCHANGED <<slotVars, child>>
  BY <1>2, <1>3, OthersKeepBooks DEF Books, slotVars
<1>4. CASE ResetSlot(cur) /\ StartOutcome(cur)
  BY <1>1, <1>2, <1>4, StartBooks
<1> QED
  BY <1>3, <1>4 DEF Retry, StartOutcome

\* The reap opens the collection of the slot.
LEMMA ReapBooks == Inv /\ Books /\ Reap => Books'
<1> SUFFICES ASSUME Inv, Books, Reap PROVE Books'
  OBVIOUS
<1>1. SlotTypes /\ MasterTypes
  BY TypeParts DEF Inv
<1>2. PICK c \in Slots : c = cur
  BY <1>1 DEF MasterTypes
<1>3. /\ watch # "collect" /\ attempts[c] \in Attempts
  BY <1>1, <1>2 DEF Reap, Inv, Watching, SlotTypes, Attempts
<1>4. /\ reaped' = [reaped EXCEPT ![c] = TRUE]
      /\ child[c][attempts[c]].state = "ended"
      /\ child' = [child EXCEPT ![c][attempts[c]].reaped = TRUE]
      /\ kind' = [kind EXCEPT ![c] = DecodedKind(child[c][attempts[c]].code, watch # "polling")]
      /\ UNCHANGED <<cur, attempts, success, lease, refused>>
  BY <1>2 DEF Reap, Current
<1>5. /\ \A j \in Slots : j # c => child'[j] = child[j] /\ reaped'[j] = reaped[j]
      /\ reaped'[c] = TRUE
      /\ child'[c][attempts[c]].state = "ended"
      /\ child'[c][attempts[c]].code = child[c][attempts[c]].code
      /\ child'[c][attempts[c]].valid = child[c][attempts[c]].valid
      /\ child'[c][attempts[c]].reaped = TRUE
  BY <1>1, <1>3, <1>4 DEF SlotTypes
<1>6. kind'[c] = "none" => child[c][attempts[c]].code = "ok"
  BY <1>1, <1>4 DEF SlotTypes, DecodedKind
<1>7. SlotBooks(c)
  BY DEF Books
<1>8. Evidence(c)'
  BY <1>4, <1>5, <1>7 DEF SlotBooks, Evidence
<1>9. Collecting(c)'
  BY <1>3, <1>4, <1>5, <1>6 DEF Collecting
<1>10. lease[c] # 0 => ~success[c]
  BY <1>7 DEF SlotBooks, Explained
<1>11. Explained(c)'
  <2>1. watch' = "collect" /\ c = cur'
    BY <1>2, <1>4 DEF Reap
  <2> QED
    BY <1>4, <1>10, <2>1 DEF Explained
<1>12. ASSUME NEW j \in Slots, j # c PROVE SlotBooks(j)'
  BY <1>2, <1>4, <1>5, <1>12, OthersKeepBooks DEF Books
<1> QED
  BY <1>8, <1>9, <1>11, <1>12 DEF Books, SlotBooks

LEMMA WaitFailsBooks == Inv /\ Books /\ WaitFails => Books'
<1> SUFFICES ASSUME Inv, Books, WaitFails PROVE Books'
  OBVIOUS
<1>1. SlotTypes /\ MasterTypes
  BY TypeParts DEF Inv
<1>2. PICK c \in Slots : c = cur
  BY <1>1 DEF MasterTypes
<1>3. /\ watch # "collect" /\ watch' # "collect"
      /\ reaped' = [reaped EXCEPT ![c] = FALSE] /\ success' = [success EXCEPT ![c] = FALSE]
      /\ UNCHANGED <<attempts, lease, refused, child>>
  BY <1>2 DEF WaitFails
<1>4. /\ ~reaped'[c] /\ ~success'[c]
      /\ \A j \in Slots : j # c => reaped'[j] = reaped[j] /\ success'[j] = success[j]
  BY <1>1, <1>3 DEF SlotTypes
<1>5. SlotBooks(c)'
  BY <1>3, <1>4 DEF SlotBooks, Evidence, Collecting, Explained
<1>6. ASSUME NEW j \in Slots, j # c PROVE SlotBooks(j)'
  BY <1>3, <1>4, <1>6, OthersKeepBooks DEF Books
<1> QED
  BY <1>5, <1>6 DEF Books

\* A success is recorded for an exit status 0, a store that agrees with its
\* report and a lease that is gone.
LEMMA CollectBooks == Inv /\ Books /\ Collect => Books'
<1> SUFFICES ASSUME Inv, Books, Collect PROVE Books'
  OBVIOUS
<1>1. SlotTypes /\ MasterTypes
  BY TypeParts DEF Inv
<1>2. PICK c \in Slots : c = cur
  BY <1>1 DEF MasterTypes
<1>3. /\ watch = "collect" /\ watch' # "collect" /\ reaped[c] /\ UNCHANGED <<attempts, reaped, child>>
  BY <1>2 DEF Collect, Inv, Watching
<1>4. PICK cleaned \in BOOLEAN :
        /\ Cleanup(c, lease[c], cleaned)
        /\ success' = [success EXCEPT ![c] =
             (kind[c] = "none" /\ child[c][attempts[c]].valid /\ cleaned)]
  BY <1>2 DEF Collect, Current
<1>5. /\ lease'[c] # 0 => ~cleaned /\ (refused'[c] \/ ~reaped[c])
      /\ \A j \in Slots : j # c => lease'[j] = lease[j] /\ refused'[j] = refused[j]
  <2>1. lease[c] \in 0..2
    BY <1>1 DEF SlotTypes
  <2> QED
    BY <1>1, <1>4, <2>1, CleanupExplains
<1>6. /\ success'[c] = (kind[c] = "none" /\ child[c][attempts[c]].valid /\ cleaned)
      /\ \A j \in Slots : j # c => success'[j] = success[j]
  BY <1>1, <1>4 DEF SlotTypes
<1>7. Collecting(c)
  BY DEF Books, SlotBooks
<1>8. SlotBooks(c)'
  <2>1. Evidence(c)'
    BY <1>2, <1>3, <1>5, <1>6, <1>7 DEF Evidence, Collecting
  <2>2. Collecting(c)' /\ Explained(c)'
    BY <1>3, <1>5, <1>6 DEF Collecting, Explained
  <2> QED
    BY <2>1, <2>2 DEF SlotBooks
<1>9. ASSUME NEW j \in Slots, j # c PROVE SlotBooks(j)'
  BY <1>2, <1>3, <1>5, <1>6, <1>9, OthersKeepBooks DEF Books
<1> QED
  BY <1>8, <1>9 DEF Books

LEMMA BooksHold == Spec => [](Inv /\ Books)
<1>1. Inv /\ Books /\ [Next]_vars => Books'
  BY WatchBooks, ChildBooks, PrepareBooks, StartStepBooks, ReapBooks, WaitFailsBooks, CollectBooks,
     RetryBooks DEF Next, MasterStep
<1> QED
  BY <1>1, InitBooks, InvHolds, StepInv, PTL DEF Spec

\* A chunk counts as done only on the evidence of its last attempt: exit
\* status 0, reaped, a valid store, the lease gone.
THEOREM SuccessIsEarned == Spec => []SuccessHasEvidence
<1>1. Books => SuccessHasEvidence
  BY DEF Books, SlotBooks, Evidence, SuccessHasEvidence
<1> QED
  BY <1>1, BooksHold, PTL

\* A lease that outlives the call belongs to a failed chunk, and either its
\* removal was refused or its child was never reaped.
THEOREM LeavesNoLease == Spec => []LeasesConverge
<1>1. Inv /\ Books => LeasesConverge
  <2> SUFFICES ASSUME Inv, Books, Over, NEW i \in Slots, lease[i] # 0
               PROVE  ~success[i] /\ (refused[i] \/ ~reaped[i])
    BY DEF LeasesConverge
  <2>1. watch # "collect"
    BY DEF Over, Inv, Watching
  <2> QED
    BY <2>1 DEF Books, SlotBooks, Explained
<1> QED
  BY <1>1, BooksHold, PTL
-----------------------------------------------------------------------------
(* The result.  FoldLeft is a fold over the sets of indices; that it adds   *)
(* one element after the other is shown by the first index at which it      *)
(* would not.                                                               *)

\* A set of naturals has a least element.
LEMMA LeastElement ==
    ASSUME NEW S, S \subseteq Nat, S # {}
    PROVE  \E n \in S : \A k \in S : n <= k
<1>1. PICK n \in S : \A k \in S : ~(<<k, n>> \in OpToRel(<, Nat))
  BY NatLessThanWellFounded, WFMin
<1>2. \A k \in S : ~(k < n)
  BY <1>1 DEF OpToRel
<1> QED
  BY <1>2

\* Max is the largest element of a set of indices.
LEMMA LargestOf ==
    ASSUME NEW n \in Nat, NEW s, s \subseteq 1..n, s # {}
    PROVE  Max(s) \in s /\ \A y \in s : y <= Max(s)
<1> DEFINE below == {b \in Nat : \A y \in s : y <= b}
<1>1. below \subseteq Nat /\ n \in below
  OBVIOUS
<1>2. PICK x \in below : \A b \in below : x <= b
  BY <1>1, LeastElement
<1>3. x \in s
  <2>1. SUFFICES ASSUME x \notin s PROVE FALSE
    OBVIOUS
  <2>2. \A y \in s : y \in Nat /\ 1 <= y /\ y <= x - 1
    BY <1>2, <2>1
  <2>3. x - 1 \in Nat
    <3>1. PICK y \in s : TRUE
      OBVIOUS
    <3>2. x \in Nat /\ y \in Nat /\ 1 <= y /\ y <= x - 1
      BY <1>2, <2>2
    <3> QED BY <3>2
  <2>4. x - 1 \in below
    BY <2>2, <2>3
  <2> QED BY <1>2, <2>4
<1>4. \A y \in s : y \in Nat /\ x >= y
  BY <1>2
<1>5. Max(s) \in s /\ \A y \in s : Max(s) >= y
  BY <1>3, <1>4 DEF Max
<1> QED BY <1>4, <1>5

\* The fold that FoldLeft is made of, over the sets of indices, for the rows of
\* a slot and for whole slots.
Add(acc, x, unit) == IF unit = "slot" THEN AddSlot(acc, x) ELSE AddRow(acc, x)
Folded(h, n, base, seq, unit) ==
    h = [s \in SUBSET (1..n) |->
           IF s = {} THEN base ELSE Add(h[s \ {Max(s)}], seq[Max(s)], unit)]

\* There is such a fold, of whatever length.
LEMMA FoldExists ==
    ASSUME NEW n \in Nat, NEW base, NEW seq, NEW unit
    PROVE  \E h : Folded(h, n, base, seq, unit)
<1> DEFINE Bad == {k \in Nat : ~\E h : Folded(h, k, base, seq, unit)}
<1>1. SUFFICES ASSUME Bad # {} PROVE FALSE
  OBVIOUS
<1>2. PICK m \in Bad : \A k \in Bad : m <= k
  BY <1>1, LeastElement
<1>3. m # 0
  <2>1. SUBSET (1..0) = {{}}
    OBVIOUS
  <2>2. Folded([s \in SUBSET (1..0) |-> base], 0, base, seq, unit)
    BY <2>1 DEF Folded
  <2> QED BY <2>2, <1>2
<1>4. m - 1 \in Nat /\ m - 1 \notin Bad
  BY <1>2, <1>3
<1>5. PICK h : Folded(h, m - 1, base, seq, unit)
  BY <1>4
<1> DEFINE g == [s \in SUBSET (1..m) |-> IF m \in s THEN Add(h[s \ {m}], seq[m], unit) ELSE h[s]]
<1>6. ASSUME NEW s \in SUBSET (1..m)
      PROVE  g[s] = IF s = {} THEN base ELSE Add(g[s \ {Max(s)}], seq[Max(s)], unit)
  <2>1. CASE m \in s
    <3>1. Max(s) = m
      <4>1. m \in Nat /\ s \subseteq 1..m /\ s # {}
        BY <2>1
      <4>2. Max(s) \in s /\ \A y \in s : y <= Max(s)
        BY <4>1, LargestOf
      <4>3. m <= Max(s)
        BY <2>1, <4>2
      <4>4. Max(s) \in 1..m
        BY <4>1, <4>2
      <4> HIDE DEF Bad
      <4> QED BY <4>1, <4>3, <4>4
    <3>2. s \ {m} \in SUBSET (1..m) /\ m \notin s \ {m}
      OBVIOUS
    <3>3. g[s \ {m}] = h[s \ {m}]
      BY <3>2
    <3> QED BY <2>1, <3>1, <3>3
  <2>2. CASE m \notin s /\ s # {}
    <3>1. s \in SUBSET (1..(m - 1))
      BY <2>2, <1>4
    <3>2. Max(s) \in s
      BY <2>2, <1>4, LargestOf
    <3>3. h[s] = Add(h[s \ {Max(s)}], seq[Max(s)], unit)
      BY <1>5, <3>1, <2>2 DEF Folded
    <3>4. g[s \ {Max(s)}] = h[s \ {Max(s)}]
      BY <2>2
    <3> QED BY <2>2, <3>3, <3>4
  <2>3. CASE s = {}
    <3>1. h[{}] = base
      BY <1>5 DEF Folded
    <3> QED BY <2>3, <3>1
  <2> QED BY <2>1, <2>2, <2>3
<1>7. Folded(g, m, base, seq, unit)
  BY <1>6 DEF Folded
<1> QED BY <1>2, <1>7

\* It adds one element after the other.
LEMMA FoldSteps ==
    ASSUME NEW n \in Nat, NEW base, NEW seq, NEW unit, NEW h, Folded(h, n, base, seq, unit)
    PROVE  /\ h[1..0] = base
           /\ \A k \in 1..n : h[1..k] = Add(h[1..(k - 1)], seq[k], unit)
<1>1. h[1..0] = base
  <2>1. 1..0 = {} /\ {} \in SUBSET (1..n)
    OBVIOUS
  <2> QED BY <2>1 DEF Folded
<1>2. ASSUME NEW k \in 1..n PROVE h[1..k] = Add(h[1..(k - 1)], seq[k], unit)
  <2>1. k \in Nat /\ k \in 1..k /\ 1..k \subseteq 1..n
    OBVIOUS
  <2>2. 1..k # {}
    BY <2>1
  <2>3. Max(1..k) = k
    <3>1. Max(1..k) \in 1..k /\ \A y \in 1..k : y <= Max(1..k)
      BY <2>1, <2>2, LargestOf
    <3> QED BY <2>1, <3>1
  <2>4. (1..k) \ {k} = 1..(k - 1)
    OBVIOUS
  <2> QED BY <2>1, <2>2, <2>3, <2>4 DEF Folded
<1> QED BY <1>1, <1>2

\* The fold of AddSlot: one row after the other.
RowsAdded(acc, seq) == FoldLeft(AddRow, acc, seq)

RowRun(f, n, base, seq) ==
    /\ f[0] = base
    /\ \A k \in 1..n : f[k] = AddRow(f[k - 1], seq[k])
    /\ RowsAdded(base, seq) = f[n]

LEMMA RowByRow ==
    ASSUME NEW n \in Nat, NEW base, NEW seq, DOMAIN seq = 1..n
    PROVE  \E f : RowRun(f, n, base, seq)
<1> DEFINE h == CHOOSE h : Folded(h, n, base, seq, "row")
           f == [k \in 0..n |-> h[1..k]]
<1>1. Folded(h, n, base, seq, "row")
  BY FoldExists
<1>2. RowsAdded(base, seq) = h[1..n]
  BY DEF RowsAdded, Folded, Add, FoldLeft, MapThenFoldSet
<1> HIDE DEF h
<1>3. h[1..0] = base /\ \A k \in 1..n : h[1..k] = AddRow(h[1..(k - 1)], seq[k])
  <2>1. h[1..0] = base /\ \A k \in 1..n : h[1..k] = Add(h[1..(k - 1)], seq[k], "row")
    BY <1>1, FoldSteps
  <2> QED BY <2>1 DEF Add
<1>4. f[0] = base /\ f[n] = h[1..n]
  BY <1>3
<1>5. ASSUME NEW k \in 1..n PROVE f[k] = AddRow(f[k - 1], seq[k])
  <2>1. f[k] = h[1..k] /\ f[k - 1] = h[1..(k - 1)]
    OBVIOUS
  <2> QED BY <1>3, <2>1
<1>6. RowRun(f, n, base, seq)
  BY <1>2, <1>4, <1>5 DEF RowRun
<1> QED BY <1>6

\* The fold of Merge: one slot after the other.
LEMMA SlotBySlot ==
    ASSUME SieveAssumption
    PROVE  \E f : /\ f[0] = <<>>
                  /\ \A i \in Slots : f[i] = AddSlot(f[i - 1], i)
                  /\ FoldLeft(AddSlot, <<>>, [i \in Slots |-> i]) = f[Workers]
<1> DEFINE base == <<>>
           seq == [i \in Slots |-> i]
           h == CHOOSE h : Folded(h, Workers, base, seq, "slot")
           f == [k \in 0..Workers |-> h[1..k]]
<1>0. Workers \in Nat /\ DOMAIN seq = 1..Workers
  BY DEF SieveAssumption, Slots
<1> HIDE DEF seq, base
<1>1. Folded(h, Workers, base, seq, "slot")
  BY <1>0, FoldExists
<1>2. FoldLeft(AddSlot, base, seq) = h[1..Workers]
  BY <1>0 DEF Folded, Add, FoldLeft, MapThenFoldSet
<1> HIDE DEF h
<1>3. h[1..0] = base /\ \A i \in 1..Workers : h[1..i] = AddSlot(h[1..(i - 1)], seq[i])
  <2>1. PICK g : g = h
    OBVIOUS
  <2>2. PICK e, q, m : e = base /\ q = seq /\ m = Workers
    OBVIOUS
  <2>3. g[1..0] = e /\ \A i \in 1..m : g[1..i] = Add(g[1..(i - 1)], q[i], "slot")
    <3>1. m \in Nat /\ Folded(g, m, e, q, "slot")
      BY <1>0, <1>1, <2>1, <2>2
    <3> QED BY <3>1, FoldSteps
  <2> QED BY <2>1, <2>2, <2>3 DEF Add
<1>4. f[0] = base /\ f[Workers] = h[1..Workers]
  BY <1>0, <1>3
<1>5. ASSUME NEW i \in Slots PROVE f[i] = AddSlot(f[i - 1], i)
  <2>1. f[i] = h[1..i] /\ f[i - 1] = h[1..(i - 1)]
    BY <1>0 DEF Slots
  <2>2. seq[i] = i /\ i \in 1..Workers
    BY DEF seq, Slots
  <2> QED BY <1>3, <2>1, <2>2
<1> HIDE DEF f
<1> QED BY <1>2, <1>4, <1>5 DEF seq, base

-----------------------------------------------------------------------------
(* What the merge returns.  Firsts is the loop's invariant: each relation   *)
(* seen so far is there by its ab value, once, in the copy of the first     *)
(* chunk that found it.                                                     *)

AllRows == UNION {ToSet(Rows(i)) : i \in Slots}
FirstOf(C) == {r \in C : \A q \in C : q.ab = r.ab => r.src <= q.src}
Firsts(acc, C) ==
    /\ acc \in Seq(AllRows)
    /\ \A k, l \in DOMAIN acc : acc[k].ab = acc[l].ab => k = l
    /\ ToSet(acc) = FirstOf(C)
    /\ \A r \in C : \E k \in DOMAIN acc : acc[k].ab = r.ab

\* A row is known by its ab value and its chunk.
LEMMA RowsKnown ==
    ASSUME SieveAssumption
    PROVE  /\ \A r \in AllRows : r.src \in Slots
           /\ \A r, q \in AllRows : r.ab = q.ab /\ r.src = q.src => r = q
           /\ \A i \in Slots : Rows(i) \in Seq(AllRows) /\ \A k \in DOMAIN Rows(i) : Rows(i)[k].src = i
<1>1. ASSUME NEW i \in Slots
      PROVE  /\ \A k \in DOMAIN Rows(i) : Rows(i)[k] = [ab |-> Yield[i][k], src |-> i]
             /\ Rows(i) \in Seq(AllRows)
  <2>1. CASE IsEmpty(i)
    BY <2>1 DEF Rows
  <2>2. CASE ~IsEmpty(i)
    <3>1. Yield[i] \in Seq(ToSet(Yield[i]))
      BY DEF SieveAssumption, Slots
    <3>2. PICK n \in Nat : DOMAIN Yield[i] = 1..n
      BY <3>1
    <3>3. Rows(i) = [k \in 1..n |-> [ab |-> Yield[i][k], src |-> i]]
      BY <2>2, <3>2 DEF Rows
    <3>4. \A k \in 1..n : Rows(i)[k] \in AllRows
      BY <3>3 DEF AllRows, ToSet
    <3> QED BY <3>3, <3>4
  <2> QED BY <2>1, <2>2
<1>2. \A r \in AllRows : \E i \in Slots : \E k \in DOMAIN Rows(i) : r = Rows(i)[k]
  BY DEF AllRows, ToSet
<1>3. \A r \in AllRows : \E i \in Slots : \E y : r = [ab |-> y, src |-> i]
  BY <1>1, <1>2
<1>4. \A r, q \in AllRows : r.ab = q.ab /\ r.src = q.src => r = q
  BY <1>3
<1> QED BY <1>1, <1>3, <1>4

\* A row whose chunk is not before those seen is added if its ab value is new.
LEMMA AddRowKeeps ==
    ASSUME SieveAssumption, NEW C \in SUBSET AllRows, NEW acc, Firsts(acc, C),
           NEW row \in AllRows, \A q \in C : q.src <= row.src
    PROVE  Firsts(AddRow(acc, row), C \cup {row})
<1>0. \A r \in AllRows : r.src \in Nat
  BY RowsKnown DEF SieveAssumption, Slots
<1>1. CASE \E k \in DOMAIN acc : acc[k].ab = row.ab
  <2>1. PICK k \in DOMAIN acc : acc[k].ab = row.ab
    BY <1>1
  <2>2. acc[k] \in FirstOf(C)
    BY DEF Firsts, ToSet
  <2>3. acc[k] \in C /\ acc[k].src <= row.src
    BY <2>2 DEF FirstOf
  <2>4. row \in FirstOf(C \cup {row}) => row = acc[k]
    BY <1>0, <2>1, <2>3, RowsKnown DEF FirstOf
  <2>5. FirstOf(C \cup {row}) \subseteq FirstOf(C)
    BY <2>2, <2>4 DEF FirstOf
  <2>6. ASSUME NEW r \in FirstOf(C) PROVE r \in FirstOf(C \cup {row})
    BY <1>0 DEF FirstOf
  <2>7. FirstOf(C \cup {row}) = FirstOf(C)
    BY <2>5, <2>6
  <2>8. AddRow(acc, row) = acc
    BY <1>1 DEF AddRow
  <2> QED BY <2>1, <2>7, <2>8 DEF Firsts
<1>2. CASE ~\E k \in DOMAIN acc : acc[k].ab = row.ab
  <2>1. AddRow(acc, row) = Append(acc, row)
    BY <1>2 DEF AddRow
  <2>2. \A q \in C : q.ab # row.ab
    BY <1>2 DEF Firsts
  <2>3. FirstOf(C \cup {row}) = FirstOf(C) \cup {row}
    BY <1>0, <2>2 DEF FirstOf
  <2>4. PICK n \in Nat : n = Len(acc) /\ DOMAIN acc = 1..n
    BY DEF Firsts
  <2>5. /\ Append(acc, row) \in Seq(AllRows) /\ DOMAIN Append(acc, row) = 1..(n + 1)
        /\ \A k \in 1..n : Append(acc, row)[k] = acc[k]
        /\ Append(acc, row)[n + 1] = row
    BY <2>4 DEF Firsts
  <2> DEFINE new == Append(acc, row)
  <2> HIDE DEF new
  <2>6. \A k, l \in DOMAIN new : new[k].ab = new[l].ab => k = l
    BY <1>2, <2>4, <2>5 DEF Firsts, new
  <2>7. ToSet(new) = ToSet(acc) \cup {row}
    BY <2>4, <2>5 DEF ToSet, new
  <2>8. \A r \in C \cup {row} : \E k \in DOMAIN new : new[k].ab = r.ab
    BY <2>4, <2>5 DEF Firsts, new
  <2> QED BY <2>1, <2>3, <2>5, <2>6, <2>7, <2>8 DEF Firsts, new
<1> QED BY <1>1, <1>2

\* The rows of one chunk, by the first that would break Firsts.
LEMMA SlotRowsKeep ==
    ASSUME SieveAssumption, NEW C \in SUBSET AllRows, NEW acc, Firsts(acc, C),
           NEW i \in Slots, \A q \in C : q.src <= i
    PROVE  Firsts(RowsAdded(acc, Rows(i)), C \cup ToSet(Rows(i)))
<1> DEFINE seq == Rows(i)
           n == Len(seq)
           Seen(k) == C \cup {seq[l] : l \in 1..k}
<1>1. /\ n \in Nat /\ DOMAIN seq = 1..n /\ i \in Nat
      /\ \A k \in 1..n : seq[k] \in AllRows /\ seq[k].src = i
  BY RowsKnown DEF SieveAssumption, Slots
<1> HIDE DEF seq, n
<1>2. PICK f : /\ f[0] = acc
               /\ \A k \in 1..n : f[k] = AddRow(f[k - 1], seq[k])
               /\ RowsAdded(acc, seq) = f[n]
  <2>1. PICK f : RowRun(f, n, acc, seq)
    BY <1>1, RowByRow
  <2> QED BY <2>1 DEF RowRun
<1> HIDE DEF Seen
<1> DEFINE Bad == {k \in 0..n : ~Firsts(f[k], Seen(k))}
<1>3. Bad = {}
  <2>1. SUFFICES ASSUME Bad # {} PROVE FALSE
    OBVIOUS
  <2>2. Bad \subseteq Nat
    BY <1>1
  <2>3. PICK k \in Bad : \A l \in Bad : k <= l
    BY <2>1, <2>2, LeastElement
  <2>4. k # 0
    <3>1. Seen(0) = C
      BY DEF Seen
    <3> QED BY <1>2, <2>3, <3>1
  <2>5. k \in 1..n /\ k - 1 \in 0..n /\ k - 1 \notin Bad
    BY <1>1, <2>3, <2>4
  <2>6. Firsts(f[k - 1], Seen(k - 1))
    BY <2>5
  <2>7. Seen(k) = Seen(k - 1) \cup {seq[k]}
    BY <1>1, <2>5 DEF Seen
  <2>8. Seen(k - 1) \in SUBSET AllRows /\ seq[k] \in AllRows
    BY <1>1, <2>5 DEF Seen
  <2>9. \A q \in Seen(k - 1) : q.src <= seq[k].src
    BY <1>1, <2>5 DEF Seen
  <2>10. f[k] = AddRow(f[k - 1], seq[k])
    BY <1>2, <2>5
  <2>11. Firsts(AddRow(f[k - 1], seq[k]), Seen(k - 1) \cup {seq[k]})
    BY <2>6, <2>8, <2>9, AddRowKeeps
  <2>12. Firsts(f[k], Seen(k))
    BY <2>7, <2>10, <2>11
  <2> QED BY <2>3, <2>12
<1>4. Firsts(f[n], Seen(n))
  BY <1>1, <1>3
<1>5. Seen(n) = C \cup ToSet(seq)
  BY <1>1 DEF ToSet, Seen
<1> QED BY <1>2, <1>4, <1>5 DEF seq

\* What a chunk that succeeded brings is what its sieve found.
Delivered == \A i \in Slots : success[i] => relations[i] = Rows(i)
From(i) == UNION {ToSet(Rows(j)) : j \in {l \in 1..i : success[l]}}

\* A chunk that failed brings nothing.
LEMMA SlotKeeps ==
    ASSUME SieveAssumption, Delivered, NEW i \in Slots, NEW acc, Firsts(acc, From(i - 1))
    PROVE  Firsts(AddSlot(acc, i), From(i))
<1>1. i \in Nat /\ 1 <= i /\ Workers \in Nat /\ i <= Workers
  BY DEF Slots, SieveAssumption
<1>2. CASE ~success[i]
  <2>1. {l \in 1..i : success[l]} = {l \in 1..(i - 1) : success[l]}
    BY <1>1, <1>2
  <2>2. AddSlot(acc, i) = RowsAdded(acc, <<>>)
    BY <1>2 DEF AddSlot, RowsAdded
  <2>3. RowsAdded(acc, <<>>) = acc
    <3> DEFINE seq == <<>>
    <3>1. DOMAIN seq = 1..0
      OBVIOUS
    <3> HIDE DEF seq
    <3>2. RowsAdded(acc, seq) = acc
      BY <3>1, RowByRow DEF RowRun
    <3> QED BY <3>2 DEF seq
  <2> QED BY <2>1, <2>2, <2>3 DEF From
<1>3. CASE success[i]
  <2>1. {l \in 1..i : success[l]} = {l \in 1..(i - 1) : success[l]} \cup {i}
    BY <1>1, <1>3
  <2>2. From(i) = From(i - 1) \cup ToSet(Rows(i))
    BY <2>1 DEF From
  <2>3. AddSlot(acc, i) = RowsAdded(acc, Rows(i))
    BY <1>3 DEF AddSlot, Delivered, RowsAdded
  <2>4. From(i - 1) \in SUBSET AllRows
    BY <1>1 DEF From, AllRows, Slots
  <2>5. \A q \in From(i - 1) : q.src <= i
    <3>1. \A j \in 1..(i - 1) : j \in Slots /\ j <= i
      BY <1>1 DEF Slots
    <3>2. \A j \in Slots : \A q \in ToSet(Rows(j)) : q.src = j
      BY RowsKnown DEF ToSet
    <3> QED BY <3>1, <3>2 DEF From
  <2> QED BY <2>2, <2>3, <2>4, <2>5, SlotRowsKeep
<1> QED BY <1>2, <1>3

\* The chunks in order, by the first that would break Firsts.
LEMMA MergeKeepsFirsts ==
    ASSUME SieveAssumption, Delivered
    PROVE  Firsts(FoldLeft(AddSlot, <<>>, [i \in Slots |-> i]), Candidates)
<1>1. Workers \in Nat
  BY DEF SieveAssumption
<1>2. PICK f : /\ f[0] = <<>>
               /\ \A i \in Slots : f[i] = AddSlot(f[i - 1], i)
               /\ FoldLeft(AddSlot, <<>>, [i \in Slots |-> i]) = f[Workers]
  BY SlotBySlot
<1> DEFINE Bad == {k \in 0..Workers : ~Firsts(f[k], From(k))}
<1>3. Bad = {}
  <2>1. SUFFICES ASSUME Bad # {} PROVE FALSE
    OBVIOUS
  <2>2. Bad \subseteq Nat
    BY <1>1
  <2>3. PICK k \in Bad : \A l \in Bad : k <= l
    BY <2>1, <2>2, LeastElement
  <2>4. k # 0
    <3>1. From(0) = {}
      BY DEF From
    <3>2. Firsts(<<>>, {})
      BY DEF Firsts, ToSet, FirstOf
    <3> QED BY <1>2, <2>3, <3>1, <3>2
  <2>5. k \in Slots /\ k - 1 \in 0..Workers /\ k - 1 \notin Bad
    BY <1>1, <2>3, <2>4 DEF Slots
  <2>6. Firsts(f[k - 1], From(k - 1))
    BY <2>5
  <2>7. Firsts(AddSlot(f[k - 1], k), From(k))
    BY <2>5, <2>6, SlotKeeps
  <2> QED BY <1>2, <2>3, <2>5, <2>7
<1>4. Firsts(f[Workers], From(Workers))
  BY <1>1, <1>3
<1>5. From(Workers) = Candidates
  BY DEF From, Candidates, Slots
<1> QED BY <1>2, <1>4, <1>5

\* A slot is marked successful together with what it delivered.
LEMMA DeliveredStays == Inv /\ Delivered /\ [Next]_vars => Delivered'
<1> SUFFICES ASSUME Inv, Delivered, [Next]_vars PROVE Delivered'
  OBVIOUS
<1>1. /\ success \in [Slots -> BOOLEAN] /\ DOMAIN relations = Slots /\ cur \in Slots
      /\ \A i \in Slots : relations[i] \in {<<>>, Rows(i)}
  BY DEF Inv, TypeOK
<1>2. CASE UNCHANGED <<success, relations>>
  BY <1>2 DEF Delivered
<1>3. CASE Prepare
  <2>1. IsEmpty(cur) => relations[cur] = Rows(cur)
    BY <1>1 DEF Rows
  <2>2. relations' = relations /\ \A i \in Slots : success'[i] => success[i] \/ (i = cur /\ IsEmpty(cur))
    BY <1>1, <1>3 DEF Prepare
  <2> QED BY <2>1, <2>2 DEF Delivered
<1>4. CASE ResetSlot(cur) \/ WaitFails
  BY <1>1, <1>4 DEF ResetSlot, WaitFails, Delivered
<1>5. CASE Collect
  BY <1>1, <1>5 DEF Collect, Delivered
<1>6. \/ UNCHANGED <<success, relations>> \/ Prepare \/ ResetSlot(cur) \/ WaitFails \/ Collect
  BY DEF Next, MasterStep, Start, WaitNext, Terminate, Kill, Reap, Retry, Merge, Tick, ChildStep,
         ChildKilled, Ended, vars, slotVars
<1> QED BY <1>2, <1>3, <1>4, <1>5, <1>6

\* What the call has returned.
Returned == stage = "returned" =>
    Firsts(merged, Candidates) /\ (seeded => \A i \in Slots : success[i])

\* The merge returns the first copies, and nothing moves afterwards.
LEMMA ReturnedStays == Inv /\ Delivered /\ Returned /\ [Next]_vars => Returned'
<1> SUFFICES ASSUME Inv, Delivered, Returned, [Next]_vars, stage' = "returned" PROVE Returned'
  BY DEF Returned
<1>1. CASE Merge
  <2>1. /\ merged' = FoldLeft(AddSlot, <<>>, [i \in Slots |-> i])
        /\ seeded => \A i \in Slots : success[i]
        /\ UNCHANGED <<seeded, slotVars>>
    BY <1>1 DEF Merge, FailedSeeded
  <2>2. Firsts(merged', Candidates)
    BY <2>1, SieveAssumption, MergeKeepsFirsts
  <2> QED BY <2>1, <2>2 DEF Returned, Candidates, slotVars
<1>2. CASE ~Merge
  <2>1. watch # "idle" => stage \in {"wait", "retry"}
    BY DEF Inv, Watching
  <2>2. ~(Prepare \/ Start \/ WaitNext \/ Reap \/ Collect \/ Retry \/ WaitFails)
    BY <2>1 DEF Prepare, Start, WaitNext, Reap, Collect, Retry, WaitFails, NextSlot, Advance
  <2>3. UNCHANGED <<stage, seeded, slotVars, merged>>
    BY <1>2, <2>2 DEF Next, MasterStep, Terminate, Kill, Tick, ChildStep, ChildKilled, Ended, vars
  <2> QED BY <2>3 DEF Returned, Candidates, Firsts, slotVars
<1> QED BY <1>1, <1>2

\* The result holds each relation of the chunks that succeeded once, in the
\* copy of the first such chunk, and the seeded overload returns every chunk's
\* relations or none (run_distributed_sieve_impl, stage 4).
THEOREM ResultIsExact == Spec => []ResultExact
<1>1. Init => Delivered /\ Returned
  BY DEF Init, Delivered, Returned
<1>2. Delivered /\ Returned => ResultExact
  <2> SUFFICES ASSUME Delivered, Returned, stage = "returned" PROVE ResultExact
    BY DEF ResultExact, SeededAllOrError, FirstOccurrence
  <2>1. Firsts(merged, Candidates) /\ (seeded => \A i \in Slots : success[i])
    BY DEF Returned
  <2>2. FirstOccurrence
    BY <2>1 DEF Firsts, FirstOf, FirstOccurrence, IsInjective
  <2>3. SeededAllOrError
    <3> SUFFICES ASSUME seeded, NEW i \in Slots, NEW r \in ToSet(Rows(i))
                 PROVE  \E m \in ToSet(merged) : m.ab = r.ab
      BY DEF SeededAllOrError
    <3>1. r \in Candidates
      BY <2>1 DEF Candidates
    <3> QED BY <2>1, <3>1 DEF Firsts, ToSet
  <2> QED BY <2>2, <2>3 DEF ResultExact
<1> QED
  BY <1>1, <1>2, DeliveredStays, ReturnedStays, InvHolds, PTL DEF Spec
=============================================================================

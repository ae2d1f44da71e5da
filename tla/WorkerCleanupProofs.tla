-------------------------- MODULE WorkerCleanupProofs --------------------------
(***************************************************************************)
(* What WorkerCleanup promises, for any number of workers and of troubles.  *)
(*                                                                         *)
(* The invariant is Disks /\ Place.  Disks says of every root and of every  *)
(* set of leaves that a power cut may leave that they are in the shape the  *)
(* protocol gives them, that any root fits any set of leaves, and that the  *)
(* root in memory is the one in which most is gone.  Place says what the    *)
(* holder of the lock has established before each of its steps.             *)
(***************************************************************************)
EXTENDS WorkerCleanup, TLAPS

States == {"none", "torn", "pending", "canonical"}

Roots == [auth : [Ordinals -> States], done : [Ordinals -> States],
          dir : SUBSET Ordinals, owned : SUBSET Ordinals]

IntentTorn == Handoff \cup {"intent_torn"}
IntentPending == Handoff \cup {"intent_pending"}
IntentDone == Handoff \cup {"intent"}
StageTorn == {"owner", "intent", "q_index", "q_data", "staged_torn"}

Removable ==
    {IntentDone,
     {"owner", "intent", "index", "data"},
     {"owner", "intent", "q_index", "data"},
     {"owner", "intent", "q_index", "q_data"},
     {"owner", "intent", "q_index", "q_data", "staged_pending"},
     Deleted \cup {"q_index", "q_data"},
     Deleted \cup {"q_index"},
     Deleted,
     {"owner", "staged"},
     {"staged"},
     {}}

Prefixes == {Handoff, IntentTorn, IntentPending, StageTorn} \cup Removable

\* The workers before f are removed, those after f untouched.
ShapeAt(r, f) ==
    /\ f \in 1..(Workers + 1)
    /\ \A w \in Ordinals :
        /\ w < f => /\ r.auth[w] = "canonical" /\ r.done[w] = "canonical"
                    /\ w \notin r.dir \cup r.owned
        /\ w > f => r.auth[w] = "none" /\ r.done[w] = "none" /\ w \in r.dir \cap r.owned
        /\ w = f =>
            /\ r.done[w] # "canonical"
            /\ r.done[w] # "none" => r.auth[w] = "canonical" /\ w \notin r.dir \cup r.owned
            /\ r.auth[w] # "canonical" => w \in r.dir \cap r.owned
            /\ w \in r.dir => w \in r.owned

Shape(r) == ShapeAt(r, Frontier(r))

Fits(r, d) ==
    \A w \in Ordinals :
        /\ d[w] # Handoff => r.auth[w] = "canonical"
        /\ w \notin r.dir => d[w] = {}

Disks ==
    /\ rootDisk \subseteq Roots /\ root \in rootDisk
    /\ storeDisk \subseteq [Ordinals -> Prefixes] /\ store \in storeDisk
    /\ \A r \in rootDisk : Shape(r) /\ root.dir \subseteq r.dir
    /\ \A r \in rootDisk, w \in Ordinals : root.done[w] # "none" => w \notin r.dir \cup r.owned
    /\ \A r \in rootDisk, d \in storeDisk : Fits(r, d)

Authorized ==
    /\ Now \in Ordinals /\ root.done[Now] = "none"
    /\ \A r \in rootDisk : r.auth[Now] = "canonical"
Holds(ps) == Now \in root.dir /\ store[Now] \in ps
Gone == Now \in Ordinals /\ \A r \in rootDisk : Now \notin r.dir \cup r.owned

Place ==
    /\ step = "publish" /\ stage \in {"authorize", "advance"} =>
          Now \in Ordinals /\ root.done[Now] = "none"
    /\ step = "look" /\ stage = "prepare" => Authorized
    /\ step = "look" /\ stage = "convert" =>
          Authorized /\ Holds({Handoff, IntentTorn, IntentPending})
    /\ step = "intent" => Authorized /\ Holds({Handoff, IntentTorn, IntentPending, IntentDone})
    /\ step = "reconcile_intent" => Authorized /\ Holds({IntentPending, IntentDone})
    /\ step = "remove" => Authorized /\ (Now \in root.dir => store[Now] \in Removable)
    /\ step = "staging" => Authorized /\ Holds({StageTorn})
    /\ step \in {"look", "publish"} /\ stage \in {"complete", "reconcile"} => Gone
    /\ step = "look" /\ stage = "terminal" => Now \notin Ordinals
    /\ step = "retained" => Now \notin Ordinals
    /\ step = "refused" => TornRoot(root) \/ TornStore(store)

Inv == Disks /\ Place

-----------------------------------------------------------------------------
\* The table, as far as the removal needs it.

LEMMA Row ==
    ASSUME NEW p, Legal(p)
    PROVE  <<p, NextOf(p)>> \in Table
<1>1. PICK row \in Table : row[1] = p
  BY DEF Legal
<1> DEFINE c == CHOOSE r \in Table : r[1] = p
<1>2. c \in Table /\ c[1] = p
  BY <1>1
<1>3. \A r \in Table : r = <<r[1], r[2]>>
  BY DEF Table
<1> QED
  BY <1>2, <1>3 DEF NextOf

LEMMA RowKinds ==
    ASSUME NEW p, NEW n, <<p, n>> \in Table
    PROVE  /\ n # "conflict"
           /\ n = "convert" => p = Handoff
           /\ n = "reconcile" => p = IntentPending
           /\ n = "remove_handoff" => p = IntentDone
           /\ n \notin {"convert", "reconcile"} => p \in Removable
  BY DEF Table, IntentPending, IntentDone, Removable

LEMMA LegalPrefixes ==
    ASSUME NEW p \in Prefixes
    PROVE  \/ Legal(p)
           \/ p \in {IntentTorn, StageTorn}
<1>1. CASE p \in {Handoff, IntentPending, IntentDone}
  BY <1>1 DEF Table, Legal, IntentPending, IntentDone
<1>2. CASE p \in Removable \ {IntentDone}
  BY <1>2 DEF Table, Legal, Removable
<1> QED
  BY <1>1, <1>2 DEF Prefixes

LEMMA RemovableNotFresh ==
    ASSUME NEW p \in Removable
    PROVE  /\ Legal(p)
           /\ p \notin {Handoff, IntentPending}
<1>1. "intent" \in p \/ "handoff" \notin p
  BY DEF Removable, IntentDone, Handoff, Deleted
<1>2. Legal(p)
  <2>1. CASE p = IntentDone
    BY <2>1 DEF Table, Legal, IntentDone
  <2>2. CASE p # IntentDone
    BY <2>2 DEF Table, Legal, Removable
  <2> QED
    BY <2>1, <2>2
<1> QED
  BY <1>1, <1>2 DEF Handoff, IntentPending

\* A step of the removal leads to another prefix of it, and it deletes a file
\* only below an intent and a staged marker.
LEMMA RemovalGoesOn ==
    ASSUME NEW p \in Removable, NEW n, <<p, n>> \in Table,
           n \notin {"stage", "remove_directory"}
    PROVE  /\ Applied(n, p) \in Removable
           /\ \A x \in {"q_index", "q_data"} : x \in p \ Applied(n, p) =>
                {"intent", "staged"} \subseteq p
<1>0. n \notin {"convert", "reconcile"}
  BY RemovableNotFresh, RowKinds
<1>1. CASE n = "remove_handoff"
  <2>0. Applied(n, p) = p \ {"handoff"}
    BY <1>1, Zenon DEF Applied
  <2>1. p = IntentDone
    BY <1>1 DEF Table, IntentDone
  <2>2. Applied(n, p) = {"owner", "intent", "index", "data"}
    BY <2>0, <2>1 DEF IntentDone, Handoff
  <2> QED
    BY <2>0, <2>1, <2>2 DEF Removable, IntentDone, Handoff
<1>2. CASE n = "quarantine_index"
  <2>0. Applied(n, p) = (p \ {"index"}) \cup {"q_index"}
    BY <1>2, Zenon DEF Applied
  <2>1. p = {"owner", "intent", "index", "data"}
    BY <1>2 DEF Table, IntentDone
  <2>2. Applied(n, p) = {"owner", "intent", "q_index", "data"}
    BY <2>0, <2>1
  <2> QED
    BY <2>0, <2>1, <2>2 DEF Removable
<1>3. CASE n = "quarantine_data"
  <2>0. Applied(n, p) = (p \ {"data"}) \cup {"q_data"}
    BY <1>3, Zenon DEF Applied
  <2>1. p = {"owner", "intent", "q_index", "data"}
    BY <1>3 DEF Table, IntentDone
  <2>2. Applied(n, p) = {"owner", "intent", "q_index", "q_data"}
    BY <2>0, <2>1
  <2> QED
    BY <2>0, <2>1, <2>2 DEF Removable
<1>4. CASE n = "remove_data"
  <2>0. Applied(n, p) = p \ {"q_data"}
    BY <1>4, Zenon DEF Applied
  <2>1. p = Deleted \cup {"q_index", "q_data"}
    BY <1>4 DEF Table, IntentDone
  <2>2. Applied(n, p) = Deleted \cup {"q_index"}
    BY <2>0, <2>1 DEF Deleted
  <2> QED
    BY <2>0, <2>1, <2>2 DEF Removable, Deleted
<1>5. CASE n = "remove_index"
  <2>0. Applied(n, p) = p \ {"q_index"}
    BY <1>5, Zenon DEF Applied
  <2>1. p = Deleted \cup {"q_index"}
    BY <1>5 DEF Table, IntentDone
  <2>2. Applied(n, p) = Deleted
    BY <2>0, <2>1 DEF Deleted
  <2> QED
    BY <2>0, <2>1, <2>2 DEF Removable, Deleted
<1>6. CASE n = "remove_intent"
  <2>0. Applied(n, p) = p \ {"intent"}
    BY <1>6, Zenon DEF Applied
  <2>1. p = Deleted
    BY <1>6 DEF Table, IntentDone
  <2>2. Applied(n, p) = {"owner", "staged"}
    BY <2>0, <2>1 DEF Deleted
  <2> QED
    BY <2>0, <2>1, <2>2 DEF Removable, Deleted
<1>7. CASE n = "remove_owner"
  <2>0. Applied(n, p) = p \ {"owner"}
    BY <1>7, Zenon DEF Applied
  <2>1. p = {"owner", "staged"}
    BY <1>7 DEF Table, IntentDone
  <2>2. Applied(n, p) = {"staged"}
    BY <2>0, <2>1
  <2> QED
    BY <2>0, <2>1, <2>2 DEF Removable
<1>8. CASE n = "remove_staged"
  <2>0. Applied(n, p) = p \ {"staged"}
    BY <1>8, Zenon DEF Applied
  <2>1. p = {"staged"}
    BY <1>8 DEF Table, IntentDone
  <2>2. Applied(n, p) = {}
    BY <2>0, <2>1
  <2> QED
    BY <2>0, <2>1, <2>2 DEF Removable
<1> QED
  BY <1>0, <1>1, <1>2, <1>3, <1>4, <1>5, <1>6, <1>7, <1>8 DEF Table

LEMMA Staging ==
    ASSUME NEW p, <<p, "stage">> \in Table
    PROVE  /\ "staged_pending" \in p => (p \ {"staged_pending"}) \cup {"staged"} \in Removable
           /\ "staged_pending" \notin p => p \cup {"staged_torn"} = StageTorn
           /\ {"q_index", "q_data"} \subseteq p
<1>1. \/ p = {"owner", "intent", "q_index", "q_data"}
      \/ p = {"owner", "intent", "q_index", "q_data", "staged_pending"}
  BY DEF Table
<1>2. ASSUME p = {"owner", "intent", "q_index", "q_data", "staged_pending"}
      PROVE  (p \ {"staged_pending"}) \cup {"staged"} = Deleted \cup {"q_index", "q_data"}
  BY <1>2 DEF Deleted
<1> QED
  BY <1>1, <1>2 DEF Removable, StageTorn

-----------------------------------------------------------------------------
\* The frontier, and the three ways a step may touch the disk.

LEMMA FrontierOf ==
    ASSUME WorkerCleanupAssumption, NEW r, NEW f, ShapeAt(r, f)
    PROVE  Frontier(r) = f /\ Shape(r)
<1> DEFINE P(w) == /\ \A v \in Ordinals : v < w => r.done[v] = "canonical"
                   /\ w <= Workers => r.done[w] # "canonical"
<1>1. f \in 1..(Workers + 1) /\ P(f)
  BY DEF WorkerCleanupAssumption, ShapeAt, Ordinals
<1>2. \A g \in 1..(Workers + 1) : P(g) => g = f
  BY <1>1 DEF WorkerCleanupAssumption, Ordinals
<1>3. (CHOOSE w \in 1..(Workers + 1) : P(w)) = f
  <2> HIDE DEF P
  <2> QED
    BY <1>1, <1>2
<1> QED
  BY <1>3 DEF Frontier, Shape

LEMMA NowIs ==
    ASSUME WorkerCleanupAssumption, Disks
    PROVE  /\ ShapeAt(root, Now) /\ Now \in 1..(Workers + 1)
           /\ Now <= Workers <=> Now \in Ordinals
           /\ Now > Workers <=> Now \notin Ordinals
<1>1. ShapeAt(root, Now) /\ Now \in 1..(Workers + 1)
  BY DEF Disks, Shape, ShapeAt, Now
<1> QED
  BY <1>1 DEF WorkerCleanupAssumption, Ordinals

LEMMA RootsKept ==
    ASSUME Disks, NEW r \in Roots, Root(r), Shape(r), r.dir \subseteq root.dir,
           \A w \in Ordinals : r.done[w] # "none" =>
              w \notin r.dir \cup r.owned /\ \A q \in rootDisk : w \notin q.dir \cup q.owned,
           \A d \in storeDisk : Fits(r, d)
    PROVE  Disks'
<1>1. root' = r /\ rootDisk' = rootDisk \cup {r} /\ store' = store /\ storeDisk' = storeDisk
  BY DEF Root
<1>2. \A q \in rootDisk' :
         (Shape(q)' <=> Shape(q)) /\ \A d \in storeDisk : Fits(q, d)' <=> Fits(q, d)
  BY DEF Shape, ShapeAt, Frontier, Fits
<1>3. \A q \in rootDisk' : Shape(q) /\ r.dir \subseteq q.dir
  BY <1>1 DEF Disks
<1>4. \A q \in rootDisk', d \in storeDisk : Fits(q, d)
  BY <1>1 DEF Disks
<1>5. \A q \in rootDisk', w \in Ordinals : r.done[w] # "none" => w \notin q.dir \cup q.owned
  BY <1>1 DEF Disks
<1> QED
  BY <1>1, <1>2, <1>3, <1>4, <1>5 DEF Disks

LEMMA LeavesKept ==
    ASSUME Disks, NEW p \in Prefixes, Leaves(p), Now \in root.dir,
           \A r \in rootDisk : r.auth[Now] = "canonical"
    PROVE  /\ Disks'
           /\ root' = root /\ rootDisk' = rootDisk /\ Now' = Now
           /\ store'[Now] = p /\ \A w \in Ordinals : w # Now => store'[w] = store[w]
<1>1. /\ store' = [store EXCEPT ![Now] = p] /\ storeDisk' = storeDisk \cup {store'}
      /\ root' = root /\ rootDisk' = rootDisk
  BY DEF Leaves
<1>2. Now' = Now
  BY <1>1 DEF Now, Frontier
<1>3. Now \in Ordinals /\ store \in [Ordinals -> Prefixes]
  BY DEF Disks, Roots
<1>4. store' \in [Ordinals -> Prefixes] /\ store'[Now] = p
      /\ \A w \in Ordinals : w # Now => store'[w] = store[w]
  BY <1>1, <1>3
<1>5. \A r \in rootDisk : Fits(r, store')
  BY <1>4 DEF Disks, Fits
<1>6. Disks'
  <2>1. \A r \in rootDisk :
           (Shape(r)' <=> Shape(r)) /\ \A d \in storeDisk' : Fits(r, d)' <=> Fits(r, d)
    BY DEF Shape, ShapeAt, Frontier, Fits
  <2>2. \A r \in rootDisk, d \in storeDisk' : Fits(r, d)
    BY <1>1, <1>5 DEF Disks
  <2> QED
    BY <1>1, <1>4, <2>1, <2>2 DEF Disks
<1> QED
  BY <1>1, <1>2, <1>4, <1>6

LEMMA SyncKept ==
    ASSUME Disks, SyncRoot \/ SyncStore \/ UNCHANGED disk
    PROVE  /\ Disks' /\ root' = root /\ store' = store /\ Now' = Now
           /\ rootDisk' \subseteq rootDisk
<1>1. /\ root' = root /\ store' = store
      /\ rootDisk' \in {rootDisk, {root}} /\ storeDisk' \in {storeDisk, {store}}
  BY DEF SyncRoot, SyncStore, disk
<1>2. rootDisk' \subseteq rootDisk /\ storeDisk' \subseteq storeDisk
      /\ root \in rootDisk' /\ store \in storeDisk'
  BY <1>1 DEF Disks
<1>3. Now' = Now
  BY <1>1 DEF Now, Frontier
<1>4. \A r \in rootDisk' :
         (Shape(r)' <=> Shape(r)) /\ \A d \in storeDisk' : Fits(r, d)' <=> Fits(r, d)
  BY DEF Shape, ShapeAt, Frontier, Fits
<1>5. Disks'
  BY <1>1, <1>2, <1>4 DEF Disks
<1> QED
  BY <1>1, <1>2, <1>3, <1>5

-----------------------------------------------------------------------------
\* Whatever a power cut leaves can be opened and finished, unless torn.

LEMMA Admits ==
    ASSUME WorkerCleanupAssumption, Disks, NEW r \in rootDisk, NEW d \in storeDisk
    PROVE  \/ TornRoot(r) \/ TornStore(d)
           \/ /\ Classified(r, d)
              /\ \A w \in Ordinals : r.auth[w] = "canonical" => NextStep(r, d, w) # "conflict"
<1> SUFFICES ASSUME ~TornRoot(r), ~TornStore(d)
             PROVE  /\ Classified(r, d)
                    /\ \A w \in Ordinals :
                          r.auth[w] = "canonical" => NextStep(r, d, w) # "conflict"
  OBVIOUS
<1>1. r \in Roots /\ d \in [Ordinals -> Prefixes] /\ ShapeAt(r, Frontier(r)) /\ Fits(r, d)
  BY DEF Disks, Shape
<1>2. \A w \in Ordinals : r.auth[w] # "torn" /\ r.done[w] # "torn"
  BY DEF TornRoot
<1>3. \A w \in Ordinals : Legal(d[w])
  <2> SUFFICES ASSUME NEW w \in Ordinals PROVE Legal(d[w])
    OBVIOUS
  <2>1. "intent_torn" \notin d[w] /\ "staged_torn" \notin d[w]
    BY DEF TornStore
  <2> QED
    BY <1>1, <2>1, LegalPrefixes DEF IntentTorn, StageTorn
<1>4. Classified(r, d)
  <2> SUFFICES ASSUME NEW w \in Ordinals
               PROVE  /\ r.auth[w] # "torn" /\ r.done[w] # "torn"
                      /\ {r.auth[w], r.done[w]} # {"none"} => w <= Frontier(r)
                      /\ r.done[w] # "none" =>
                            r.auth[w] = "canonical" /\ w \notin r.dir \cup r.owned
                      /\ r.auth[w] \in {"none", "pending"} =>
                            w \in r.dir \cap r.owned /\ d[w] = Handoff
    BY DEF Classified
  <2>1. w < Frontier(r) \/ w = Frontier(r) \/ w > Frontier(r)
    BY <1>1 DEF ShapeAt, Ordinals, WorkerCleanupAssumption
  <2>2. {r.auth[w], r.done[w]} # {"none"} => w <= Frontier(r)
    BY <1>1, <2>1 DEF ShapeAt, Ordinals, WorkerCleanupAssumption
  <2> QED
    BY <1>1, <1>2, <2>1, <2>2 DEF ShapeAt, Fits
<1>5. ASSUME NEW w \in Ordinals PROVE NextStep(r, d, w) # "conflict"
  <2>1. w \in r.dir => w \in r.owned
    <3>1. w < Frontier(r) \/ w = Frontier(r) \/ w > Frontier(r)
      BY <1>1 DEF ShapeAt, Ordinals, WorkerCleanupAssumption
    <3> QED
      BY <1>1, <3>1 DEF ShapeAt
  <2>2. NextOf(d[w]) # "conflict"
    BY <1>3, Row, RowKinds
  <2> QED
    BY <1>3, <2>1, <2>2 DEF NextStep
<1> QED
  BY <1>4, <1>5

-----------------------------------------------------------------------------
\* The steps that leave the disk alone, or only sync it.

LEMMA OpenKept == WorkerCleanupAssumption /\ Inv /\ Open => Inv'
<1> SUFFICES ASSUME WorkerCleanupAssumption, Inv, Open PROVE Inv'
  OBVIOUS
<1>1. Disks' /\ root' = root /\ store' = store
  BY SyncKept DEF Open, Inv
<1>2. ~Classified(root, store) => TornRoot(root) \/ TornStore(store)
  BY Admits DEF Inv, Disks
<1>3. Place'
  BY <1>1, <1>2 DEF Open, Place, TornRoot, TornStore
<1> QED
  BY <1>1, <1>3 DEF Inv

LEMMA AuthorizeKept == WorkerCleanupAssumption /\ Inv /\ Authorize => Inv'
<1> SUFFICES ASSUME WorkerCleanupAssumption, Inv, Authorize PROVE Inv'
  OBVIOUS
<1>1. Disks' /\ root' = root /\ rootDisk' = rootDisk /\ store' = store /\ Now' = Now
  BY SyncKept DEF Authorize, Inv, disk
<1>2. Now <= Workers <=> Now \in Ordinals
  BY NowIs DEF Inv
<1>3. Now > Workers <=> Now \notin Ordinals
  BY NowIs DEF Inv
<1>4. Now \in Ordinals /\ root.done[Now] = "pending" => Gone
  BY DEF Inv, Disks, Gone
<1>5. CASE Now > Workers /\ Enter("terminal")
  BY <1>1, <1>3, <1>5 DEF Authorize, Place, Enter, Begin, Inv
<1>6. CASE Now <= Workers /\ root.done[Now] = "pending" /\ Enter("reconcile")
  BY <1>1, <1>2, <1>4, <1>6 DEF Authorize, Place, Enter, Begin, Gone, Inv
<1>7. CASE Now <= Workers /\ root.done[Now] = "none" /\ Goto("publish")
  BY <1>1, <1>2, <1>7 DEF Authorize, Place, Goto, Inv
<1> QED
  BY <1>1, <1>5, <1>6, <1>7 DEF Authorize, Inv

LEMMA PrepareKept == WorkerCleanupAssumption /\ Inv /\ Prepare => Inv'
<1> SUFFICES ASSUME WorkerCleanupAssumption, Inv, Prepare PROVE Inv'
  OBVIOUS
<1>1. Disks' /\ root' = root /\ rootDisk' = rootDisk /\ store' = store /\ Now' = Now
  BY SyncKept DEF Prepare, Inv, disk
<1>2. Authorized
  BY DEF Prepare, Inv, Place
<1> DEFINE p == store[Now]
           next == NextStep(root, store, Now)
<1>3. p \in Prefixes /\ (Now \in root.dir => Now \in root.owned)
  BY <1>2, NowIs DEF Inv, Disks, Authorized, ShapeAt
<1>4. next = "convert" => Now \in root.dir /\ p = Handoff
  BY <1>3, Row, RowKinds DEF NextStep
<1>5. next = "reconcile" => Now \in root.dir /\ p = IntentPending
  BY <1>3, Row, RowKinds DEF NextStep
<1>6. next = "remove_handoff" => Now \in root.dir /\ p = IntentDone
  BY <1>3, Row, RowKinds DEF NextStep
<1>7. next = "conflict" => TornStore(store)
  <2>1. next = "conflict" => p \in {IntentTorn, StageTorn}
    BY <1>3, Row, RowKinds, LegalPrefixes DEF NextStep
  <2> QED
    BY <1>2, <2>1 DEF TornStore, IntentTorn, StageTorn, Authorized
<1>8. next \notin {"convert", "reconcile", "conflict"} =>
         (Now \in root.dir => p \in Removable)
  BY <1>3, Row, RowKinds DEF NextStep
<1> HIDE DEF p, next
<1>9. Place'
  <2>1. CASE next = "convert" /\ Goto("intent")
    BY <1>1, <1>2, <1>4, <2>1 DEF Goto, Place, Authorized, Holds, p
  <2>2. CASE next \in {"reconcile", "remove_handoff"} /\ Goto("reconcile_intent")
    BY <1>1, <1>2, <1>5, <1>6, <2>2 DEF Goto, Place, Authorized, Holds, p
  <2>3. CASE next = "conflict" /\ Goto("refused")
    BY <1>1, <1>7, <2>3 DEF Goto, Place, TornStore
  <2>4. CASE next \notin {"convert", "reconcile", "remove_handoff", "conflict"} /\ Goto("remove")
    BY <1>1, <1>2, <1>8, <2>4 DEF Goto, Place, Authorized, p
  <2> QED
    BY <2>1, <2>2, <2>3, <2>4 DEF Prepare, next
<1> QED
  BY <1>1, <1>9 DEF Inv

LEMMA LookKept ==
    WorkerCleanupAssumption /\ Inv /\ (Convert \/ Absent \/ Complete \/ Retain) => Inv'
<1> SUFFICES ASSUME WorkerCleanupAssumption, Inv, Convert \/ Absent \/ Complete \/ Retain
             PROVE  Inv'
  OBVIOUS
<1>1. Disks' /\ root' = root /\ rootDisk' = rootDisk /\ store' = store /\ Now' = Now
  BY SyncKept DEF Convert, Absent, Complete, Retain, Inv, disk
<1>2. CASE Convert
  <2>1. Authorized /\ Holds({Handoff, IntentTorn, IntentPending})
    BY <1>2 DEF Convert, Inv, Place
  <2>2. CASE "intent_torn" \in store[Now] /\ Goto("refused")
    <3>1. TornStore(store)
      BY <2>1, <2>2 DEF TornStore, Authorized
    <3> QED
      BY <1>1, <2>2, <3>1 DEF Goto, Place, TornStore, Inv
  <2>3. CASE Goto("intent")
    BY <1>1, <2>1, <2>3 DEF Goto, Place, Authorized, Holds, Inv
  <2> QED
    BY <1>2, <2>2, <2>3 DEF Convert
<1>3. CASE Absent
  <2>1. Now \notin root.dir \cup root.owned
    <3>1. Now \in root.dir => NextStep(root, store, Now) # "complete"
      <4>1. ASSUME Legal(store[Now]) PROVE NextOf(store[Now]) # "complete"
        <5>1. <<store[Now], NextOf(store[Now])>> \in Table
          BY <4>1, Row
        <5> QED
          BY <5>1 DEF Table
      <4> QED
        BY <4>1 DEF NextStep
    <3> QED
      BY <1>3, <3>1 DEF Absent, NextStep
  <2>2. Gone
    BY <1>3, <2>1 DEF Absent, RootSynced, Inv, Place, Authorized, Gone
  <2> QED
    BY <1>1, <1>3, <2>2 DEF Absent, Enter, Begin, Place, Gone, Inv
<1>4. CASE Complete
  <2>1. Gone
    BY <1>4 DEF Complete, Inv, Place
  <2> QED
    BY <1>1, <1>4, <2>1 DEF Complete, Goto, Place, Gone, Inv
<1>5. CASE Retain
  BY <1>1, <1>5 DEF Retain, Goto, Place, Inv
<1> QED
  BY <1>2, <1>3, <1>4, <1>5

LEMMA SyncsKept == Inv /\ (SyncFound \/ ConfirmCompletion) => Inv'
<1> SUFFICES ASSUME Inv, SyncFound \/ ConfirmCompletion PROVE Inv'
  OBVIOUS
<1>1. Disks' /\ root' = root /\ rootDisk' \subseteq rootDisk /\ store' = store /\ Now' = Now
  BY SyncKept DEF SyncFound, ConfirmCompletion, Inv
<1>2. CASE SyncFound
  BY <1>1, <1>2 DEF SyncFound, Stay, Place, Authorized, Inv
<1>3. CASE ConfirmCompletion
  BY <1>1, <1>3 DEF ConfirmCompletion, Enter, Begin, Place, Inv
<1> QED
  BY <1>2, <1>3

-----------------------------------------------------------------------------
\* The steps that write a record.

LEMMA AuthorizationWritten ==
    ASSUME WorkerCleanupAssumption, Disks, NEW x \in States, Now \in Ordinals,
           root.auth[Now] # "canonical", root.done[Now] = "none",
           Root([root EXCEPT !.auth[Now] = x])
    PROVE  Disks' /\ Now' = Now /\ root'.done[Now] = "none"
<1> DEFINE r == [root EXCEPT !.auth[Now] = x]
<1>1. /\ r \in Roots /\ r.done = root.done /\ r.dir = root.dir /\ r.owned = root.owned
      /\ r.auth[Now] = x /\ \A w \in Ordinals : w # Now => r.auth[w] = root.auth[w]
  BY DEF Disks, Roots
<1>2. ShapeAt(root, Now)
  BY NowIs
<1>3. ShapeAt(r, Now)
  BY <1>1, <1>2 DEF ShapeAt
<1>4. \A d \in storeDisk : Fits(r, d)
  BY <1>1 DEF Disks, Fits
<1>5. \A w \in Ordinals : r.done[w] # "none" =>
         w \notin r.dir \cup r.owned /\ \A q \in rootDisk : w \notin q.dir \cup q.owned
  BY <1>1 DEF Disks
<1>6. root' = r
  BY DEF Root
<1> HIDE DEF r
<1>7. Shape(r) /\ Frontier(r) = Now
  BY <1>3, FrontierOf
<1>8. Disks'
  BY <1>1, <1>4, <1>5, <1>7, RootsKept DEF r
<1>9. Now' = Now
  BY <1>6, <1>7 DEF Now, Frontier
<1> QED
  BY <1>1, <1>6, <1>8, <1>9

LEMMA PublishAuthorizationKept == WorkerCleanupAssumption /\ Inv /\ PublishAuthorization => Inv'
<1> SUFFICES ASSUME WorkerCleanupAssumption, Inv, PublishAuthorization PROVE Inv'
  OBVIOUS
<1>1. Now \in Ordinals /\ root.done[Now] = "none" /\ stage \in {"authorize", "advance"}
      /\ step = "publish"
  BY DEF PublishAuthorization, Inv, Place
<1> DEFINE a == root.auth[Now]
<1>2. CASE a \in {"none", "torn"} /\ Root([root EXCEPT !.auth[Now] = Filled(a)]) /\ Stay
  <2>1. Filled(a) \in States
    BY DEF Filled, States
  <2>2. Disks' /\ Now' = Now /\ root'.done[Now] = "none"
    BY <1>1, <1>2, <2>1, AuthorizationWritten DEF Inv
  <2> QED
    BY <1>1, <1>2, <2>2 DEF Stay, Place, Inv
<1>3. CASE SyncRoot /\ Stay
  BY <1>1, <1>3, SyncKept DEF Stay, Place, Inv
<1>4. CASE a = "pending" /\ Root([root EXCEPT !.auth[Now] = "canonical"]) /\ Stay
  <2>1. Disks' /\ Now' = Now /\ root'.done[Now] = "none"
    BY <1>1, <1>4, AuthorizationWritten DEF Inv, States
  <2> QED
    BY <1>1, <1>4, <2>1 DEF Stay, Place, Inv
<1>5. CASE /\ a = "canonical" /\ RootSynced
           /\ Begin("prepare") /\ seen' = root /\ UNCHANGED <<disk, troubles>>
  <2>1. Disks' /\ root' = root /\ rootDisk' = rootDisk /\ Now' = Now
    BY <1>5, SyncKept DEF Inv, disk
  <2>2. Authorized
    BY <1>1, <1>5 DEF RootSynced, Authorized
  <2> QED
    BY <1>5, <2>1, <2>2 DEF Begin, Place, Authorized, Inv
<1> QED
  BY <1>2, <1>3, <1>4, <1>5 DEF PublishAuthorization

LEMMA CompletionWritten ==
    ASSUME WorkerCleanupAssumption, Disks, NEW x \in States \ {"none"}, Gone,
           Root([root EXCEPT !.done[Now] = x])
    PROVE  Disks' /\ (x # "canonical" => Now' = Now)
<1> DEFINE r == [root EXCEPT !.done[Now] = x]
<1>0. Now \in Ordinals /\ root \in rootDisk
  BY DEF Gone, Disks
<1>1. /\ r \in Roots /\ r.auth = root.auth /\ r.dir = root.dir /\ r.owned = root.owned
      /\ r.done[Now] = x /\ \A w \in Ordinals : w # Now => r.done[w] = root.done[w]
  BY <1>0 DEF Disks, Roots
<1>2. ShapeAt(root, Now) /\ Now \in 1..Workers
  BY NowIs, <1>0 DEF Ordinals
<1>3. root.auth[Now] = "canonical" /\ Now \notin root.dir \cup root.owned
  BY <1>0, <1>2 DEF ShapeAt, Gone
<1>4. x # "canonical" => ShapeAt(r, Now)
  BY <1>0, <1>1, <1>2, <1>3 DEF ShapeAt
<1>5. x = "canonical" => ShapeAt(r, Now + 1)
  <2> SUFFICES ASSUME x = "canonical" PROVE ShapeAt(r, Now + 1)
    OBVIOUS
  <2>1. Now + 1 \in 1..(Workers + 1)
    BY <1>2 DEF WorkerCleanupAssumption
  <2>2. ASSUME NEW w \in Ordinals, w < Now + 1
        PROVE  r.auth[w] = "canonical" /\ r.done[w] = "canonical" /\ w \notin r.dir \cup r.owned
    <3>1. w = Now \/ w < Now
      BY <1>2, <2>2 DEF Ordinals, WorkerCleanupAssumption
    <3> QED
      BY <1>1, <1>2, <1>3, <3>1 DEF ShapeAt
  <2>3. ASSUME NEW w \in Ordinals, w >= Now + 1
        PROVE  r.auth[w] = "none" /\ r.done[w] = "none" /\ w \in r.dir \cap r.owned
    <3>1. w # Now /\ w > Now
      BY <1>2, <2>3 DEF Ordinals, WorkerCleanupAssumption
    <3> QED
      BY <1>1, <1>2, <3>1 DEF ShapeAt
  <2>4. \A w \in Ordinals : (w > Now + 1 \/ w = Now + 1) => w >= Now + 1
    BY <1>2 DEF Ordinals, WorkerCleanupAssumption
  <2> QED
    BY <2>1, <2>2, <2>3, <2>4 DEF ShapeAt
<1>6. \A d \in storeDisk : Fits(r, d)
  BY <1>0, <1>1 DEF Disks, Fits
<1>7. \A w \in Ordinals : r.done[w] # "none" =>
         w \notin r.dir \cup r.owned /\ \A q \in rootDisk : w \notin q.dir \cup q.owned
  BY <1>1, <1>3 DEF Disks, Gone
<1>8. root' = r
  BY DEF Root
<1> HIDE DEF r
<1>9. Shape(r) /\ (x # "canonical" => Frontier(r) = Now)
  BY <1>4, <1>5, FrontierOf
<1>10. Disks'
  BY <1>1, <1>6, <1>7, <1>9, RootsKept DEF r
<1>11. x # "canonical" => Now' = Now
  BY <1>8, <1>9 DEF Now, Frontier
<1> QED
  BY <1>10, <1>11

LEMMA PublishCompletionKept == WorkerCleanupAssumption /\ Inv /\ PublishCompletion => Inv'
<1> SUFFICES ASSUME WorkerCleanupAssumption, Inv, PublishCompletion PROVE Inv'
  OBVIOUS
<1>1. Gone /\ stage \in {"complete", "reconcile"} /\ step = "publish"
  BY DEF PublishCompletion, Inv, Place
<1> DEFINE c == root.done[Now]
<1>2. CASE c \in {"none", "torn"} /\ Root([root EXCEPT !.done[Now] = Filled(c)]) /\ Stay
  <2>1. Filled(c) \in States \ {"none"} /\ Filled(c) # "canonical"
    BY DEF Filled, States
  <2>2. Disks' /\ Now' = Now
    BY <1>1, <1>2, <2>1, CompletionWritten DEF Inv
  <2>3. \A r \in rootDisk' : Now \notin r.dir \cup r.owned
    <3>1. root \in Roots /\ root \in rootDisk /\ rootDisk' = rootDisk \cup {root'}
      BY <1>2 DEF Root, Inv, Disks
    <3>2. root'.dir = root.dir /\ root'.owned = root.owned
      BY <1>2, <3>1 DEF Root, Roots
    <3> QED
      BY <1>1, <3>1, <3>2 DEF Gone
  <2> QED
    BY <1>1, <1>2, <2>2, <2>3 DEF Stay, Place, Gone, Inv
<1>3. CASE SyncRoot /\ Stay
  <2>1. Disks' /\ rootDisk' \subseteq rootDisk /\ Now' = Now
    BY <1>3, SyncKept DEF Inv
  <2> QED
    BY <1>1, <1>3, <2>1 DEF Stay, Place, Gone, Inv
<1>4. CASE Root([root EXCEPT !.done[Now] = "canonical"]) /\ Goto("confirm")
  <2>1. Disks'
    BY <1>1, <1>4, CompletionWritten DEF Inv, States
  <2> QED
    BY <1>4, <2>1 DEF Goto, Place, Inv
<1> QED
  BY <1>2, <1>3, <1>4 DEF PublishCompletion

-----------------------------------------------------------------------------
\* The steps that remove.

LEMMA DirectoryWritten ==
    ASSUME WorkerCleanupAssumption, Disks, Authorized, NEW r \in Roots, Root(r),
           r.auth = root.auth, r.done = root.done,
           \/ r.dir = root.dir \ {Now} /\ r.owned = root.owned /\ Now \in root.dir
              /\ \A d \in storeDisk : d[Now] = {}
           \/ r.dir = root.dir /\ r.owned = root.owned \ {Now} /\ Now \notin root.dir
    PROVE  Disks' /\ Authorized' /\ Now' = Now /\ Now \notin root'.dir
<1>1. ShapeAt(root, Now) /\ Now \in Ordinals /\ root.auth[Now] = "canonical" /\ root \in rootDisk
  BY NowIs DEF Authorized, Disks
<1>2. ShapeAt(r, Now)
  BY <1>1 DEF ShapeAt, Authorized
<1>3. \A d \in storeDisk : Fits(r, d)
  BY <1>1 DEF Disks, Fits
<1>4. \A w \in Ordinals : r.done[w] # "none" =>
         w \notin r.dir \cup r.owned /\ \A q \in rootDisk : w \notin q.dir \cup q.owned
  BY <1>1 DEF Disks
<1>5. Shape(r) /\ Frontier(r) = Now
  BY <1>2, FrontierOf
<1>6. Disks'
  BY <1>3, <1>4, <1>5, RootsKept
<1>7. Now' = Now
  BY <1>5 DEF Now, Frontier, Root
<1>8. root' = r /\ rootDisk' = rootDisk \cup {r}
  BY DEF Root
<1> QED
  BY <1>1, <1>6, <1>7, <1>8 DEF Authorized

LEMMA RemoveDirectoryKept == WorkerCleanupAssumption /\ Inv /\ RemoveDirectory => Inv'
<1> SUFFICES ASSUME WorkerCleanupAssumption, Inv, RemoveDirectory PROVE Inv'
  OBVIOUS
<1>1. Authorized /\ step = "remove"
  BY DEF RemoveDirectory, Inv, Place
<1>2. root \in Roots
  BY DEF Inv, Disks
<1>3. CASE /\ Now \in root.dir /\ store[Now] = {} /\ StoreSynced
           /\ Root([root EXCEPT !.dir = root.dir \ {Now}])
  <2> DEFINE r == [root EXCEPT !.dir = root.dir \ {Now}]
  <2>1. /\ r \in Roots /\ r.auth = root.auth /\ r.done = root.done
        /\ r.dir = root.dir \ {Now} /\ r.owned = root.owned
    BY <1>2 DEF Roots
  <2>2. \A d \in storeDisk : d[Now] = {}
    BY <1>3 DEF StoreSynced
  <2> HIDE DEF r
  <2>3. Disks' /\ Authorized' /\ Now' = Now /\ Now \notin root'.dir
    BY <1>1, <1>3, <2>1, <2>2, DirectoryWritten DEF Inv, r
  <2> QED
    BY <1>1, <2>3 DEF RemoveDirectory, Stay, Place, Inv
<1>4. CASE Now \notin root.dir /\ Root([root EXCEPT !.owned = root.owned \ {Now}])
  <2> DEFINE r == [root EXCEPT !.owned = root.owned \ {Now}]
  <2>1. /\ r \in Roots /\ r.auth = root.auth /\ r.done = root.done
        /\ r.dir = root.dir /\ r.owned = root.owned \ {Now}
    BY <1>2 DEF Roots
  <2> HIDE DEF r
  <2>2. Disks' /\ Authorized' /\ Now' = Now /\ Now \notin root'.dir
    BY <1>1, <1>4, <2>1, DirectoryWritten DEF Inv, r
  <2> QED
    BY <1>1, <2>2 DEF RemoveDirectory, Stay, Place, Inv
<1> QED
  BY <1>3, <1>4 DEF RemoveDirectory

LEMMA RemoveLeafKept == WorkerCleanupAssumption /\ Inv /\ RemoveLeaf => Inv'
<1> SUFFICES ASSUME WorkerCleanupAssumption, Inv, RemoveLeaf PROVE Inv'
  OBVIOUS
<1> DEFINE next == NextStep(root, store, Now)
           p == Applied(next, store[Now])
<1>1. Authorized /\ step = "remove" /\ (Now \in root.dir => store[Now] \in Removable)
  BY DEF RemoveLeaf, Inv, Place
<1>2. next \notin {"stage", "remove_directory", "remove_owned", "complete"} /\ Leaves(p) /\ Stay
  BY DEF RemoveLeaf
<1>3. Now \in root.dir
  BY <1>2 DEF NextStep
<1>4. Now \in root.owned
  BY <1>1, <1>3, NowIs DEF Inv, ShapeAt, Authorized
<1>5. next = NextOf(store[Now]) /\ <<store[Now], next>> \in Table
  BY <1>1, <1>3, <1>4, RemovableNotFresh, Row DEF NextStep
<1>6. p \in Removable
  BY <1>1, <1>2, <1>3, <1>5, RemovalGoesOn
<1> HIDE DEF p, next
<1>7. /\ Disks' /\ root' = root /\ rootDisk' = rootDisk /\ Now' = Now /\ store'[Now] = p
  BY <1>1, <1>2, <1>3, <1>6, LeavesKept DEF Prefixes, Inv, Authorized
<1> QED
  BY <1>1, <1>2, <1>6, <1>7 DEF Stay, Place, Authorized, Inv

LEMMA StageDeletionKept == WorkerCleanupAssumption /\ Inv /\ StageDeletion => Inv'
<1> SUFFICES ASSUME WorkerCleanupAssumption, Inv, StageDeletion PROVE Inv'
  OBVIOUS
<1> DEFINE p == store[Now]
<1>1. CASE step = "remove"
  <2>1. Authorized /\ (Now \in root.dir => p \in Removable)
    BY <1>1 DEF Inv, Place
  <2>2. NextStep(root, store, Now) = "stage"
    BY <1>1 DEF StageDeletion
  <2>3. Now \in root.dir /\ <<p, "stage">> \in Table
    BY <2>2, Row DEF NextStep
  <2>4. CASE "staged_pending" \in p
    <3>1. Leaves((p \ {"staged_pending"}) \cup {"staged"}) /\ Stay
      BY <1>1, <2>4 DEF StageDeletion
    <3>2. (p \ {"staged_pending"}) \cup {"staged"} \in Removable
      BY <2>3, <2>4, Staging
    <3>3. /\ Disks' /\ root' = root /\ rootDisk' = rootDisk /\ Now' = Now
          /\ store'[Now] \in Removable
      BY <2>1, <2>3, <3>1, <3>2, LeavesKept DEF Prefixes, Inv, Authorized
    <3> QED
      BY <1>1, <2>1, <3>1, <3>3 DEF Stay, Place, Authorized, Inv
  <2>5. CASE "staged_pending" \notin p
    <3>1. Leaves(p \cup {"staged_torn"}) /\ Goto("staging")
      BY <1>1, <2>5 DEF StageDeletion
    <3>2. p \cup {"staged_torn"} = StageTorn
      BY <2>3, <2>5, Staging
    <3>3. /\ Disks' /\ root' = root /\ rootDisk' = rootDisk /\ Now' = Now
          /\ store'[Now] = StageTorn
      BY <2>1, <2>3, <3>1, <3>2, LeavesKept DEF Prefixes, Inv, Authorized
    <3> QED
      BY <2>1, <2>3, <3>1, <3>3 DEF Goto, Place, Authorized, Holds, Inv
  <2> QED
    BY <2>4, <2>5
<1>2. CASE step = "staging"
  <2>1. Authorized /\ Now \in root.dir /\ p = StageTorn
    BY <1>2 DEF Inv, Place, Holds
  <2>2. Leaves((p \ {"staged_torn"}) \cup {"staged_pending"}) /\ Goto("remove")
    BY <1>2 DEF StageDeletion
  <2>3. (p \ {"staged_torn"}) \cup {"staged_pending"}
           = {"owner", "intent", "q_index", "q_data", "staged_pending"}
    BY <2>1 DEF StageTorn
  <2>4. (p \ {"staged_torn"}) \cup {"staged_pending"} \in Removable
    BY <2>3 DEF Removable
  <2>5. /\ Disks' /\ root' = root /\ rootDisk' = rootDisk /\ Now' = Now
        /\ store'[Now] \in Removable
    BY <2>1, <2>2, <2>4, LeavesKept DEF Prefixes, Inv, Authorized
  <2> QED
    BY <2>1, <2>2, <2>5 DEF Goto, Place, Authorized, Inv
<1> QED
  BY <1>1, <1>2 DEF StageDeletion

LEMMA IntentLeaves ==
    /\ "intent_torn" \in IntentTorn /\ "intent_torn" \notin IntentPending
    /\ "intent_torn" \notin IntentDone /\ "intent_torn" \notin Handoff
    /\ "intent" \in IntentDone /\ "intent" \notin IntentPending
    /\ "intent" \notin IntentTorn /\ "intent" \notin Handoff
    /\ "intent_pending" \in IntentPending /\ "intent_pending" \notin IntentDone
    /\ "intent_pending" \notin Handoff /\ "intent_pending" \notin IntentTorn
    /\ (IntentTorn \ {"intent_torn"}) \cup {"intent_pending"} = IntentPending
    /\ (IntentPending \ {"intent_pending"}) \cup {"intent"} = IntentDone
    /\ IntentDone \in Removable /\ IntentDone \in Prefixes /\ IntentPending \in Prefixes
    /\ IntentTorn \in Prefixes
<1>1. (IntentTorn \ {"intent_torn"}) \cup {"intent_pending"} = IntentPending
  BY DEF IntentTorn, IntentPending, Handoff
<1>2. (IntentPending \ {"intent_pending"}) \cup {"intent"} = IntentDone
  BY DEF IntentDone, IntentPending, Handoff
<1>3. IntentDone \in Removable /\ IntentDone \in Prefixes /\ IntentPending \in Prefixes
      /\ IntentTorn \in Prefixes
  BY DEF Removable, Prefixes
<1> QED
  BY <1>1, <1>2, <1>3 DEF IntentTorn, IntentPending, IntentDone, Handoff

LEMMA ConvertIntentKept == WorkerCleanupAssumption /\ Inv /\ ConvertIntent => Inv'
<1> SUFFICES ASSUME WorkerCleanupAssumption, Inv, ConvertIntent PROVE Inv'
  OBVIOUS
<1> DEFINE p == store[Now]
<1>1. /\ Authorized /\ Now \in root.dir /\ step = "intent"
      /\ p \in {Handoff, IntentTorn, IntentPending, IntentDone}
  BY DEF ConvertIntent, Inv, Place, Holds
<1>2. ASSUME NEW q \in {IntentTorn, IntentPending, IntentDone}, Leaves(q), Stay
      PROVE  Inv'
  <2>1. /\ Disks' /\ root' = root /\ rootDisk' = rootDisk /\ Now' = Now /\ store'[Now] = q
    BY <1>1, <1>2, LeavesKept, IntentLeaves DEF Inv, Authorized
  <2> QED
    BY <1>1, <1>2, <2>1 DEF Stay, Place, Authorized, Holds, Inv
<1>3. CASE p = Handoff /\ Leaves(p \cup {"intent_torn"}) /\ Stay
  BY <1>2, <1>3 DEF IntentTorn
<1>4. CASE /\ "intent_torn" \in p
           /\ Leaves((p \ {"intent_torn"}) \cup {"intent_pending"}) /\ Stay
  BY <1>1, <1>2, <1>4, IntentLeaves
<1>5. CASE SyncStore /\ Stay
  BY <1>1, <1>5, SyncKept DEF SyncStore, Stay, Place, Authorized, Holds, Inv
<1>6. CASE /\ "intent_pending" \in p
           /\ Leaves((p \ {"intent_pending"}) \cup {"intent"}) /\ Stay
  BY <1>1, <1>2, <1>6, IntentLeaves
<1>7. CASE "intent" \in p /\ Converted /\ UNCHANGED disk
  <2>1. /\ Disks' /\ root' = root /\ rootDisk' = rootDisk /\ Now' = Now /\ store' = store
    BY <1>7, SyncKept DEF Inv, disk
  <2>2. p \in Removable
    BY <1>1, <1>7, IntentLeaves
  <2>3. CASE stage = "prepare" /\ Goto("remove")
    BY <1>1, <2>1, <2>2, <2>3 DEF Goto, Place, Authorized, Inv
  <2>4. CASE Enter("authorize")
    BY <2>1, <2>4 DEF Enter, Begin, Place, Inv
  <2> QED
    BY <1>7, <2>3, <2>4 DEF Converted
<1> QED
  BY <1>3, <1>4, <1>5, <1>6, <1>7 DEF ConvertIntent

LEMMA ReconcileIntentKept == WorkerCleanupAssumption /\ Inv /\ ReconcileIntent => Inv'
<1> SUFFICES ASSUME WorkerCleanupAssumption, Inv, ReconcileIntent PROVE Inv'
  OBVIOUS
<1> DEFINE p == store[Now]
<1>1. /\ Authorized /\ Now \in root.dir /\ step = "reconcile_intent"
      /\ p \in {IntentPending, IntentDone}
  BY DEF ReconcileIntent, Inv, Place, Holds
<1>2. CASE SyncStore /\ Stay
  BY <1>1, <1>2, SyncKept DEF SyncStore, Stay, Place, Authorized, Holds, Inv
<1>3. CASE /\ "intent_pending" \in p
           /\ Leaves((p \ {"intent_pending"}) \cup {"intent"}) /\ Stay
  <2>1. /\ Disks' /\ root' = root /\ rootDisk' = rootDisk /\ Now' = Now
        /\ store'[Now] = IntentDone
    BY <1>1, <1>3, LeavesKept, IntentLeaves DEF Inv, Authorized
  <2> QED
    BY <1>1, <1>3, <2>1 DEF Stay, Place, Authorized, Holds, Inv
<1>4. CASE "intent" \in p /\ Goto("remove") /\ UNCHANGED disk
  <2>1. /\ Disks' /\ root' = root /\ rootDisk' = rootDisk /\ Now' = Now /\ store' = store
    BY <1>4, SyncKept DEF Inv, disk
  <2>2. p \in Removable
    BY <1>1, <1>4, IntentLeaves
  <2> QED
    BY <1>1, <1>4, <2>1, <2>2 DEF Goto, Place, Authorized, Inv
<1> QED
  BY <1>2, <1>3, <1>4 DEF ReconcileIntent

-----------------------------------------------------------------------------
\* Failures, crashes and power cuts.

LEMMA FailKept == WorkerCleanupAssumption /\ Inv /\ Fail => Inv'
<1> SUFFICES ASSUME WorkerCleanupAssumption, Inv, Fail PROVE Inv'
  OBVIOUS
<1>1. Disks' /\ root' = root /\ rootDisk' = rootDisk /\ store' = store /\ Now' = Now
  BY SyncKept DEF Fail, Inv, disk
<1>2. CASE /\ step = "look" /\ stage \in {"authorize", "advance", "complete", "convert"}
           /\ Retry(stage)
  BY <1>1, <1>2 DEF Retry, Place, Authorized, Holds, Gone, Inv
<1>3. CASE Retry("authorize") \/ Cold
  BY <1>1, <1>3 DEF Retry, Cold, Place, Inv
<1>4. CASE step = "intent" /\ "intent" \notin store[Now] /\ Retry("convert")
  <2>1. Authorized /\ Holds({Handoff, IntentTorn, IntentPending})
    BY <1>4, IntentLeaves DEF Inv, Place, Holds
  <2> QED
    BY <1>1, <1>4, <2>1 DEF Retry, Place, Authorized, Holds, Inv
<1>5. CASE /\ step = "intent" /\ {"intent_pending", "intent"} \cap store[Now] # {}
           /\ step' = "reconcile_intent"
  <2>1. Authorized /\ Holds({IntentPending, IntentDone})
    BY <1>5, IntentLeaves DEF Inv, Place, Holds
  <2> QED
    BY <1>1, <1>5, <2>1 DEF Place, Authorized, Holds, Inv
<1>6. CASE Begin("authorize")
  BY <1>1, <1>6 DEF Begin, Place, Inv
<1> QED
  BY <1>2, <1>3, <1>4, <1>5, <1>6 DEF Fail

LEMMA CrashKept == Inv /\ Crash => Inv'
  BY SyncKept DEF Crash, Cold, Place, Inv

LEMMA PowerCutKept == Inv /\ PowerCut => Inv'
<1> SUFFICES ASSUME Inv, PowerCut PROVE Inv'
  OBVIOUS
<1>1. PICK r \in rootDisk : root' = r /\ rootDisk' = {r}
  BY DEF PowerCut
<1>2. PICK d \in storeDisk : store' = d /\ storeDisk' = {d}
  BY DEF PowerCut
<1>3. r \in Roots /\ Shape(r) /\ d \in [Ordinals -> Prefixes] /\ Fits(r, d)
  BY DEF Inv, Disks
<1>4. ASSUME NEW w \in Ordinals, r.done[w] # "none" PROVE w \notin r.dir \cup r.owned
  <2>1. w < Frontier(r) \/ w = Frontier(r) \/ w > Frontier(r)
    BY <1>3 DEF Shape, ShapeAt, Ordinals
  <2> QED
    BY <1>3, <1>4, <2>1 DEF Shape, ShapeAt
<1>5. Disks'
  <2>1. (Shape(r)' <=> Shape(r)) /\ (Fits(r, d)' <=> Fits(r, d))
    BY DEF Shape, ShapeAt, Frontier, Fits
  <2> QED
    BY <1>1, <1>2, <1>3, <1>4, <2>1 DEF Disks
<1> QED
  BY <1>5 DEF PowerCut, Place, Inv

-----------------------------------------------------------------------------
\* The invariant.

LEMMA InitInv == WorkerCleanupAssumption /\ Init => Inv
<1> SUFFICES ASSUME WorkerCleanupAssumption, Init PROVE Inv
  OBVIOUS
<1>1. /\ root \in Roots /\ rootDisk = {root} /\ storeDisk = {store}
      /\ store \in [Ordinals -> Prefixes]
      /\ \A w \in Ordinals : /\ root.auth[w] = "none" /\ root.done[w] = "none"
                             /\ w \in root.dir \cap root.owned /\ store[w] = Handoff
  BY DEF Init, Roots, States, Prefixes
<1>2. ShapeAt(root, 1)
  BY <1>1 DEF ShapeAt, Ordinals, WorkerCleanupAssumption
<1>3. Shape(root)
  BY <1>2, FrontierOf
<1>4. Fits(root, store)
  BY <1>1 DEF Fits
<1>5. Disks
  BY <1>1, <1>3, <1>4 DEF Disks
<1> QED
  BY <1>5 DEF Init, Place, Inv

LEMMA StepInv == WorkerCleanupAssumption /\ Inv /\ Step => Inv'
  BY OpenKept, AuthorizeKept, PublishAuthorizationKept, PrepareKept, LookKept,
     ConvertIntentKept, ReconcileIntentKept, SyncsKept, RemoveLeafKept, RemoveDirectoryKept,
     StageDeletionKept, PublishCompletionKept DEF Step

LEMMA NextInv == WorkerCleanupAssumption /\ Inv /\ [Next]_vars => Inv'
<1> SUFFICES ASSUME WorkerCleanupAssumption, Inv, [Next]_vars PROVE Inv'
  OBVIOUS
<1>1. CASE Step
  BY <1>1, StepInv
<1>2. CASE Trouble
  BY <1>2, FailKept, CrashKept, PowerCutKept DEF Trouble
<1>3. CASE UNCHANGED vars
  BY <1>3, SyncKept DEF vars, disk, Place, Authorized, Holds, Gone, TornRoot, TornStore, Inv
<1> QED
  BY <1>1, <1>2, <1>3 DEF Next

\* Every root and every set of leaves that a power cut may leave is one the
\* protocol knows, and the holder of the lock stands where it may.
THEOREM RemovalInvariant == WorkerCleanupAssumption /\ Spec => []Inv
<1>1. ASSUME WorkerCleanupAssumption PROVE Spec => []Inv
  <2>1. Init => Inv
    BY <1>1, InitInv
  <2>2. Inv /\ [Next]_vars => Inv'
    BY <1>1, NextInv
  <2> QED
    BY <2>1, <2>2, PTL DEF Spec
<1> QED
  BY <1>1

\* Whatever a crash or a power cut leaves of the removal, the next open accepts
\* it and finds the step to go on with, unless a record or a marker is torn;
\* nothing else makes a call refuse (classify_authorized_cleanup_prefix_v2).
THEOREM PrefixesStayAdmitted == WorkerCleanupAssumption /\ Spec => []PrefixesAdmitted
<1>1. ASSUME WorkerCleanupAssumption PROVE Inv => PrefixesAdmitted
  BY <1>1, Admits DEF Inv, Place, PrefixesAdmitted
<1>2. ASSUME WorkerCleanupAssumption PROVE Spec => []PrefixesAdmitted
  <2>1. Inv => PrefixesAdmitted
    BY <1>1, <1>2
  <2>2. Spec => []Inv
    BY <1>2, RemovalInvariant
  <2> QED
    BY <2>1, <2>2, PTL
<1> QED
  BY <1>2

-----------------------------------------------------------------------------
\* What a step may do to the leaves and to the records.

LEMMA LeavesChange ==
    ASSUME WorkerCleanupAssumption, Inv, Step, NEW w \in Ordinals, store'[w] # store[w]
    PROVE  /\ \A r \in rootDisk : r.auth[w] = "canonical"
           /\ \A n \in {"q_index", "q_data"} : n \in store[w] \ store'[w] =>
                 \A d \in storeDisk : {"intent", "staged"} \subseteq d[w]
<1>1. RemoveLeaf \/ StageDeletion \/ ConvertIntent \/ ReconcileIntent
  BY DEF Step, Open, Authorize, PublishAuthorization, Prepare, Convert, SyncFound,
         RemoveDirectory, Absent, Complete, PublishCompletion, ConfirmCompletion, Retain,
         disk, Root, SyncRoot, SyncStore
<1>2. Authorized /\ Now \in Ordinals /\ store \in [Ordinals -> Prefixes]
  BY <1>1 DEF RemoveLeaf, StageDeletion, ConvertIntent, ReconcileIntent, Inv, Place,
              Authorized, Disks
<1>3. ASSUME NEW q, Leaves(q)
      PROVE  w = Now /\ store'[Now] = q
  BY <1>2, <1>3 DEF Leaves
<1>4. CASE RemoveLeaf
  <2> DEFINE next == NextStep(root, store, Now)
             q == Applied(next, store[Now])
  <2>1. /\ next \notin {"stage", "remove_directory", "remove_owned", "complete"}
        /\ Leaves(q) /\ StoreSynced /\ step = "remove"
    BY <1>4 DEF RemoveLeaf
  <2>2. Now \in root.dir
    BY <2>1 DEF NextStep
  <2>3. store[Now] \in Removable
    BY <2>1, <2>2 DEF Inv, Place
  <2>4. Now \in root.owned
    BY <1>2, <2>2, NowIs DEF Inv, ShapeAt
  <2>5. <<store[Now], next>> \in Table
    BY <2>2, <2>3, <2>4, RemovableNotFresh, Row DEF NextStep
  <2>6. \A x \in {"q_index", "q_data"} : x \in store[Now] \ q =>
           {"intent", "staged"} \subseteq store[Now]
    BY <2>1, <2>3, <2>5, RemovalGoesOn
  <2> HIDE DEF q, next
  <2>7. w = Now /\ store'[Now] = q /\ storeDisk = {store}
    BY <1>3, <2>1 DEF StoreSynced
  <2> QED
    BY <1>2, <2>6, <2>7 DEF Authorized
<1>5. CASE StageDeletion \/ ConvertIntent \/ ReconcileIntent
  <2>1. w = Now
    BY <1>3, <1>5 DEF StageDeletion, ConvertIntent, ReconcileIntent, SyncStore, disk
  <2>2. \A n \in {"q_index", "q_data"} : n \notin store[w] \ store'[w]
    BY <1>3, <1>5, <2>1 DEF StageDeletion, ConvertIntent, ReconcileIntent, SyncStore, disk
  <2> QED
    BY <1>2, <2>1, <2>2 DEF Authorized
<1> QED
  BY <1>1, <1>4, <1>5

LEMMA RecordsChange ==
    ASSUME WorkerCleanupAssumption, Inv, Step, NEW w \in Ordinals,
           root.done[w] = "none", root'.done[w] # "none"
    PROVE  \A r \in rootDisk : w \notin r.dir \cup r.owned
<1>1. root \in Roots
  BY DEF Inv, Disks
<1>2. \/ root' = root
      \/ \E x : root' = [root EXCEPT !.auth[Now] = x]
      \/ \E x : root' = [root EXCEPT !.dir = x]
      \/ \E x : root' = [root EXCEPT !.owned = x]
      \/ PublishCompletion
  <2>1. CASE PublishAuthorization
    BY <2>1 DEF PublishAuthorization, Root, SyncRoot, disk
  <2>2. CASE RemoveDirectory
    BY <2>2 DEF RemoveDirectory, Root
  <2>3. CASE ~(PublishAuthorization \/ RemoveDirectory \/ PublishCompletion)
    BY <2>3 DEF Step, Open, Authorize, Prepare, Convert, ConvertIntent, ReconcileIntent,
                SyncFound, RemoveLeaf, StageDeletion, Absent, Complete, ConfirmCompletion,
                Retain, disk, SyncRoot, SyncStore, Leaves
  <2> QED
    BY <2>1, <2>2, <2>3
<1>3. PublishCompletion
  BY <1>1, <1>2 DEF Roots
<1>4. Gone
  BY <1>3 DEF PublishCompletion, Inv, Place
<1>5. w = Now
  BY <1>1, <1>3 DEF PublishCompletion, Root, SyncRoot, Roots
<1> QED
  BY <1>4, <1>5 DEF Gone

\* The stores of the workers are only touched under an authorization, their
\* files only deleted under an intent and a staged marker, that no power cut can
\* take back, and a completion is only begun when nothing can bring the store
\* back (drive_with_operations and the authorities it calls).
THEOREM RemovalIsAuthorized == WorkerCleanupAssumption /\ Spec => ActsOnDurableAuthority
<1>1. ASSUME WorkerCleanupAssumption PROVE Spec => ActsOnDurableAuthority
  <2>1. Inv /\ [Next]_vars => [OnAuthority]_vars
    <3> SUFFICES ASSUME Inv, Step, NEW w \in Ordinals
                 PROVE  /\ store'[w] # store[w] => \A r \in rootDisk : r.auth[w] = "canonical"
                        /\ \A n \in {"q_index", "q_data"} : n \in store[w] \ store'[w] =>
                              \A d \in storeDisk : {"intent", "staged"} \subseteq d[w]
                        /\ root.done[w] = "none" /\ root'.done[w] # "none" =>
                              \A r \in rootDisk : w \notin r.dir \cup r.owned
      BY DEF OnAuthority
    <3>1. CASE store'[w] # store[w]
      BY <1>1, <3>1, LeavesChange, RecordsChange
    <3>2. CASE store'[w] = store[w]
      BY <1>1, <3>2, RecordsChange
    <3> QED
      BY <3>1, <3>2
  <2>2. Spec => []Inv
    BY <1>1, RemovalInvariant
  <2> QED
    BY <2>1, <2>2, PTL DEF Spec, ActsOnDurableAuthority
<1> QED
  BY <1>1

\* Who is told that the workers are removed finds no directory and no marker of
\* theirs after any power cut, whether or not the last completion was synced
\* (terminal retention of drive_with_operations).
THEOREM RetainedStaysRemoved == WorkerCleanupAssumption /\ Spec => RetainedIsRemoved
<1>1. ASSUME WorkerCleanupAssumption PROVE Spec => RetainedIsRemoved
  <2>1. Inv /\ [Next]_vars =>
           [step = "retained" => \A r \in rootDisk' : r.dir \cup r.owned = {}]_vars
    <3> SUFFICES ASSUME Inv, Next, step = "retained", NEW r \in rootDisk'
                 PROVE  r.dir \cup r.owned = {}
      OBVIOUS
    <3>1. r \in rootDisk
      BY DEF Next, Step, Open, Authorize, PublishAuthorization, Prepare, Convert, ConvertIntent,
             ReconcileIntent, SyncFound, RemoveLeaf, RemoveDirectory, StageDeletion, Absent,
             Complete, PublishCompletion, ConfirmCompletion, Retain,
             Trouble, Fail, Crash, PowerCut, disk
    <3>2. ShapeAt(root, Now) /\ Now \in 1..(Workers + 1) /\ Now > Workers
      BY <1>1, NowIs DEF Inv, Place
    <3>3. \A w \in Ordinals : root.done[w] = "canonical"
      BY <1>1, <3>2 DEF ShapeAt, Ordinals, WorkerCleanupAssumption
    <3> QED
      BY <3>1, <3>3 DEF Inv, Disks, Roots
  <2>2. Spec => []Inv
    BY <1>1, RemovalInvariant
  <2> QED
    BY <2>1, <2>2, PTL DEF Spec, RetainedIsRemoved
<1> QED
  BY <1>1
-----------------------------------------------------------------------------
(* The budget of a call.  At most three stages begin for each worker that is *)
(* left, one before them when the call starts with a conversion, and one at  *)
(* the end; Allowance is what that makes of a call over all workers.         *)
Left == Workers + 1 - Now
Allowance == 3 * Workers + 3

Staged ==
    /\ step = "down" => stage = "none"
    /\ step = "intent" => stage \in {"prepare", "convert"}
    /\ step \in {"reconcile_intent", "remove", "staging"} => stage = "prepare"
    /\ step = "confirm" => stage \in {"complete", "reconcile"}

Paid ==
    /\ used \in Nat
    /\ stage \in {"authorize", "advance"} => used + 3 * Left + 1 <= Allowance
    /\ stage = "prepare" => used + 3 * Left <= Allowance
    /\ stage = "convert" => used + 3 * Left + 2 <= Allowance
    /\ stage \in {"complete", "reconcile"} =>
          used + 3 * Left <= (IF step = "confirm" THEN Allowance - 2 ELSE Allowance + 1)
    /\ stage = "terminal" => used <= Allowance

BudgetInv == Staged /\ Paid /\ BudgetSuffices

LEMMA LeftIs ==
    ASSUME WorkerCleanupAssumption, Inv
    PROVE  /\ Left \in 0..Workers /\ Workers \in Nat
           /\ Now <= Workers => Left > 0
           /\ Now \in Ordinals => Left > 0
<1> QED BY NowIs DEF Inv, Left, WorkerCleanupAssumption, Ordinals

\* Only the completion that becomes canonical moves the frontier.
LEMMA FrontierStays ==
    ASSUME root'.done = root.done
    PROVE  Now' = Now /\ Left' = Left
BY DEF Now, Frontier, Left

LEMMA FrontierMoves ==
    ASSUME WorkerCleanupAssumption, Inv, Inv', Now \in Ordinals,
           root' = [root EXCEPT !.done[Now] = "canonical"]
    PROVE  Left' < Left
<1>1. ShapeAt(root, Now) /\ ShapeAt(root, Now)' /\ Now \in Ordinals /\ Now' \in 1..(Workers + 1)
  BY NowIs DEF Inv, Disks, Shape, ShapeAt, Now
<1>2. \A w \in Ordinals : w <= Now => root'.done[w] = "canonical"
  <2>1. root \in Roots
    BY DEF Inv, Disks
  <2>2. root'.done[Now] = "canonical" /\ \A w \in Ordinals : w # Now => root'.done[w] = root.done[w]
    BY <1>1, <2>1 DEF Roots
  <2>3. \A w \in Ordinals : w <= Now => w = Now \/ w < Now
    BY <1>1 DEF Ordinals, WorkerCleanupAssumption
  <2> QED BY <1>1, <2>2, <2>3 DEF ShapeAt
<1>3. Now' <= Workers => Now' \in Ordinals /\ root'.done[Now'] # "canonical"
  BY <1>1 DEF ShapeAt, Ordinals, WorkerCleanupAssumption
<1>4. Now' > Now
  BY <1>1, <1>2, <1>3 DEF Ordinals, WorkerCleanupAssumption
<1> QED BY <1>1, <1>4 DEF Left, Ordinals, WorkerCleanupAssumption

\* A stage that begins within the allowance begins within the budget.
LEMMA Begins ==
    ASSUME WorkerCleanupAssumption, NEW s, Begin(s), used \in Nat, used < Allowance
    PROVE  stage' = s /\ step' = "look" /\ used' = used + 1
BY DEF Begin, Budget, Allowance, WorkerCleanupAssumption

LEMMA AuthorizePays == WorkerCleanupAssumption /\ Inv /\ BudgetInv /\ Authorize => BudgetInv'
<1> SUFFICES ASSUME WorkerCleanupAssumption, Inv, BudgetInv, Authorize PROVE BudgetInv'
  OBVIOUS
<1>1. Left' = Left /\ Left \in 0..Workers /\ Workers \in Nat /\ (Now <= Workers => Left > 0)
  BY FrontierStays, LeftIs DEF Authorize, disk
<1>2. used \in Nat /\ used + 3 * Left + 1 <= Allowance /\ used < Allowance
  BY <1>1 DEF Authorize, BudgetInv, Paid, Allowance
<1>3. CASE Goto("publish")
  BY <1>1, <1>3 DEF Goto, BudgetInv, Staged, Paid, BudgetSuffices, Authorize, Allowance
<1>4. CASE ~Goto("publish")
  <2>1. \/ Begin("terminal")
        \/ Now <= Workers /\ Begin("reconcile")
    BY <1>4 DEF Authorize, Enter
  <2>2. \/ stage' = "terminal" /\ step' = "look" /\ used' = used + 1
        \/ Now <= Workers /\ stage' = "reconcile" /\ step' = "look" /\ used' = used + 1
    BY <2>1, <1>2, Begins
  <2> QED BY <1>1, <1>2, <2>2 DEF BudgetInv, Staged, Paid, BudgetSuffices, Allowance
<1> QED BY <1>3, <1>4

LEMMA StayPays ==
    ASSUME BudgetInv, Left' = Left, Stay
    PROVE  BudgetInv'
BY DEF Stay, BudgetInv, Staged, Paid, BudgetSuffices, Allowance

LEMMA PublishAuthorizationPays ==
    WorkerCleanupAssumption /\ Inv /\ BudgetInv /\ PublishAuthorization => BudgetInv'
<1> SUFFICES ASSUME WorkerCleanupAssumption, Inv, BudgetInv, PublishAuthorization PROVE BudgetInv'
  OBVIOUS
<1>0. root \in Roots BY DEF Inv, Disks
<1>1. root'.done = root.done
  BY <1>0 DEF PublishAuthorization, Root, SyncRoot, disk, Roots
<1>2. Left' = Left /\ Left \in 0..Workers /\ Workers \in Nat
  BY <1>1, FrontierStays, LeftIs
<1>3. CASE Stay
  BY <1>2, <1>3, StayPays
<1>4. CASE ~Stay
  <2>1. Begin("prepare")
    BY <1>4 DEF PublishAuthorization
  <2>2. used \in Nat /\ used + 3 * Left + 1 <= Allowance /\ used < Allowance
    BY <1>2 DEF PublishAuthorization, BudgetInv, Paid, Allowance
  <2>3. stage' = "prepare" /\ step' = "look" /\ used' = used + 1
    BY <2>1, <2>2, Begins
  <2> QED BY <1>2, <2>2, <2>3 DEF BudgetInv, Staged, Paid, BudgetSuffices, Allowance
<1> QED BY <1>3, <1>4

LEMMA RootSame ==
    ASSUME Open \/ Prepare \/ Convert \/ ConvertIntent \/ ReconcileIntent \/ SyncFound
           \/ RemoveLeaf \/ StageDeletion \/ Absent \/ Complete \/ ConfirmCompletion \/ Retain
           \/ Fail \/ Crash
    PROVE  root' = root
BY DEF Open, Prepare, Convert, ConvertIntent, ReconcileIntent, SyncFound, RemoveLeaf,
       StageDeletion, Absent, Complete, ConfirmCompletion, Retain, Fail, Crash,
       disk, SyncRoot, SyncStore, Leaves

LEMMA BeginningsPay ==
    WorkerCleanupAssumption /\ Inv /\ BudgetInv
      /\ (Open \/ Prepare \/ Convert \/ Complete \/ Retain) => BudgetInv'
<1> SUFFICES ASSUME WorkerCleanupAssumption, Inv, BudgetInv,
                    Open \/ Prepare \/ Convert \/ Complete \/ Retain
             PROVE  BudgetInv'
  OBVIOUS
<1>1. Left' = Left /\ Left \in 0..Workers /\ Workers \in Nat
  BY FrontierStays, LeftIs, RootSame
<1>2. CASE Open
  BY <1>1, <1>2 DEF Open, BudgetInv, Staged, Paid, BudgetSuffices, Allowance
<1>3. CASE Prepare
  <2>1. stage' = stage /\ used' = used /\ stage = "prepare"
        /\ step' \in {"intent", "reconcile_intent", "refused", "remove"}
    BY <1>3 DEF Prepare, Goto
  <2> QED BY <1>1, <2>1 DEF BudgetInv, Staged, Paid, BudgetSuffices, Allowance
<1>4. CASE Convert
  BY <1>1, <1>4 DEF Convert, Goto, BudgetInv, Staged, Paid, BudgetSuffices, Allowance
<1>5. CASE Complete
  BY <1>1, <1>5 DEF Complete, Goto, BudgetInv, Staged, Paid, BudgetSuffices, Allowance
<1>6. CASE Retain
  BY <1>1, <1>6 DEF Retain, Goto, BudgetInv, Staged, Paid, BudgetSuffices, Allowance
<1> QED BY <1>2, <1>3, <1>4, <1>5, <1>6

LEMMA IntentsPay ==
    WorkerCleanupAssumption /\ Inv /\ BudgetInv /\ (ConvertIntent \/ ReconcileIntent) => BudgetInv'
<1> SUFFICES ASSUME WorkerCleanupAssumption, Inv, BudgetInv, ConvertIntent \/ ReconcileIntent
             PROVE  BudgetInv'
  OBVIOUS
<1>1. Left' = Left /\ Left \in 0..Workers /\ Workers \in Nat
  BY FrontierStays, LeftIs, RootSame
<1>2. CASE Stay
  BY <1>1, <1>2, StayPays
<1>3. CASE Goto("remove") /\ stage = "prepare"
  BY <1>1, <1>3 DEF Goto, BudgetInv, Staged, Paid, BudgetSuffices, Allowance
<1>4. CASE Begin("authorize") /\ stage = "convert"
  <2>1. used \in Nat /\ used + 3 * Left + 2 <= Allowance /\ used < Allowance
    BY <1>1, <1>4 DEF BudgetInv, Paid, Allowance
  <2>2. stage' = "authorize" /\ step' = "look" /\ used' = used + 1
    BY <1>4, <2>1, Begins
  <2> QED BY <1>1, <2>1, <2>2 DEF BudgetInv, Staged, Paid, BudgetSuffices, Allowance
<1>5. \/ Stay
      \/ Goto("remove") /\ stage = "prepare"
      \/ Begin("authorize") /\ stage = "convert"
  <2>1. CASE ConvertIntent
    BY <2>1 DEF ConvertIntent, Converted, Enter, BudgetInv, Staged
  <2>2. CASE ReconcileIntent
    BY <2>2 DEF ReconcileIntent, BudgetInv, Staged
  <2> QED BY <2>1, <2>2
<1> QED BY <1>2, <1>3, <1>4, <1>5

LEMMA RemovalsPay ==
    WorkerCleanupAssumption /\ Inv /\ BudgetInv
      /\ (SyncFound \/ RemoveLeaf \/ RemoveDirectory \/ StageDeletion \/ Absent) => BudgetInv'
<1> SUFFICES ASSUME WorkerCleanupAssumption, Inv, BudgetInv,
                    SyncFound \/ RemoveLeaf \/ RemoveDirectory \/ StageDeletion \/ Absent
             PROVE  BudgetInv'
  OBVIOUS
<1>0. root \in Roots BY DEF Inv, Disks
<1>1. root'.done = root.done
  <2>1. CASE RemoveDirectory
    BY <1>0, <2>1 DEF RemoveDirectory, Root, Roots
  <2> QED BY <2>1, RootSame
<1>2. Left' = Left /\ Left \in 0..Workers /\ Workers \in Nat
  BY <1>1, FrontierStays, LeftIs
<1>3. CASE SyncFound \/ RemoveLeaf \/ RemoveDirectory
  BY <1>2, <1>3, StayPays DEF SyncFound, RemoveLeaf, RemoveDirectory
<1>4. CASE StageDeletion
  BY <1>2, <1>4 DEF StageDeletion, Stay, Goto, BudgetInv, Staged, Paid, BudgetSuffices, Allowance
<1>5. CASE Absent
  <2>1. used \in Nat /\ used + 3 * Left <= Allowance /\ Left > 0
    BY <1>2, <1>5, LeftIs DEF Absent, BudgetInv, Staged, Paid, Inv, Place, Authorized
  <2>2. used < Allowance /\ Begin("complete")
    BY <1>2, <1>5, <2>1 DEF Allowance, Absent, Enter
  <2>3. stage' = "complete" /\ step' = "look" /\ used' = used + 1
    BY <2>1, <2>2, Begins
  <2> QED BY <1>2, <2>1, <2>3 DEF BudgetInv, Staged, Paid, BudgetSuffices, Allowance
<1> QED BY <1>3, <1>4, <1>5

LEMMA CompletionsPay ==
    WorkerCleanupAssumption /\ Inv /\ Inv' /\ BudgetInv
      /\ (PublishCompletion \/ ConfirmCompletion) => BudgetInv'
<1> SUFFICES ASSUME WorkerCleanupAssumption, Inv, Inv', BudgetInv,
                    PublishCompletion \/ ConfirmCompletion
             PROVE  BudgetInv'
  OBVIOUS
<1>0. Left \in 0..Workers /\ Left' \in 0..Workers /\ Workers \in Nat
  <2>1. Now' \in 1..(Workers + 1)
    BY DEF Inv, Disks, Shape, ShapeAt, Now
  <2> QED BY <2>1, LeftIs DEF Left
<1>1. CASE PublishCompletion /\ Stay
  <2>0. Gone BY <1>1 DEF PublishCompletion, Inv, Place
  <2>1. CASE root' = root
    BY <1>1, <2>1, FrontierStays, StayPays
  <2>2. CASE root.done[Now] \in {"none", "torn"} /\
             Root([root EXCEPT !.done[Now] = Filled(root.done[Now])])
    <3>1. Filled(root.done[Now]) \in States \ {"none"} /\ Filled(root.done[Now]) # "canonical"
      BY DEF Filled, States
    <3>2. Now' = Now
      BY <2>0, <2>2, <3>1, CompletionWritten DEF Inv
    <3> QED BY <1>1, <3>2, StayPays DEF Left
  <2> QED BY <1>1, <2>1, <2>2 DEF PublishCompletion, SyncRoot, Stay, Goto
<1>2. CASE PublishCompletion /\ ~Stay
  <2>1. Now \in Ordinals /\ stage \in {"complete", "reconcile"} /\ step = "publish"
        /\ root' = [root EXCEPT !.done[Now] = "canonical"] /\ Goto("confirm")
    BY <1>2 DEF PublishCompletion, Root, Inv, Place, Gone
  <2>2. Left' < Left
    BY <2>1, FrontierMoves
  <2> QED BY <1>0, <2>1, <2>2 DEF Goto, BudgetInv, Staged, Paid, BudgetSuffices, Allowance
<1>3. CASE ConfirmCompletion
  <2>1. Left' = Left
    BY <1>3, RootSame, FrontierStays
  <2>2. used \in Nat /\ used + 3 * Left <= Allowance - 2 /\ Begin("advance")
    BY <1>3 DEF ConfirmCompletion, Enter, BudgetInv, Staged, Paid
  <2>3. stage' = "advance" /\ step' = "look" /\ used' = used + 1
    BY <1>0, <2>2, Begins DEF Allowance
  <2> QED BY <1>0, <2>1, <2>2, <2>3 DEF BudgetInv, Staged, Paid, BudgetSuffices, Allowance
<1> QED BY <1>1, <1>2, <1>3

LEMMA TroublesPay == WorkerCleanupAssumption /\ Inv /\ BudgetInv /\ Trouble => BudgetInv'
<1> SUFFICES ASSUME WorkerCleanupAssumption, Inv, BudgetInv, Trouble PROVE BudgetInv'
  OBVIOUS
<1>1. CASE PowerCut \/ Cold
  BY <1>1 DEF PowerCut, Cold, BudgetInv, Staged, Paid, BudgetSuffices
<1>2. CASE Fail /\ ~Cold
  <2>1. Left' = Left /\ Left \in 0..Workers /\ Workers \in Nat /\ (Now \in Ordinals => Left > 0)
    BY <1>2, FrontierStays, LeftIs, RootSame
  <2>2. CASE \E s \in {"authorize", "advance", "complete", "convert"} : Retry(s)
    BY <2>1, <2>2 DEF Retry, BudgetInv, Staged, Paid, BudgetSuffices, Allowance
  <2>3. CASE stage = "prepare" /\ step' = "reconcile_intent" /\ UNCHANGED <<stage, used>>
    BY <2>1, <2>3 DEF BudgetInv, Staged, Paid, BudgetSuffices, Allowance
  <2>4. CASE Begin("authorize") /\ stage = "convert"
    <3>1. used \in Nat /\ used + 3 * Left + 2 <= Allowance /\ used < Allowance
      BY <2>1, <2>4 DEF BudgetInv, Paid, Allowance
    <3>2. stage' = "authorize" /\ step' = "look" /\ used' = used + 1
      BY <2>4, <3>1, Begins
    <3> QED BY <2>1, <3>1, <3>2 DEF BudgetInv, Staged, Paid, BudgetSuffices, Allowance
  <2> QED BY <1>2, <2>2, <2>3, <2>4 DEF Fail, BudgetInv, Staged
<1> QED BY <1>1, <1>2 DEF Trouble, Crash

\* No call runs out of the stages that transition_budget_for grants it, from
\* whatever stage it was started and however often it was retried.
THEOREM BudgetIsEnough == WorkerCleanupAssumption /\ Spec => []BudgetSuffices
<1>1. ASSUME WorkerCleanupAssumption PROVE Spec => []BudgetSuffices
  <2>1. Init => BudgetInv
    BY DEF Init, BudgetInv, Staged, Paid, BudgetSuffices
  <2>2. Inv /\ Inv' /\ BudgetInv /\ [Next]_vars => BudgetInv'
    <3> SUFFICES ASSUME Inv, Inv', BudgetInv, [Next]_vars PROVE BudgetInv'
      OBVIOUS
    <3>1. CASE UNCHANGED vars
      BY <3>1 DEF vars, disk, BudgetInv, Staged, Paid, BudgetSuffices, Left, Now, Frontier,
                  Allowance
    <3>2. CASE Step
      BY <1>1, <3>2, AuthorizePays, PublishAuthorizationPays, BeginningsPay, IntentsPay,
         RemovalsPay, CompletionsPay DEF Step
    <3> QED BY <1>1, <3>1, <3>2, TroublesPay DEF Next
  <2>3. Spec => []Inv
    BY <1>1, RemovalInvariant
  <2>4. BudgetInv => BudgetSuffices
    BY DEF BudgetInv
  <2> QED BY <2>1, <2>2, <2>3, <2>4, PTL DEF Spec
<1> QED
  BY <1>1
=============================================================================

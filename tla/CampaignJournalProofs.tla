------------------------ MODULE CampaignJournalProofs ------------------------
(***************************************************************************)
(* What CampaignJournal promises, for any number of slots.                  *)
(*                                                                         *)
(* The invariant is Core /\ Stage.  Core says of the two directories that   *)
(* every leaf rests on leaves that are whole and durable: a start on every  *)
(* slot before it, a close and an artifact on the start, a commit on the    *)
(* artifacts, the record of the gate on the whole campaign.  What rests on  *)
(* durable leaves cannot be left hanging by a power cut, so that the next   *)
(* open accepts it, and what was started or reported is among the durable   *)
(* leaves, which no step changes.  Stage says what the holder of the lock   *)
(* has established at each of its steps.                                    *)
(***************************************************************************)
EXTENDS CampaignJournal, TLAPS

Contents == {"none", "empty", "torn", "whole", "commit", "taint"}

Settled(ls) == \A l \in ls : l \in sure /\ Intact(leaf, l)

Basis(l) ==
    IF l = Gate THEN Prefix(Slots)
    ELSE IF l[1] = 0 THEN {}
    ELSE IF l[2] = "start" THEN Prefix(l[1] - 1) ELSE {Start(l[1])}

Shape ==
    /\ leaf \in [Leaves -> Contents]
    /\ sure \subseteq Leaves /\ told \subseteq Leaves
    /\ launched \in [1..Slots -> {0, 1}]
    /\ \A l \in sure : leaf[l] # "none"
    /\ \A l \in Leaves :
        /\ leaf[l] \in {"commit", "taint"} => l[2] = "close"
        /\ leaf[l] = "whole" => l[2] # "close"
        /\ leaf[l] = "empty" => IsArtifact(l)

Rests == \A l \in Leaves : Has(leaf, l) => Settled(Basis(l))

Commits ==
    /\ \A s \in 1..Slots : Has(leaf, Start(s)) => \A r \in 1..(s - 1) : leaf[Close(r)] = "commit"
    /\ Has(leaf, Gate) => \A r \in 1..Slots : leaf[Close(r)] = "commit"
    /\ \A s \in 1..Slots : leaf[Close(s)] = "commit" =>
        launched[s] = 1 /\ Settled({<<s, a>> : a \in Artifacts})

Spent == \A s \in 1..Slots : launched[s] = 1 => Settled({Start(s)})

Core == Shape /\ Rests /\ Commits /\ Spent /\ Settled(told)

Running == Artifacts \cup {"active", "commit", "settle"}

\* The artifacts that are published when the runner is at step p.
Published(p) ==
    IF p = "stderr" THEN {"stdout"}
    ELSE IF p = "joined" THEN {"stdout", "stderr"}
    ELSE IF p \in {"commit", "settle"} THEN Artifacts ELSE {}

Holding ==
    /\ slot \in 1..(Slots + 1)
    /\ \A r \in 1..(slot - 1) : leaf[Close(r)] = "commit"
    /\ leaf[Lock] = "whole"
    /\ pc # "taint" => Admitted(leaf)
    /\ prefixSure => Settled(Prefix(slot - 1))
    /\ startSure => slot \in 1..Slots /\ Settled(Prefix(slot - 1) \cup {Start(slot)})

AtStart ==
    /\ slot \in 1..Slots /\ prefixSure
    /\ leaf[Start(slot)] = "none"

AtRun ==
    /\ slot \in 1..Slots /\ startSure
    /\ leaf[Close(slot)] = IF pc = "settle" THEN "commit" ELSE "none"
    /\ launched[slot] = IF pc = "active" THEN 0 ELSE 1
    /\ \A a \in Artifacts :
        IF a \in Published(pc) THEN Settled({<<slot, a>>}) ELSE leaf[<<slot, a>>] = "none"

AtTaint ==
    /\ slot \in 1..Slots /\ leaf[Close(slot)] = "none"
    /\ \A l \in Prefix(slot - 1) \cup {Start(slot)} : Intact(leaf, l)

AtGate == slot = Slots + 1 /\ Settled(Prefix(Slots))

Stage ==
    /\ pc \in {"idle", "opened", "start", "taint", "gate"} \cup Running
    /\ pc # "idle" => Holding
    /\ pc = "start" => AtStart
    /\ pc \in Running => AtRun
    /\ pc = "taint" => AtTaint
    /\ pc = "gate" => AtGate

IInv == Core /\ Stage

-----------------------------------------------------------------------------
\* The leaves of the slots are leaves, and nothing else is.
LEMMA LeafFacts ==
    /\ Lock \in Leaves /\ Header \in Leaves /\ Gate \in Leaves
    /\ \A s \in 1..Slots : Start(s) \in Leaves /\ Close(s) \in Leaves
    /\ \A s \in 1..Slots, a \in Artifacts : <<s, a>> \in Leaves
    /\ \A l \in Leaves : \/ l \in {Lock, Header, Gate}
                         \/ \E s \in 1..Slots : l \in {Start(s), Close(s)}
                         \/ \E s \in 1..Slots, a \in Artifacts : l = <<s, a>>
<1>1. Lock \in Leaves /\ Header \in Leaves /\ Gate \in Leaves
  BY DEF Leaves
<1>2. \A s \in 1..Slots : Start(s) \in Leaves /\ Close(s) \in Leaves
  BY DEF Leaves, Start, Close
<1>3. \A s \in 1..Slots, a \in Artifacts : <<s, a>> \in Leaves
  BY DEF Leaves
<1>4. ASSUME NEW l \in Leaves
      PROVE  \/ l \in {Lock, Header, Gate}
             \/ \E s \in 1..Slots : l \in {Start(s), Close(s)}
             \/ \E s \in 1..Slots, a \in Artifacts : l = <<s, a>>
  BY DEF Leaves, Start, Close
<1>. QED BY <1>1, <1>2, <1>3, <1>4

\* Slots are committed in order: one more slot is one more start, close and
\* set of artifacts.
LEMMA PrefixStep ==
    ASSUME JournalAssumption, NEW n \in 1..Slots
    PROVE  /\ Prefix(n) \subseteq Leaves
           /\ Prefix(n - 1) \subseteq Leaves
           /\ \A l \in Prefix(n) : \/ l \in Prefix(n - 1) \/ l = Start(n) \/ l = Close(n)
                                   \/ \E a \in Artifacts : l = <<n, a>>
<1>1. Prefix(n) \subseteq Leaves /\ Prefix(n - 1) \subseteq Leaves
  BY LeafFacts DEF Prefix
<1>2. ASSUME NEW l \in Prefix(n), l \notin Prefix(n - 1)
      PROVE  l = Start(n) \/ l = Close(n) \/ \E a \in Artifacts : l = <<n, a>>
  <2>1. l \in Leaves /\ l[1] \in 1..n /\ l[1] \notin 1..(n - 1)
    BY <1>2 DEF Prefix
  <2>2. l[1] = n
    BY <2>1, JournalAssumption DEF JournalAssumption
  <2>3. PICK s \in 1..Slots : l = Start(s) \/ l = Close(s) \/ \E a \in Artifacts : l = <<s, a>>
    BY <2>1, LeafFacts DEF Lock, Header, Gate
  <2>4. s = n
    BY <2>2, <2>3 DEF Start, Close
  <2>. QED BY <2>3, <2>4
<1>. QED BY <1>1, <1>2

LEMMA PrefixLeaves ==
    ASSUME NEW n PROVE Prefix(n) \subseteq Leaves
BY LeafFacts DEF Prefix

-----------------------------------------------------------------------------
\* What an open has accepted is whole: every leaf of its committed slots.
LEMMA AdmittedIntact ==
    ASSUME JournalAssumption, Shape, Admitted(leaf), NEW n \in 0..Slots, Has(leaf, Header),
           \A s \in 1..n : leaf[Close(s)] = "commit"
    PROVE  \A l \in Prefix(n) : Intact(leaf, l)
<1>1. \A l \in Leaves : Has(leaf, l) /\ ~IsArtifact(l) => Intact(leaf, l)
  BY DEF Shape, Admitted, Broken, Has, Intact, Contents, IsArtifact, Artifacts
<1>2. Intact(leaf, Lock) /\ Intact(leaf, Header)
  <2>1. ~IsArtifact(Header)
    BY DEF IsArtifact, Header, Artifacts
  <2>. QED BY <1>1, <2>1, LeafFacts DEF Admitted, Intact
<1>3. ASSUME NEW l \in Prefix(n), l # Lock, l # Header PROVE Intact(leaf, l)
  <2>1. l \in Leaves /\ l[1] \in 1..n
    BY <1>3 DEF Prefix
  <2>2. PICK s \in 1..Slots : l = Start(s) \/ l = Close(s) \/ \E a \in Artifacts : l = <<s, a>>
    BY <2>1, LeafFacts DEF Lock, Header, Gate
  <2>3. s \in 1..n
    BY <2>1, <2>2 DEF Start, Close
  <2>4. leaf[Close(s)] = "commit"
    BY <2>3
  <2>5. CASE l = Start(s)
    <3>1. Has(leaf, Start(s))
      BY <2>4 DEF Admitted, Replayed, Has
    <3>2. ~IsArtifact(Start(s))
      BY DEF IsArtifact, Start, Artifacts
    <3>. QED BY <1>1, <2>1, <2>5, <3>1, <3>2
  <2>6. CASE l = Close(s)
    BY <2>4, <2>6 DEF Intact
  <2>7. ASSUME NEW a \in Artifacts, l = <<s, a>> PROVE Intact(leaf, l)
    BY <2>4, <2>7 DEF Admitted, Consistent, Intact
  <2>. QED BY <2>2, <2>5, <2>6, <2>7
<1>. QED BY <1>2, <1>3

\* Every leaf that rests on durable leaves is one the next open accepts.
LEMMA CoreAdmits ==
    ASSUME JournalAssumption, Core PROVE Replayed(leaf) /\ Consistent(leaf)
<1>1. ASSUME NEW s \in 1..Slots, Has(leaf, Start(s))
      PROVE  IF s = 1 THEN Has(leaf, Header) ELSE leaf[Close(s - 1)] = "commit"
  <2>1. Basis(Start(s)) = Prefix(s - 1)
    BY DEF Basis, Start, Gate
  <2>2. Header \in sure
    BY <1>1, <2>1, LeafFacts DEF Core, Rests, Settled, Prefix
  <2>3. Has(leaf, Header)
    BY <2>2 DEF Core, Shape, Has
  <2>4. s # 1 => leaf[Close(s - 1)] = "commit"
    BY <1>1 DEF Core, Commits
  <2>. QED BY <2>3, <2>4
<1>2. ASSUME NEW s \in 1..Slots, NEW l \in Leaves, Has(leaf, l),
             l = Close(s) \/ \E a \in Artifacts : l = <<s, a>>
      PROVE  Has(leaf, Start(s))
  <2>1. Basis(l) = {Start(s)}
    BY <1>2 DEF Basis, Close, Gate, Artifacts
  <2>2. Start(s) \in sure
    BY <1>2, <2>1 DEF Core, Rests, Settled
  <2>. QED BY <2>2 DEF Core, Shape, Has
<1>3. Has(leaf, Gate) => leaf[Close(Slots)] = "commit"
  BY JournalAssumption DEF Core, Commits, JournalAssumption
<1>4. ASSUME NEW s \in 1..Slots, NEW a \in Artifacts, leaf[Close(s)] = "commit"
      PROVE  leaf[<<s, a>>] = "whole"
  <2>1. Intact(leaf, <<s, a>>)
    BY <1>4 DEF Core, Commits, Settled
  <2>2. <<s, a>>[2] # "close"
    BY DEF Artifacts
  <2>. QED BY <2>1, <2>2, LeafFacts DEF Core, Shape, Intact
<1>5. Replayed(leaf)
  BY <1>1, <1>2, <1>3, LeafFacts DEF Replayed
<1>6. Consistent(leaf)
  BY <1>2, <1>4, LeafFacts DEF Consistent
<1>. QED BY <1>5, <1>6

-----------------------------------------------------------------------------
\* A step that keeps what is durable and adds a leaf only where its basis is
\* settled keeps Core.
Ordered(l) ==
    /\ \A s \in 1..Slots : l = Start(s) => \A r \in 1..(s - 1) : leaf[Close(r)] = "commit"
    /\ l = Gate => \A r \in 1..Slots : leaf[Close(r)] = "commit"

SureKept == \A l \in sure : l \in sure' /\ leaf'[l] = leaf[l]

LEMMA Grow ==
    ASSUME JournalAssumption, Core, Shape', SureKept,
           \A l \in Leaves : Has(leaf', l) => Has(leaf, l) \/ (Settled(Basis(l)) /\ Ordered(l)),
           \A s \in 1..Slots : leaf'[Close(s)] = "commit" =>
               \/ leaf[Close(s)] = "commit"
               \/ launched[s] = 1 /\ Settled({<<s, a>> : a \in Artifacts}),
           \A s \in 1..Slots : launched'[s] = 1 => launched[s] = 1 \/ Settled({Start(s)}),
           \A s \in 1..Slots : launched[s] = 1 => launched'[s] = 1,
           \A l \in told' : l \in told \/ (l \in sure' /\ Intact(leaf', l))
    PROVE  Core'
<1>1. ASSUME NEW l \in Leaves, l \in sure, Intact(leaf, l)
      PROVE  l \in sure' /\ Intact(leaf', l)
  BY <1>1 DEF SureKept, Intact
<1>2. ASSUME NEW l \in Leaves, Has(leaf', l)
      PROVE  Settled(Basis(l)) /\ Ordered(l)
  <2>1. CASE Has(leaf, l)
    <3>1. Settled(Basis(l))
      BY <2>1 DEF Core, Rests
    <3>2. Ordered(l)
      BY <2>1 DEF Core, Commits, Ordered
    <3>. QED BY <3>1, <3>2
  <2>. QED BY <1>2, <2>1
<1>3. \A l \in Leaves : Basis(l) \subseteq Leaves
  <2>1. ASSUME NEW l \in Leaves PROVE Basis(l) \subseteq Leaves
    <3>1. CASE l \in {Lock, Header, Gate}
      BY <3>1, PrefixLeaves DEF Basis, Lock, Header, Gate
    <3>2. ASSUME NEW s \in 1..Slots,
                 l \in {Start(s), Close(s)} \/ \E a \in Artifacts : l = <<s, a>>
          PROVE  Basis(l) \subseteq Leaves
      <4>1. l[1] = s
        BY <3>2 DEF Start, Close
      <4>. QED BY <4>1, PrefixLeaves, LeafFacts DEF Basis
    <3>. QED BY <3>1, <3>2, LeafFacts
  <2>. QED BY <2>1
<1>4. Rests'
  <2>1. ASSUME NEW l \in Leaves, Has(leaf', l), NEW m \in Basis(l)
        PROVE  m \in sure' /\ Intact(leaf', m)
    BY <1>1, <1>2, <1>3, <2>1 DEF Settled
  <2>. QED BY <2>1 DEF Rests, Settled
<1>5. ASSUME NEW s \in 1..(Slots + 1), NEW r \in 1..(s - 1), Settled(Prefix(s - 1)),
             leaf[Close(r)] = "commit"
      PROVE  leaf'[Close(r)] = "commit"
  <2>1. r \in 1..Slots
    BY JournalAssumption DEF JournalAssumption
  <2>2. Close(r) \in Prefix(s - 1)
    BY <2>1, LeafFacts DEF Prefix, Close
  <2>. QED BY <1>5, <2>2 DEF Settled, SureKept
<1>6. ASSUME NEW s \in 1..Slots, Has(leaf', Start(s)), NEW r \in 1..(s - 1)
      PROVE  leaf'[Close(r)] = "commit"
  <2>1. Settled(Basis(Start(s))) /\ Ordered(Start(s))
    BY <1>2, <1>6, LeafFacts
  <2>2. Basis(Start(s)) = Prefix(s - 1)
    BY DEF Basis, Start, Gate
  <2>3. leaf[Close(r)] = "commit"
    BY <2>1 DEF Ordered
  <2>4. s \in 1..(Slots + 1)
    BY JournalAssumption DEF JournalAssumption
  <2>. QED BY <1>5, <2>1, <2>2, <2>3, <2>4
<1>7. ASSUME Has(leaf', Gate), NEW r \in 1..Slots
      PROVE  leaf'[Close(r)] = "commit"
  <2>1. Settled(Basis(Gate)) /\ Ordered(Gate)
    BY <1>2, <1>7, LeafFacts
  <2>2. Basis(Gate) = Prefix(Slots)
    BY DEF Basis
  <2>3. leaf[Close(r)] = "commit"
    BY <2>1 DEF Ordered
  <2>4. Slots + 1 \in 1..(Slots + 1) /\ (Slots + 1) - 1 = Slots
    BY JournalAssumption DEF JournalAssumption
  <2>5. Settled(Prefix((Slots + 1) - 1)) /\ r \in 1..((Slots + 1) - 1)
    BY <2>1, <2>2, <2>4
  <2>. QED BY <1>5, <2>3, <2>4, <2>5
<1>8. ASSUME NEW s \in 1..Slots, leaf'[Close(s)] = "commit"
      PROVE  launched'[s] = 1 /\ Settled({<<s, a>> : a \in Artifacts})'
  <2>1. launched[s] = 1 /\ Settled({<<s, a>> : a \in Artifacts})
    BY <1>8 DEF Core, Commits
  <2>. QED BY <1>1, <2>1, LeafFacts DEF Settled
<1>9. Commits'
  BY <1>6, <1>7, <1>8 DEF Commits
<1>10. Spent'
  <2>1. ASSUME NEW s \in 1..Slots, launched'[s] = 1
        PROVE  Start(s) \in sure' /\ Intact(leaf', Start(s))
    <3>1. Settled({Start(s)})
      BY <2>1 DEF Core, Spent
    <3>. QED BY <1>1, <3>1, LeafFacts DEF Settled
  <2>. QED BY <2>1 DEF Spent, Settled
<1>11. Settled(told)'
  BY <1>1 DEF Core, Shape, Settled
<1>. QED BY <1>4, <1>9, <1>10, <1>11 DEF Core

\* A publication, whether it succeeds or leaves its debris.
LEMMA Write ==
    ASSUME JournalAssumption, Core, leaf[Lock] = "whole",
           NEW l \in Leaves, l # Lock, leaf[l] = "none",
           NEW c \in {"whole", "commit", "taint"}, c = "whole" <=> l[2] # "close",
           Durable(l, c) \/ NotDurable(l, c),
           Settled(Basis(l)), Ordered(l),
           \A s \in 1..Slots : l = Close(s) /\ c = "commit" =>
               launched[s] = 1 /\ Settled({<<s, a>> : a \in Artifacts}),
           launched' = launched, told' \subseteq Leaves,
           \A m \in told' : m \in told \/ (m \in sure' /\ Intact(leaf', m))
    PROVE  /\ Core' /\ SureKept
           /\ \A m \in Leaves : m # l => leaf'[m] = leaf[m]
<1>1. PICK b \in {"none", c} \cup Debris(l) : leaf' = [leaf EXCEPT ![l] = b]
  BY DEF Durable, NotDurable
<1>2. leaf' \in [Leaves -> Contents] /\ leaf'[l] = b
      /\ \A m \in Leaves : m # l => leaf'[m] = leaf[m]
  BY <1>1 DEF Core, Shape, Contents, Debris
<1>3. sure \subseteq sure' /\ sure' \subseteq sure \cup {l, Lock}
  BY DEF Durable, NotDurable
<1>4. l \in sure' => l \in sure \/ leaf'[l] = c
  <2>1. CASE Durable(l, c)
    BY <2>1, <1>2 DEF Durable, Core, Shape
  <2>2. CASE NotDurable(l, c)
    BY <2>2 DEF NotDurable
  <2>. QED BY <2>1, <2>2
<1>5. l \notin sure
  BY DEF Core, Shape
<1>6. SureKept
  BY <1>2, <1>3, <1>5 DEF SureKept, Core, Shape
<1>7. Shape'
  <2>1. sure' \subseteq Leaves
    BY <1>3, LeafFacts DEF Core, Shape
  <2>2. \A m \in sure' : leaf'[m] # "none"
    BY <1>2, <1>3, <1>4, <1>5, LeafFacts DEF Core, Shape
  <2>3. ASSUME NEW m \in Leaves
        PROVE  /\ leaf'[m] \in {"commit", "taint"} => m[2] = "close"
               /\ leaf'[m] = "whole" => m[2] # "close"
               /\ leaf'[m] = "empty" => IsArtifact(m)
    <3>1. CASE m = l
      <4>1. leaf'[m] \in {"none", c} \cup Debris(l)
        BY <1>2, <3>1
      <4>. QED BY <3>1, <4>1 DEF Debris
    <3>2. CASE m # l
      BY <1>2, <3>2 DEF Core, Shape
    <3>. QED BY <3>1, <3>2
  <2>. QED BY <1>2, <2>1, <2>2, <2>3 DEF Core, Shape
<1>8. \A m \in Leaves : Has(leaf', m) => Has(leaf, m) \/ (Settled(Basis(m)) /\ Ordered(m))
  BY <1>2 DEF Has
<1>9. ASSUME NEW s \in 1..Slots, leaf'[Close(s)] = "commit", leaf[Close(s)] # "commit"
      PROVE  launched[s] = 1 /\ Settled({<<s, a>> : a \in Artifacts})
  <2>1. Close(s) = l
    BY <1>2, <1>9, LeafFacts
  <2>2. b = "commit"
    BY <1>2, <1>9, <2>1
  <2>3. c = "commit"
    BY <2>2 DEF Debris
  <2>. QED BY <2>1, <2>3
<1>. QED BY Grow, <1>2, <1>6, <1>7, <1>8, <1>9

\* A confirmation: whole leaves become durable.
LEMMA Confirm ==
    ASSUME JournalAssumption, Core, leaf[Lock] = "whole",
           NEW ls \in SUBSET Leaves, Synced(ls), \A m \in ls : Intact(leaf, m),
           leaf' = leaf, launched' = launched, told' \subseteq told \cup ls \cup {Lock}
    PROVE  Core' /\ SureKept /\ \A m \in ls : m \in sure' /\ Intact(leaf', m)
<1>1. sure' = sure \cup ls \cup {Lock}
  BY DEF Synced
<1>2. SureKept
  BY <1>1 DEF SureKept
<1>3. \A m \in ls \cup {Lock} : m \in sure' /\ Intact(leaf', m)
  BY <1>1 DEF Intact
<1>4. told' \subseteq Leaves
  BY LeafFacts DEF Core, Shape
<1>5. Shape'
  BY <1>1, <1>3, <1>4, LeafFacts DEF Core, Shape, Intact
<1>6. \A m \in told' : m \in told \/ (m \in sure' /\ Intact(leaf', m))
  BY <1>3
<1>7. \A s \in 1..Slots : leaf'[Close(s)] = "commit" =>
               \/ leaf[Close(s)] = "commit"
               \/ launched[s] = 1 /\ Settled({<<s, a>> : a \in Artifacts})
  OBVIOUS
<1>8. Core'
  BY Grow, <1>2, <1>5, <1>6, <1>7
<1>. QED BY <1>2, <1>3, <1>8

-----------------------------------------------------------------------------
\* The steps that touch no leaf, and the end of a call.
LEMMA Still ==
    ASSUME Core, UNCHANGED <<leaf, sure, launched, told>>
    PROVE  Core' /\ SureKept
<1>1. Core'
  BY DEF Core, Shape, Rests, Commits, Spent, Settled, Has, Intact
<1>. QED BY <1>1 DEF SureKept

LEMMA EndStage ==
    ASSUME End PROVE Stage'
BY DEF End, Stage, Running, Artifacts

LEMMA BasisFacts ==
    /\ Basis(Lock) = {} /\ Basis(Header) = {} /\ Basis(Gate) = Prefix(Slots)
    /\ \A s \in 1..Slots :
        /\ Basis(Start(s)) = Prefix(s - 1) /\ Basis(Close(s)) = {Start(s)}
        /\ \A a \in Artifacts : Basis(<<s, a>>) = {Start(s)}
BY DEF Basis, Lock, Header, Gate, Start, Close, Artifacts

\* What was settled stays so.
LEMMA SettledKept ==
    ASSUME Core, SureKept, NEW ls, ls \subseteq Leaves, Settled(ls)
    PROVE  Settled(ls)'
BY DEF Settled, SureKept, Intact

\* What the holder has established outlives a step that keeps what is durable
\* and leaves the lock and the closes before its slot alone.
LEMMA HoldingKept ==
    ASSUME JournalAssumption, Core, Holding, SureKept, slot' = slot,
           prefixSure' => prefixSure, startSure' => startSure,
           leaf'[Lock] = "whole",
           \A r \in 1..(slot - 1) : leaf'[Close(r)] = leaf[Close(r)],
           pc' # "taint" => Admitted(leaf)'
    PROVE  Holding'
<1>1. PICK n \in 1..(Slots + 1) : n = slot
  BY DEF Holding
<1>2. slot' \in 1..(Slots + 1) /\ \A r \in 1..(slot' - 1) : leaf'[Close(r)] = "commit"
  BY DEF Holding
<1>3. prefixSure' => Settled(Prefix(n - 1))'
  <2>1. ASSUME prefixSure' PROVE Settled(Prefix(n - 1))
    BY <1>1, <2>1 DEF Holding
  <2>. QED BY <2>1, PrefixLeaves, SettledKept
<1>4. startSure' => n \in 1..Slots /\ Settled(Prefix(n - 1) \cup {Start(n)})'
  <2>1. ASSUME startSure' PROVE n \in 1..Slots /\ Settled(Prefix(n - 1) \cup {Start(n)})
    BY <1>1, <2>1 DEF Holding
  <2>2. n \in 1..Slots => Prefix(n - 1) \cup {Start(n)} \subseteq Leaves
    BY PrefixLeaves, LeafFacts
  <2>. QED BY <2>1, <2>2, SettledKept
<1>5. slot' = n
  BY <1>1
<1>. QED BY <1>2, <1>3, <1>4, <1>5 DEF Holding

-----------------------------------------------------------------------------
\* Each step keeps the invariant and everything that is durable.
LEMMA CreateLockSafe ==
    ASSUME JournalAssumption, IInv, CreateLock
    PROVE  IInv' /\ SureKept
<1>1. leaf[Lock] = "none" /\ leaf' = [leaf EXCEPT ![Lock] = "whole"] /\ sure' = sure
      /\ launched' = launched /\ told' = told
  BY DEF CreateLock, Has
<1>2. Lock \in Leaves /\ Lock[2] # "close" /\ ~IsArtifact(Lock)
  BY LeafFacts DEF Lock, IsArtifact, Artifacts
<1>3. SureKept /\ Shape'
  <2>1. SureKept
    BY <1>1, <1>2 DEF IInv, Core, Shape, SureKept
  <2>2. Shape'
    BY <1>1, <1>2 DEF IInv, Core, Shape, Contents
  <2>. QED BY <2>1, <2>2
<1>4. Settled(Basis(Lock)) /\ Ordered(Lock)
  <2>1. Lock # Gate /\ \A s \in 1..Slots : Lock # Start(s)
    BY DEF Lock, Gate, Start
  <2>. QED BY <2>1, BasisFacts DEF Settled, Ordered
<1>5. \A l \in Leaves : Has(leaf', l) => Has(leaf, l) \/ (Settled(Basis(l)) /\ Ordered(l))
  BY <1>1, <1>2, <1>4 DEF Has, IInv, Core, Shape
<1>6. \A s \in 1..Slots : leaf'[Close(s)] = leaf[Close(s)]
  <2>1. \A s \in 1..Slots : Close(s) # Lock /\ Close(s) \in Leaves
    BY LeafFacts DEF Close, Lock
  <2>. QED BY <2>1, <1>1 DEF IInv, Core, Shape
<1>7. Core'
  BY Grow, <1>1, <1>3, <1>5, <1>6 DEF IInv
<1>8. Stage'
  BY DEF CreateLock, Stage, Running, Artifacts
<1>. QED BY <1>3, <1>7, <1>8 DEF IInv

LEMMA OpenSafe ==
    ASSUME JournalAssumption, IInv, NEW w, Open(w)
    PROVE  IInv' /\ SureKept
<1>1. Core' /\ SureKept
  BY Still DEF Open, Quietly, IInv
<1>2. PICK n \in 0..Slots : /\ \A s \in 1..n : leaf[Close(s)] = "commit"
                            /\ slot' = n + 1
  BY DEF Open
<1>3. leaf' = leaf /\ Admitted(leaf) /\ pc' = "opened"
      /\ prefixSure' = FALSE /\ startSure' = FALSE
  BY DEF Open
<1>4. slot' \in 1..(Slots + 1) /\ \A r \in 1..(slot' - 1) : leaf'[Close(r)] = "commit"
  BY <1>2, <1>3, JournalAssumption DEF JournalAssumption
<1>5. Admitted(leaf)' /\ leaf'[Lock] = "whole"
  <2>1. leaf'[Lock] = "whole"
    BY <1>3 DEF Admitted
  <2>2. Admitted(leaf)'
    BY <1>3 DEF Admitted, Broken, Replayed, Consistent, Has
  <2>. QED BY <2>1, <2>2
<1>6. Holding'
  BY <1>3, <1>4, <1>5 DEF Holding
<1>7. Stage'
  BY <1>3, <1>6 DEF Stage, Running, Artifacts
<1>. QED BY <1>1, <1>7 DEF IInv

\* A call that fails, or a process that dies, leaves the leaves as they are.
LEMMA EndSafe ==
    ASSUME JournalAssumption, IInv, Fail \/ Crash
    PROVE  IInv' /\ SureKept
<1>1. End /\ UNCHANGED <<leaf, sure, launched, told>>
  BY DEF Fail, Crash, Quietly
<1>. QED BY <1>1, Still, EndStage DEF IInv

LEMMA PublishHeaderSafe ==
    ASSUME JournalAssumption, IInv, PublishHeader
    PROVE  IInv' /\ SureKept
<1>1. Holding /\ Core /\ leaf[Header] = "none"
  BY DEF PublishHeader, IInv, Stage, Fresh, Has
<1>2. Admitted(leaf)
  BY <1>1 DEF PublishHeader, Holding
<1>3. slot = 1 /\ leaf[Start(slot)] = "none"
  <2>1. leaf[Start(1)] = "none"
    BY <1>1, <1>2, JournalAssumption DEF Admitted, Replayed, Has, JournalAssumption
  <2>2. leaf[Close(1)] = "none"
    BY <1>2, <2>1, JournalAssumption DEF Admitted, Replayed, Has, JournalAssumption
  <2>3. slot = 1
    BY <1>1, <2>2 DEF Holding
  <2>. QED BY <2>1, <2>3
<1>4. Settled(Basis(Header)) /\ Ordered(Header) /\ Header # Lock /\ Header[2] # "close"
      /\ \A s \in 1..Slots : Header # Close(s)
  <2>1. Header # Gate /\ Header # Lock /\ Header[2] # "close"
        /\ \A s \in 1..Slots : Header # Start(s) /\ Header # Close(s)
    BY DEF Header, Lock, Gate, Start, Close
  <2>. QED BY <2>1, BasisFacts DEF Settled, Ordered
<1>5. Durable(Header, "whole") \/ NotDurable(Header, "whole")
  BY DEF PublishHeader
<1>6. told' = told /\ launched' = launched
  BY DEF PublishHeader, Quietly
<1>7. told' \subseteq Leaves
  BY <1>1, <1>6 DEF Core, Shape
<1>8. leaf[Lock] = "whole"
  BY <1>1 DEF Holding
<1>9. /\ Core' /\ SureKept
      /\ \A m \in Leaves : m # Header => leaf'[m] = leaf[m]
  BY Write, <1>1, <1>4, <1>5, <1>6, <1>7, <1>8, LeafFacts
<1>10. CASE End
  BY <1>9, <1>10, EndStage DEF IInv
<1>11. ASSUME Durable(Header, "whole"), Admitted(leaf'), pc' = "start", prefixSure' = TRUE,
              UNCHANGED <<who, slot, startSure>>
       PROVE  Stage'
  <2>1. Lock \in sure' /\ Header \in sure' /\ leaf'[Lock] = "whole" /\ leaf'[Header] = "whole"
    <3>1. Lock \in sure' /\ Header \in sure'
      BY <1>11 DEF Durable, IsArtifact, Header, Artifacts
    <3>2. leaf'[Header] = "whole"
      BY <1>11, <1>1, LeafFacts DEF Durable, Core, Shape
    <3>. QED BY <3>1, <3>2, <1>4, <1>8, <1>9, LeafFacts
  <2>2. Prefix(0) = {Lock, Header}
    BY DEF Prefix
  <2>3. Settled(Prefix(0))'
    BY <2>1, <2>2 DEF Settled, Intact
  <2>4. slot' = 1
    BY <1>3, <1>11
  <2>5. ~startSure'
    <3>1. slot - 1 = 0
      BY <1>3
    <3>2. startSure => Settled(Prefix(0))
      BY <1>1, <3>1 DEF Holding, Settled
    <3>3. startSure => Header \in sure
      BY <2>2, <3>2 DEF Settled
    <3>4. Header \notin sure
      BY <1>1 DEF Core, Shape
    <3>. QED BY <3>3, <3>4, <1>11
  <2>6. leaf'[Start(1)] = "none"
    <3>1. Start(1) \in Leaves /\ Start(1) # Header
      BY LeafFacts, JournalAssumption DEF JournalAssumption, Start, Header
    <3>. QED BY <1>3, <1>9, <3>1
  <2>7. Admitted(leaf)'
    BY <1>11 DEF Admitted, Broken, Replayed, Consistent, Has
  <2>8. slot' - 1 = 0 /\ 1 \in 1..Slots /\ 1 \in 1..(Slots + 1)
    BY <2>4, JournalAssumption DEF JournalAssumption
  <2>9. Holding'
    BY <2>1, <2>3, <2>4, <2>5, <2>7, <2>8 DEF Holding
  <2>10. AtStart'
    BY <1>11, <2>4, <2>6, <2>8 DEF AtStart
  <2>. QED BY <1>11, <2>9, <2>10 DEF Stage, Running, Artifacts
<1>. QED BY <1>9, <1>10, <1>11 DEF PublishHeader, IInv

LEMMA ConfirmPrefixSafe ==
    ASSUME JournalAssumption, IInv, ConfirmPrefix
    PROVE  IInv' /\ SureKept
<1>1. Holding /\ Core /\ Admitted(leaf) /\ Has(leaf, Header) /\ leaf[Lock] = "whole"
  BY DEF ConfirmPrefix, IInv, Stage, Ready, Holding
<1>2. PICK n \in 1..Slots : n = slot
  BY <1>1 DEF ConfirmPrefix, Ready, Holding
<1>3. leaf' = leaf /\ slot' = slot /\ startSure' = startSure /\ launched' = launched
      /\ told' = told /\ pc' = "start" /\ prefixSure' = TRUE
  BY DEF ConfirmPrefix, Quietly
<1>4. Core' /\ SureKept /\ Settled(Prefix(n - 1))'
  <2>1. CASE prefixSure
    <3>1. sure' = sure
      BY <2>1 DEF ConfirmPrefix
    <3>2. Core' /\ SureKept
      BY <1>1, <1>3, <3>1, Still
    <3>3. Settled(Prefix(n - 1))
      BY <1>1, <1>2, <2>1 DEF Holding
    <3>. QED BY <1>1, <3>2, <3>3, SettledKept, PrefixLeaves
  <2>2. CASE ~prefixSure
    <3>1. Synced(Prefix(n - 1))
      BY <1>2, <2>2 DEF ConfirmPrefix
    <3>2. \A m \in Prefix(n - 1) : Intact(leaf, m)
      <4>1. n - 1 \in 0..Slots /\ \A s \in 1..(n - 1) : leaf[Close(s)] = "commit"
        BY <1>1, <1>2, JournalAssumption DEF Holding, JournalAssumption
      <4>. QED BY <1>1, <4>1, AdmittedIntact DEF Core
    <3>3. /\ Core' /\ SureKept
          /\ \A m \in Prefix(n - 1) : m \in sure' /\ Intact(leaf', m)
      <4>1. told' \subseteq told \cup Prefix(n - 1) \cup {Lock} /\ Prefix(n - 1) \in SUBSET Leaves
        BY <1>3, PrefixLeaves
      <4>. QED BY <1>1, <1>3, <3>1, <3>2, <4>1, Confirm
    <3>. QED BY <3>3 DEF Settled
  <2>. QED BY <2>1, <2>2
<1>5. Admitted(leaf)'
  BY <1>1, <1>3 DEF Admitted, Broken, Replayed, Consistent, Has
<1>6. Holding'
  <2>1. slot' = n
    BY <1>2, <1>3
  <2>2. startSure' => Settled(Prefix(n - 1) \cup {Start(n)})'
    <3>1. ASSUME startSure' PROVE Settled(Prefix(n - 1) \cup {Start(n)})
      BY <1>1, <1>2, <1>3, <3>1 DEF Holding
    <3>2. Prefix(n - 1) \cup {Start(n)} \subseteq Leaves
      BY PrefixLeaves, LeafFacts
    <3>. QED BY <1>1, <1>4, <3>1, <3>2, SettledKept
  <2>3. slot' \in 1..(Slots + 1) /\ \A r \in 1..(slot' - 1) : leaf'[Close(r)] = "commit"
    BY <1>1, <1>3 DEF Holding
  <2>4. leaf'[Lock] = "whole"
    BY <1>1, <1>3
  <2>. QED BY <1>2, <1>4, <1>5, <2>1, <2>2, <2>3, <2>4 DEF Holding
<1>7. AtStart'
  <2>1. leaf[Start(slot)] = "none"
    BY DEF ConfirmPrefix, Ready, Has
  <2>. QED BY <1>2, <1>3, <2>1 DEF AtStart
<1>. QED BY <1>3, <1>4, <1>6, <1>7 DEF IInv, Stage, Running, Artifacts

LEMMA PublishStartSafe ==
    ASSUME JournalAssumption, IInv, PublishStart
    PROVE  IInv' /\ SureKept
<1>1. Holding /\ Core /\ AtStart /\ Admitted(leaf) /\ leaf[Lock] = "whole"
  BY DEF PublishStart, IInv, Stage, Holding
<1>2. PICK n \in 1..Slots : n = slot
  BY <1>1 DEF AtStart
<1>3. Durable(Start(n), "whole") \/ NotDurable(Start(n), "whole")
  BY <1>2 DEF PublishStart
<1>4. told' = told /\ launched' = launched
  BY DEF PublishStart, Quietly
<1>5. leaf[Start(n)] = "none" /\ Settled(Prefix(n - 1))
      /\ \A r \in 1..(n - 1) : leaf[Close(r)] = "commit"
  BY <1>1, <1>2 DEF AtStart, Holding
<1>6. Start(n) \in Leaves /\ Start(n) # Lock /\ Start(n)[2] # "close" /\ ~IsArtifact(Start(n))
      /\ (\A s \in 1..Slots : Start(n) # Close(s) /\ (Start(n) = Start(s) => s = n))
      /\ Start(n) # Gate
  BY LeafFacts DEF Start, Lock, Close, Gate, IsArtifact, Artifacts
<1>7. Settled(Basis(Start(n))) /\ Ordered(Start(n))
  BY <1>5, <1>6, BasisFacts DEF Ordered
<1>8. told' \subseteq Leaves
  BY <1>1, <1>4 DEF Core, Shape
<1>9. /\ Core' /\ SureKept
      /\ \A m \in Leaves : m # Start(n) => leaf'[m] = leaf[m]
  BY Write, <1>1, <1>3, <1>4, <1>5, <1>6, <1>7, <1>8
<1>10. CASE End
  BY <1>9, <1>10, EndStage DEF IInv
<1>11. ASSUME Durable(Start(n), "whole"), Admitted(leaf'), pc' = "active", startSure' = TRUE,
              UNCHANGED <<who, slot, prefixSure>>
       PROVE  Stage'
  <2>1. Start(n) \in sure' /\ leaf'[Start(n)] = "whole"
    BY <1>1, <1>6, <1>11 DEF Durable, Core, Shape
  <2>2. Settled(Prefix(n - 1))'
    BY <1>1, <1>5, <1>9, PrefixLeaves, SettledKept
  <2>3. Settled(Prefix(n - 1) \cup {Start(n)})'
    BY <2>1, <2>2 DEF Settled, Intact
  <2>4. slot' = n
    BY <1>2, <1>11
  <2>5. \A r \in 1..(n - 1) : leaf'[Close(r)] = "commit"
    <3>1. \A r \in 1..(n - 1) : r \in 1..Slots
      BY JournalAssumption DEF JournalAssumption
    <3>. QED BY <3>1, <1>5, <1>6, <1>9, LeafFacts
  <2>6. leaf'[Lock] = "whole" /\ Admitted(leaf)'
    <3>1. leaf'[Lock] = "whole"
      BY <1>1, <1>6, <1>9, LeafFacts
    <3>2. Admitted(leaf)'
      BY <1>11 DEF Admitted, Broken, Replayed, Consistent, Has
    <3>. QED BY <3>1, <3>2
  <2>7. Holding'
    <3>1. slot' \in 1..(Slots + 1) /\ slot' \in 1..Slots
      BY <2>4, JournalAssumption DEF JournalAssumption
    <3>2. \A r \in 1..(slot' - 1) : leaf'[Close(r)] = "commit"
      BY <2>4, <2>5
    <3>. QED BY <1>11, <2>2, <2>3, <2>4, <2>6, <3>1, <3>2 DEF Holding
  <2>8. \A a \in Artifacts : leaf[<<n, a>>] = "none"
    BY <1>1, <1>5 DEF Admitted, Consistent, Has
  <2>9. leaf[Close(n)] = "none"
    BY <1>1, <1>5 DEF Admitted, Replayed, Has
  <2>10. launched[n] = 0
    <3>1. launched[n] # 1
      BY <1>1, <1>5 DEF Core, Spent, Settled, Intact
    <3>. QED BY <1>1, <3>1 DEF Core, Shape
  <2>11. leaf'[Close(n)] = "none" /\ \A a \in Artifacts : leaf'[<<n, a>>] = "none"
    <3>1. \A a \in Artifacts : <<n, a>> # Start(n) /\ <<n, a>> \in Leaves
      BY LeafFacts DEF Start, Artifacts
    <3>. QED BY <3>1, <1>6, <1>9, <2>8, <2>9, LeafFacts
  <2>12. AtRun'
    <3>1. pc' # "settle" /\ Published(pc') = {}
      BY <1>11 DEF Published
    <3>2. leaf'[Close(slot')] = "none" /\ launched'[slot'] = 0
      BY <1>4, <2>4, <2>10, <2>11
    <3>3. \A a \in Artifacts : leaf'[<<slot', a>>] = "none"
      BY <2>4, <2>11
    <3>. QED BY <1>11, <2>4, <3>1, <3>2, <3>3 DEF AtRun
  <2>. QED BY <1>11, <2>7, <2>12 DEF Stage, Running, Artifacts
<1>. QED BY <1>2, <1>9, <1>10, <1>11 DEF PublishStart, IInv

\* A step that leaves everything as it is but the next step of the holder.
LEMMA GotoHolding ==
    ASSUME JournalAssumption, Core, Holding, pc # "taint", UNCHANGED <<leaf, sure>>,
           UNCHANGED <<slot, prefixSure, startSure>>
    PROVE  Holding'
<1>1. Admitted(leaf)' /\ leaf'[Lock] = "whole"
  <2>1. Admitted(leaf)'
    BY DEF Holding, Admitted, Broken, Replayed, Consistent, Has
  <2>. QED BY <2>1 DEF Holding
<1>2. SureKept
  BY DEF SureKept
<1>. QED BY <1>1, <1>2, HoldingKept

\* A start that is durable, and whose slot is not closed, may be tainted.
LEMMA TaintReady ==
    ASSUME JournalAssumption, Core, startSure, Holding, leaf[Close(slot)] = "none"
    PROVE  AtTaint
BY DEF Holding, AtTaint, Settled

LEMMA LaunchSafe ==
    ASSUME JournalAssumption, IInv, Launch
    PROVE  IInv' /\ SureKept
<1>1. Holding /\ Core /\ AtRun /\ pc = "active"
  BY DEF Launch, IInv, Stage, Running
<1>2. PICK n \in 1..Slots : n = slot
  BY <1>1 DEF AtRun
<1>3. launched[n] = 0 /\ Settled({Start(n)}) /\ leaf[Close(n)] = "none"
  BY <1>1, <1>2 DEF AtRun, Holding, Settled
<1>4. launched' = [launched EXCEPT ![n] = 1] /\ leaf' = leaf /\ sure' = sure /\ told' = told
      /\ UNCHANGED <<slot, prefixSure, startSure>>
  BY <1>2, <1>3 DEF Launch, Goto
<1>5. launched'[n] = 1 /\ \A s \in 1..Slots : s # n => launched'[s] = launched[s]
  BY <1>1, <1>4 DEF Core, Shape
<1>6. SureKept
  BY <1>4 DEF SureKept
<1>7. Shape'
  BY <1>1, <1>4 DEF Core, Shape
<1>8. /\ \A s \in 1..Slots : launched'[s] = 1 => launched[s] = 1 \/ Settled({Start(s)})
      /\ \A s \in 1..Slots : launched[s] = 1 => launched'[s] = 1
  BY <1>3, <1>5
<1>9. \A l \in Leaves : Has(leaf', l) => Has(leaf, l)
  BY <1>4
<1>10. /\ \A l \in told' : l \in told
       /\ \A s \in 1..Slots : leaf'[Close(s)] = "commit" => leaf[Close(s)] = "commit"
  BY <1>4
<1>11. Core'
  BY Grow, <1>1, <1>6, <1>7, <1>8, <1>9, <1>10
<1>12. Holding'
  BY <1>1, <1>4, GotoHolding
<1>13. leaf'[Close(slot')] = "none" /\ slot' \in 1..Slots /\ startSure'
  BY <1>1, <1>2, <1>3, <1>4 DEF AtRun
<1>14. CASE Goto("stdout")
  <2>1. pc' = "stdout" /\ Published(pc') = {} /\ pc' # "settle" /\ pc' # "active"
    BY <1>14 DEF Goto, Published
  <2>2. \A a \in Artifacts : leaf'[<<slot', a>>] = "none"
    BY <1>1, <1>4 DEF AtRun, Published
  <2>3. launched'[slot'] = 1
    BY <1>2, <1>4, <1>5
  <2>4. AtRun'
    BY <1>13, <2>1, <2>2, <2>3 DEF AtRun
  <2>. QED BY <1>6, <1>11, <1>12, <2>1, <2>4 DEF IInv, Stage, Running, Artifacts
<1>15. CASE Goto("taint")
  <2>1. AtTaint'
    <3>1. AtTaint
      BY <1>1, <1>2, <1>3, TaintReady DEF AtRun
    <3>. QED BY <3>1, <1>4 DEF AtTaint, Intact
  <2>2. pc' = "taint"
    BY <1>15 DEF Goto
  <2>. QED BY <1>6, <1>11, <1>12, <2>1, <2>2 DEF IInv, Stage, Running, Artifacts
<1>. QED BY <1>14, <1>15 DEF Launch

LEMMA GiveUpSafe ==
    ASSUME JournalAssumption, IInv, GiveUp
    PROVE  IInv' /\ SureKept
<1>1. Holding /\ Core /\ AtRun /\ pc = "active"
  BY DEF GiveUp, IInv, Stage, Running
<1>2. pc' = "taint" /\ UNCHANGED <<leaf, sure, launched, told>>
      /\ UNCHANGED <<slot, prefixSure, startSure>>
  BY DEF GiveUp, Goto, Quietly
<1>3. Core' /\ SureKept
  BY <1>1, <1>2, Still
<1>4. Holding'
  BY <1>1, <1>2, GotoHolding
<1>5. AtTaint'
  <2>1. AtTaint
    BY <1>1, TaintReady DEF AtRun
  <2>. QED BY <2>1, <1>2 DEF AtTaint, Intact
<1>. QED BY <1>2, <1>3, <1>4, <1>5 DEF IInv, Stage, Running, Artifacts

LEMMA TaintFollows ==
    ASSUME JournalAssumption, Holding', startSure', leaf'[Close(slot')] = "none"
    PROVE  AtTaint'
BY DEF Holding, AtTaint, Settled

\* A publication that succeeds.
LEMMA DurableKeeps ==
    ASSUME Core, NEW l \in Leaves, leaf[l] = "none", NEW c, Durable(l, c)
    PROVE  SureKept /\ l \in sure' /\ leaf'[l] = c
<1>1. sure \subseteq sure' /\ l \in sure' /\ leaf' = [leaf EXCEPT ![l] = c]
  BY DEF Durable
<1>. QED BY <1>1 DEF Core, Shape, SureKept

LEMMA PublishArtifactSafe ==
    ASSUME JournalAssumption, IInv, NEW a \in Artifacts, PublishArtifact(a)
    PROVE  IInv' /\ SureKept
<1>1. pc = a /\ Holding /\ Core /\ AtRun /\ leaf[Lock] = "whole"
  <2>1. pc = a
    BY DEF PublishArtifact
  <2>2. pc \in Running /\ pc # "idle"
    BY <2>1 DEF Running, Artifacts
  <2>. QED BY <2>1, <2>2 DEF IInv, Stage, Holding
<1>2. PICK n \in 1..Slots : n = slot
  BY <1>1 DEF AtRun
<1>3. pc # "settle" /\ pc # "active" /\ pc # "taint" /\ pc # "commit"
  BY <1>1 DEF Artifacts
<1>4. leaf[<<n, a>>] = "none" /\ Settled({Start(n)}) /\ leaf[Close(n)] = "none"
      /\ launched[n] = 1
  <2>1. a \notin Published(pc)
    BY <1>1 DEF Published, Artifacts
  <2>. QED BY <1>1, <1>2, <1>3, <2>1 DEF AtRun, Holding, Settled
<1>5. Durable(<<n, a>>, "whole") \/ NotDurable(<<n, a>>, "whole")
  BY <1>2 DEF PublishArtifact
<1>6. told' = told /\ launched' = launched /\ UNCHANGED <<slot, prefixSure, startSure>>
  BY DEF PublishArtifact, Quietly, Goto
<1>7. <<n, a>> \in Leaves /\ <<n, a>> # Lock /\ <<n, a>>[2] # "close"
      /\ (\A s \in 1..Slots : <<n, a>> # Close(s) /\ <<n, a>> # Start(s)) /\ <<n, a>> # Gate
  BY LeafFacts DEF Start, Lock, Close, Gate, Artifacts
<1>8. Settled(Basis(<<n, a>>)) /\ Ordered(<<n, a>>)
  BY <1>4, <1>7, BasisFacts DEF Ordered
<1>9. told' \subseteq Leaves
  BY <1>1, <1>6 DEF Core, Shape
<1>10. /\ Core' /\ SureKept
       /\ \A m \in Leaves : m # <<n, a>> => leaf'[m] = leaf[m]
  BY Write, <1>1, <1>4, <1>5, <1>6, <1>7, <1>8, <1>9
<1>11. leaf'[Lock] = "whole" /\ \A r \in 1..Slots : leaf'[Close(r)] = leaf[Close(r)]
  BY <1>1, <1>7, <1>10, LeafFacts
<1>12. \A r \in 1..(slot - 1) : leaf'[Close(r)] = leaf[Close(r)]
  BY <1>2, <1>11, JournalAssumption DEF JournalAssumption
<1>13. CASE Goto("taint")
  <2>1. pc' = "taint"
    BY <1>13 DEF Goto
  <2>2. Holding'
    BY <1>1, <1>6, <1>10, <1>11, <1>12, <2>1, HoldingKept
  <2>3. leaf'[Close(slot')] = "none" /\ startSure'
    BY <1>1, <1>2, <1>4, <1>6, <1>11 DEF AtRun
  <2>. QED BY <1>10, <2>1, <2>2, <2>3, TaintFollows DEF IInv, Stage, Running, Artifacts
<1>14. ASSUME Durable(<<n, a>>, "whole"), Admitted(leaf'), Goto(NextStep(a)) PROVE IInv'
  <2>1. pc' \in Running /\ pc' \in {"stderr", "joined", "commit"}
        /\ Published(pc') = Published(a) \cup {a}
    BY <1>14 DEF Goto, NextStep, Published, Running, Artifacts
  <2>2. Admitted(leaf)'
    BY <1>14 DEF Admitted, Broken, Replayed, Consistent, Has
  <2>3. Holding'
    BY <1>1, <1>6, <1>10, <1>11, <1>12, <2>2, HoldingKept
  <2>4. <<n, a>> \in sure' /\ leaf'[<<n, a>>] = "whole"
    BY <1>1, <1>4, <1>7, <1>14, DurableKeeps
  <2>5. ASSUME NEW b \in Artifacts
        PROVE  IF b \in Published(pc') THEN Settled({<<n, b>>})' ELSE leaf'[<<n, b>>] = "none"
    <3>1. CASE b = a
      BY <2>1, <2>4, <3>1 DEF Settled, Intact
    <3>2. CASE b # a
      <4>1. <<n, b>> \in Leaves /\ <<n, b>> # <<n, a>>
        BY <3>2, LeafFacts
      <4>2. IF b \in Published(a) THEN Settled({<<n, b>>}) ELSE leaf[<<n, b>>] = "none"
        BY <1>1, <1>2 DEF AtRun
      <4>3. Settled({<<n, b>>}) => Settled({<<n, b>>})'
        BY <1>1, <1>10, <4>1, SettledKept
      <4>. QED BY <1>10, <2>1, <3>2, <4>1, <4>2, <4>3
    <3>. QED BY <3>1, <3>2
  <2>6. leaf'[Close(n)] = "none" /\ launched'[n] = 1 /\ slot' = n /\ startSure'
    BY <1>1, <1>2, <1>4, <1>6, <1>11 DEF AtRun
  <2>7. leaf'[Close(slot')] = "none" /\ launched'[slot'] = 1 /\ slot' \in 1..Slots
    BY <2>6
  <2>8. AtRun'
    BY <2>1, <2>5, <2>6, <2>7 DEF AtRun
  <2>. QED BY <1>10, <2>1, <2>3, <2>8 DEF IInv, Stage, Running, Artifacts
<1>. QED BY <1>2, <1>10, <1>13, <1>14 DEF PublishArtifact

\* A slot whose commit is settled is a slot of the committed prefix.
LEMMA CommittedStage ==
    ASSUME JournalAssumption, NEW n \in 1..Slots, n = slot, Committed,
           Settled(Prefix(n))', Admitted(leaf)', leaf'[Lock] = "whole",
           \A r \in 1..n : leaf'[Close(r)] = "commit"
    PROVE  Stage'
<1>1. CASE End
  BY <1>1, EndStage
<1>2. ASSUME pc' = "opened", slot' = slot + 1, prefixSure' = TRUE, startSure' = FALSE
      PROVE  Stage'
  <2>1. slot' \in 1..(Slots + 1) /\ slot' - 1 = n
    BY <1>2, JournalAssumption DEF JournalAssumption
  <2>2. \A r \in 1..(slot' - 1) : leaf'[Close(r)] = "commit"
    BY <2>1
  <2>3. Holding'
    BY <1>2, <2>1, <2>2 DEF Holding
  <2>. QED BY <1>2, <2>3 DEF Stage, Running, Artifacts
<1>. QED BY <1>1, <1>2 DEF Committed

LEMMA CommitSafe ==
    ASSUME JournalAssumption, IInv, Commit
    PROVE  IInv' /\ SureKept
<1>1. Holding /\ Core /\ AtRun /\ leaf[Lock] = "whole" /\ pc = "commit"
  BY DEF Commit, IInv, Stage, Running, Holding
<1>2. PICK n \in 1..Slots : n = slot
  BY <1>1 DEF AtRun
<1>3. /\ leaf[Close(n)] = "none" /\ launched[n] = 1 /\ startSure
      /\ Settled(Prefix(n - 1)) /\ Settled({Start(n)})
      /\ \A r \in 1..(n - 1) : leaf[Close(r)] = "commit"
  <2>1. Settled(Prefix(n - 1)) /\ Settled({Start(n)})
    BY <1>1, <1>2 DEF Holding, AtRun, Settled
  <2>. QED BY <1>1, <1>2, <2>1 DEF AtRun, Holding
<1>4. Settled({<<n, a>> : a \in Artifacts})
  BY <1>1, <1>2 DEF AtRun, Published, Settled
<1>5. Close(n) \in Leaves /\ Close(n) # Lock /\ Close(n)[2] = "close" /\ ~IsArtifact(Close(n))
      /\ (\A s \in 1..Slots : Close(n) # Start(s) /\ (Close(n) = Close(s) => s = n))
      /\ Close(n) # Gate
  BY LeafFacts DEF Start, Lock, Close, Gate, IsArtifact, Artifacts
<1>6. Settled(Basis(Close(n))) /\ Ordered(Close(n))
  BY <1>3, <1>5, BasisFacts DEF Ordered
<1>7. \A s \in 1..Slots : Close(n) = Close(s) => launched[s] = 1 /\ Settled({<<s, a>> : a \in Artifacts})
  BY <1>3, <1>4, <1>5
<1>8. CASE Goto("taint") /\ UNCHANGED <<leaf, sure>> /\ Quietly
  <2>1. UNCHANGED <<leaf, sure, launched, told>> /\ UNCHANGED <<slot, prefixSure, startSure>>
        /\ pc' = "taint"
    BY <1>8 DEF Goto, Quietly
  <2>2. Core' /\ SureKept
    BY <1>1, <2>1, Still
  <2>3. Holding'
    BY <1>1, <2>1, GotoHolding
  <2>4. leaf'[Close(slot')] = "none" /\ startSure'
    BY <1>2, <1>3, <2>1
  <2>. QED BY <2>1, <2>2, <2>3, <2>4, TaintFollows DEF IInv, Stage, Running, Artifacts
<1>9. ASSUME Durable(Close(n), "commit") \/ NotDurable(Close(n), "commit"), Quietly
      PROVE  /\ Core' /\ SureKept
             /\ \A m \in Leaves : m # Close(n) => leaf'[m] = leaf[m]
  <2>1. launched' = launched /\ told' = told /\ told' \subseteq Leaves
    BY <1>1, <1>9 DEF Quietly, Core, Shape
  <2>. QED BY Write, <1>1, <1>3, <1>5, <1>6, <1>7, <1>9, <2>1
<1>10. ASSUME \A m \in Leaves : m # Close(n) => leaf'[m] = leaf[m]
       PROVE  leaf'[Lock] = "whole" /\ \A r \in 1..(n - 1) : leaf'[Close(r)] = leaf[Close(r)]
  <2>1. \A r \in 1..(n - 1) : r \in 1..Slots /\ r # n
    BY JournalAssumption DEF JournalAssumption
  <2>2. \A r \in 1..(n - 1) : Close(r) \in Leaves /\ Close(r) # Close(n)
    BY <1>5, <2>1, LeafFacts
  <2>. QED BY <1>1, <1>5, <1>10, <2>2, LeafFacts
<1>11. CASE Durable(Close(n), "commit") /\ Admitted(leaf') /\ Committed
  <2>1. SureKept /\ Close(n) \in sure' /\ leaf'[Close(n)] = "commit"
    BY <1>1, <1>3, <1>5, <1>11, DurableKeeps
  <2>2. \A m \in Prefix(n) : m \in sure' /\ Intact(leaf', m)
    <3>1. ASSUME NEW m \in Prefix(n), m \in sure, Intact(leaf, m)
          PROVE  m \in sure' /\ Intact(leaf', m)
      BY <2>1, <3>1 DEF SureKept, Intact
    <3>2. ASSUME NEW m \in Prefix(n), m # Close(n) PROVE m \in sure /\ Intact(leaf, m)
      BY <1>3, <1>4, <3>2, PrefixStep DEF Settled
    <3>. QED BY <2>1, <3>1, <3>2 DEF Intact
  <2>3. launched' = launched /\ told' = told \cup Prefix(n)
    BY <1>2, <1>11 DEF Committed
  <2>4. told' \subseteq Leaves
    BY <1>1, <2>3, PrefixLeaves DEF Core, Shape
  <2>5. \A m \in told' : m \in told \/ (m \in sure' /\ Intact(leaf', m))
    BY <2>2, <2>3
  <2>6. /\ Core' /\ SureKept
        /\ \A m \in Leaves : m # Close(n) => leaf'[m] = leaf[m]
    BY Write, <1>1, <1>3, <1>5, <1>6, <1>7, <1>11, <2>3, <2>4, <2>5
  <2>7. leaf'[Lock] = "whole" /\ \A r \in 1..(n - 1) : leaf'[Close(r)] = leaf[Close(r)]
    BY <1>10, <2>6
  <2>8. \A r \in 1..n : leaf'[Close(r)] = "commit"
    <3>1. \A r \in 1..n : r = n \/ r \in 1..(n - 1)
      BY JournalAssumption DEF JournalAssumption
    <3>. QED BY <1>3, <2>1, <2>7, <3>1
  <2>9. Settled(Prefix(n))'
    BY <2>2 DEF Settled
  <2>10. Admitted(leaf)'
    BY <1>11 DEF Admitted, Broken, Replayed, Consistent, Has
  <2>11. Stage'
    BY <1>2, <1>11, <2>7, <2>8, <2>9, <2>10, CommittedStage
  <2>. QED BY <2>6, <2>11 DEF IInv
<1>12. CASE /\ NotDurable(Close(n), "commit") /\ Admitted(leaf') /\ Quietly
            /\ Goto(IF Has(leaf', Close(n)) THEN "settle" ELSE "taint")
  <2>1. /\ Core' /\ SureKept
        /\ \A m \in Leaves : m # Close(n) => leaf'[m] = leaf[m]
    BY <1>9, <1>12
  <2>2. leaf'[Lock] = "whole" /\ \A r \in 1..(n - 1) : leaf'[Close(r)] = leaf[Close(r)]
    BY <1>10, <2>1
  <2>3. UNCHANGED <<slot, prefixSure, startSure>> /\ launched' = launched
        /\ pc' = IF Has(leaf', Close(n)) THEN "settle" ELSE "taint"
    BY <1>12 DEF Goto, Quietly
  <2>4. Admitted(leaf)'
    BY <1>12 DEF Admitted, Broken, Replayed, Consistent, Has
  <2>5. \A r \in 1..(slot - 1) : leaf'[Close(r)] = leaf[Close(r)]
    BY <1>2, <2>2
  <2>6. Holding'
    BY <1>1, <2>1, <2>2, <2>3, <2>4, <2>5, HoldingKept
  <2>7. CASE ~Has(leaf', Close(n))
    <3>1. leaf'[Close(slot')] = "none" /\ startSure' /\ pc' = "taint"
      BY <1>2, <1>3, <2>3, <2>7 DEF Has
    <3>. QED BY <2>1, <2>6, <3>1, TaintFollows DEF IInv, Stage, Running, Artifacts
  <2>8. CASE Has(leaf', Close(n))
    <3>1. pc' = "settle"
      BY <2>3, <2>8
    <3>2. leaf'[Close(n)] \in {"none", "commit", "torn"}
      BY <1>1, <1>5, <1>12 DEF NotDurable, Debris, Core, Shape
    <3>3. leaf'[Close(n)] # "torn"
      BY <1>5, <1>12 DEF Admitted, Broken
    <3>4. leaf'[Close(n)] = "commit"
      BY <2>8, <3>2, <3>3 DEF Has
    <3>5. \A b \in Artifacts : Settled({<<n, b>>})'
      <4>1. ASSUME NEW b \in Artifacts PROVE Settled({<<n, b>>})'
        <5>1. Settled({<<n, b>>}) /\ {<<n, b>>} \subseteq Leaves
          BY <1>4, LeafFacts DEF Settled
        <5>. QED BY <1>1, <2>1, <5>1, SettledKept
      <4>. QED BY <4>1
    <3>6. Published(pc') = Artifacts /\ pc' # "active" /\ slot' = n /\ startSure'
      BY <1>2, <1>3, <2>3, <3>1 DEF Published
    <3>7. leaf'[Close(slot')] = "commit" /\ launched'[slot'] = 1 /\ slot' \in 1..Slots
      BY <1>3, <2>3, <3>4, <3>6
    <3>8. AtRun'
      BY <3>1, <3>5, <3>6, <3>7 DEF AtRun
    <3>. QED BY <2>1, <2>6, <3>1, <3>8 DEF IInv, Stage, Running, Artifacts
  <2>. QED BY <2>7, <2>8
<1>13. CASE /\ Durable(Close(n), "commit") \/ NotDurable(Close(n), "commit")
            /\ End /\ Quietly
  BY <1>9, <1>13, EndStage DEF IInv
<1>. QED BY <1>2, <1>8, <1>11, <1>12, <1>13 DEF Commit

LEMMA SettleSafe ==
    ASSUME JournalAssumption, IInv, Settle
    PROVE  IInv' /\ SureKept
<1>1. Holding /\ Core /\ AtRun /\ leaf[Lock] = "whole" /\ pc = "settle" /\ Admitted(leaf)
  BY DEF Settle, IInv, Stage, Running, Holding
<1>2. PICK n \in 1..Slots : n = slot
  BY <1>1 DEF AtRun
<1>3. /\ leaf[Close(n)] = "commit"
      /\ Settled(Prefix(n - 1)) /\ Settled({Start(n)})
      /\ \A r \in 1..(n - 1) : leaf[Close(r)] = "commit"
  <2>1. Settled(Prefix(n - 1)) /\ Settled({Start(n)})
    BY <1>1, <1>2 DEF Holding, AtRun, Settled
  <2>. QED BY <1>1, <1>2, <2>1 DEF AtRun, Holding
<1>4. Settled({<<n, a>> : a \in Artifacts})
  BY <1>1, <1>2 DEF AtRun, Published, Settled
<1>5. \A m \in Prefix(n) : m = Close(n) \/ (m \in sure /\ Intact(leaf, m))
  BY <1>3, <1>4, PrefixStep DEF Settled
<1>6. Close(n) \in Prefix(n)
  <2>1. n \in 1..n
    BY JournalAssumption DEF JournalAssumption
  <2>. QED BY <2>1, LeafFacts DEF Prefix, Close
<1>7. Synced(Prefix(n)) /\ (\A m \in Prefix(n) : Intact(leaf, m))
  <2>1. Synced({Close(n)})
    BY <1>2 DEF Settle
  <2>2. Synced(Prefix(n))
    BY <1>5, <1>6, <2>1 DEF Synced
  <2>. QED BY <1>3, <1>5, <2>2 DEF Intact
<1>8. leaf' = leaf /\ launched' = launched /\ told' = told \cup Prefix(n) /\ Committed
  BY <1>2 DEF Settle, Committed
<1>9. Core' /\ SureKept /\ \A m \in Prefix(n) : m \in sure' /\ Intact(leaf', m)
  <2>1. told' \subseteq told \cup Prefix(n) \cup {Lock} /\ Prefix(n) \in SUBSET Leaves
    BY <1>8, PrefixLeaves
  <2>. QED BY <1>1, <1>7, <1>8, <2>1, Confirm
<1>10. Settled(Prefix(n))' /\ leaf'[Lock] = "whole"
  BY <1>1, <1>8, <1>9 DEF Settled
<1>11. \A r \in 1..n : leaf'[Close(r)] = "commit"
  <2>1. \A r \in 1..n : r = n \/ r \in 1..(n - 1)
    BY JournalAssumption DEF JournalAssumption
  <2>. QED BY <1>3, <1>8, <2>1
<1>12. Admitted(leaf)'
  BY <1>1, <1>8 DEF Admitted, Broken, Replayed, Consistent, Has
<1>13. Stage'
  BY <1>2, <1>8, <1>10, <1>11, <1>12, CommittedStage
<1>. QED BY <1>9, <1>13 DEF IInv

-----------------------------------------------------------------------------
\* The taint of a slot.
LEMMA TaintDanglingSafe ==
    ASSUME JournalAssumption, IInv, TaintDangling
    PROVE  IInv' /\ SureKept
<1>1. Holding /\ Core /\ Admitted(leaf) /\ pc = "opened"
  BY DEF TaintDangling, IInv, Stage, Holding
<1>2. PICK n \in 1..Slots : n = slot
  BY <1>1 DEF TaintDangling, Dangling, Holding
<1>3. Has(leaf, Start(n)) /\ leaf[Close(n)] = "none"
  BY <1>2 DEF TaintDangling, Dangling, Has
<1>4. UNCHANGED <<leaf, sure, launched, told>> /\ UNCHANGED <<slot, prefixSure, startSure>>
      /\ pc' = "taint"
  BY DEF TaintDangling, Goto, Quietly
<1>5. Core' /\ SureKept
  BY <1>1, <1>4, Still
<1>6. Holding'
  BY <1>1, <1>4, GotoHolding
<1>7. \A l \in Prefix(n - 1) \cup {Start(n)} : Intact(leaf, l)
  <2>1. \A s \in 1..(n - 1) : leaf[Close(s)] = "commit"
    BY <1>1, <1>2 DEF Holding
  <2>2. n - 1 \in 0..Slots
    BY JournalAssumption DEF JournalAssumption
  <2>3. Has(leaf, Header)
    <3>1. Settled(Basis(Start(n))) /\ Basis(Start(n)) = Prefix(n - 1)
      BY <1>1, <1>3, LeafFacts, BasisFacts DEF Core, Rests
    <3>. QED BY <1>1, <3>1, LeafFacts DEF Prefix, Settled, Core, Shape, Has
  <2>4. \A l \in Prefix(n - 1) : Intact(leaf, l)
    BY <1>1, <2>1, <2>2, <2>3, AdmittedIntact DEF Core
  <2>5. Intact(leaf, Start(n))
    <3>1. Start(n) \in Leaves /\ ~IsArtifact(Start(n)) /\ Start(n)[2] # "stderr"
      BY LeafFacts DEF IsArtifact, Start, Artifacts
    <3>2. leaf[Start(n)] # "torn" /\ leaf[Start(n)] # "empty"
      BY <1>1, <3>1 DEF Admitted, Broken
    <3>. QED BY <1>1, <1>3, <3>1, <3>2 DEF Core, Shape, Contents, Has, Intact
  <2>. QED BY <2>4, <2>5
<1>8. AtTaint'
  <2>1. AtTaint
    BY <1>2, <1>3, <1>7 DEF AtTaint
  <2>. QED BY <2>1, <1>4 DEF AtTaint, Intact
<1>. QED BY <1>4, <1>5, <1>6, <1>8 DEF IInv, Stage, Running, Artifacts

LEMMA ConfirmStartSafe ==
    ASSUME JournalAssumption, IInv, ConfirmStart
    PROVE  IInv' /\ SureKept
<1>1. Holding /\ Core /\ AtTaint /\ pc = "taint" /\ leaf[Lock] = "whole"
  BY DEF ConfirmStart, IInv, Stage, Holding
<1>2. PICK n \in 1..Slots : n = slot
  BY <1>1 DEF AtTaint
<1>3. leaf' = leaf /\ launched' = launched /\ told' = told /\ pc' = pc /\ slot' = slot
      /\ Synced(Prefix(n - 1) \cup {Start(n)})
  BY <1>2 DEF ConfirmStart, Quietly
<1>4. \A l \in Prefix(n - 1) \cup {Start(n)} : Intact(leaf, l)
  BY <1>1, <1>2 DEF AtTaint
<1>5. Prefix(n - 1) \cup {Start(n)} \in SUBSET Leaves
      /\ told' \subseteq told \cup (Prefix(n - 1) \cup {Start(n)}) \cup {Lock}
  BY <1>3, PrefixLeaves, LeafFacts
<1>6. /\ Core' /\ SureKept
      /\ \A m \in Prefix(n - 1) \cup {Start(n)} : m \in sure' /\ Intact(leaf', m)
  BY <1>1, <1>3, <1>4, <1>5, Confirm
<1>7. Settled(Prefix(n - 1))' /\ Settled(Prefix(n - 1) \cup {Start(n)})'
  BY <1>6 DEF Settled
<1>8. Holding'
  <2>1. slot' = n /\ n \in 1..(Slots + 1) /\ leaf'[Lock] = "whole" /\ pc' = "taint"
    BY <1>1, <1>2, <1>3, JournalAssumption DEF JournalAssumption
  <2>2. \A r \in 1..(slot' - 1) : leaf'[Close(r)] = "commit"
    BY <1>1, <1>3 DEF Holding
  <2>. QED BY <1>7, <2>1, <2>2 DEF Holding
<1>9. AtTaint'
  BY <1>1, <1>3 DEF AtTaint, Intact
<1>. QED BY <1>1, <1>3, <1>6, <1>8, <1>9 DEF IInv, Stage, Running, Artifacts

LEMMA PublishTaintSafe ==
    ASSUME JournalAssumption, IInv, PublishTaint
    PROVE  IInv' /\ SureKept
<1>1. Holding /\ Core /\ AtTaint /\ startSure /\ leaf[Lock] = "whole"
  BY DEF PublishTaint, IInv, Stage, Holding
<1>2. PICK n \in 1..Slots : n = slot
  BY <1>1 DEF AtTaint
<1>3. /\ leaf[Close(n)] = "none"
      /\ Settled(Prefix(n - 1)) /\ Settled({Start(n)})
  BY <1>1, <1>2 DEF AtTaint, Holding, Settled
<1>4. Close(n) \in Leaves /\ Close(n) # Lock /\ Close(n)[2] = "close" /\ Close(n) # Gate
      /\ \A s \in 1..Slots : Close(n) # Start(s)
  BY LeafFacts DEF Start, Lock, Close, Gate
<1>5. Settled(Basis(Close(n))) /\ Ordered(Close(n))
  BY <1>3, <1>4, BasisFacts DEF Ordered
<1>6. (Durable(Close(n), "taint") \/ NotDurable(Close(n), "taint"))
      /\ launched' = launched
  BY <1>2 DEF PublishTaint
<1>7. told' \subseteq Leaves /\ \A m \in told' : m \in told \/ (m \in sure' /\ Intact(leaf', m))
  <2>1. CASE told' = told
    BY <1>1, <2>1 DEF Core, Shape
  <2>2. CASE /\ Durable(Close(n), "taint")
             /\ told' = told \cup Prefix(n - 1) \cup {Start(n), Close(n)}
    <3>1. SureKept /\ Close(n) \in sure' /\ leaf'[Close(n)] = "taint"
      BY <1>1, <1>3, <1>4, <2>2, DurableKeeps
    <3>2. \A m \in Prefix(n - 1) \cup {Start(n)} : m \in sure' /\ Intact(leaf', m)
      BY <1>3, <3>1 DEF SureKept, Settled, Intact
    <3>3. told' \subseteq Leaves
      BY <1>1, <1>4, <2>2, PrefixLeaves, LeafFacts DEF Core, Shape
    <3>. QED BY <2>2, <3>1, <3>2, <3>3 DEF Intact
  <2>. QED BY <1>2, <2>1, <2>2 DEF PublishTaint
<1>8. Core' /\ SureKept
  BY Write, <1>1, <1>3, <1>4, <1>5, <1>6, <1>7
<1>9. Stage'
  BY EndStage DEF PublishTaint
<1>. QED BY <1>8, <1>9 DEF IInv

-----------------------------------------------------------------------------
\* Reconciliation and the terminal gate.
LEMMA ReconcileSafe ==
    ASSUME JournalAssumption, IInv, Reconcile
    PROVE  IInv' /\ SureKept
<1>1. Holding /\ Core /\ Admitted(leaf) /\ leaf[Lock] = "whole" /\ Has(leaf, Header)
  BY DEF Reconcile, IInv, Stage, Holding, Fresh
<1>2. PICK n \in 1..(Slots + 1) : n = slot
  BY <1>1 DEF Holding
<1>3. PICK ls : ls = Prefix(n - 1) \cup Reconciled
  OBVIOUS
<1>4. \A l \in Prefix(n - 1) : Intact(leaf, l)
  <2>1. n - 1 \in 0..Slots /\ \A s \in 1..(n - 1) : leaf[Close(s)] = "commit"
    BY <1>1, <1>2, JournalAssumption DEF Holding, JournalAssumption
  <2>. QED BY <1>1, <2>1, AdmittedIntact DEF Core
<1>5. \A l \in Reconciled : l \in Leaves /\ Intact(leaf, l)
  <2>1. CASE Tainted
    <3>1. n \in 1..Slots /\ leaf[Close(n)] = "taint"
      BY <1>2, <2>1 DEF Tainted
    <3>2. Basis(Close(n)) = {Start(n)} /\ Close(n) \in Leaves /\ Start(n) \in Leaves
      BY <3>1, BasisFacts, LeafFacts
    <3>3. Intact(leaf, Start(n)) /\ Intact(leaf, Close(n))
      BY <1>1, <3>1, <3>2 DEF Core, Rests, Settled, Has, Intact
    <3>. QED BY <1>2, <3>2, <3>3 DEF Reconciled
  <2>2. CASE ~Tainted
    BY <2>2 DEF Reconciled
  <2>. QED BY <2>1, <2>2
<1>6. ls \in SUBSET Leaves /\ \A m \in ls : Intact(leaf, m)
  BY <1>3, <1>4, <1>5, PrefixLeaves
<1>7. leaf' = leaf /\ launched' = launched /\ told' \subseteq told \cup ls \cup {Lock} /\ Synced(ls)
  BY <1>2, <1>3 DEF Reconcile
<1>8. Core' /\ SureKept
  BY <1>1, <1>6, <1>7, Confirm
<1>9. Stage'
  BY EndStage DEF Reconcile
<1>. QED BY <1>8, <1>9 DEF IInv

LEMMA ConfirmCompleteSafe ==
    ASSUME JournalAssumption, IInv, ConfirmComplete
    PROVE  IInv' /\ SureKept
<1>1. Holding /\ Core /\ Admitted(leaf) /\ leaf[Lock] = "whole" /\ pc = "opened"
  BY DEF ConfirmComplete, IInv, Stage, Holding
<1>2. slot = Slots + 1 /\ \A s \in 1..Slots : leaf[Close(s)] = "commit"
  <2>1. slot = Slots + 1
    BY <1>1, JournalAssumption DEF ConfirmComplete, Complete, Holding, JournalAssumption
  <2>2. \A s \in 1..Slots : s \in 1..(slot - 1)
    BY <2>1, JournalAssumption DEF JournalAssumption
  <2>. QED BY <1>1, <2>1, <2>2 DEF Holding
<1>3. Has(leaf, Header)
  BY <1>1, <1>2, JournalAssumption DEF Admitted, Replayed, Has, JournalAssumption
<1>4. \A l \in Prefix(Slots) : Intact(leaf, l)
  <2>1. Slots \in 0..Slots
    BY JournalAssumption DEF JournalAssumption
  <2>. QED BY <1>1, <1>2, <1>3, <2>1, AdmittedIntact DEF Core
<1>5. leaf' = leaf /\ launched' = launched /\ told' = told /\ Synced(Prefix(Slots))
      /\ pc' = "gate" /\ UNCHANGED <<slot, prefixSure, startSure>>
  BY DEF ConfirmComplete, Quietly, Goto
<1>6. Core' /\ SureKept /\ \A m \in Prefix(Slots) : m \in sure' /\ Intact(leaf', m)
  <2>1. told' \subseteq told \cup Prefix(Slots) \cup {Lock} /\ Prefix(Slots) \in SUBSET Leaves
    BY <1>5, PrefixLeaves
  <2>. QED BY <1>1, <1>4, <1>5, <2>1, Confirm
<1>7. AtGate'
  <2>1. Settled(Prefix(Slots))'
    BY <1>6 DEF Settled
  <2>. QED BY <1>2, <1>5, <2>1 DEF AtGate
<1>8. Holding'
  <2>1. Admitted(leaf)' /\ leaf'[Lock] = "whole"
    BY <1>1, <1>5 DEF Admitted, Broken, Replayed, Consistent, Has
  <2>. QED BY <1>1, <1>5, <1>6, <2>1, HoldingKept
<1>. QED BY <1>5, <1>6, <1>7, <1>8 DEF IInv, Stage, Running, Artifacts

LEMMA PublishGateSafe ==
    ASSUME JournalAssumption, IInv, PublishGate
    PROVE  IInv' /\ SureKept
<1>1. Holding /\ Core /\ AtGate /\ leaf[Lock] = "whole" /\ leaf[Gate] = "none"
  BY DEF PublishGate, IInv, Stage, Holding, Has
<1>2. Gate \in Leaves /\ Gate # Lock /\ Gate[2] # "close" /\ ~IsArtifact(Gate)
      /\ \A s \in 1..Slots : Gate # Start(s) /\ Gate # Close(s)
  BY LeafFacts DEF Start, Lock, Close, Gate, IsArtifact, Artifacts
<1>3. \A r \in 1..Slots : leaf[Close(r)] = "commit"
  <2>1. \A r \in 1..Slots : r \in 1..(slot - 1)
    BY <1>1, JournalAssumption DEF AtGate, JournalAssumption
  <2>. QED BY <1>1, <2>1 DEF Holding
<1>4. Settled(Basis(Gate)) /\ Ordered(Gate)
  BY <1>1, <1>2, <1>3, BasisFacts DEF Ordered, AtGate
<1>5. Durable(Gate, "whole") \/ NotDurable(Gate, "whole")
  BY DEF PublishGate
<1>6. told' = told /\ launched' = launched /\ told' \subseteq Leaves
  BY <1>1 DEF PublishGate, Quietly, Core, Shape
<1>7. /\ Core' /\ SureKept
      /\ \A m \in Leaves : m # Gate => leaf'[m] = leaf[m]
  BY Write, <1>1, <1>2, <1>4, <1>5, <1>6
<1>8. CASE End
  BY <1>7, <1>8, EndStage DEF IInv
<1>9. CASE Admitted(leaf') /\ Goto("gate")
  <2>1. pc' = "gate" /\ UNCHANGED <<slot, prefixSure, startSure>>
    BY <1>9 DEF Goto
  <2>2. leaf'[Lock] = "whole" /\ \A r \in 1..Slots : leaf'[Close(r)] = leaf[Close(r)]
    BY <1>1, <1>2, <1>7, LeafFacts
  <2>3. \A r \in 1..(slot - 1) : leaf'[Close(r)] = leaf[Close(r)]
    <3>1. \A r \in 1..(slot - 1) : r \in 1..Slots
      BY <1>1, JournalAssumption DEF AtGate, JournalAssumption
    <3>. QED BY <2>2, <3>1
  <2>4. Admitted(leaf)'
    BY <1>9 DEF Admitted, Broken, Replayed, Consistent, Has
  <2>5. Holding'
    BY <1>1, <1>7, <2>1, <2>2, <2>3, <2>4, HoldingKept
  <2>6. Settled(Prefix(Slots))'
    <3>1. Settled(Prefix(Slots))
      BY <1>1 DEF AtGate
    <3>. QED BY <1>1, <1>7, <3>1, PrefixLeaves, SettledKept
  <2>7. AtGate'
    BY <1>1, <2>1, <2>6 DEF AtGate
  <2>. QED BY <1>7, <2>1, <2>5, <2>7 DEF IInv, Stage, Running, Artifacts
<1>. QED BY <1>8, <1>9 DEF PublishGate

LEMMA ConfirmGateSafe ==
    ASSUME JournalAssumption, IInv, ConfirmGate
    PROVE  IInv' /\ SureKept
<1>1. Holding /\ Core /\ AtGate /\ leaf[Lock] = "whole" /\ Has(leaf, Gate) /\ Admitted(leaf)
  BY DEF ConfirmGate, IInv, Stage, Holding
<1>2. Intact(leaf, Gate)
  <2>1. Gate \in Leaves /\ ~IsArtifact(Gate) /\ Gate[2] # "stderr"
    BY LeafFacts DEF IsArtifact, Gate, Artifacts
  <2>2. leaf[Gate] # "torn" /\ leaf[Gate] # "empty"
    BY <1>1, <2>1 DEF Admitted, Broken
  <2>. QED BY <1>1, <2>1, <2>2 DEF Core, Shape, Contents, Has, Intact
<1>3. PICK ls : ls = Prefix(Slots) \cup {Gate}
  OBVIOUS
<1>4. ls \in SUBSET Leaves /\ \A m \in ls : Intact(leaf, m)
  BY <1>1, <1>2, <1>3, PrefixLeaves, LeafFacts DEF AtGate, Settled
<1>5. Synced(ls)
  <2>1. Prefix(Slots) \subseteq sure
    BY <1>1 DEF AtGate, Settled
  <2>2. Synced({Gate})
    BY DEF ConfirmGate
  <2>. QED BY <1>3, <2>1, <2>2 DEF Synced
<1>6. leaf' = leaf /\ launched' = launched /\ told' \subseteq told \cup ls \cup {Lock}
  BY <1>3 DEF ConfirmGate
<1>7. Core' /\ SureKept
  BY <1>1, <1>4, <1>5, <1>6, Confirm
<1>8. Stage'
  BY EndStage DEF ConfirmGate
<1>. QED BY <1>7, <1>8 DEF IInv

\* A power cut takes from the leaves that nothing rests on.
LEMMA PowerCutSafe ==
    ASSUME JournalAssumption, IInv, PowerCut
    PROVE  IInv' /\ SureKept
<1>1. Core
  BY DEF IInv
<1>2. PICK after \in [Unsure -> {"none", "empty", "torn", "whole", "commit", "taint"}] :
        /\ \A l \in Unsure : after[l] \in Left(l)
        /\ leaf' = [l \in Leaves |-> IF l \in DOMAIN after THEN after[l] ELSE leaf[l]]
  BY DEF PowerCut
<1>3. sure' = {l \in Leaves : Has(leaf', l)} /\ End /\ launched' = launched /\ told' = told
  BY DEF PowerCut, Quietly
<1>4. \A l \in Leaves : IF l \in Unsure THEN leaf'[l] \in Left(l) ELSE leaf'[l] = leaf[l]
  BY <1>2
<1>5. \A l \in sure : l \in Leaves /\ l \notin Unsure /\ Has(leaf, l)
  BY <1>1 DEF Core, Shape, Unsure, Has
<1>6. SureKept
  BY <1>3, <1>4, <1>5 DEF SureKept, Has
<1>7. \A l \in Leaves : Has(leaf', l) => Has(leaf, l)
  BY <1>4 DEF Unsure, Has
<1>8. Shape'
  <2>1. leaf' \in [Leaves -> Contents]
    BY <1>1, <1>2 DEF Core, Shape, Contents
  <2>2. ASSUME NEW l \in Leaves
        PROVE  /\ leaf'[l] \in {"commit", "taint"} => l[2] = "close"
               /\ leaf'[l] = "whole" => l[2] # "close"
               /\ leaf'[l] = "empty" => IsArtifact(l)
    BY <1>1, <1>4 DEF Core, Shape, Left, Debris
  <2>3. sure' \subseteq Leaves /\ \A l \in sure' : leaf'[l] # "none"
    BY <1>3 DEF Has
  <2>. QED BY <1>1, <1>3, <2>1, <2>2, <2>3 DEF Core, Shape
<1>9. \A s \in 1..Slots : leaf'[Close(s)] = "commit" => leaf[Close(s)] = "commit"
  BY <1>4, LeafFacts DEF Left, Debris
<1>10. Core'
  BY <1>1, <1>3, <1>6, <1>7, <1>8, <1>9, Grow
<1>. QED BY <1>3, <1>6, <1>10, EndStage DEF IInv

-----------------------------------------------------------------------------
LEMMA JournalInit ==
    ASSUME JournalAssumption, Init PROVE IInv
<1>1. \A l \in Leaves : leaf[l] = "none"
  BY DEF Init
<1>2. Shape
  BY <1>1 DEF Init, Shape, Contents
<1>3. Rests /\ Commits /\ Spent /\ Settled(told)
  BY <1>1, LeafFacts DEF Init, Rests, Commits, Spent, Settled, Has
<1>4. Stage
  BY DEF Init, Stage, Running, Artifacts
<1>. QED BY <1>2, <1>3, <1>4 DEF IInv, Core

LEMMA JournalStep ==
    ASSUME JournalAssumption, IInv, [Next]_vars PROVE IInv' /\ SureKept
<1>1. CASE CreateLock BY <1>1, CreateLockSafe
<1>2. ASSUME NEW w \in Sessions \cup {"reconcile", "gate"}, Open(w) PROVE IInv' /\ SureKept
  BY <1>2, OpenSafe
<1>3. CASE Step
  <2>1. CASE PublishHeader BY <2>1, PublishHeaderSafe
  <2>2. CASE ConfirmPrefix BY <2>2, ConfirmPrefixSafe
  <2>3. CASE PublishStart BY <2>3, PublishStartSafe
  <2>4. CASE Launch BY <2>4, LaunchSafe
  <2>5. CASE GiveUp BY <2>5, GiveUpSafe
  <2>6. ASSUME NEW a \in Artifacts, PublishArtifact(a) PROVE IInv' /\ SureKept
    BY <2>6, PublishArtifactSafe
  <2>7. CASE Commit BY <2>7, CommitSafe
  <2>8. CASE Settle BY <2>8, SettleSafe
  <2>9. CASE TaintDangling BY <2>9, TaintDanglingSafe
  <2>10. CASE ConfirmStart BY <2>10, ConfirmStartSafe
  <2>11. CASE PublishTaint BY <2>11, PublishTaintSafe
  <2>12. CASE Reconcile BY <2>12, ReconcileSafe
  <2>13. CASE ConfirmComplete BY <2>13, ConfirmCompleteSafe
  <2>14. CASE PublishGate BY <2>14, PublishGateSafe
  <2>15. CASE ConfirmGate BY <2>15, ConfirmGateSafe
  <2>16. CASE Fail BY <2>16, EndSafe
  <2>. QED BY <1>3, <2>1, <2>2, <2>3, <2>4, <2>5, <2>6, <2>7, <2>8, <2>9, <2>10,
              <2>11, <2>12, <2>13, <2>14, <2>15, <2>16 DEF Step
<1>4. CASE Crash BY <1>4, EndSafe
<1>5. CASE PowerCut BY <1>5, PowerCutSafe
<1>6. CASE UNCHANGED vars
  <2>1. Core' /\ SureKept
    BY <1>6, Still DEF IInv, vars
  <2>2. Holding => Holding'
    BY <1>6 DEF vars, Holding, Admitted, Broken, Replayed, Consistent, Has, Settled, Intact
  <2>3. (AtStart => AtStart') /\ (AtTaint => AtTaint') /\ (AtGate => AtGate')
    BY <1>6 DEF vars, AtStart, AtTaint, AtGate, Settled, Intact
  <2>4. AtRun => AtRun'
    BY <1>6 DEF vars, AtRun, Settled, Intact
  <2>5. pc' = pc
    BY <1>6 DEF vars
  <2>. QED BY <2>1, <2>2, <2>3, <2>4, <2>5 DEF IInv, Stage
<1>. QED BY <1>1, <1>2, <1>3, <1>4, <1>5, <1>6 DEF Next

\* Every leaf of a journal rests on leaves that are whole and durable, and the
\* holder of the lock has at each of its steps what that step builds upon.
THEOREM JournalInvariant == JournalAssumption /\ Spec => []IInv
<1>1. ASSUME JournalAssumption PROVE Spec => []IInv
  <2>1. Init => IInv
    BY <1>1, JournalInit
  <2>2. IInv /\ [Next]_vars => IInv'
    BY <1>1, JournalStep
  <2>. QED BY <2>1, <2>2, PTL DEF Spec
<1>. QED BY <1>1

\* Whatever died and whatever a power cut took, the next open accepts the
\* journal, unless one of its leaves is itself broken.
THEOREM EveryPrefixIsAdmitted == JournalAssumption /\ Spec => []EveryPrefixAdmitted
<1>1. ASSUME JournalAssumption PROVE IInv => EveryPrefixAdmitted
  <2>1. SUFFICES ASSUME IInv, ~Broken(leaf)
                 PROVE  Admitted([leaf EXCEPT ![Lock] = "whole"])
    BY DEF EveryPrefixAdmitted
  <2>2. Replayed(leaf) /\ Consistent(leaf) /\ leaf \in [Leaves -> Contents]
    BY <1>1, <2>1, CoreAdmits DEF IInv, Core, Shape
  <2>3. PICK f : f = [leaf EXCEPT ![Lock] = "whole"]
    OBVIOUS
  <2>4. f[Lock] = "whole" /\ \A l \in Leaves : l # Lock => f[l] = leaf[l]
    BY <2>2, <2>3, LeafFacts
  <2>5. /\ \A s \in 1..Slots : f[Start(s)] = leaf[Start(s)] /\ f[Close(s)] = leaf[Close(s)]
        /\ \A s \in 1..Slots, a \in Artifacts : f[<<s, a>>] = leaf[<<s, a>>]
        /\ f[Header] = leaf[Header] /\ f[Gate] = leaf[Gate]
    <3>1. /\ \A s \in 1..Slots : Start(s) # Lock /\ Close(s) # Lock
          /\ \A s \in 1..Slots, a \in Artifacts : <<s, a>> # Lock
          /\ Header # Lock /\ Gate # Lock
      BY DEF Start, Close, Lock, Header, Gate
    <3>. QED BY <2>4, <3>1, LeafFacts
  <2>6. ~Broken(f)
    BY <2>1, <2>4 DEF Broken
  <2>7. Replayed(f)
    <3>1. \A s \in 2..Slots : s - 1 \in 1..Slots
      BY <1>1 DEF JournalAssumption
    <3>2. \A s \in 1..Slots : s # 1 => f[Close(s - 1)] = leaf[Close(s - 1)]
      BY <2>5, <3>1
    <3>3. Slots \in 1..Slots
      BY <1>1 DEF JournalAssumption
    <3>. QED BY <2>2, <2>5, <3>2, <3>3 DEF Replayed, Has
  <2>8. Consistent(f)
    BY <2>2, <2>5 DEF Consistent, Has
  <2>. QED BY <2>3, <2>4, <2>6, <2>7, <2>8 DEF Admitted
<1>2. ASSUME JournalAssumption PROVE Spec => []EveryPrefixAdmitted
  <2>1. IInv => EveryPrefixAdmitted
    BY <1>1, <1>2
  <2>2. Spec => []IInv
    BY <1>2, JournalInvariant
  <2>. QED BY <2>1, <2>2, PTL
<1>. QED BY <1>2

\* A child is started once in the life of a campaign, and what it was started
\* upon is durable from then on.
THEOREM SlotsAreSpentOnce == JournalAssumption /\ Spec => []SlotsSpentOnce
<1>1. ASSUME JournalAssumption PROVE IInv => SlotsSpentOnce
  <2>1. SUFFICES ASSUME IInv, NEW s \in 1..Slots
                 PROVE  /\ launched[s] <= 1
                        /\ launched[s] = 1 =>
                             /\ Prefix(s - 1) \cup {Start(s)} \subseteq sure
                             /\ \A r \in 1..(s - 1) : leaf[Close(r)] = "commit"
                        /\ leaf[Close(s)] = "commit" => launched[s] = 1
    BY DEF SlotsSpentOnce
  <2>2. Core
    BY <2>1 DEF IInv
  <2>3. launched[s] <= 1
    BY <2>2 DEF Core, Shape
  <2>4. ASSUME launched[s] = 1
        PROVE  /\ Prefix(s - 1) \cup {Start(s)} \subseteq sure
               /\ \A r \in 1..(s - 1) : leaf[Close(r)] = "commit"
    <3>1. Start(s) \in sure /\ Has(leaf, Start(s))
      BY <2>2, <2>4 DEF Core, Shape, Spent, Settled, Has
    <3>2. Settled(Prefix(s - 1))
      BY <2>2, <3>1, BasisFacts, LeafFacts DEF Core, Rests
    <3>3. \A r \in 1..(s - 1) : leaf[Close(r)] = "commit"
      BY <2>2, <3>1 DEF Core, Commits
    <3>. QED BY <3>1, <3>2, <3>3 DEF Settled
  <2>5. leaf[Close(s)] = "commit" => launched[s] = 1
    BY <2>2 DEF Core, Commits
  <2>. QED BY <2>3, <2>4, <2>5
<1>2. ASSUME JournalAssumption PROVE Spec => []SlotsSpentOnce
  <2>1. IInv => SlotsSpentOnce
    BY <1>1, <1>2
  <2>2. Spec => []IInv
    BY <1>2, JournalInvariant
  <2>. QED BY <2>1, <2>2, PTL
<1>. QED BY <1>2

\* What was reported as durable stays as it was reported.
THEOREM ReportedStays == JournalAssumption /\ Spec => ReportedIsKept
<1>1. ASSUME JournalAssumption PROVE Spec => ReportedIsKept
  <2>1. IInv /\ [Next]_vars => [\A l \in told : leaf'[l] = leaf[l]]_vars
    <3>1. SUFFICES ASSUME IInv, [Next]_vars PROVE \A l \in told : leaf'[l] = leaf[l]
      OBVIOUS
    <3>2. SureKept
      BY <1>1, <3>1, JournalStep
    <3>. QED BY <3>1, <3>2 DEF SureKept, IInv, Core, Settled
  <2>2. Spec => []IInv
    BY <1>1, JournalInvariant
  <2>. QED BY <2>1, <2>2, PTL DEF Spec, ReportedIsKept
<1>. QED BY <1>1
===============================================================================

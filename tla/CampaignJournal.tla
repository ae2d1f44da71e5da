--------------------------- MODULE CampaignJournal ---------------------------
(***************************************************************************)
(* The journal of a SIQS measurement campaign (shadow_proof_rss_campaign).  *)
(* A campaign runs one child process per slot, in the order of the plan,    *)
(* and each slot at most once, so that no sample can be measured again      *)
(* until it pleases.  What has happened is a directory of immutable leaves: *)
(* the header, per slot a start and a close, which is a commit or a taint,  *)
(* and the record of the terminal gate; a second directory holds the three  *)
(* artifacts of each slot.  Leaves are created exclusively and never        *)
(* changed or removed, so a publication that fails leaves its debris.       *)
(*                                                                         *)
(* One process at a time holds the lock: the controller of a fresh campaign,*)
(* a session of the public interface, which can start a slot but not run it,*)
(* a reconciliation, or the terminal gate.  It may die between any two      *)
(* steps, and a power cut keeps of a leaf that was not synced all, a part,  *)
(* or nothing.                                                              *)
(***************************************************************************)
EXTENDS Naturals

CONSTANT Slots      \* SIQS_SHADOW_PROOF_RSS_GATE_EXPECTED_SAMPLE_COUNT

JournalAssumption == Slots \in Nat \ {0}

VARIABLES leaf,        \* what each leaf holds
          sure,        \* the leaves a power cut cannot change
          who, pc,     \* who holds the lock, and its next step
          slot,        \* committed_slot_count + 1 of its replay
          prefixSure,  \* committed_prefix_confirmed_durable_
          startSure,   \* pending_start_confirmed_durable_
          launched,    \* how often the child of a slot was started: 0, 1, or 2 for more
          told         \* the leaves somebody was told are durable

vars == <<leaf, sure, who, pc, slot, prefixSure, startSure, launched, told>>

Artifacts == {"stdout", "stderr", "joined"}
Lock == <<0, "lock">>
Header == <<0, "header">>
Gate == <<0, "gate">>
Start(s) == <<s, "start">>
Close(s) == <<s, "close">>
Leaves == {Lock, Header, Gate} \cup (1..Slots) \X (Artifacts \cup {"start", "close"})

IsArtifact(l) == l[2] \in Artifacts
Has(f, l) == f[l] # "none"
Intact(f, l) == f[l] \in {"whole", "commit", "taint"}

\* The leaves that say that n slots are committed.
Prefix(n) ==
    {Lock, Header} \cup {l \in Leaves : l[1] \in 1..n}

Sessions == {"campaign", "session"}

-----------------------------------------------------------------------------
\* A leaf that no open accepts: a journal record that is not a whole frame,
\* an artifact without a byte where there has to be one.
Broken(f) ==
    \E l \in Leaves : \/ f[l] = "torn" /\ ~IsArtifact(l)
                      \/ f[l] = "empty" /\ l[2] # "stderr"

\* The records are a prefix of the plan, and only the last may be a taint.
Replayed(f) ==
    /\ \A s \in 1..Slots :
        /\ Has(f, Start(s)) => IF s = 1 THEN Has(f, Header) ELSE f[Close(s - 1)] = "commit"
        /\ Has(f, Close(s)) => Has(f, Start(s))
    /\ Has(f, Gate) => f[Close(Slots)] = "commit"

\* A committed slot has its artifacts, a slot that was not started has none.
Consistent(f) ==
    \A s \in 1..Slots, a \in Artifacts :
        /\ f[Close(s)] = "commit" => f[<<s, a>>] = "whole"
        /\ Has(f, <<s, a>>) => Has(f, Start(s))

Admitted(f) == f[Lock] = "whole" /\ ~Broken(f) /\ Replayed(f) /\ Consistent(f)

\* The views of a replay, for the holder of the lock.
Fresh == ~Has(leaf, Header)
Complete == slot > Slots
Ready == slot <= Slots /\ Has(leaf, Header) /\ ~Has(leaf, Start(slot))
Dangling == slot <= Slots /\ Has(leaf, Start(slot)) /\ ~Has(leaf, Close(slot))
Tainted == slot <= Slots /\ leaf[Close(slot)] = "taint"

Init ==
    /\ leaf = [l \in Leaves |-> "none"] /\ sure = {}
    /\ who = "nobody" /\ pc = "idle" /\ slot = 0
    /\ prefixSure = FALSE /\ startSure = FALSE
    /\ launched = [s \in 1..Slots |-> 0] /\ told = {}

-----------------------------------------------------------------------------
\* The syncs of a publication or a confirmation: the file and its directory,
\* which is the one the lock is in unless the leaf is an artifact.
Synced(ls) == sure' = sure \cup ls \cup {Lock}

Debris(l) == IF IsArtifact(l) THEN {"empty", "torn"} ELSE {"torn"}

\* publish_at answers "durable", or it fails: nothing was created, or a part
\* was written, or all of it, and nothing tells what the disk has of it.
Durable(l, c) ==
    /\ leaf' = [leaf EXCEPT ![l] = c]
    /\ sure' = sure \cup {l} \cup (IF IsArtifact(l) THEN {} ELSE {Lock})

NotDurable(l, c) ==
    /\ \E left \in {"none", c} \cup Debris(l) : leaf' = [leaf EXCEPT ![l] = left]
    /\ UNCHANGED sure

\* The call ends and the lock is released.
End ==
    /\ who' = "nobody" /\ pc' = "idle" /\ slot' = 0
    /\ prefixSure' = FALSE /\ startSure' = FALSE

Goto(p) == pc' = p /\ UNCHANGED <<who, slot, prefixSure, startSure>>
Quietly == UNCHANGED <<launched, told>>

\* An open that may create the lock does so before it looks at anything else.
CreateLock ==
    /\ pc = "idle" /\ ~Has(leaf, Lock)
    /\ leaf' = [leaf EXCEPT ![Lock] = "whole"]
    /\ UNCHANGED <<sure, who, pc, slot, prefixSure, startSure, launched, told>>

\* The lock is taken, the namespace is inspected and the journal replayed.
\* The controller takes only a campaign that has not begun.
Open(w) ==
    /\ pc = "idle" /\ Admitted(leaf)
    /\ w = "campaign" => Fresh
    /\ who' = w /\ pc' = "opened"
    /\ \E n \in 0..Slots :
        /\ \A s \in 1..n : leaf[Close(s)] = "commit"
        /\ n < Slots => leaf[Close(n + 1)] # "commit"
        /\ slot' = n + 1
    /\ prefixSure' = FALSE /\ startSure' = FALSE
    /\ UNCHANGED <<leaf, sure>> /\ Quietly

\* A check, a confirmation or a re-read fails, or the owner of a session drops
\* it: nothing is published any more.
Fail ==
    /\ \/ pc \in {"opened", "start", "settle", "taint", "gate"}
       \/ pc = "active" /\ who = "session"
    /\ End /\ UNCHANGED <<leaf, sure>> /\ Quietly

-----------------------------------------------------------------------------
\* begin_next_slot: the header is published, or the committed prefix, every
\* leaf of it, is made durable; then the start is published.
PublishHeader ==
    /\ pc = "opened" /\ who \in Sessions /\ Fresh
    /\ \/ Durable(Header, "whole") /\ Admitted(leaf')
          /\ pc' = "start" /\ prefixSure' = TRUE /\ UNCHANGED <<who, slot, startSure>>
       \/ (Durable(Header, "whole") \/ NotDurable(Header, "whole")) /\ End
    /\ Quietly

\* Mutant: what could be replayed is not made durable before it is built upon.
ConfirmPrefixReplayed ==
    /\ pc = "opened" /\ who \in Sessions /\ Ready
    /\ pc' = "start" /\ prefixSure' = TRUE
    /\ UNCHANGED <<leaf, sure, who, slot, startSure>> /\ Quietly

ConfirmPrefix ==
    /\ pc = "opened" /\ who \in Sessions /\ Ready
    /\ IF prefixSure THEN UNCHANGED sure ELSE Synced(Prefix(slot - 1))
    /\ pc' = "start" /\ prefixSure' = TRUE
    /\ UNCHANGED <<leaf, who, slot, startSure>> /\ Quietly

\* Mutant: a start that can be read is good enough.
PublishStartVisible ==
    /\ pc = "start"
    /\ Durable(Start(slot), "whole") \/ NotDurable(Start(slot), "whole")
    /\ \/ Has(leaf', Start(slot)) /\ Admitted(leaf')
          /\ pc' = "active" /\ startSure' = TRUE /\ UNCHANGED <<who, slot, prefixSure>>
       \/ End
    /\ Quietly

PublishStart ==
    /\ pc = "start"
    /\ \/ Durable(Start(slot), "whole") /\ Admitted(leaf')
          /\ pc' = "active" /\ startSure' = TRUE /\ UNCHANGED <<who, slot, prefixSure>>
       \/ (Durable(Start(slot), "whole") \/ NotDurable(Start(slot), "whole")) /\ End
    /\ Quietly

\* The slot runner: the child is started, and its output joined to a sample.
Launch ==
    /\ pc = "active" /\ who = "campaign"
    /\ launched' = [launched EXCEPT ![slot] = IF @ = 0 THEN 1 ELSE 2]
    /\ Goto("stdout") \/ Goto("taint")
    /\ UNCHANGED <<leaf, sure, told>>

\* The runner is refused before it starts the child, or the owner of a
\* session gives the slot up.
GiveUp ==
    /\ pc = "active" /\ Goto("taint")
    /\ UNCHANGED <<leaf, sure>> /\ Quietly

NextStep(a) == IF a = "stdout" THEN "stderr" ELSE IF a = "stderr" THEN "joined" ELSE "commit"

\* Mutant: a failed publication has the slot run again.
PublishArtifactRerun(a) ==
    /\ pc = a
    /\ \/ Durable(<<slot, a>>, "whole") /\ Admitted(leaf') /\ Goto(NextStep(a))
       \/ (Durable(<<slot, a>>, "whole") \/ NotDurable(<<slot, a>>, "whole")) /\ Goto("active")
    /\ Quietly

\* publish_artifact_batch, in the order of the kinds; any failure taints.
PublishArtifact(a) ==
    /\ pc = a
    /\ \/ Durable(<<slot, a>>, "whole") /\ Admitted(leaf') /\ Goto(NextStep(a))
       \/ (Durable(<<slot, a>>, "whole") \/ NotDurable(<<slot, a>>, "whole")) /\ Goto("taint")
    /\ Quietly

\* The session goes on with the next slot, or the campaign is complete.
Committed ==
    /\ told' = told \cup Prefix(slot)
    /\ IF slot = Slots THEN End
       ELSE /\ pc' = "opened" /\ slot' = slot + 1 /\ prefixSure' = TRUE /\ startSure' = FALSE
            /\ UNCHANGED who
    /\ UNCHANGED launched

\* commit_same_child_execution: a commit that is visible but not durable has to
\* be settled, one that is not there leaves the taint, and in between nobody
\* may say anything any more.
Commit ==
    /\ pc = "commit"
    /\ \/ Goto("taint") /\ UNCHANGED <<leaf, sure>> /\ Quietly
       \/ Durable(Close(slot), "commit") /\ Admitted(leaf') /\ Committed
       \/ NotDurable(Close(slot), "commit") /\ Admitted(leaf') /\ Quietly
          /\ Goto(IF Has(leaf', Close(slot)) THEN "settle" ELSE "taint")
       \/ (Durable(Close(slot), "commit") \/ NotDurable(Close(slot), "commit")) /\ End /\ Quietly

\* Mutant: a commit that can be read is reported as durable.
SettleVisible == pc = "settle" /\ Committed /\ UNCHANGED <<leaf, sure>>

Settle ==
    /\ pc = "settle" /\ Synced({Close(slot)})
    /\ Committed /\ UNCHANGED leaf

-----------------------------------------------------------------------------
\* append_pending_taint: the start it closes is durable before the taint is.
TaintDangling ==
    /\ pc = "opened" /\ who \in {"session", "reconcile"} /\ Dangling
    /\ Goto("taint") /\ UNCHANGED <<leaf, sure>> /\ Quietly

ConfirmStart ==
    /\ pc = "taint" /\ ~startSure
    /\ Synced(Prefix(slot - 1) \cup {Start(slot)})
    /\ startSure' = TRUE /\ prefixSure' = TRUE
    /\ UNCHANGED <<leaf, who, pc, slot>> /\ Quietly

PublishTaint ==
    /\ pc = "taint" /\ startSure
    /\ \/ Durable(Close(slot), "taint") /\ Admitted(leaf')
          /\ told' = told \cup Prefix(slot - 1) \cup {Start(slot), Close(slot)}
       \/ (Durable(Close(slot), "taint") \/ NotDurable(Close(slot), "taint")) /\ UNCHANGED told
    /\ End /\ UNCHANGED launched

\* reconcile: what is there is made durable and reported; a start without a
\* close is tainted (TaintDangling).
Reconciled == IF Tainted THEN {Start(slot), Close(slot)} ELSE {}

Reconcile ==
    /\ pc = "opened" /\ who = "reconcile" /\ ~Dangling /\ ~Fresh
    /\ Synced(Prefix(slot - 1) \cup Reconciled)
    /\ told' = told \cup Prefix(slot - 1) \cup Reconciled
    /\ End /\ UNCHANGED <<leaf, launched>>

\* evaluate_and_commit_terminal_gate of a complete campaign.
ConfirmComplete ==
    /\ pc = "opened" /\ who = "gate" /\ Complete
    /\ Synced(Prefix(Slots)) /\ Goto("gate")
    /\ UNCHANGED leaf /\ Quietly

PublishGate ==
    /\ pc = "gate" /\ ~Has(leaf, Gate)
    /\ Durable(Gate, "whole") \/ NotDurable(Gate, "whole")
    /\ \/ Has(leaf', Gate) /\ Admitted(leaf') /\ Goto("gate")
       \/ End
    /\ Quietly

ConfirmGate ==
    /\ pc = "gate" /\ Has(leaf, Gate)
    /\ Synced({Gate}) /\ told' = told \cup Prefix(Slots) \cup {Gate}
    /\ End /\ UNCHANGED <<leaf, launched>>

-----------------------------------------------------------------------------
\* The process dies; the system may lose power with it.
Crash == pc # "idle" /\ End /\ UNCHANGED <<leaf, sure>> /\ Quietly

Left(l) == {"none", leaf[l]} \cup (IF l = Lock THEN {} ELSE Debris(l))

Unsure == {l \in Leaves : l \notin sure /\ Has(leaf, l)}

PowerCut ==
    \E after \in [Unsure -> {"none", "empty", "torn", "whole", "commit", "taint"}] :
        /\ \A l \in Unsure : after[l] \in Left(l)
        /\ leaf' = [l \in Leaves |-> IF l \in DOMAIN after THEN after[l] ELSE leaf[l]]
        /\ sure' = {l \in Leaves : Has(leaf', l)}
        /\ End /\ Quietly

Step ==
    \/ PublishHeader \/ ConfirmPrefix \/ PublishStart \/ Launch \/ GiveUp
    \/ \E a \in Artifacts : PublishArtifact(a)
    \/ Commit \/ Settle \/ TaintDangling \/ ConfirmStart \/ PublishTaint
    \/ Reconcile \/ ConfirmComplete \/ PublishGate \/ ConfirmGate \/ Fail

Next ==
    \/ CreateLock \/ (\E w \in Sessions \cup {"reconcile", "gate"} : Open(w))
    \/ Step \/ Crash \/ PowerCut

Spec == Init /\ [][Next]_vars
FairSpec == Spec /\ WF_vars(Step)

-----------------------------------------------------------------------------
\* Between calls the journal is one that the next open accepts, whatever died
\* and whatever a power cut took, except for a leaf that is itself broken
\* (validate_..._artifact_consistency, resume_..._campaign_journal,
\* inspect_terminal_gate_record).
EveryPrefixAdmitted ==
    pc = "idle" => Broken(leaf) \/ Admitted([leaf EXCEPT ![Lock] = "whole"])

\* What was reported as durable - a committed slot, a taint, a confirmed
\* prefix, the verdict of the gate - stays as it was reported, over every crash
\* and power cut (commit_same_child_execution, reconcile,
\* evaluate_and_commit_terminal_gate).
ReportedIsKept == [][\A l \in told : leaf'[l] = leaf[l]]_vars

\* The child of a slot is started once in the life of the campaign, over any
\* number of processes; a power cut can neither make the journal forget it nor
\* any slot before it, and only what was run is committed (begin_next_slot).
SlotsSpentOnce ==
    \A s \in 1..Slots :
        /\ launched[s] <= 1
        /\ launched[s] = 1 => Prefix(s - 1) \cup {Start(s)} \subseteq sure
                              /\ \A r \in 1..(s - 1) : leaf[Close(r)] = "commit"
        /\ leaf[Close(s)] = "commit" => launched[s] = 1

\* Every open of the journal comes to an end.
CallReturns == pc # "idle" ~> pc = "idle"
===============================================================================

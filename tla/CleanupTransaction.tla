-------------------------- MODULE CleanupTransaction --------------------------
(***************************************************************************)
(* OOCCleanupTransaction: deletes the index and data file of one out-of-core*)
(* relation store as a unit.  A durable intent names the pair; both files   *)
(* are renamed into quarantine; a second durable marker ("staged")          *)
(* authorizes the deletion; then data, index, intent and staged marker are  *)
(* removed, each removal made durable before the next.  Only the writer     *)
(* that created a pair holds the receipt that may start this; whoever finds *)
(* an intent later finishes it.                                             *)
(*                                                                         *)
(* A call holds the BaseLock of the store from its first look to its end.   *)
(* It may fail at any system call, its process may die, and a power cut     *)
(* leaves any directory written since the last directory sync.  Somebody    *)
(* who does not take the lock may put a file under a free live name.        *)
(***************************************************************************)
EXTENDS Naturals

CONSTANTS Gens,         \* generations of the store: the pairs one writer creates
          Nothing, Torn, Foreign

CleanupAssumption ==
    {Nothing, Torn, Foreign} \cap Gens = {} /\ Nothing # Torn /\ Nothing # Foreign /\ Torn # Foreign

VARIABLES dir,      \* what each leaf holds: the generation, or Nothing, Torn, Foreign
          disk,     \* the directories a power cut may leave behind
          receipt,  \* receipt[g]: unborn, held, spent or lost
          step,     \* where the call that holds the lock is, or idle, or refused
          gen,      \* the generation the call was asked to clean up, or Nothing
          begin,    \* it may start a transaction: its caller showed the receipt
          intent    \* the generation its transaction is about

vars == <<dir, disk, receipt, step, gen, begin, intent>>

Live == {"index", "data"}
Quarantine == {"q_index", "q_data"}
Markers == {"intent", "staged"}
Pending(m) == IF m = "intent" THEN "intent_pending" ELSE "staged_pending"
Leaves == Live \cup Quarantine \cup Markers \cup {"intent_pending", "staged_pending"}

Has(d, n) == d[n] # Nothing
Empty(d) == \A n \in Leaves : ~Has(d, n)

Idle == step \in {"idle", "refused"}

Init ==
    /\ dir = [n \in Leaves |-> Nothing]
    /\ disk = {dir}
    /\ receipt = [g \in Gens |-> "unborn"]
    /\ step = "idle" /\ gen = Nothing /\ begin = FALSE /\ intent = Nothing

-----------------------------------------------------------------------------
\* The directory changes in memory; a power cut may or may not keep the change.
Entry(d) == dir' = d /\ disk' = disk \cup {d}

Goto(s) == step' = s /\ UNCHANGED <<receipt, gen, begin, intent>>
Look(s) == Goto(s) /\ UNCHANGED <<dir, disk>>

\* A sync of the parent directory, alone or after the file it names.
SyncDir(s) == disk' = {dir} /\ Goto(s) /\ UNCHANGED dir

\* The call ends and releases the lock.
End(s) == step' = s /\ gen' = Nothing /\ begin' = FALSE /\ intent' = Nothing
Return(s) == End(s) /\ UNCHANGED <<dir, disk, receipt>>
Refuse == Return("refused")

\* A fresh writer takes the lock, requires every leaf of the pair to be free
\* and creates both files.
NewStore(g) ==
    /\ Idle /\ receipt[g] = "unborn"
    /\ Empty(dir)
    /\ LET one == [dir EXCEPT !["index"] = g]
           both == [one EXCEPT !["data"] = g]
       IN dir' = both /\ disk' = disk \cup {one, both}
    /\ receipt' = [receipt EXCEPT ![g] = "held"]
    /\ UNCHANGED <<step, gen, begin, intent>>

\* begin_or_resume of the writer that holds the receipt; resume of anybody,
\* for one generation or for whatever it finds.
BeginOrResume(g) ==
    /\ Idle /\ receipt[g] = "held"
    /\ step' = "read" /\ gen' = g /\ begin' = TRUE
    /\ UNCHANGED <<dir, disk, receipt, intent>>

Resume(g) ==
    /\ Idle
    /\ step' = "read" /\ gen' = g
    /\ UNCHANGED <<dir, disk, receipt, begin, intent>>

\* run_transaction_locked: an intent is confirmed to be durable and decides;
\* a staged marker without an intent is the tail of a finished deletion.
Read ==
    /\ step = "read"
    /\ \/ /\ Has(dir, "intent") /\ gen \in {Nothing, dir["intent"]}
          /\ disk' = {dir} /\ intent' = dir["intent"] /\ step' = "advance"
          /\ receipt' = IF begin THEN [receipt EXCEPT ![gen] = "spent"] ELSE receipt
          /\ UNCHANGED <<dir, gen, begin>>
       \/ /\ Has(dir, "intent") /\ gen \notin {Nothing, dir["intent"]}
          /\ Refuse
       \/ /\ ~Has(dir, "intent") /\ Has(dir, "staged")
          /\ disk' = {dir} /\ intent' = dir["staged"] /\ step' = "tail"
          /\ UNCHANGED <<dir, receipt, gen, begin>>
       \/ ~Has(dir, "intent") /\ ~Has(dir, "staged") /\ Look("fresh")

\* Mutant: the receipt is spent before the intent is on the disk.
FreshSpending ==
    /\ step = "fresh"
    /\ IF \E n \in Quarantine : Has(dir, n) THEN Refuse
       ELSE IF ~begin THEN Return("idle")
       ELSE IF \A n \in Live : dir[n] = gen
            THEN /\ step' = "publish_intent" /\ intent' = gen
                 /\ receipt' = [receipt EXCEPT ![gen] = "spent"]
                 /\ UNCHANGED <<dir, disk, gen, begin>>
            ELSE Refuse

\* No transaction is on the disk.  Only the receipt begins one, and only for
\* exactly the pair that it names.
Fresh ==
    /\ step = "fresh"
    /\ IF \E n \in Quarantine : Has(dir, n) THEN Refuse
       ELSE IF ~begin THEN Return("idle")
       ELSE IF \A n \in Live : ~Has(dir, n)
            THEN IF Has(dir, "intent_pending") THEN Refuse
                 ELSE End("idle") /\ receipt' = [receipt EXCEPT ![gen] = "spent"]
                      /\ UNCHANGED <<dir, disk>>
       ELSE IF \A n \in Live : dir[n] = gen
            THEN /\ step' = "publish_intent" /\ intent' = gen
                 /\ UNCHANGED <<dir, disk, receipt, gen, begin>>
            ELSE Refuse

-----------------------------------------------------------------------------
\* publish_marker_durable: the marker is written and synced under its pending
\* name, renamed without replacing, and the rename is synced.  A canonical
\* marker never stands beside a pending one of the same transaction while the
\* lock is held, so reclaim_pending_for_canonical finds nothing to do.
PublishStep(m) == IF m = "intent" THEN "publish_intent" ELSE "publish_staged"
WriteStep(m) == IF m = "intent" THEN "write_intent" ELSE "write_staged"
SyncStep(m) == IF m = "intent" THEN "sync_intent" ELSE "sync_staged"
RenameStep(m) == IF m = "intent" THEN "rename_intent" ELSE "rename_staged"
ConfirmStep(m) == IF m = "intent" THEN "confirm_intent" ELSE "confirm_staged"

\* A torn pending file has no authority and is rewritten in place; one that
\* is complete must be the same marker.
PreparePending(m) ==
    /\ step = PublishStep(m)
    /\ IF dir[Pending(m)] = Nothing
       THEN Entry([dir EXCEPT ![Pending(m)] = Torn]) /\ Goto(WriteStep(m))
       ELSE IF dir[Pending(m)] = Torn THEN Look(WriteStep(m))
       ELSE IF dir[Pending(m)] = intent THEN Look(SyncStep(m))
       ELSE Refuse

WritePending(m) ==
    /\ step = WriteStep(m)
    /\ Entry([dir EXCEPT ![Pending(m)] = intent]) /\ Goto(SyncStep(m))

SyncPending(m) == step = SyncStep(m) /\ SyncDir(RenameStep(m))

RenameMarker(m) ==
    /\ step = RenameStep(m)
    /\ Entry([dir EXCEPT ![m] = intent, ![Pending(m)] = Nothing]) /\ Goto(ConfirmStep(m))

\* A durable intent consumes the receipt.
ConfirmIntent ==
    /\ step = "confirm_intent"
    /\ disk' = {dir} /\ step' = "advance"
    /\ receipt' = [receipt EXCEPT ![gen] = "spent"]
    /\ UNCHANGED <<dir, gen, begin, intent>>

\* Mutant: the rename of the staged marker is not synced.
ConfirmStagedUnsynced == step = "confirm_staged" /\ Look("delete")

ConfirmStaged == step = "confirm_staged" /\ SyncDir("delete")

-----------------------------------------------------------------------------
\* advance_transaction.

\* Where a file of the pair is (locate_artifact); "foreign" stops the call.
Located(live, quarantine) ==
    IF ~Has(dir, live) /\ ~Has(dir, quarantine) THEN "missing"
    ELSE IF dir[live] = intent /\ ~Has(dir, quarantine) THEN "live"
    ELSE IF dir[quarantine] = intent /\ ~Has(dir, live) THEN "quarantine"
    ELSE "foreign"
IndexAt == Located("index", "q_index")
DataAt == Located("data", "q_data")

\* What a sync left uncertain is settled before the next transition uses it.
Advance ==
    /\ step = "advance"
    /\ IF Has(dir, "staged")
       THEN IF dir["staged"] = intent THEN SyncDir("delete") ELSE Refuse
       ELSE SyncDir("quarantine_index")

\* Mutant: a crash after the second rename is not expected.
QuarantineIndexOnce ==
    /\ step = "quarantine_index"
    /\ \/ IndexAt = "live" /\ DataAt = "live"
          /\ Entry([dir EXCEPT !["q_index"] = intent, !["index"] = Nothing])
          /\ Goto("sync_index")
       \/ IndexAt = "quarantine" /\ DataAt = "live" /\ Look("quarantine_data")
       \/ ~(DataAt = "live" /\ IndexAt \in {"live", "quarantine"}) /\ Refuse

\* Before the deletion is authorized both files are there, and the index goes
\* first.
QuarantineIndex ==
    /\ step = "quarantine_index"
    /\ \/ IndexAt = "live" /\ DataAt = "live"
          /\ Entry([dir EXCEPT !["q_index"] = intent, !["index"] = Nothing])
          /\ Goto("sync_index")
       \/ IndexAt = "quarantine" /\ DataAt \in {"live", "quarantine"} /\ Look("quarantine_data")
       \/ ~(IndexAt = "live" /\ DataAt = "live")
          /\ ~(IndexAt = "quarantine" /\ DataAt \in {"live", "quarantine"}) /\ Refuse

SyncIndex == step = "sync_index" /\ SyncDir("quarantine_data")

QuarantineData ==
    /\ step = "quarantine_data"
    /\ \/ IndexAt = "quarantine" /\ DataAt = "live"
          /\ Entry([dir EXCEPT !["q_data"] = intent, !["data"] = Nothing])
          /\ Goto("sync_data")
       \/ IndexAt = "quarantine" /\ DataAt = "quarantine" /\ Look("publish_staged")
       \/ ~(IndexAt = "quarantine" /\ DataAt \in {"live", "quarantine"}) /\ Refuse

SyncData == step = "sync_data" /\ SyncDir("audit_pair")

AuditPair ==
    /\ step = "audit_pair"
    /\ IF IndexAt = "quarantine" /\ DataAt = "quarantine" THEN Look("publish_staged") ELSE Refuse

\* Mutant: the intent is removed before the files it names.
DeleteIntentFirst ==
    /\ step = "delete"
    /\ \/ {IndexAt, DataAt} \cap {"live", "foreign"} # {} /\ Refuse
       \/ {IndexAt, DataAt} \subseteq {"missing", "quarantine"}
          /\ IF Has(dir, "intent")
             THEN Entry([dir EXCEPT !["intent"] = Nothing]) /\ Goto("sync_delete")
             ELSE IF DataAt = "quarantine"
             THEN Entry([dir EXCEPT !["q_data"] = Nothing]) /\ Goto("sync_delete")
             ELSE Entry([dir EXCEPT !["q_index"] = Nothing]) /\ Goto("sync_retire")

\* The deletion is authorized; data goes first, index next, the intent last.
Delete ==
    /\ step = "delete"
    /\ \/ {IndexAt, DataAt} \cap {"live", "foreign"} # {} /\ Refuse
       \/ {IndexAt, DataAt} \subseteq {"missing", "quarantine"}
          /\ IF DataAt = "quarantine"
             THEN Entry([dir EXCEPT !["q_data"] = Nothing]) /\ Goto("sync_delete")
             ELSE IF IndexAt = "quarantine"
             THEN Entry([dir EXCEPT !["q_index"] = Nothing]) /\ Goto("sync_delete")
             ELSE Entry([dir EXCEPT !["intent"] = Nothing]) /\ Goto("sync_retire")

SyncDelete == step = "sync_delete" /\ SyncDir("delete")

SyncRetire == step = "sync_retire" /\ SyncDir("tail")

\* finish_staged_only_tail: the staged marker alone deletes nothing, and the
\* live names may belong to a newer store.
Tail ==
    /\ step = "tail"
    /\ IF \E n \in Quarantine : Has(dir, n) THEN Refuse
       ELSE Entry([dir EXCEPT !["staged"] = Nothing]) /\ Goto("sync_tail")

\* A call that may begin a transaction goes on with its own pair when what it
\* finished was the tail of an older one.
SyncTail ==
    /\ step = "sync_tail"
    /\ disk' = {dir} /\ UNCHANGED dir
    /\ IF begin /\ receipt[gen] = "held"
       THEN step' = "fresh" /\ intent' = Nothing /\ UNCHANGED <<receipt, gen, begin>>
       ELSE End("idle") /\ UNCHANGED receipt

Call ==
    \/ Read \/ Fresh
    \/ \E m \in Markers : PreparePending(m) \/ WritePending(m) \/ SyncPending(m) \/ RenameMarker(m)
    \/ ConfirmIntent \/ ConfirmStaged
    \/ Advance \/ QuarantineIndex \/ SyncIndex \/ QuarantineData \/ SyncData \/ AuditPair
    \/ Delete \/ SyncDelete \/ SyncRetire \/ Tail \/ SyncTail

-----------------------------------------------------------------------------
\* A system call fails: the caller keeps its receipt, if it still has it.
Fail == ~Idle /\ Return("idle")

\* The process that holds the receipt of g dies.
Crash(g) ==
    /\ receipt[g] \in {"held", "spent"}
    /\ receipt' = [receipt EXCEPT ![g] = "lost"]
    /\ IF begin /\ gen = g THEN End("idle") ELSE UNCHANGED <<step, gen, begin, intent>>
    /\ UNCHANGED <<dir, disk>>

PowerCut ==
    /\ \E d \in disk : dir' = d /\ disk' = {d}
    /\ receipt' = [g \in Gens |-> IF receipt[g] = "unborn" THEN "unborn" ELSE "lost"]
    /\ End("idle")

\* Somebody who does not take the lock uses a free live name.
Intrude ==
    \E n \in Live :
        /\ ~Has(dir, n) /\ Entry([dir EXCEPT ![n] = Foreign])
        /\ UNCHANGED <<receipt, step, gen, begin, intent>>

Next ==
    \/ Call \/ Fail \/ PowerCut \/ Intrude
    \/ \E g \in Gens : NewStore(g) \/ BeginOrResume(g) \/ Crash(g)
    \/ \E g \in Gens \cup {Nothing} : Resume(g)

Spec == Init /\ [][Next]_vars

FairSpec == Spec /\ WF_vars(Call)

-----------------------------------------------------------------------------
\* A file of a pair leaves its live name only under an intent, and is deleted
\* only under an intent and a staged marker, that name its generation on every
\* disk a power cut may leave: no call acts on authority that could be lost,
\* or on a file of another generation or owner.
OnAuthority ==
    \A g \in Gens, n \in Live \cup Quarantine :
        dir[n] = g /\ dir'[n] # g /\ Call =>
            \A d \in disk : /\ d["intent"] = g
                            /\ n \in Quarantine => d["staged"] = g
ActsOnDurableAuthority == [][OnAuthority]_vars

\* Whatever a power cut leaves can be finished: before the deletion is
\* authorized both files of the intent are there, after it none is live, and
\* nothing is in quarantine without an intent.
EveryDiskResumable ==
    \A d \in disk :
        /\ d["intent"] \in Gens \cup {Nothing} /\ d["staged"] \in Gens \cup {Nothing}
        /\ Has(d, "intent") /\ ~Has(d, "staged") =>
              \/ d["index"] = d["intent"] /\ d["data"] = d["intent"]
              \/ d["q_index"] = d["intent"] /\ d["intent"] \in {d["data"], d["q_data"]}
        /\ Has(d, "intent") /\ Has(d, "staged") =>
              /\ d["staged"] = d["intent"]
              /\ \A n \in Live : d[n] # d["intent"]
        /\ \A n \in Quarantine : Has(d, n) => d[n] = d["intent"]

\* A resume that no fault cuts off is refused only because of a foreign file,
\* or because the transaction is about another generation than it asked for.
ResumeRefusedForCause ==
    [][~begin /\ ~Idle /\ step' = "refused" =>
          \/ \E n \in Live : dir[n] = Foreign
          \/ gen \in Gens /\ Has(dir, "intent") /\ gen # dir["intent"]]_vars

\* A receipt that was spent left no file that nobody may delete: the pair is
\* gone, or an intent names it.
SpentIsAccountedFor ==
    \A g \in Gens : receipt[g] = "spent" =>
        \A d \in disk : (\E n \in Live \cup Quarantine : d[n] = g) => d["intent"] = g

CallReturns == ~Idle ~> Idle
==============================================================================

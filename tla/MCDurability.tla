----------------------------- MODULE MCDurability -----------------------------
(***************************************************************************)
(* The six protocols that leave durable state behind, side by side: the     *)
(* publication of one record (the variables of DurableRecord), the deletion *)
(* of one out-of-core pair (c_), the merge of a wave (m_), the removal of   *)
(* its workers' stores (w_), the sieve that is resumed from its checkpoint  *)
(* (s_), and the journal of a campaign (j_).  The first state picks one,    *)
(* and the variables of the others keep their first value.                  *)
(***************************************************************************)
EXTENDS DurableRecord

CONSTANTS Gens, Foreign,            \* CleanupTransaction
          Generations, MaxCrashes,  \* WaveMerge
          Workers, MaxTroubles,     \* WorkerCleanup
          Yield, Interval, RoundLimit, FirstTarget, TargetCap, Needed, MinRaw,
          RawCleanup, MaxStarts, MaxFaults, PowerCuts,  \* SieveResume
          Slots                     \* CampaignJournal

VARIABLES which,
          c_dir, c_disk, c_receipt, c_step, c_gen, c_begin, c_intent,
          m_lease, m_start, m_commit, m_pc, m_gen, m_crashes,
          w_root, w_rootDisk, w_store, w_storeDisk, w_stage, w_step, w_used, w_seen, w_troubles,
          s_pc, s_run, s_store, s_names, s_kept, s_delivered, s_refused, s_starts, s_faults,
          j_leaf, j_sure, j_who, j_pc, j_slot, j_prefixSure, j_startSure, j_launched, j_told

\* Five batches whose relations overlap, also across checkpoints and rounds.
MCYield == <<<<1>>, <<1, 2>>, <<2, 3>>, <<1, 4>>, <<5>>>>

Cleanup == INSTANCE CleanupTransaction
    WITH Nothing <- NoFile, dir <- c_dir, disk <- c_disk, receipt <- c_receipt,
         step <- c_step, gen <- c_gen, begin <- c_begin, intent <- c_intent

Merge == INSTANCE WaveMerge
    WITH lease <- m_lease, start <- m_start, commit <- m_commit, pc <- m_pc,
         gen <- m_gen, crashes <- m_crashes

Removal == INSTANCE WorkerCleanup
    WITH root <- w_root, rootDisk <- w_rootDisk, store <- w_store, storeDisk <- w_storeDisk,
         stage <- w_stage, step <- w_step, used <- w_used, seen <- w_seen,
         troubles <- w_troubles

Sieve == INSTANCE SieveResume
    WITH pc <- s_pc, run <- s_run, store <- s_store, names <- s_names,
         kept <- s_kept, delivered <- s_delivered, refused <- s_refused,
         starts <- s_starts, faults <- s_faults

Journal == INSTANCE CampaignJournal
    WITH leaf <- j_leaf, sure <- j_sure, who <- j_who, pc <- j_pc, slot <- j_slot,
         prefixSure <- j_prefixSure, startSure <- j_startSure,
         launched <- j_launched, told <- j_told

ASSUME DurabilityAssumption ==
    /\ Cleanup!CleanupAssumption /\ Merge!MergeAssumption
    /\ Removal!WorkerCleanupAssumption
    /\ Sieve!SieveResumeAssumption /\ Journal!JournalAssumption

cvars == <<c_dir, c_disk, c_receipt, c_step, c_gen, c_begin, c_intent>>
mvars == <<m_lease, m_start, m_commit, m_pc, m_gen, m_crashes>>
wvars == <<w_root, w_rootDisk, w_store, w_storeDisk, w_stage, w_step, w_used, w_seen, w_troubles>>
svars == <<s_pc, s_run, s_store, s_names, s_kept, s_delivered, s_refused, s_starts, s_faults>>
jvars == <<j_leaf, j_sure, j_who, j_pc, j_slot, j_prefixSure, j_startSure, j_launched, j_told>>
allvars == <<which, vars, cvars, mvars, wvars, svars, jvars>>

AnyInit ==
    /\ which \in {"record", "cleanup", "merge", "removal", "sieve", "journal"}
    /\ Init /\ (which # "record" => exclusive)
    /\ Cleanup!Init /\ Merge!Init /\ Removal!Init /\ Sieve!Init /\ Journal!Init

\* Free inodes are alike: of them a publisher creates a fixed one.
FixedInode ==
    \A p \in Callers : pc[p] = "create" /\ pc'[p] = "write"
                         => handle'[p] = CHOOSE f \in Files : Free(f)

InRecord(A) ==
    which = "record" /\ A /\ FixedInode /\ UNCHANGED <<which, cvars, mvars, wvars, svars, jvars>>
InCleanup(A) == which = "cleanup" /\ A /\ UNCHANGED <<which, vars, mvars, wvars, svars, jvars>>
InMerge(A) == which = "merge" /\ A /\ UNCHANGED <<which, vars, cvars, wvars, svars, jvars>>
InRemoval(A) == which = "removal" /\ A /\ UNCHANGED <<which, vars, cvars, mvars, svars, jvars>>
InSieve(A) == which = "sieve" /\ A /\ UNCHANGED <<which, vars, cvars, mvars, wvars, jvars>>
InJournal(A) == which = "journal" /\ A /\ UNCHANGED <<which, vars, cvars, mvars, wvars, svars>>

AnyNext ==
    \/ InRecord(Next) \/ InCleanup(Cleanup!Next)
    \/ InMerge(Merge!Next) \/ InRemoval(Removal!Next)
    \/ InSieve(Sieve!Next) \/ InJournal(Journal!Next)

AnySpec ==
    /\ AnyInit /\ [][AnyNext]_allvars
    /\ \A p \in Callers : WF_allvars(InRecord(Call(p)))
    /\ WF_allvars(InCleanup(Cleanup!Call))
    /\ WF_allvars(InMerge(Merge!Step))
    /\ WF_allvars(InRemoval(Removal!Step))
    /\ WF_allvars(InJournal(Journal!Step))

-----------------------------------------------------------------------------
\* Whatever a crash or a power cut leaves is admitted by the next process:
\* the disk of a deletion can be finished (advance_transaction), the
\* namespace of a merge is opened (classify_merge_prepared_publication_prefix)
\* unless a record of it is torn, and so are the root and the stores of the
\* workers that are being removed (classify_authorized_cleanup_prefix_v2), the
\* checkpoint of a sieve finds its corpus (SieveResume), and the journal of a
\* campaign is accepted by the next open unless a leaf of it is broken
\* (open_platform_campaign_engine).
EveryPrefixResumable ==
    /\ which = "cleanup" => Cleanup!EveryDiskResumable
    /\ which = "merge" => Merge!PrefixesAdmitted
    /\ which = "removal" => Removal!PrefixesAdmitted
    /\ which = "sieve" => Sieve!CheckpointRecoverable
    /\ which = "journal" => Journal!EveryPrefixAdmitted

\* No call is refused without cause: neither a publisher that owns its
\* directory, nor a resumed deletion.
NoRefusalWithoutCause == RefusalHasCause /\ Cleanup!ResumeRefusedForCause

\* Files are deleted, directories touched and removals reported only on
\* authority that a power cut cannot take back (advance_transaction,
\* finish_staged_only_tail, resume_authorized_private_handoff_cleanup_v2).
ActsOnDurableAuthority == Cleanup!ActsOnDurableAuthority /\ Removal!ActsOnDurableAuthority

\* What is used up is accounted for: a spent receipt left no file without an
\* intent, a merge generation is spent only on a crash, a removal never runs
\* out of its transitions (transition_budget_for), and the child of a campaign's
\* slot is started once, on records a power cut cannot take back.
NothingSpentInVain ==
    /\ which = "cleanup" => Cleanup!SpentIsAccountedFor
    /\ which = "merge" => Merge!ExhaustedByCrashes
    /\ which = "removal" => Removal!BudgetSuffices
    /\ which = "journal" => Journal!SlotsSpentOnce

\* The merge of the wave implements MergeLedger: generations in order, the
\* prepared one kept, the commit to it.
MergeKeepsLedger == Merge!KeepsLedger

\* However often it is interrupted, a sieve returns the corpus of a run that
\* was not.
CorpusExact == which = "sieve" => Sieve!CorpusExact

\* Progress that was reported is kept: what a durable checkpoint has passed is
\* not sieved again, the slots, taints and verdicts that a campaign was told
\* are durable stay as they were told, and workers that were reported as removed
\* are gone after any power cut.
ProgressKept == Sieve!ProgressKept /\ Journal!ReportedIsKept /\ Removal!RetainedIsRemoved

\* Every publication and deletion that is called returns, every open of a
\* journal ends, and a merge, and the removal after it, come to their end when
\* the crashes do.
EveryCallEnds ==
    /\ CallReturns
    /\ Cleanup!CallReturns
    /\ Journal!CallReturns
    /\ <>(which # "merge" \/ m_pc \in {"committed", "exhausted", "refused"})
    /\ <>[](which # "removal" \/ w_step \in {"retained", "refused"})
===============================================================================

---------------------------- MODULE SieveResume ----------------------------
(***************************************************************************)
(* One base path of the resumable sieve: the relation store                *)
(* (.reldata/.relidx), the checkpoint beside it (.sieve_ckpt, .tmp) and    *)
(* the processes that run over them one after another.  Pipeline::         *)
(* sieve_and_collect opens or recovers the store, sieves batches of        *)
(* special-q, publishes a checkpoint every few batches, and at the end     *)
(* publishes a last one, finalizes the store, removes the checkpoint and   *)
(* hands the corpus on.  A process may be killed, or the machine may lose  *)
(* power, between any two steps; calls to the system and user callbacks    *)
(* may fail.                                                               *)
(*                                                                         *)
(* A batch is one step: its relations are Yield[k], in canonical order.    *)
(* A relation is its (a, b) pair, so that the collector's duplicate test   *)
(* is equality.  The receipt of a sequence of relations, a digest in the   *)
(* code, is the sequence itself.                                           *)
(***************************************************************************)
EXTENDS Integers, Sequences, FiniteSets, SequencesExt

CONSTANTS
    Yield,        \* Yield[k]: the valid relations of the k-th batch
    Interval,     \* CHECKPOINT_BATCH_INTERVAL
    RoundLimit,   \* adaptive_round_limit
    FirstTarget,  \* initial_target
    TargetCap,    \* the cap on batch_target
    Needed,       \* a corpus of this size has the column excess
    MinRaw,       \* the 10 of "collector.size() < 10"
    RawCleanup,   \* the callers' legacy_raw_ooc_cleanup: TRUE for removal
    None,         \* no checkpoint, nothing probed, nothing delivered
    MaxStarts,    \* bound on the processes started
    MaxFaults,    \* bound on the failing calls and callbacks
    PowerCuts     \* whether the machine may lose power

\* The relations the batches hold, and the checkpoints a run can write.
Relations == UNION {ToSet(Yield[k]) : k \in DOMAIN Yield}
Checkpoints ==
    [cursor : 0 .. Len(Yield), round : Nat, target : Nat, id : Nat, generation : Nat,
     rows : Seq(Relations), complete : BOOLEAN]

SieveResumeAssumption ==
    /\ Yield \in Seq(Seq(Relations)) /\ None \notin Checkpoints
    /\ Interval \in Nat \ {0} /\ RoundLimit \in Nat \ {0}
    /\ FirstTarget \in Nat \ {0} /\ TargetCap \in Nat /\ FirstTarget <= TargetCap
    /\ Needed \in Nat /\ MinRaw \in Nat
    /\ RawCleanup \subseteq BOOLEAN /\ PowerCuts \in BOOLEAN
    /\ MaxStarts \in Nat /\ MaxFaults \in Nat

VARIABLES
    pc,         \* where the running process is; "down" when there is none
    run,        \* what that process holds in memory
    store,      \* the contents of the pair .reldata/.relidx
    names,      \* the directory as processes see it
    kept,       \* the directory as a power cut would leave it at least
    delivered,  \* the corpus of the last sieve that returned
    refused,    \* the last start failed on what it found
    starts, faults

vars == <<pc, run, store, names, kept, delivered, refused, starts, faults>>

Budget == Len(Yield)

-----------------------------------------------------------------------------
(* A run without interruption: what every other run is compared with.      *)

(* RelationCollector::add over the relations of one batch: those whose     *)
(* pair has not been seen, in their order.                                 *)
Unseen(seen, batch) ==
    LET first == {i \in DOMAIN batch :
                     batch[i] \notin seen /\ \A j \in 1 .. i - 1 : batch[j] # batch[i]}
    IN  [n \in 1 .. Cardinality(first) |->
            batch[CHOOSE i \in first : Cardinality(first \cap (1 .. i)) = n]]

(* needed_raw, the estimate from the merge rate, is left out: like the     *)
(* doubling it is a function of the corpus and of the target alone.        *)
Grown(target) == IF 2 * target < TargetCap THEN 2 * target ELSE TargetCap

Sifted(cursor, size, target) == cursor = Budget \/ size >= target

LastRound(cursor, size, round) ==
    \/ size < MinRaw \/ size >= Needed
    \/ cursor = Budget \/ round + 1 = RoundLimit

(* One batch, or one round's end; a run that has ended stays as it is.     *)
Onward(at) ==
    IF ~ Sifted(at.cursor, Len(at.rows), at.target)
    THEN [at EXCEPT !.cursor = @ + 1, !.rows = @ \o Unseen(ToSet(@), Yield[at.cursor + 1])]
    ELSE IF LastRound(at.cursor, Len(at.rows), at.round) THEN at
    ELSE [at EXCEPT !.round = @ + 1, !.target = Grown(@)]

Longest == Budget + RoundLimit

Alone[n \in 0 .. Longest] ==
    IF n = 0 THEN [cursor |-> 0, round |-> 0, target |-> FirstTarget, rows |-> <<>>]
             ELSE Onward(Alone[n - 1])

Goal == Alone[Longest]

-----------------------------------------------------------------------------
Idle ==
    [cursor |-> 0, round |-> 0, target |-> FirstTarget, since |-> 0, seen |-> {},
     generation |-> 0, probed |-> None, terminal |-> None, preserve |-> FALSE,
     recovered |-> "no", saving |-> "periodic", remove |-> FALSE]

Init ==
    /\ pc = "down" /\ run = Idle
    /\ store = [id |-> 0, rows |-> <<>>, synced |-> 0, sealed |-> FALSE, safelySealed |-> FALSE]
    /\ names = [pair |-> FALSE, ckpt |-> None, tmp |-> FALSE]
    /\ kept = names
    /\ delivered = None /\ refused = FALSE /\ starts = 0 /\ faults = 0

Fault == faults < MaxFaults /\ faults' = faults + 1

-----------------------------------------------------------------------------
(* Start-up: the checkpoint is loaded, and the collector's constructor     *)
(* creates the pair or recovers it.                                        *)

Launch == pc = "down" /\ starts < MaxStarts /\ starts' = starts + 1

(* validate_resume_prefix and the receipt: every relation the checkpoint   *)
(* counts is still there.  What follows is a tail to cut off.              *)
PrefixIntact(c) ==
    /\ names.pair /\ store.id = c.id /\ ~ store.sealed
    /\ IsPrefix(c.rows, store.rows)

(* validate_finalized_prefix, and the check that a finalized store has a   *)
(* terminal checkpoint.                                                    *)
FinalIntact(c) ==
    /\ names.pair /\ store.id = c.id /\ store.sealed
    /\ store.rows = c.rows /\ c.complete

StartFresh ==
    /\ Launch
    /\ names.ckpt = None /\ ~ names.pair
    /\ \E remove \in RawCleanup : run' = [Idle EXCEPT !.remove = remove]
    /\ store' = [id |-> starts', rows |-> <<>>, synced |-> 0,
                 sealed |-> FALSE, safelySealed |-> FALSE]
    /\ names' = [names EXCEPT !.pair = TRUE]
    /\ pc' = "sieve" /\ refused' = FALSE
    /\ UNCHANGED <<kept, delivered, faults>>

\* Mutant: the duplicate test forgets the recovered relations.
ResumedUnseen(c, recovered, remove) ==
    [Idle EXCEPT !.cursor = c.cursor, !.round = c.round, !.target = c.target,
                 !.generation = c.generation,
                 !.terminal = c, !.preserve = TRUE,
                 !.recovered = recovered, !.remove = remove]

\* Mutant: the cursor starts over.
ResumedFromZero(c, recovered, remove) ==
    [Idle EXCEPT !.round = c.round, !.target = c.target,
                 !.seen = ToSet(c.rows), !.generation = c.generation,
                 !.terminal = c, !.preserve = TRUE,
                 !.recovered = recovered, !.remove = remove]

Resumed(c, recovered, remove) ==
    [Idle EXCEPT !.cursor = c.cursor, !.round = c.round, !.target = c.target,
                 !.seen = ToSet(c.rows), !.generation = c.generation,
                 !.terminal = c, !.preserve = TRUE,
                 !.recovered = recovered, !.remove = remove]

Recover ==
    /\ Launch
    /\ names.ckpt # None
    /\ LET c == names.ckpt IN
       \E remove \in RawCleanup :
           \/ /\ PrefixIntact(c)
              /\ run' = Resumed(c, IF c.complete THEN "terminal" ELSE "prefix", remove)
              /\ store' = [store EXCEPT !.rows = c.rows,
                               !.synced = IF @ < Len(c.rows) THEN @ ELSE Len(c.rows)]
           \/ /\ FinalIntact(c)
              /\ run' = Resumed(c, "final", remove)
              /\ UNCHANGED store
    /\ pc' = "sieve" /\ refused' = FALSE
    /\ UNCHANGED <<names, kept, delivered, faults>>

(* A pair without a checkpoint blocks the exclusive creation; a checkpoint *)
(* whose pair is gone or does not match fails closed.                      *)
Refuse ==
    /\ Launch
    /\ \/ names.ckpt = None /\ names.pair
       \/ names.ckpt # None /\ ~ PrefixIntact(names.ckpt) /\ ~ FinalIntact(names.ckpt)
    /\ refused' = TRUE
    /\ UNCHANGED <<pc, run, store, names, kept, delivered, faults>>

-----------------------------------------------------------------------------
(* The adaptive loop.                                                      *)

(* Batches are sieved while the round lasts; a process that recovered a    *)
(* complete corpus sieves nothing.                                         *)
RoundOver ==
    \/ run.recovered \in {"terminal", "final"}
    \/ Sifted(run.cursor, Len(store.rows), run.target)

SieveBatch ==
    /\ pc = "sieve" /\ ~ RoundOver
    /\ LET batch == Yield[run.cursor + 1]
       IN  /\ store' = [store EXCEPT !.rows = @ \o Unseen(run.seen, batch)]
           /\ run' = [run EXCEPT !.cursor = @ + 1, !.since = @ + 1,
                                 !.seen = @ \cup ToSet(batch), !.saving = "periodic"]
           /\ pc' = IF run.since + 1 >= Interval THEN "suspend" ELSE "sieve"
    /\ UNCHANGED <<names, kept, delivered, refused, starts, faults>>

(* The collector lends its prefix to the reduction: checkpoint_prefix      *)
(* makes it durable and counts a generation, resume_append reopens it.  A  *)
(* finalized store is read as it is.  The reduction's size decides whether *)
(* another round follows.                                                  *)
Reduce ==
    /\ pc = "sieve" /\ RoundOver
    /\ LET final == run.recovered = "final"
           generation == IF final THEN run.generation ELSE run.generation + 1
           probe == [count |-> Len(store.rows), generation |-> generation]
           last == \/ run.recovered \in {"terminal", "final"}
                   \/ LastRound(run.cursor, Len(store.rows), run.round)
           probed == [run EXCEPT !.generation = generation, !.probed = probe]
       IN  /\ store' = IF final THEN store ELSE [store EXCEPT !.synced = Len(store.rows)]
           /\ kept' = IF final THEN kept ELSE names
           /\ IF last
              THEN /\ run' = [probed EXCEPT !.saving = "terminal"]
                   /\ pc' = IF final THEN "finalize" ELSE "suspend"
              ELSE /\ run' = [probed EXCEPT !.round = @ + 1, !.target = Grown(@)]
                   /\ pc' = "sieve"
    /\ UNCHANGED <<names, delivered, refused, starts, faults>>

-----------------------------------------------------------------------------
(* publish_sieve_checkpoint and SieveCheckpoint::save.  The same save      *)
(* serves remove_checked when it puts a checkpoint back ("restore").       *)

(* checkpoint_ooc: the prefix is durable and closed to appends.  From here *)
(* on no failure may discard it.                                           *)
Suspend ==
    /\ pc = "suspend"
    /\ store' = [store EXCEPT !.synced = Len(store.rows)]
    /\ kept' = names
    /\ run' = [run EXCEPT !.generation = @ + 1, !.preserve = TRUE]
    /\ pc' = "write"
    /\ UNCHANGED <<names, delivered, refused, starts, faults>>

Intended ==
    IF run.saving = "restore" THEN run.terminal
    ELSE [cursor |-> run.cursor, round |-> run.round, target |-> run.target,
          id |-> store.id, generation |-> run.generation, rows |-> store.rows,
          complete |-> run.saving = "terminal"]

WriteTemporary ==
    /\ pc = "write"
    /\ names' = [names EXCEPT !.tmp = TRUE]
    /\ pc' = "rename"
    /\ UNCHANGED <<run, store, kept, delivered, refused, starts, faults>>

Rename ==
    /\ pc = "rename"
    /\ names' = [names EXCEPT !.ckpt = Intended, !.tmp = FALSE]
    /\ pc' = "settle"
    /\ UNCHANGED <<run, store, kept, delivered, refused, starts, faults>>

(* The save throws before the rename; removing its temporary file is best  *)
(* effort.  Without any checkpoint on the path the prefix is reopened, and *)
(* a periodic save is tried again after the next batch; in every other     *)
(* case the run gives up and leaves the prefix to a restart.               *)
SaveFails ==
    /\ pc \in {"write", "rename"} /\ Fault
    /\ \E left \in BOOLEAN :
           /\ names' = [names EXCEPT !.tmp = left]
           /\ LET absent == /\ run.saving # "restore" /\ run.terminal = None
                            /\ names.ckpt = None /\ ~ left
              IN  /\ run' = IF absent THEN [run EXCEPT !.preserve = FALSE] ELSE run
                  /\ pc' \in IF absent /\ run.saving = "periodic" THEN {"sieve", "throw"}
                             ELSE {"throw"}
    /\ UNCHANGED <<store, kept, delivered, refused, starts>>

(* The directory is flushed after the rename.  If that fails, a checkpoint *)
(* that can be read back counts as published all the same; a restored one  *)
(* only lets the removal report its failure.                               *)
Settle ==
    /\ pc = "settle"
    /\ \E flushed, readable \in BOOLEAN :
           /\ IF flushed THEN kept' = names /\ UNCHANGED faults
                         ELSE Fault /\ UNCHANGED kept
           /\ IF (flushed \/ readable) /\ run.saving # "restore"
              THEN /\ run' = [run EXCEPT !.terminal = Intended, !.since = 0]
                   /\ pc' = IF run.saving = "terminal" THEN "finalize" ELSE "sieve"
              ELSE pc' = "throw" /\ UNCHANGED run
    /\ UNCHANGED <<store, names, delivered, refused, starts>>

-----------------------------------------------------------------------------
(* finalize_impl, remove_checked and the return.                           *)

\* Mutant: the directory is not flushed before the magic changes.
FlushMetadataOnly ==
    /\ pc = "finalize"
    /\ pc' = IF run.recovered = "final" THEN "compare" ELSE "seal"
    /\ UNCHANGED <<run, store, names, kept, delivered, refused, starts, faults>>

(* The count and the payload are durable, in a directory flushed with      *)
(* them, before the magic changes.  A recovered corpus is final already.   *)
FlushMetadata ==
    /\ pc = "finalize"
    /\ IF run.recovered = "final" THEN pc' = "compare" /\ UNCHANGED kept
                                  ELSE pc' = "seal" /\ kept' = names
    /\ UNCHANGED <<run, store, names, delivered, refused, starts, faults>>

WriteMagic ==
    /\ pc = "seal"
    /\ store' = [store EXCEPT !.sealed = TRUE]
    /\ pc' = "flush"
    /\ UNCHANGED <<run, names, kept, delivered, refused, starts, faults>>

FlushMagic ==
    /\ pc = "flush"
    /\ store' = [store EXCEPT !.safelySealed = TRUE]
    /\ kept' = names
    /\ pc' = "compare"
    /\ UNCHANGED <<run, names, delivered, refused, starts, faults>>

(* The corpus that was reduced is the one that was finalized: the terminal *)
(* checkpoint is one generation after the probe, a recovered one none.     *)
SamePrefix ==
    /\ run.probed.count = Len(store.rows)
    /\ run.generation = run.probed.generation + (IF run.recovered = "final" THEN 0 ELSE 1)

Compare ==
    /\ pc = "compare"
    /\ pc' = IF run.remove /\ ~ SamePrefix THEN "throw" ELSE "remove"
    /\ UNCHANGED <<run, store, names, kept, delivered, refused, starts, faults>>

(* remove_checked: only the checkpoint this run published or recovered.    *)
RemoveCheckpoint ==
    /\ pc = "remove"
    /\ IF ~ names.tmp /\ names.ckpt = run.terminal
       THEN names' = [names EXCEPT !.ckpt = None] /\ pc' = "removed"
       ELSE pc' = "throw" /\ UNCHANGED names
    /\ UNCHANGED <<run, store, kept, delivered, refused, starts, faults>>

FlushRemoval ==
    /\ pc = "removed"
    /\ \/ /\ kept' = names /\ pc' = "finish" /\ UNCHANGED <<run, faults>>
       \/ /\ Fault /\ UNCHANGED kept
          /\ run' = [run EXCEPT !.saving = "restore"] /\ pc' = "write"
    /\ UNCHANGED <<store, names, delivered, refused, starts>>

(* Only the process that created the pair may delete it.  A caller that    *)
(* asked for the removal gets an error instead of the corpus when this     *)
(* process recovered an appendable prefix (arm_ooc_cleanup is FALSE and    *)
(* recovered_finalized_ooc is too).                                        *)
Finish ==
    /\ pc = "finish"
    /\ IF run.remove /\ run.recovered \in {"prefix", "terminal"}
       THEN pc' = "throw" /\ UNCHANGED <<run, delivered>>
       ELSE /\ delivered' = [rows |-> store.rows, cursor |-> run.cursor]
            /\ pc' = IF run.remove /\ run.recovered = "no" THEN "clean" ELSE "down"
            /\ run' = IF run.remove /\ run.recovered = "no" THEN run ELSE Idle
    /\ UNCHANGED <<store, names, kept, refused, starts, faults>>

(* The destructor of the armed corpus; its failures are swallowed.         *)
CleanRaw ==
    /\ pc = "clean"
    /\ \/ /\ names' = [names EXCEPT !.pair = FALSE] /\ kept' = names' /\ UNCHANGED faults
       \/ /\ Fault /\ UNCHANGED <<names, kept>>
    /\ pc' = "down" /\ run' = Idle
    /\ UNCHANGED <<store, delivered, refused, starts>>

-----------------------------------------------------------------------------
(* Failures.                                                               *)

(* A call or a callback of the process throws; inside save the failure is  *)
(* SaveFails or Settle, after the removal of the checkpoint FlushRemoval.  *)
Throw ==
    /\ pc \in {"sieve", "suspend", "finalize", "seal", "flush", "compare", "remove"}
    /\ Fault
    /\ pc' = "throw"
    /\ UNCHANGED <<run, store, names, kept, delivered, refused, starts>>

(* What a process leaves in the pair when it closes it without finalizing: *)
(* everything synced, and more or less of the rest.                        *)
CutTail(s) ==
    {[s EXCEPT !.rows = SubSeq(@, 1, n)] : n \in s.synced .. Len(s.rows)}

(* FreshOOCExceptionCleanup and the writer's destructor: a pair nobody     *)
(* needs for a restart is removed, any other one stays unfinalized.        *)
Unwind ==
    /\ pc = "throw"
    /\ \/ /\ ~ run.preserve
          /\ names' = [names EXCEPT !.pair = FALSE] /\ kept' = names'
          /\ UNCHANGED <<store, faults>>
       \/ /\ IF run.preserve THEN UNCHANGED faults ELSE Fault
          /\ store' \in CutTail(store)
          /\ UNCHANGED <<names, kept>>
    /\ pc' = "down" /\ run' = Idle
    /\ UNCHANGED <<delivered, refused, starts>>

(* The process dies; what it buffered may be lost.                         *)
Kill ==
    /\ pc # "down"
    /\ store' \in CutTail(store)
    /\ pc' = "down" /\ run' = Idle
    /\ UNCHANGED <<names, kept, delivered, refused, starts, faults>>

(* Each name is found as it was last seen or as it was last flushed.       *)
PowerCut ==
    /\ PowerCuts
    /\ \E cut \in CutTail(store), magic \in {store.sealed, store.safelySealed} :
           store' = [cut EXCEPT !.sealed = magic, !.safelySealed = magic, !.synced = Len(cut.rows)]
    /\ \E p, c, t \in {names, kept} :
           names' = [pair |-> p.pair, ckpt |-> c.ckpt, tmp |-> t.tmp]
    /\ kept' = names'
    /\ pc' = "down" /\ run' = Idle
    /\ UNCHANGED <<delivered, refused, starts, faults>>

-----------------------------------------------------------------------------
Next ==
    \/ StartFresh \/ Recover \/ Refuse
    \/ SieveBatch \/ Reduce
    \/ Suspend \/ WriteTemporary \/ Rename \/ SaveFails \/ Settle
    \/ FlushMetadata \/ WriteMagic \/ FlushMagic \/ Compare
    \/ RemoveCheckpoint \/ FlushRemoval \/ Finish \/ CleanRaw
    \/ Throw \/ Unwind \/ Kill \/ PowerCut

Spec == Init /\ [][Next]_vars

-----------------------------------------------------------------------------
(* Whatever was interrupted and recovered on the way, the corpus a run     *)
(* returns is the one an uninterrupted run returns: no relation lost,      *)
(* doubled or out of order, and the sieve stopped at the same special-q.   *)
CorpusExact ==
    delivered # None => delivered = [rows |-> Goal.rows, cursor |-> Goal.cursor]

(* A checkpoint a restart may find, now or after a power cut, finds its    *)
(* pair, with everything it counts durable; a final pair is exactly the    *)
(* corpus of a terminal checkpoint.                                        *)
CheckpointRecoverable ==
    \A c \in {names.ckpt, kept.ckpt} \ {None} :
        /\ names.pair /\ kept.pair /\ store.id = c.id
        /\ IsPrefix(c.rows, SubSeq(store.rows, 1, store.synced))
        /\ store.sealed => c.complete /\ store.rows = c.rows

NotOlder(old, new) ==
    old # None =>
        IF new = None THEN old.complete /\ store.sealed
                      ELSE old.id = new.id /\ old.cursor <= new.cursor

(* The special-q a checkpoint has passed are never sieved again: the one a *)
(* restart finds is never older than the last durable one, and it goes     *)
(* away only after its corpus was finalized.                               *)
ProgressKept ==
    [][NotOlder(kept.ckpt, names'.ckpt) /\ NotOlder(kept.ckpt, kept'.ckpt)]_vars

(* A process that is started on the path an earlier one used goes on with  *)
(* its work or starts over: it does not fail on what it finds there        *)
(* (docs/env-flags/sieve.md, GNFS_RESUME).                                 *)
RestartWorks == ~ refused

(* A run that fails after it finalized its corpus leaves the checkpoint a  *)
(* restart needs: past its removal nothing is left that may fail ("Final   *)
(* no-callback commit", sieve_and_collect).                                *)
FailureKeepsCheckpoint == pc = "throw" /\ store.sealed => names.ckpt # None
=============================================================================

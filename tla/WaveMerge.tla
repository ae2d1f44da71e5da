------------------------------ MODULE WaveMerge ------------------------------
(***************************************************************************)
(* The merge of a durable wave, once every chunk has its handoff.  The      *)
(* coordinator tries one merge generation after the other: it reserves a    *)
(* private lease, publishes the start record, writes the merged corpus into *)
(* the lease, publishes the prepared handoff and commits the wave to it.    *)
(* The namespace on the disk is the only memory: whoever opens the wave     *)
(* store next classifies every leaf of it and either goes on from there or  *)
(* refuses the wave.                                                        *)
(*                                                                         *)
(* One process at a time holds the wave lock.  Every step is made durable   *)
(* before the next one, so a crash or a power cut between two steps leaves  *)
(* what the model has on the disk; a step that fails drops the store, which *)
(* is the same to the disk.  A record is created, then filled, so that a    *)
(* crash may leave it torn.                                                 *)
(***************************************************************************)
EXTENDS Naturals, FiniteSets

CONSTANTS Generations,  \* max_merge_build_attempts
          MaxCrashes    \* bound on crashes

MergeAssumption == Generations \in Nat \ {0} /\ MaxCrashes \in Nat

Ordinals == 0..(Generations - 1)
NoGen == Generations

VARIABLES lease,    \* the leaves of each generation's private lease
          start,    \* its MergeStarted record
          commit,   \* the WaveMergeCommit record
          pc,       \* what the process that holds the wave lock does
          gen,      \* the generation it does it for
          crashes

disk == <<lease, start, commit>>
vars == <<disk, pc, gen, crashes>>

\* A record is absent, torn while it is written, pending when it is complete,
\* and canonical once it is renamed.
Absent == "none"

-----------------------------------------------------------------------------
\* The boundaries P0 to P8 of a reservation.  Markers of the lease stand in
\* the wave root, its directory holds the owner marker, the corpus (index,
\* then data) and the handoff; a handoff that is rolled back leaves a
\* tombstone in the root.
Reserved(b) == IF b = 0 THEN Absent ELSE IF b = 1 THEN "pending" ELSE "canonical"
Directory(b) == IF b < 3 THEN Absent ELSE IF b < 8 THEN "staging" ELSE "final"
Owner(b) == IF b < 4 THEN Absent ELSE IF b = 4 THEN "pending" ELSE "canonical"
Owned(b) == IF b < 6 THEN Absent ELSE IF b = 6 THEN "pending" ELSE "canonical"

Boundary(b) ==
    [lock |-> TRUE, reserved |-> Reserved(b), place |-> Directory(b), owner |-> Owner(b),
     owned |-> Owned(b), corpus |-> 0, handoff |-> Absent, tomb |-> FALSE]
NoLease == [Boundary(0) EXCEPT !.lock = FALSE]

At(g, b) == lease[g] = Boundary(b)
Reservation(g) == \E b \in 0..8 : At(g, b)

\* The lease of a prepared generation: its RESERVED marker is revoked.
Prepared(g) ==
    lease[g] = [Boundary(8) EXCEPT !.reserved = Absent, !.corpus = 2, !.handoff = "canonical"]

\* A publication of the handoff that has to be converged first: rolled back
\* when it is only pending or a tombstone says so, finished when it is
\* canonical.
Converging(g) ==
    \/ lease[g].tomb
    \/ lease[g] = [Boundary(8) EXCEPT !.corpus = 2, !.handoff = "pending"]
    \/ lease[g] = [Boundary(8) EXCEPT !.corpus = 2, !.handoff = "canonical"]

\* The writer of a started generation, or the removal of what it wrote, was
\* interrupted.
Raw(g) ==
    LET l == lease[g] IN
    /\ start[g] # Absent /\ l.owned = "canonical" /\ ~l.tomb
    /\ \/ l.place = Absent /\ l.reserved \in {Absent, "canonical"}
       \/ /\ l.place # Absent /\ l.reserved = "canonical" /\ l.handoff = Absent
          /\ \/ l.owner = "canonical" /\ (l.corpus > 0 \/ l.place = "staging")
             \/ l.owner = Absent /\ l.corpus = 0 /\ l.place = "staging"

-----------------------------------------------------------------------------
\* The classification of the whole namespace.

Started == {g \in Ordinals : start[g] # Absent}
Latest == Cardinality(Started) - 1
Closed(g) == start[g] = "canonical" /\ At(g, 0)
Ready == {g \in Ordinals : Prepared(g)}

\* Starts are a chain; every generation before the latest is closed; only the
\* latest may have more than a reservation, and only under a canonical start;
\* a pending start stands on a complete reservation; one more generation may
\* be reserved when all the started ones are closed.
Admitted ==
    /\ Started = {g \in Ordinals : g <= Latest}
    /\ \A g \in Started :
          /\ start[g] \in {"pending", "canonical"}
          /\ g < Latest => Closed(g)
          /\ \/ Reservation(g) \/ Raw(g) \/ Prepared(g) \/ Converging(g)
          /\ start[g] = "pending" => At(g, 8)
    /\ \A g \in Ordinals \ Started :
          lease[g].lock => /\ Reservation(g) /\ g = Latest + 1
                           /\ \A h \in Started : Closed(h)
    /\ commit # "torn"
    /\ commit # Absent => Ready # {}

-----------------------------------------------------------------------------
Init ==
    /\ lease = [g \in Ordinals |-> NoLease]
    /\ start = [g \in Ordinals |-> Absent]
    /\ commit = Absent
    /\ pc = "down" /\ gen = NoGen /\ crashes = 0

Goto(p, g) == pc' = p /\ gen' = g /\ UNCHANGED crashes
Stay == UNCHANGED <<pc, gen, crashes>>
Set(l) == lease' = [lease EXCEPT ![gen] = l] /\ UNCHANGED <<start, commit>>

\* A process takes the wave lock and opens the store.  One publication of a
\* handoff is converged; after that a prepared generation is adopted, and a
\* commit that was begun is finished.
Open ==
    /\ pc \in {"down", "reopen"}
    /\ \/ ~Admitted /\ Goto("refused", NoGen)
       \/ /\ Admitted
          /\ \E g \in Ordinals : Converging(g)
                             /\ IF pc = "down" THEN Goto("converge", g) ELSE Goto("refused", NoGen)
       \/ /\ Admitted /\ \A g \in Ordinals : ~Converging(g)
          /\ \/ Ready = {} /\ Goto("idle", NoGen)
             \/ \E g \in Ready : Goto("commit", g)
    /\ UNCHANGED disk

-----------------------------------------------------------------------------
\* Mutant: RESERVED is removed before the directory it vouches for.
RemovedReservedFirst(l) ==
    CASE l.place = "final" -> [l EXCEPT !.place = "staging"]
      [] l.place # "final" /\ l.reserved # Absent -> [l EXCEPT !.reserved = Absent]
      [] l.place = "staging" /\ l.reserved = Absent /\ l.corpus > 0 -> [l EXCEPT !.corpus = l.corpus - 1]
      [] l.place = "staging" /\ l.reserved = Absent /\ l.corpus = 0 -> [l EXCEPT !.place = Absent]
      [] OTHER -> [l EXCEPT !.owned = Absent]

\* One step of recover_private_lease_locked on a generation whose writer was
\* interrupted: the directory goes back to its staging name, then data,
\* index, owner, directory, RESERVED and OWNED are removed.
Removed(l) ==
    CASE l.place = "final" -> [l EXCEPT !.place = "staging"]
      [] l.place = "staging" /\ l.corpus > 0 -> [l EXCEPT !.corpus = l.corpus - 1]
      [] l.place = "staging" /\ l.corpus = 0 /\ l.owner # Absent -> [l EXCEPT !.owner = Absent]
      [] l.place = "staging" /\ l.corpus = 0 /\ l.owner = Absent -> [l EXCEPT !.place = Absent]
      [] l.place = Absent /\ l.reserved # Absent -> [l EXCEPT !.reserved = Absent]
      [] OTHER -> [l EXCEPT !.owned = Absent]

\* Mutant: a handoff that is already canonical is rolled back too.
ArmRollbackAlways ==
    /\ pc = "converge" /\ lease[gen].handoff # Absent
    /\ Set([lease[gen] EXCEPT !.handoff = Absent, !.tomb = TRUE]) /\ Stay

\* reconcile_private_handoff_publication_for_resume_v1.
ArmRollback ==
    /\ pc = "converge" /\ lease[gen].handoff = "pending"
    /\ Set([lease[gen] EXCEPT !.handoff = Absent, !.tomb = TRUE]) /\ Stay

RollBackHandoff ==
    /\ pc = "converge" /\ lease[gen].tomb /\ lease[gen].owned # Absent
    /\ Set(Removed(lease[gen])) /\ Stay

RemoveTombstone ==
    /\ pc = "converge" /\ lease[gen].tomb /\ lease[gen].owned = Absent
    /\ Set([lease[gen] EXCEPT !.tomb = FALSE]) /\ Goto("reopen", NoGen)

RevokeReserved ==
    /\ pc = "converge" /\ lease[gen].handoff = "canonical"
    /\ Set([lease[gen] EXCEPT !.reserved = Absent]) /\ Goto("reopen", NoGen)

-----------------------------------------------------------------------------
\* Mutant: the last generation is never tried.
PrepareAllButOne ==
    /\ pc = "idle"
    /\ \/ Started # {} /\ ~Closed(Latest) /\ Goto("reconcile", Latest)
       \/ /\ \A g \in Started : g = Latest => Closed(g)
          /\ IF Latest + 2 < Generations THEN Goto("reserve", Latest + 1) ELSE Goto("exhausted", NoGen)
    /\ UNCHANGED disk

\* begin_or_resume: a latest generation that is not closed is reconciled, or
\* the next one reserved.
Prepare ==
    /\ pc = "idle"
    /\ \/ Started # {} /\ ~Closed(Latest) /\ Goto("reconcile", Latest)
       \/ /\ \A g \in Started : g = Latest => Closed(g)
          /\ IF Latest + 1 < Generations THEN Goto("reserve", Latest + 1) ELSE Goto("exhausted", NoGen)
    /\ UNCHANGED disk

\* The start is made canonical, which uses the generation up, before its
\* lease is rolled back.
Reconcile ==
    /\ pc = "reconcile"
    /\ start' = [start EXCEPT ![gen] = "canonical"]
    /\ IF Raw(gen) THEN Goto("remove", gen) ELSE Goto("descend", gen)
    /\ UNCHANGED <<lease, commit>>

\* Mutant: a generation that was used up is reserved again.
RolledAgain ==
    /\ pc \in {"remove", "descend"} /\ At(gen, 0)
    /\ IF start[gen] = Absent THEN Goto("build", gen) ELSE Goto("reserve", gen)
    /\ UNCHANGED disk

\* The generation is at P0.  One that was only reserved is used again.
Rolled ==
    /\ pc \in {"remove", "descend"} /\ At(gen, 0)
    /\ \/ start[gen] = Absent /\ Goto("build", gen)
       \/ start[gen] # Absent
          /\ IF gen + 1 < Generations THEN Goto("reserve", gen + 1) ELSE Goto("exhausted", NoGen)
    /\ UNCHANGED disk

Remove == pc = "remove" /\ ~At(gen, 0) /\ Set(Removed(lease[gen])) /\ Stay

Descend ==
    /\ pc = "descend"
    /\ \E b \in 1..8 : At(gen, b) /\ Set(Boundary(b - 1))
    /\ Stay

-----------------------------------------------------------------------------
\* The BaseLock is created, or the reservation somebody left is rolled back.
Reserve ==
    /\ pc = "reserve"
    /\ \/ ~lease[gen].lock /\ Set(Boundary(0)) /\ Goto("build", gen)
       \/ lease[gen].lock /\ Goto("descend", gen) /\ UNCHANGED disk

\* The next boundary; a marker is created, filled and promoted.
Build ==
    /\ pc = "build"
    /\ LET l == lease[gen] IN
       \/ At(gen, 0) /\ Set([l EXCEPT !.reserved = "torn"]) /\ Stay
       \/ At(gen, 3) /\ Set([l EXCEPT !.owner = "torn"]) /\ Stay
       \/ At(gen, 5) /\ Set([l EXCEPT !.owned = "torn"]) /\ Stay
       \/ l.reserved = "torn" /\ Set(Boundary(1)) /\ Stay
       \/ l.owner = "torn" /\ Set(Boundary(4)) /\ Stay
       \/ l.owned = "torn" /\ Set(Boundary(6)) /\ Stay
       \/ \E b \in {1, 2, 4, 6} : At(gen, b) /\ Set(Boundary(b + 1)) /\ Stay
       \/ At(gen, 7) /\ Set(Boundary(8)) /\ Goto("start", gen)

Filled(r) == IF r = Absent THEN "torn" ELSE IF r = "torn" THEN "pending" ELSE "canonical"

\* publish_merge_started_v1
PublishStart ==
    /\ pc = "start"
    /\ start' = [start EXCEPT ![gen] = Filled(start[gen])]
    /\ IF start[gen] = "pending" THEN Goto("write", gen) ELSE Stay
    /\ UNCHANGED <<lease, commit>>

\* The writer creates index and data, the chunks are streamed into it, and
\* the prepared handoff is published; last, the lease is activated.
Write ==
    /\ pc = "write"
    /\ LET l == lease[gen] IN
       \/ l.corpus < 2 /\ Set([l EXCEPT !.corpus = l.corpus + 1]) /\ Stay
       \/ l.corpus = 2 /\ l.handoff # "canonical"
          /\ Set([l EXCEPT !.handoff = Filled(l.handoff)]) /\ Stay
       \/ l.handoff = "canonical"
          /\ Set([l EXCEPT !.reserved = Absent]) /\ Goto("commit", gen)

\* publish_wave_merge_commit_v1
PublishCommit ==
    /\ pc = "commit"
    /\ commit' = Filled(commit)
    /\ IF commit \in {"pending", "canonical"} THEN Goto("committed", gen) ELSE Stay
    /\ UNCHANGED <<lease, start>>

Step ==
    \/ Open
    \/ ArmRollback \/ RollBackHandoff \/ RemoveTombstone \/ RevokeReserved
    \/ Prepare \/ Reconcile \/ Rolled \/ Remove \/ Descend
    \/ Reserve \/ Build \/ PublishStart \/ Write \/ PublishCommit

Crash ==
    /\ pc # "down" /\ crashes < MaxCrashes
    /\ pc' = "down" /\ gen' = NoGen /\ crashes' = crashes + 1
    /\ UNCHANGED disk

Next == Step \/ Crash

Spec == Init /\ [][Next]_vars

FairSpec == Spec /\ WF_vars(Step)

-----------------------------------------------------------------------------
AnyTorn ==
    \/ commit = "torn"
    \/ \E g \in Ordinals : "torn" \in {start[g], lease[g].reserved, lease[g].owner, lease[g].owned,
                                   lease[g].handoff}

\* Wherever a crash falls the next process can open the wave, except inside
\* the write of a record: a torn record is a conflict for good.
PrefixesAdmitted == (AnyTorn \/ Admitted) /\ (pc = "refused" => AnyTorn)

\* A generation is used up only by a crash: a wave that crashed fewer times
\* than it may build the merge is never given up.
ExhaustedByCrashes == pc = "exhausted" => crashes >= Generations

\* Generations are used in order, the prepared one is kept, and the commit is
\* to it.
Ledger == INSTANCE MergeLedger WITH
    burned <- Cardinality({g \in Ordinals : Closed(g)}),
    prepared <- LET P == {g \in Ordinals : lease[g].handoff = "canonical"}
                IN IF P = {} THEN NoGen ELSE CHOOSE g \in P : TRUE,
    committed <- commit = "canonical"
KeepsLedger == Ledger!Spec
==============================================================================

---------------------------- MODULE DurableRecord ----------------------------
(***************************************************************************)
(* publish_at of durable_immutable_record: the bytes of a record are        *)
(* written under a pending name, made durable there, renamed to the         *)
(* canonical name without replacing, and the rename is made durable before  *)
(* the caller is told.  Every durable fact of a distributed wave goes       *)
(* through it.  A call can fail at any system call, its process can die,    *)
(* and a power cut leaves any directory written since the last directory    *)
(* sync and any prefix of a file that was not synced; the next call finds   *)
(* what is left.                                                            *)
(*                                                                          *)
(* A caller is asked to own the directory while it publishes; exclusive     *)
(* says whether it does.  The code re-inspects by name and identity after   *)
(* each step, so that the record is safe even when it does not.             *)
(***************************************************************************)
EXTENDS Naturals, FiniteSets

CONSTANTS Callers,      \* processes that publish the record
          Values,       \* byte strings somebody may want it to hold
          Files,        \* inodes of the directory
          NoFile,       \* a name that refers to no file
          Torn,         \* a file that holds a prefix of what was written
          None

ASSUME DurableRecordAssumption ==
    /\ NoFile \notin Files
    /\ Torn \notin Values
    /\ None \notin Values
    /\ "missing" \notin Values /\ "missing" # Torn

VARIABLES file,       \* file[f]: what f holds
          clean,      \* clean[f]: what f holds is on the disk
          dir,        \* the directory, as every process sees it
          disk,       \* the directories a power cut may leave behind
          exclusive,  \* a caller owns the directory while its call runs
          pc, want,   \* where a call is, and the bytes it is to publish
          handle,     \* the file it created
          snap,       \* the identity of the pending file it has inspected
          canon, dup, \* of the canonical file, and of a pending file beside it
          told        \* the values some caller was told are durable

fs == <<file, clean, dir, disk>>
locals == <<want, handle, snap, canon, dup>>
vars == <<file, clean, dir, disk, exclusive, pc, want, handle, snap, canon, dup, told>>

Names == {"pending", "canonical"}

Steps == {"idle", "refused", "look_canonical", "look_duplicate", "look_pending", "create", "write",
          "sync_file", "sync_entry", "recheck", "confirm_pending", "confirm_pending_entry",
          "reinspect", "check", "rename", "sync_promotion", "verify", "verify_pending",
          "exists", "exists_pending", "confirm", "confirm_entry", "reconfirm", "settle",
          "remove", "unlink", "sync_removal", "absent", "final"}

\* No call is running; the last one may have been refused.
AtRest(p) == pc[p] \in {"idle", "refused"}

\* What an inspection of a name finds (inspect_exact_at).
Missing(n) == dir[n] = NoFile
Exact(p, n) == dir[n] # NoFile /\ file[dir[n]] = want[p]

\* An inode is free when no name leads to it, on the disk either, and nobody
\* holds it open for writing.
Free(f) == /\ \A d \in disk \cup {dir} : \A n \in Names : d[n] # f
           /\ \A p \in Callers : pc[p] \in {"write", "sync_file"} => handle[p] # f

Init ==
    /\ file = [f \in Files |-> Torn]
    /\ clean = [f \in Files |-> TRUE]
    /\ dir = [n \in Names |-> NoFile]
    /\ disk = {dir}
    /\ exclusive \in BOOLEAN
    /\ pc = [p \in Callers |-> "idle"]
    /\ want = [p \in Callers |-> None]
    /\ handle = [p \in Callers |-> NoFile]
    /\ snap = [p \in Callers |-> NoFile]
    /\ canon = [p \in Callers |-> NoFile]
    /\ dup = [p \in Callers |-> NoFile]
    /\ told = {}

-----------------------------------------------------------------------------
\* Steps of one call.

Goto(p, s) == pc' = [pc EXCEPT ![p] = s]

\* The call ends at rest; its locals are gone.
Return(p, rest) ==
    /\ Goto(p, rest)
    /\ want' = [want EXCEPT ![p] = None]
    /\ handle' = [handle EXCEPT ![p] = NoFile]
    /\ snap' = [snap EXCEPT ![p] = NoFile]
    /\ canon' = [canon EXCEPT ![p] = NoFile]
    /\ dup' = [dup EXCEPT ![p] = NoFile]
    /\ UNCHANGED <<exclusive, fs>>

\* A conflict, or a name that vanished before it could be opened.
Refuse(p) == Return(p, "refused") /\ UNCHANGED told

Durable(p) == Return(p, "idle") /\ told' = told \cup {want[p]}

\* A step that reads: what it found decides where the call goes.
Read(p, s) == Goto(p, s) /\ UNCHANGED <<fs, exclusive, want, handle, told>>

\* The directory changes in memory; a power cut may or may not keep the change.
Entry(d) == dir' = d /\ disk' = disk \cup {d}

\* A sync of the parent directory.
SyncDir(p, s) ==
    /\ disk' = {dir}
    /\ Goto(p, s)
    /\ UNCHANGED <<file, clean, dir, exclusive, locals, told>>

\* The barriers over the file that a name leads to.  confirm_durable_at opens
\* the name and syncs file, directory and file; the third barrier orders the
\* first two and leaves nothing else to see.
SyncNamed(p, n, s) ==
    IF Missing(n) THEN Refuse(p)
    ELSE /\ clean' = [clean EXCEPT ![dir[n]] = TRUE]
         /\ Goto(p, s)
         /\ UNCHANGED <<file, dir, disk, exclusive, locals, told>>

Begin(p) ==
    /\ AtRest(p)
    /\ exclusive => \A q \in Callers : AtRest(q)
    /\ \E v \in Values : want' = [want EXCEPT ![p] = v]
    /\ Goto(p, "look_canonical")
    /\ UNCHANGED <<fs, exclusive, handle, snap, canon, dup, told>>

LookCanonical(p) ==
    /\ pc[p] = "look_canonical"
    /\ \/ Exact(p, "canonical") /\ Read(p, "look_duplicate")
          /\ canon' = [canon EXCEPT ![p] = dir["canonical"]] /\ UNCHANGED <<snap, dup>>
       \/ Missing("canonical") /\ Read(p, "look_pending") /\ UNCHANGED <<snap, canon, dup>>
       \/ ~Missing("canonical") /\ ~Exact(p, "canonical") /\ Refuse(p)

\* The record exists.  A pending file beside it must hold the same bytes.
LookDuplicate(p) ==
    /\ pc[p] = "look_duplicate"
    /\ \/ (Missing("pending") \/ Exact(p, "pending")) /\ Read(p, "confirm")
          /\ dup' = [dup EXCEPT ![p] = dir["pending"]] /\ UNCHANGED <<snap, canon>>
       \/ ~Missing("pending") /\ ~Exact(p, "pending") /\ Refuse(p)

\* Mutant: a pending file that an earlier call left is refused, exact or not.
LookPendingFresh(p) ==
    /\ pc[p] = "look_pending"
    /\ \/ Missing("pending") /\ Read(p, "create") /\ UNCHANGED <<snap, canon, dup>>
       \/ ~Missing("pending") /\ Refuse(p)

LookPending(p) ==
    /\ pc[p] = "look_pending"
    /\ \/ Missing("pending") /\ Read(p, "create") /\ UNCHANGED <<snap, canon, dup>>
       \/ Exact(p, "pending") /\ Read(p, "confirm_pending")
          /\ snap' = [snap EXCEPT ![p] = dir["pending"]] /\ UNCHANGED <<canon, dup>>
       \/ ~Missing("pending") /\ ~Exact(p, "pending") /\ Refuse(p)

\* O_CREAT | O_EXCL.  The file is empty; a file that already exists is
\* inspected again like one that was recovered.
Create(p) ==
    /\ pc[p] = "create"
    /\ Missing("pending")
    /\ \E f \in Files :
        /\ Free(f)
        /\ file' = [file EXCEPT ![f] = Torn]
        /\ clean' = [clean EXCEPT ![f] = FALSE]
        /\ Entry([dir EXCEPT !["pending"] = f])
        /\ handle' = [handle EXCEPT ![p] = f]
    /\ Goto(p, "write")
    /\ UNCHANGED <<exclusive, want, snap, canon, dup, told>>

AlreadyExists(p) ==
    /\ pc[p] = "create" /\ ~Missing("pending")
    /\ Read(p, "recheck") /\ UNCHANGED <<snap, canon, dup>>

Write(p) ==
    /\ pc[p] = "write"
    /\ file' = [file EXCEPT ![handle[p]] = want[p]]
    /\ Goto(p, "sync_file")
    /\ UNCHANGED <<clean, dir, disk, exclusive, locals, told>>

SyncFile(p) ==
    /\ pc[p] = "sync_file"
    /\ clean' = [clean EXCEPT ![handle[p]] = TRUE]
    /\ handle' = [handle EXCEPT ![p] = NoFile]
    /\ Goto(p, "sync_entry")
    /\ UNCHANGED <<file, dir, disk, exclusive, want, snap, canon, dup, told>>

SyncEntry(p) == pc[p] = "sync_entry" /\ SyncDir(p, "recheck")

\* Mutant: a pending file that is not the caller's is waited for.
RecheckAgain(p) ==
    /\ pc[p] = "recheck"
    /\ \/ Exact(p, "pending") /\ Read(p, "confirm_pending")
          /\ snap' = [snap EXCEPT ![p] = dir["pending"]] /\ UNCHANGED <<canon, dup>>
       \/ ~Exact(p, "pending") /\ Read(p, "create") /\ UNCHANGED <<snap, canon, dup>>

Recheck(p) ==
    /\ pc[p] = "recheck"
    /\ \/ Exact(p, "pending") /\ Read(p, "confirm_pending")
          /\ snap' = [snap EXCEPT ![p] = dir["pending"]] /\ UNCHANGED <<canon, dup>>
       \/ ~Exact(p, "pending") /\ Refuse(p)

ConfirmPending(p) ==
    pc[p] = "confirm_pending" /\ SyncNamed(p, "pending", "confirm_pending_entry")

ConfirmPendingEntry(p) == pc[p] = "confirm_pending_entry" /\ SyncDir(p, "reinspect")

Reinspect(p) ==
    /\ pc[p] = "reinspect"
    /\ \/ Exact(p, "pending") /\ dir["pending"] = snap[p]
          /\ Read(p, "check") /\ UNCHANGED <<snap, canon, dup>>
       \/ ~(Exact(p, "pending") /\ dir["pending"] = snap[p]) /\ Refuse(p)

\* promote_no_replace_at looks at both names before it renames.
Check(p) ==
    /\ pc[p] = "check"
    /\ \/ dir["pending"] # snap[p] /\ Refuse(p)
       \/ dir["pending"] = snap[p] /\ UNCHANGED <<snap, canon, dup>>
          /\ Read(p, IF Missing("canonical") THEN "rename" ELSE "exists")

\* RENAME_NOREPLACE moves whatever the pending name leads to by now.
Rename(p) ==
    /\ pc[p] = "rename" /\ ~Missing("pending") /\ Missing("canonical")
    /\ Entry([dir EXCEPT !["canonical"] = dir["pending"], !["pending"] = NoFile])
    /\ Goto(p, "sync_promotion")
    /\ UNCHANGED <<file, clean, exclusive, locals, told>>

RenameFails(p) ==
    /\ pc[p] = "rename"
    /\ \/ Missing("pending") /\ Refuse(p)
       \/ ~Missing("pending") /\ ~Missing("canonical")
          /\ Read(p, "exists") /\ UNCHANGED <<snap, canon, dup>>

SyncPromotion(p) == pc[p] = "sync_promotion" /\ SyncDir(p, "verify")

Verify(p) ==
    /\ pc[p] = "verify"
    /\ \/ Exact(p, "canonical") /\ dir["canonical"] = snap[p] /\ Read(p, "verify_pending")
          /\ canon' = [canon EXCEPT ![p] = snap[p]] /\ snap' = [snap EXCEPT ![p] = NoFile]
          /\ UNCHANGED dup
       \/ ~(Exact(p, "canonical") /\ dir["canonical"] = snap[p]) /\ Refuse(p)

VerifyPending(p) ==
    /\ pc[p] = "verify_pending"
    /\ \/ Missing("pending") /\ Read(p, "confirm") /\ UNCHANGED <<snap, canon, dup>>
       \/ ~Missing("pending") /\ Refuse(p)

\* Somebody else's record was there first.  It must be this one.
Exists(p) ==
    /\ pc[p] = "exists"
    /\ \/ Exact(p, "canonical") /\ Read(p, "exists_pending")
          /\ canon' = [canon EXCEPT ![p] = dir["canonical"]] /\ UNCHANGED <<snap, dup>>
       \/ ~Exact(p, "canonical") /\ Refuse(p)

ExistsPending(p) ==
    /\ pc[p] = "exists_pending"
    /\ \/ Exact(p, "pending") /\ dir["pending"] = snap[p] /\ Read(p, "confirm")
          /\ dup' = [dup EXCEPT ![p] = snap[p]] /\ snap' = [snap EXCEPT ![p] = NoFile]
          /\ UNCHANGED canon
       \/ ~(Exact(p, "pending") /\ dir["pending"] = snap[p]) /\ Refuse(p)

-----------------------------------------------------------------------------
\* confirm_canonical_and_cleanup_pending.

Confirm(p) == pc[p] = "confirm" /\ SyncNamed(p, "canonical", "confirm_entry")

\* Mutant: a record that is found is taken to be durable.
ConfirmEntryUnsynced(p) ==
    /\ pc[p] = "confirm_entry" /\ Goto(p, "reconfirm")
    /\ UNCHANGED <<fs, exclusive, locals, told>>

ConfirmEntry(p) == pc[p] = "confirm_entry" /\ SyncDir(p, "reconfirm")

Reconfirm(p) ==
    /\ pc[p] = "reconfirm"
    /\ \/ Exact(p, "canonical") /\ dir["canonical"] = canon[p]
          /\ Read(p, "settle") /\ UNCHANGED <<snap, canon, dup>>
       \/ ~(Exact(p, "canonical") /\ dir["canonical"] = canon[p]) /\ Refuse(p)

\* Nothing may be pending but the duplicate that was seen before.
Settle(p) ==
    /\ pc[p] = "settle"
    /\ \/ dup[p] = NoFile /\ Missing("pending") /\ Durable(p)
       \/ dup[p] # NoFile /\ Exact(p, "pending") /\ dir["pending"] = dup[p] /\ dup[p] # canon[p]
          /\ Read(p, "remove") /\ UNCHANGED <<snap, canon, dup>>
       \/ ~(IF dup[p] = NoFile THEN Missing("pending")
            ELSE Exact(p, "pending") /\ dir["pending"] = dup[p] /\ dup[p] # canon[p])
          /\ Refuse(p)

\* remove_exact_at compares the identity, then unlinks the name.
Remove(p) ==
    /\ pc[p] = "remove"
    /\ \/ dir["pending"] = dup[p] /\ Read(p, "unlink") /\ UNCHANGED <<snap, canon, dup>>
       \/ dir["pending"] # dup[p] /\ Refuse(p)

Unlink(p) ==
    /\ pc[p] = "unlink"
    /\ ~Missing("pending")
    /\ Entry([dir EXCEPT !["pending"] = NoFile])
    /\ Goto(p, "sync_removal")
    /\ UNCHANGED <<file, clean, exclusive, locals, told>>

UnlinkFails(p) == pc[p] = "unlink" /\ Missing("pending") /\ Refuse(p)

SyncRemoval(p) == pc[p] = "sync_removal" /\ SyncDir(p, "absent")

Absent(p) ==
    /\ pc[p] = "absent"
    /\ \/ Missing("pending") /\ Read(p, "final") /\ UNCHANGED <<snap, canon, dup>>
       \/ ~Missing("pending") /\ Refuse(p)

Final(p) ==
    /\ pc[p] = "final"
    /\ \/ Exact(p, "canonical") /\ dir["canonical"] = canon[p] /\ Durable(p)
       \/ ~(Exact(p, "canonical") /\ dir["canonical"] = canon[p]) /\ Refuse(p)

Call(p) ==
    \/ LookCanonical(p) \/ LookDuplicate(p) \/ LookPending(p)
    \/ Create(p) \/ AlreadyExists(p) \/ Write(p) \/ SyncFile(p) \/ SyncEntry(p) \/ Recheck(p)
    \/ ConfirmPending(p) \/ ConfirmPendingEntry(p) \/ Reinspect(p)
    \/ Check(p) \/ Rename(p) \/ RenameFails(p) \/ SyncPromotion(p)
    \/ Verify(p) \/ VerifyPending(p) \/ Exists(p) \/ ExistsPending(p)
    \/ Confirm(p) \/ ConfirmEntry(p) \/ Reconfirm(p) \/ Settle(p)
    \/ Remove(p) \/ Unlink(p) \/ UnlinkFails(p) \/ SyncRemoval(p) \/ Absent(p) \/ Final(p)

-----------------------------------------------------------------------------
\* A system call fails, or the process dies: the call ends and leaves every
\* name and every byte as they are.
Fail(p) == ~AtRest(p) /\ Return(p, "idle") /\ UNCHANGED told

\* Power is lost: what is not on the disk may be.
PowerCut ==
    /\ \E d \in disk, lost \in SUBSET {f \in Files : ~clean[f]} :
        /\ dir' = d /\ disk' = {d}
        /\ file' = [f \in Files |-> IF f \in lost \/ \A n \in Names : d[n] # f
                                   THEN Torn ELSE file[f]]
    /\ clean' = [f \in Files |-> TRUE]
    /\ pc' = [p \in Callers |-> "idle"]
    /\ handle' = [p \in Callers |-> NoFile] /\ snap' = [p \in Callers |-> NoFile]
    /\ canon' = [p \in Callers |-> NoFile] /\ dup' = [p \in Callers |-> NoFile]
    /\ want' = [p \in Callers |-> None]
    /\ UNCHANGED <<exclusive, told>>

Next == PowerCut \/ \E p \in Callers : Begin(p) \/ Call(p) \/ Fail(p)

Spec == Init /\ [][Next]_vars

FairSpec == Spec /\ \A p \in Callers : WF_vars(Call(p))

-----------------------------------------------------------------------------
\* Whatever a power cut leaves, the canonical name never leads to a file that
\* is torn or may still become so: publish_at renames only what it has made
\* durable under the pending name, whoever wrote it.
NeverTorn ==
    \A d \in disk \cup {dir} :
        d["canonical"] # NoFile => file[d["canonical"]] # Torn /\ clean[d["canonical"]]

\* What the record is fixed to: the canonical name survives a power cut.
Fixed ==
    IF dir["canonical"] # NoFile /\ \A d \in disk : d["canonical"] = dir["canonical"]
    THEN file[dir["canonical"]] ELSE None

Register == INSTANCE WriteOnce WITH value <- Fixed

\* The record is a write-once register, and "durable" is said only of what it
\* is fixed to, over crashes and power cuts, whether or not the callers keep
\* out of each other's way.
KeepsRegister == Register!Spec

\* A caller that owns the directory is refused only for bytes that are not
\* its own: every prefix that an interrupted call of the same bytes leaves is
\* taken up again, except a torn pending file, which publish_at keeps.
RefusalHasCause ==
    [][\A p \in Callers :
          exclusive /\ pc[p] # "refused" /\ pc'[p] = "refused" =>
              \E n \in Names : ~Missing(n) /\ ~Exact(p, n)]_vars

\* Every call returns.
CallReturns == \A p \in Callers : ~AtRest(p) ~> AtRest(p)
==============================================================================

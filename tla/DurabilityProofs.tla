--------------------------- MODULE DurabilityProofs ---------------------------
(***************************************************************************)
(* What MCDurability promises, for any number of callers, records, stores,  *)
(* generations, workers, slots and starts, and for any yield of the sieve.  *)
(*                                                                         *)
(* DurableRecord, first: it implements WriteOnce.  Its invariant says what  *)
(* a call may rely on between the system call that established a fact and   *)
(* the one that uses it while others run: a pending file that was inspected *)
(* stays whole and in place as long as the canonical name is free, and a    *)
(* canonical name stays.  A caller that owns the directory finds more: what *)
(* its earlier steps left, so that a refusal has its cause in the records.  *)
(* Then, each in the variables it has here, the deletion of a pair          *)
(* (Cleanup), the resumed sieve (Sieve) and the merge of a wave (Merge);    *)
(* the removal of the workers and the journal have modules of their own.    *)
(* Last, the theorems are brought together: whatever the first state picks, *)
(* the behaviour is one of each of the six.                                 *)
(***************************************************************************)
EXTENDS MCDurability, Integers, Sequences, FiniteSetTheorems, WellFoundedInduction, TLAPS

Dirs == [Names -> Files \cup {NoFile}]

TypeOK ==
    /\ file \in [Files -> Values \cup {Torn}]
    /\ clean \in [Files -> BOOLEAN]
    /\ dir \in Dirs
    /\ disk \subseteq Dirs
    /\ pc \in [Callers -> Steps]
    /\ want \in [Callers -> Values \cup {None}]
    /\ handle \in [Callers -> Files \cup {NoFile}]
    /\ snap \in [Callers -> Files \cup {NoFile}]

\* Calls that know the canonical name to be taken, to be taken for good, and
\* to hold their bytes.
Found == {"look_duplicate", "sync_promotion", "verify", "verify_pending", "exists",
          "exists_pending", "confirm", "confirm_entry", "reconfirm", "settle", "remove",
          "unlink", "sync_removal", "absent", "final"}
Settled == {"reconfirm", "settle", "remove", "unlink", "sync_removal", "absent", "final"}
Agreed == Settled \ {"reconfirm"}

\* Calls that have inspected the pending file and go on to rename it.
Promoting == {"confirm_pending", "confirm_pending_entry", "reinspect", "check", "rename"}

Stable == dir["canonical"] # NoFile /\ \A d \in disk : d["canonical"] = dir["canonical"]

\* The canonical name is bound once: the disk has the binding or none.
BoundOnce ==
    /\ dir \in disk
    /\ \A d \in disk : d["canonical"] # NoFile => d["canonical"] = dir["canonical"]

\* A file is torn until its creator, and nobody else, has written it.
WriterInv ==
    \A p \in Callers :
        /\ pc[p] \in {"write", "sync_file"} => handle[p] \in Files
        /\ pc[p] = "write" => file[handle[p]] = Torn
        /\ \A q \in Callers :
              pc[p] \in {"write", "sync_file"} /\ pc[q] \in {"write", "sync_file"} /\ p # q
                  => handle[p] # handle[q]

\* A call that is about to rename has made durable what it renames.
PromoterInv ==
    \A p \in Callers :
        pc[p] \in Promoting /\ dir["canonical"] = NoFile =>
            /\ snap[p] \in Files /\ dir["pending"] = snap[p]
            /\ file[snap[p]] # Torn
            /\ pc[p] # "confirm_pending" => clean[snap[p]]

\* What a call knows of the canonical name stays true until it returns.
KnowsInv ==
    \A p \in Callers :
        /\ ~AtRest(p) => want[p] \in Values
        /\ pc[p] \in Found => dir["canonical"] # NoFile
        /\ pc[p] \in Settled => Stable
        /\ pc[p] \in Agreed => file[dir["canonical"]] = want[p]

IInv == TypeOK /\ NeverTorn /\ BoundOnce /\ WriterInv /\ PromoterInv /\ KnowsInv

-----------------------------------------------------------------------------
\* The invariant holds at first, and each step of a call keeps every part of it.
LEMMA InitInv == Init => IInv
BY DurableRecordAssumption DEF Init, IInv, TypeOK, Dirs, Names, Steps, NeverTorn, BoundOnce, WriterInv,
   PromoterInv, KnowsInv, Found, Settled, Agreed, Promoting, AtRest

LEMMA BeginKeeps == ASSUME IInv, NEW p \in Callers, Begin(p) PROVE IInv'
<1>1. TypeOK'
  BY DurableRecordAssumption DEF IInv, TypeOK, Dirs, Names, Steps, Begin, Goto, fs, AtRest
<1>2. NeverTorn' /\ BoundOnce'
  BY DEF IInv, NeverTorn, BoundOnce, Begin, Goto, fs, AtRest
<1>3. WriterInv'
  BY DurableRecordAssumption DEF IInv, TypeOK, WriterInv, Dirs, Names, Begin, Goto, fs, AtRest
<1>4. PromoterInv'
  BY DurableRecordAssumption DEF IInv, TypeOK, PromoterInv, Promoting, Dirs, Names, Begin, Goto,
     fs, AtRest
<1>5. KnowsInv'
  BY DurableRecordAssumption DEF IInv, TypeOK, KnowsInv, Found, Settled, Agreed, Stable,
     BoundOnce, AtRest, Dirs, Names, Begin, Goto, fs
<1> QED
  BY <1>1, <1>2, <1>3, <1>4, <1>5 DEF IInv

LEMMA LookCanonicalKeeps == ASSUME IInv, NEW p \in Callers, LookCanonical(p) PROVE IInv'
<1>1. TypeOK'
  BY DurableRecordAssumption DEF IInv, TypeOK, Dirs, Names, Steps, LookCanonical, Read, Refuse,
     Missing, Exact, Goto, fs, Return
<1>2. NeverTorn' /\ BoundOnce'
  BY DEF IInv, NeverTorn, BoundOnce, LookCanonical, Read, Refuse, Missing, Exact, Goto, fs,
     Return
<1>3. WriterInv'
  BY DurableRecordAssumption DEF IInv, TypeOK, WriterInv, Dirs, Names, LookCanonical, Read,
     Refuse, Missing, Exact, Goto, fs, Return
<1>4. PromoterInv'
  BY DurableRecordAssumption DEF IInv, TypeOK, PromoterInv, Promoting, Dirs, Names,
     LookCanonical, Read, Refuse, Missing, Exact, Goto, fs, Return
<1>5. KnowsInv'
  BY DurableRecordAssumption DEF IInv, TypeOK, KnowsInv, Found, Settled, Agreed, Stable,
     BoundOnce, AtRest, Dirs, Names, LookCanonical, Read, Refuse, Missing, Exact, Goto, fs,
     Return
<1> QED
  BY <1>1, <1>2, <1>3, <1>4, <1>5 DEF IInv

LEMMA LookDuplicateKeeps == ASSUME IInv, NEW p \in Callers, LookDuplicate(p) PROVE IInv'
<1>1. TypeOK'
  BY DurableRecordAssumption DEF IInv, TypeOK, Dirs, Names, Steps, LookDuplicate, Read, Refuse,
     Missing, Exact, Goto, fs, Return
<1>2. NeverTorn' /\ BoundOnce'
  BY DEF IInv, NeverTorn, BoundOnce, LookDuplicate, Read, Refuse, Missing, Exact, Goto, fs,
     Return
<1>3. WriterInv'
  BY DurableRecordAssumption DEF IInv, TypeOK, WriterInv, Dirs, Names, LookDuplicate, Read,
     Refuse, Missing, Exact, Goto, fs, Return
<1>4. PromoterInv'
  BY DurableRecordAssumption DEF IInv, TypeOK, PromoterInv, Promoting, Dirs, Names,
     LookDuplicate, Read, Refuse, Missing, Exact, Goto, fs, Return
<1>5. KnowsInv'
  BY DurableRecordAssumption DEF IInv, TypeOK, KnowsInv, Found, Settled, Agreed, Stable,
     BoundOnce, AtRest, Dirs, Names, LookDuplicate, Read, Refuse, Missing, Exact, Goto, fs,
     Return
<1> QED
  BY <1>1, <1>2, <1>3, <1>4, <1>5 DEF IInv

LEMMA LookPendingKeeps == ASSUME IInv, NEW p \in Callers, LookPending(p) PROVE IInv'
<1>1. TypeOK'
  BY DurableRecordAssumption DEF IInv, TypeOK, Dirs, Names, Steps, LookPending, Read, Refuse,
     Missing, Exact, Goto, fs, Return
<1>2. NeverTorn' /\ BoundOnce'
  BY DEF IInv, NeverTorn, BoundOnce, LookPending, Read, Refuse, Missing, Exact, Goto, fs, Return
<1>3. WriterInv'
  BY DurableRecordAssumption DEF IInv, TypeOK, WriterInv, Dirs, Names, LookPending, Read,
     Refuse, Missing, Exact, Goto, fs, Return
<1>4. PromoterInv'
  BY DurableRecordAssumption DEF IInv, TypeOK, PromoterInv, Promoting, Dirs, Names, KnowsInv,
     AtRest, Found, WriterInv, LookPending, Read, Refuse, Missing, Exact, Goto, fs, Return
<1>5. KnowsInv'
  BY DurableRecordAssumption DEF IInv, TypeOK, KnowsInv, Found, Settled, Agreed, Stable,
     BoundOnce, AtRest, Dirs, Names, LookPending, Read, Refuse, Missing, Exact, Goto, fs, Return
<1> QED
  BY <1>1, <1>2, <1>3, <1>4, <1>5 DEF IInv

LEMMA CreateKeeps == ASSUME IInv, NEW p \in Callers, Create(p) PROVE IInv'
<1>1. TypeOK'
  BY DurableRecordAssumption DEF IInv, TypeOK, Dirs, Names, Steps, Create, Goto, Entry, Missing,
     Free
<1>2. NeverTorn' /\ BoundOnce'
  BY DurableRecordAssumption DEF IInv, TypeOK, NeverTorn, BoundOnce, Dirs, Names, Create, Goto,
     Entry, Missing, Free
<1>3. WriterInv'
  BY DurableRecordAssumption DEF IInv, TypeOK, WriterInv, Dirs, Names, Create, Goto, Entry,
     Missing, Free
<1>4. PromoterInv'
  BY DurableRecordAssumption DEF IInv, TypeOK, PromoterInv, Promoting, Dirs, Names, Create,
     Goto, Entry, Missing, Free
<1>5. KnowsInv'
  BY DurableRecordAssumption DEF IInv, TypeOK, KnowsInv, Found, Settled, Agreed, Stable,
     BoundOnce, AtRest, Dirs, Names, NeverTorn, WriterInv, Create, Goto, Entry, Missing, Free
<1> QED
  BY <1>1, <1>2, <1>3, <1>4, <1>5 DEF IInv

LEMMA AlreadyExistsKeeps == ASSUME IInv, NEW p \in Callers, AlreadyExists(p) PROVE IInv'
<1>1. TypeOK'
  BY DurableRecordAssumption DEF IInv, TypeOK, Dirs, Names, Steps, AlreadyExists, Read, Missing,
     Goto, fs
<1>2. NeverTorn' /\ BoundOnce'
  BY DEF IInv, NeverTorn, BoundOnce, AlreadyExists, Read, Missing, Goto, fs
<1>3. WriterInv'
  BY DurableRecordAssumption DEF IInv, TypeOK, WriterInv, Dirs, Names, AlreadyExists, Read,
     Missing, Goto, fs
<1>4. PromoterInv'
  BY DurableRecordAssumption DEF IInv, TypeOK, PromoterInv, Promoting, Dirs, Names,
     AlreadyExists, Read, Missing, Goto, fs
<1>5. KnowsInv'
  BY DurableRecordAssumption DEF IInv, TypeOK, KnowsInv, Found, Settled, Agreed, Stable,
     BoundOnce, AtRest, Dirs, Names, AlreadyExists, Read, Missing, Goto, fs
<1> QED
  BY <1>1, <1>2, <1>3, <1>4, <1>5 DEF IInv

LEMMA WriteKeeps == ASSUME IInv, NEW p \in Callers, Write(p) PROVE IInv'
<1>1. TypeOK'
  BY DurableRecordAssumption DEF IInv, TypeOK, Dirs, Names, Steps, KnowsInv, AtRest, Write,
     Goto, locals
<1>2. NeverTorn' /\ BoundOnce'
  BY DurableRecordAssumption DEF IInv, TypeOK, NeverTorn, BoundOnce, Dirs, Names, WriterInv,
     Write, Goto, locals
<1>3. WriterInv'
  BY DurableRecordAssumption DEF IInv, TypeOK, WriterInv, Dirs, Names, Write, Goto, locals
<1>4. PromoterInv'
  BY DurableRecordAssumption DEF IInv, TypeOK, PromoterInv, Promoting, Dirs, Names, KnowsInv,
     AtRest, Found, WriterInv, Write, Goto, locals
<1>5. KnowsInv'
  BY DurableRecordAssumption DEF IInv, TypeOK, KnowsInv, Found, Settled, Agreed, Stable,
     BoundOnce, AtRest, Dirs, Names, NeverTorn, WriterInv, Write, Goto, locals
<1> QED
  BY <1>1, <1>2, <1>3, <1>4, <1>5 DEF IInv

LEMMA SyncFileKeeps == ASSUME IInv, NEW p \in Callers, SyncFile(p) PROVE IInv'
<1>1. TypeOK'
  BY DurableRecordAssumption DEF IInv, TypeOK, Dirs, Names, Steps, SyncFile, Goto
<1>2. NeverTorn' /\ BoundOnce'
  BY DurableRecordAssumption DEF IInv, TypeOK, NeverTorn, BoundOnce, Dirs, Names, SyncFile, Goto
<1>3. WriterInv'
  BY DurableRecordAssumption DEF IInv, TypeOK, WriterInv, Dirs, Names, SyncFile, Goto
<1>4. PromoterInv'
  BY DurableRecordAssumption DEF IInv, TypeOK, PromoterInv, Promoting, Dirs, Names, SyncFile,
     Goto
<1>5. KnowsInv'
  BY DurableRecordAssumption DEF IInv, TypeOK, KnowsInv, Found, Settled, Agreed, Stable,
     BoundOnce, AtRest, Dirs, Names, SyncFile, Goto
<1> QED
  BY <1>1, <1>2, <1>3, <1>4, <1>5 DEF IInv

LEMMA SyncEntryKeeps == ASSUME IInv, NEW p \in Callers, SyncEntry(p) PROVE IInv'
<1>1. TypeOK'
  BY DurableRecordAssumption DEF IInv, TypeOK, Dirs, Names, Steps, SyncEntry, SyncDir, Goto,
     locals
<1>2. NeverTorn' /\ BoundOnce'
  BY DurableRecordAssumption DEF IInv, TypeOK, NeverTorn, BoundOnce, Dirs, Names, SyncEntry,
     SyncDir, Goto, locals
<1>3. WriterInv'
  BY DurableRecordAssumption DEF IInv, TypeOK, WriterInv, Dirs, Names, SyncEntry, SyncDir, Goto,
     locals
<1>4. PromoterInv'
  BY DurableRecordAssumption DEF IInv, TypeOK, PromoterInv, Promoting, Dirs, Names, SyncEntry,
     SyncDir, Goto, locals
<1>5. KnowsInv'
  BY DurableRecordAssumption DEF IInv, TypeOK, KnowsInv, Found, Settled, Agreed, Stable,
     BoundOnce, AtRest, Dirs, Names, SyncEntry, SyncDir, Goto, locals
<1> QED
  BY <1>1, <1>2, <1>3, <1>4, <1>5 DEF IInv

LEMMA RecheckKeeps == ASSUME IInv, NEW p \in Callers, Recheck(p) PROVE IInv'
<1>1. TypeOK'
  BY DurableRecordAssumption DEF IInv, TypeOK, Dirs, Names, Steps, Recheck, Read, Refuse, Exact,
     Goto, fs, Return
<1>2. NeverTorn' /\ BoundOnce'
  BY DEF IInv, NeverTorn, BoundOnce, Recheck, Read, Refuse, Exact, Goto, fs, Return
<1>3. WriterInv'
  BY DurableRecordAssumption DEF IInv, TypeOK, WriterInv, Dirs, Names, Recheck, Read, Refuse,
     Exact, Goto, fs, Return
<1>4. PromoterInv'
  BY DurableRecordAssumption DEF IInv, TypeOK, PromoterInv, Promoting, Dirs, Names, KnowsInv,
     AtRest, Found, WriterInv, Recheck, Read, Refuse, Exact, Goto, fs, Return
<1>5. KnowsInv'
  BY DurableRecordAssumption DEF IInv, TypeOK, KnowsInv, Found, Settled, Agreed, Stable,
     BoundOnce, AtRest, Dirs, Names, Recheck, Read, Refuse, Exact, Goto, fs, Return
<1> QED
  BY <1>1, <1>2, <1>3, <1>4, <1>5 DEF IInv

LEMMA ConfirmPendingKeeps == ASSUME IInv, NEW p \in Callers, ConfirmPending(p) PROVE IInv'
<1>1. TypeOK'
  BY DurableRecordAssumption DEF IInv, TypeOK, Dirs, Names, Steps, ConfirmPending, SyncNamed,
     Refuse, Goto, Missing, locals, Return, fs
<1>2. NeverTorn' /\ BoundOnce'
  BY DurableRecordAssumption DEF IInv, TypeOK, NeverTorn, BoundOnce, Dirs, Names,
     ConfirmPending, SyncNamed, Refuse, Goto, Missing, locals, Return, fs
<1>3. WriterInv'
  BY DurableRecordAssumption DEF IInv, TypeOK, WriterInv, Dirs, Names, ConfirmPending,
     SyncNamed, Refuse, Goto, Missing, locals, Return, fs
<1>4. PromoterInv'
  BY DurableRecordAssumption DEF IInv, TypeOK, PromoterInv, Promoting, Dirs, Names,
     ConfirmPending, SyncNamed, Refuse, Goto, Missing, locals, Return, fs
<1>5. KnowsInv'
  BY DurableRecordAssumption DEF IInv, TypeOK, KnowsInv, Found, Settled, Agreed, Stable,
     BoundOnce, AtRest, Dirs, Names, ConfirmPending, SyncNamed, Refuse, Goto, Missing, locals,
     Return, fs
<1> QED
  BY <1>1, <1>2, <1>3, <1>4, <1>5 DEF IInv

LEMMA ConfirmPendingEntryKeeps == ASSUME IInv, NEW p \in Callers, ConfirmPendingEntry(p) PROVE IInv'
<1>1. TypeOK'
  BY DurableRecordAssumption DEF IInv, TypeOK, Dirs, Names, Steps, ConfirmPendingEntry, SyncDir,
     Goto, locals
<1>2. NeverTorn' /\ BoundOnce'
  BY DurableRecordAssumption DEF IInv, TypeOK, NeverTorn, BoundOnce, Dirs, Names,
     ConfirmPendingEntry, SyncDir, Goto, locals
<1>3. WriterInv'
  BY DurableRecordAssumption DEF IInv, TypeOK, WriterInv, Dirs, Names, ConfirmPendingEntry,
     SyncDir, Goto, locals
<1>4. PromoterInv'
  BY DurableRecordAssumption DEF IInv, TypeOK, PromoterInv, Promoting, Dirs, Names,
     ConfirmPendingEntry, SyncDir, Goto, locals
<1>5. KnowsInv'
  BY DurableRecordAssumption DEF IInv, TypeOK, KnowsInv, Found, Settled, Agreed, Stable,
     BoundOnce, AtRest, Dirs, Names, ConfirmPendingEntry, SyncDir, Goto, locals
<1> QED
  BY <1>1, <1>2, <1>3, <1>4, <1>5 DEF IInv

LEMMA ReinspectKeeps == ASSUME IInv, NEW p \in Callers, Reinspect(p) PROVE IInv'
<1>1. TypeOK'
  BY DurableRecordAssumption DEF IInv, TypeOK, Dirs, Names, Steps, Reinspect, Read, Refuse,
     Exact, Goto, fs, Return
<1>2. NeverTorn' /\ BoundOnce'
  BY DEF IInv, NeverTorn, BoundOnce, Reinspect, Read, Refuse, Exact, Goto, fs, Return
<1>3. WriterInv'
  BY DurableRecordAssumption DEF IInv, TypeOK, WriterInv, Dirs, Names, Reinspect, Read, Refuse,
     Exact, Goto, fs, Return
<1>4. PromoterInv'
  BY DurableRecordAssumption DEF IInv, TypeOK, PromoterInv, Promoting, Dirs, Names, KnowsInv,
     AtRest, Found, WriterInv, Reinspect, Read, Refuse, Exact, Goto, fs, Return
<1>5. KnowsInv'
  BY DurableRecordAssumption DEF IInv, TypeOK, KnowsInv, Found, Settled, Agreed, Stable,
     BoundOnce, AtRest, Dirs, Names, Reinspect, Read, Refuse, Exact, Goto, fs, Return
<1> QED
  BY <1>1, <1>2, <1>3, <1>4, <1>5 DEF IInv

LEMMA CheckKeeps == ASSUME IInv, NEW p \in Callers, Check(p) PROVE IInv'
<1>1. TypeOK'
  BY DurableRecordAssumption DEF IInv, TypeOK, Dirs, Names, Steps, Check, Read, Refuse, Missing,
     Goto, fs, Return
<1>2. NeverTorn' /\ BoundOnce'
  BY DEF IInv, NeverTorn, BoundOnce, Check, Read, Refuse, Missing, Goto, fs, Return
<1>3. WriterInv'
  BY DurableRecordAssumption DEF IInv, TypeOK, WriterInv, Dirs, Names, Check, Read, Refuse,
     Missing, Goto, fs, Return
<1>4. PromoterInv'
  BY DurableRecordAssumption DEF IInv, TypeOK, PromoterInv, Promoting, Dirs, Names, Check, Read,
     Refuse, Missing, Goto, fs, Return
<1>5. KnowsInv'
  BY DurableRecordAssumption DEF IInv, TypeOK, KnowsInv, Found, Settled, Agreed, Stable,
     BoundOnce, AtRest, Dirs, Names, Check, Read, Refuse, Missing, Goto, fs, Return
<1> QED
  BY <1>1, <1>2, <1>3, <1>4, <1>5 DEF IInv

LEMMA RenameKeeps == ASSUME IInv, NEW p \in Callers, Rename(p) PROVE IInv'
<1>1. TypeOK'
  BY DurableRecordAssumption DEF IInv, TypeOK, Dirs, Names, Steps, Rename, Goto, Entry, Missing,
     locals
<1>2. NeverTorn' /\ BoundOnce'
  BY DurableRecordAssumption DEF IInv, TypeOK, NeverTorn, BoundOnce, Dirs, Names, PromoterInv,
     Promoting, Rename, Goto, Entry, Missing, locals
<1>3. WriterInv'
  BY DurableRecordAssumption DEF IInv, TypeOK, WriterInv, Dirs, Names, Rename, Goto, Entry,
     Missing, locals
<1>4. PromoterInv'
  BY DurableRecordAssumption DEF IInv, TypeOK, PromoterInv, Promoting, Dirs, Names, Rename,
     Goto, Entry, Missing, locals
<1>5. KnowsInv'
  BY DurableRecordAssumption DEF IInv, TypeOK, KnowsInv, Found, Settled, Agreed, Stable,
     BoundOnce, AtRest, Dirs, Names, Rename, Goto, Entry, Missing, locals
<1> QED
  BY <1>1, <1>2, <1>3, <1>4, <1>5 DEF IInv

LEMMA RenameFailsKeeps == ASSUME IInv, NEW p \in Callers, RenameFails(p) PROVE IInv'
<1>1. TypeOK'
  BY DurableRecordAssumption DEF IInv, TypeOK, Dirs, Names, Steps, RenameFails, Read, Refuse,
     Missing, Goto, fs, Return
<1>2. NeverTorn' /\ BoundOnce'
  BY DEF IInv, NeverTorn, BoundOnce, RenameFails, Read, Refuse, Missing, Goto, fs, Return
<1>3. WriterInv'
  BY DurableRecordAssumption DEF IInv, TypeOK, WriterInv, Dirs, Names, RenameFails, Read,
     Refuse, Missing, Goto, fs, Return
<1>4. PromoterInv'
  BY DurableRecordAssumption DEF IInv, TypeOK, PromoterInv, Promoting, Dirs, Names, RenameFails,
     Read, Refuse, Missing, Goto, fs, Return
<1>5. KnowsInv'
  BY DurableRecordAssumption DEF IInv, TypeOK, KnowsInv, Found, Settled, Agreed, Stable,
     BoundOnce, AtRest, Dirs, Names, RenameFails, Read, Refuse, Missing, Goto, fs, Return
<1> QED
  BY <1>1, <1>2, <1>3, <1>4, <1>5 DEF IInv

LEMMA SyncPromotionKeeps == ASSUME IInv, NEW p \in Callers, SyncPromotion(p) PROVE IInv'
<1>1. TypeOK'
  BY DurableRecordAssumption DEF IInv, TypeOK, Dirs, Names, Steps, SyncPromotion, SyncDir, Goto,
     locals
<1>2. NeverTorn' /\ BoundOnce'
  BY DurableRecordAssumption DEF IInv, TypeOK, NeverTorn, BoundOnce, Dirs, Names, SyncPromotion,
     SyncDir, Goto, locals
<1>3. WriterInv'
  BY DurableRecordAssumption DEF IInv, TypeOK, WriterInv, Dirs, Names, SyncPromotion, SyncDir,
     Goto, locals
<1>4. PromoterInv'
  BY DurableRecordAssumption DEF IInv, TypeOK, PromoterInv, Promoting, Dirs, Names,
     SyncPromotion, SyncDir, Goto, locals
<1>5. KnowsInv'
  BY DurableRecordAssumption DEF IInv, TypeOK, KnowsInv, Found, Settled, Agreed, Stable,
     BoundOnce, AtRest, Dirs, Names, SyncPromotion, SyncDir, Goto, locals
<1> QED
  BY <1>1, <1>2, <1>3, <1>4, <1>5 DEF IInv

LEMMA VerifyKeeps == ASSUME IInv, NEW p \in Callers, Verify(p) PROVE IInv'
<1>1. TypeOK'
  BY DurableRecordAssumption DEF IInv, TypeOK, Dirs, Names, Steps, Verify, Read, Refuse, Exact,
     Goto, fs, Return
<1>2. NeverTorn' /\ BoundOnce'
  BY DEF IInv, NeverTorn, BoundOnce, Verify, Read, Refuse, Exact, Goto, fs, Return
<1>3. WriterInv'
  BY DurableRecordAssumption DEF IInv, TypeOK, WriterInv, Dirs, Names, Verify, Read, Refuse,
     Exact, Goto, fs, Return
<1>4. PromoterInv'
  BY DurableRecordAssumption DEF IInv, TypeOK, PromoterInv, Promoting, Dirs, Names, Verify,
     Read, Refuse, Exact, Goto, fs, Return
<1>5. KnowsInv'
  BY DurableRecordAssumption DEF IInv, TypeOK, KnowsInv, Found, Settled, Agreed, Stable,
     BoundOnce, AtRest, Dirs, Names, Verify, Read, Refuse, Exact, Goto, fs, Return
<1> QED
  BY <1>1, <1>2, <1>3, <1>4, <1>5 DEF IInv

LEMMA VerifyPendingKeeps == ASSUME IInv, NEW p \in Callers, VerifyPending(p) PROVE IInv'
<1>1. TypeOK'
  BY DurableRecordAssumption DEF IInv, TypeOK, Dirs, Names, Steps, VerifyPending, Read, Refuse,
     Missing, Goto, fs, Return
<1>2. NeverTorn' /\ BoundOnce'
  BY DEF IInv, NeverTorn, BoundOnce, VerifyPending, Read, Refuse, Missing, Goto, fs, Return
<1>3. WriterInv'
  BY DurableRecordAssumption DEF IInv, TypeOK, WriterInv, Dirs, Names, VerifyPending, Read,
     Refuse, Missing, Goto, fs, Return
<1>4. PromoterInv'
  BY DurableRecordAssumption DEF IInv, TypeOK, PromoterInv, Promoting, Dirs, Names,
     VerifyPending, Read, Refuse, Missing, Goto, fs, Return
<1>5. KnowsInv'
  BY DurableRecordAssumption DEF IInv, TypeOK, KnowsInv, Found, Settled, Agreed, Stable,
     BoundOnce, AtRest, Dirs, Names, VerifyPending, Read, Refuse, Missing, Goto, fs, Return
<1> QED
  BY <1>1, <1>2, <1>3, <1>4, <1>5 DEF IInv

LEMMA ExistsKeeps == ASSUME IInv, NEW p \in Callers, Exists(p) PROVE IInv'
<1>1. TypeOK'
  BY DurableRecordAssumption DEF IInv, TypeOK, Dirs, Names, Steps, Exists, Read, Refuse, Exact,
     Goto, fs, Return
<1>2. NeverTorn' /\ BoundOnce'
  BY DEF IInv, NeverTorn, BoundOnce, Exists, Read, Refuse, Exact, Goto, fs, Return
<1>3. WriterInv'
  BY DurableRecordAssumption DEF IInv, TypeOK, WriterInv, Dirs, Names, Exists, Read, Refuse,
     Exact, Goto, fs, Return
<1>4. PromoterInv'
  BY DurableRecordAssumption DEF IInv, TypeOK, PromoterInv, Promoting, Dirs, Names, Exists,
     Read, Refuse, Exact, Goto, fs, Return
<1>5. KnowsInv'
  BY DurableRecordAssumption DEF IInv, TypeOK, KnowsInv, Found, Settled, Agreed, Stable,
     BoundOnce, AtRest, Dirs, Names, Exists, Read, Refuse, Exact, Goto, fs, Return
<1> QED
  BY <1>1, <1>2, <1>3, <1>4, <1>5 DEF IInv

LEMMA ExistsPendingKeeps == ASSUME IInv, NEW p \in Callers, ExistsPending(p) PROVE IInv'
<1>1. TypeOK'
  BY DurableRecordAssumption DEF IInv, TypeOK, Dirs, Names, Steps, ExistsPending, Read, Refuse,
     Exact, Goto, fs, Return
<1>2. NeverTorn' /\ BoundOnce'
  BY DEF IInv, NeverTorn, BoundOnce, ExistsPending, Read, Refuse, Exact, Goto, fs, Return
<1>3. WriterInv'
  BY DurableRecordAssumption DEF IInv, TypeOK, WriterInv, Dirs, Names, ExistsPending, Read,
     Refuse, Exact, Goto, fs, Return
<1>4. PromoterInv'
  BY DurableRecordAssumption DEF IInv, TypeOK, PromoterInv, Promoting, Dirs, Names,
     ExistsPending, Read, Refuse, Exact, Goto, fs, Return
<1>5. KnowsInv'
  BY DurableRecordAssumption DEF IInv, TypeOK, KnowsInv, Found, Settled, Agreed, Stable,
     BoundOnce, AtRest, Dirs, Names, ExistsPending, Read, Refuse, Exact, Goto, fs, Return
<1> QED
  BY <1>1, <1>2, <1>3, <1>4, <1>5 DEF IInv

LEMMA ConfirmKeeps == ASSUME IInv, NEW p \in Callers, Confirm(p) PROVE IInv'
<1>1. TypeOK'
  BY DurableRecordAssumption DEF IInv, TypeOK, Dirs, Names, Steps, Confirm, SyncNamed, Refuse,
     Goto, Missing, locals, Return, fs
<1>2. NeverTorn' /\ BoundOnce'
  BY DurableRecordAssumption DEF IInv, TypeOK, NeverTorn, BoundOnce, Dirs, Names, Confirm,
     SyncNamed, Refuse, Goto, Missing, locals, Return, fs
<1>3. WriterInv'
  BY DurableRecordAssumption DEF IInv, TypeOK, WriterInv, Dirs, Names, Confirm, SyncNamed,
     Refuse, Goto, Missing, locals, Return, fs
<1>4. PromoterInv'
  BY DurableRecordAssumption DEF IInv, TypeOK, PromoterInv, Promoting, Dirs, Names, Confirm,
     SyncNamed, Refuse, Goto, Missing, locals, Return, fs
<1>5. KnowsInv'
  BY DurableRecordAssumption DEF IInv, TypeOK, KnowsInv, Found, Settled, Agreed, Stable,
     BoundOnce, AtRest, Dirs, Names, Confirm, SyncNamed, Refuse, Goto, Missing, locals, Return,
     fs
<1> QED
  BY <1>1, <1>2, <1>3, <1>4, <1>5 DEF IInv

LEMMA ConfirmEntryKeeps == ASSUME IInv, NEW p \in Callers, ConfirmEntry(p) PROVE IInv'
<1>1. TypeOK'
  BY DurableRecordAssumption DEF IInv, TypeOK, Dirs, Names, Steps, ConfirmEntry, SyncDir, Goto,
     locals
<1>2. NeverTorn' /\ BoundOnce'
  BY DurableRecordAssumption DEF IInv, TypeOK, NeverTorn, BoundOnce, Dirs, Names, ConfirmEntry,
     SyncDir, Goto, locals
<1>3. WriterInv'
  BY DurableRecordAssumption DEF IInv, TypeOK, WriterInv, Dirs, Names, ConfirmEntry, SyncDir,
     Goto, locals
<1>4. PromoterInv'
  BY DurableRecordAssumption DEF IInv, TypeOK, PromoterInv, Promoting, Dirs, Names,
     ConfirmEntry, SyncDir, Goto, locals
<1>5. KnowsInv'
  BY DurableRecordAssumption DEF IInv, TypeOK, KnowsInv, Found, Settled, Agreed, Stable,
     BoundOnce, AtRest, Dirs, Names, ConfirmEntry, SyncDir, Goto, locals
<1> QED
  BY <1>1, <1>2, <1>3, <1>4, <1>5 DEF IInv

LEMMA ReconfirmKeeps == ASSUME IInv, NEW p \in Callers, Reconfirm(p) PROVE IInv'
<1>1. TypeOK'
  BY DurableRecordAssumption DEF IInv, TypeOK, Dirs, Names, Steps, Reconfirm, Read, Refuse,
     Exact, Goto, fs, Return
<1>2. NeverTorn' /\ BoundOnce'
  BY DEF IInv, NeverTorn, BoundOnce, Reconfirm, Read, Refuse, Exact, Goto, fs, Return
<1>3. WriterInv'
  BY DurableRecordAssumption DEF IInv, TypeOK, WriterInv, Dirs, Names, Reconfirm, Read, Refuse,
     Exact, Goto, fs, Return
<1>4. PromoterInv'
  BY DurableRecordAssumption DEF IInv, TypeOK, PromoterInv, Promoting, Dirs, Names, Reconfirm,
     Read, Refuse, Exact, Goto, fs, Return
<1>5. KnowsInv'
  BY DurableRecordAssumption DEF IInv, TypeOK, KnowsInv, Found, Settled, Agreed, Stable,
     BoundOnce, AtRest, Dirs, Names, Reconfirm, Read, Refuse, Exact, Goto, fs, Return
<1> QED
  BY <1>1, <1>2, <1>3, <1>4, <1>5 DEF IInv

LEMMA SettleKeeps == ASSUME IInv, NEW p \in Callers, Settle(p) PROVE IInv'
<1>1. TypeOK'
  BY DurableRecordAssumption DEF IInv, TypeOK, Dirs, Names, Steps, Settle, Read, Refuse,
     Durable, Missing, Exact, Goto, fs, Return
<1>2. NeverTorn' /\ BoundOnce'
  BY DEF IInv, NeverTorn, BoundOnce, Settle, Read, Refuse, Durable, Missing, Exact, Goto, fs,
     Return
<1>3. WriterInv'
  BY DurableRecordAssumption DEF IInv, TypeOK, WriterInv, Dirs, Names, Settle, Read, Refuse,
     Durable, Missing, Exact, Goto, fs, Return
<1>4. PromoterInv'
  BY DurableRecordAssumption DEF IInv, TypeOK, PromoterInv, Promoting, Dirs, Names, Settle,
     Read, Refuse, Durable, Missing, Exact, Goto, fs, Return
<1>5. KnowsInv'
  BY DurableRecordAssumption DEF IInv, TypeOK, KnowsInv, Found, Settled, Agreed, Stable,
     BoundOnce, AtRest, Dirs, Names, Settle, Read, Refuse, Durable, Missing, Exact, Goto, fs,
     Return
<1> QED
  BY <1>1, <1>2, <1>3, <1>4, <1>5 DEF IInv

LEMMA RemoveKeeps == ASSUME IInv, NEW p \in Callers, Remove(p) PROVE IInv'
<1>1. TypeOK'
  BY DurableRecordAssumption DEF IInv, TypeOK, Dirs, Names, Steps, Remove, Read, Refuse, Goto,
     fs, Return
<1>2. NeverTorn' /\ BoundOnce'
  BY DEF IInv, NeverTorn, BoundOnce, Remove, Read, Refuse, Goto, fs, Return
<1>3. WriterInv'
  BY DurableRecordAssumption DEF IInv, TypeOK, WriterInv, Dirs, Names, Remove, Read, Refuse,
     Goto, fs, Return
<1>4. PromoterInv'
  BY DurableRecordAssumption DEF IInv, TypeOK, PromoterInv, Promoting, Dirs, Names, Remove,
     Read, Refuse, Goto, fs, Return
<1>5. KnowsInv'
  BY DurableRecordAssumption DEF IInv, TypeOK, KnowsInv, Found, Settled, Agreed, Stable,
     BoundOnce, AtRest, Dirs, Names, Remove, Read, Refuse, Goto, fs, Return
<1> QED
  BY <1>1, <1>2, <1>3, <1>4, <1>5 DEF IInv

LEMMA UnlinkKeeps == ASSUME IInv, NEW p \in Callers, Unlink(p) PROVE IInv'
<1>1. TypeOK'
  BY DurableRecordAssumption DEF IInv, TypeOK, Dirs, Names, Steps, Unlink, Goto, Entry, Missing,
     locals
<1>2. NeverTorn' /\ BoundOnce'
  BY DurableRecordAssumption DEF IInv, TypeOK, NeverTorn, BoundOnce, Dirs, Names, Unlink, Goto,
     Entry, Missing, locals
<1>3. WriterInv'
  BY DurableRecordAssumption DEF IInv, TypeOK, WriterInv, Dirs, Names, Unlink, Goto, Entry,
     Missing, locals
<1>4. PromoterInv'
  BY DurableRecordAssumption DEF IInv, TypeOK, PromoterInv, Promoting, Dirs, Names, KnowsInv,
     AtRest, Found, WriterInv, Unlink, Goto, Entry, Missing, locals
<1>5. KnowsInv'
  BY DurableRecordAssumption DEF IInv, TypeOK, KnowsInv, Found, Settled, Agreed, Stable,
     BoundOnce, AtRest, Dirs, Names, Unlink, Goto, Entry, Missing, locals
<1> QED
  BY <1>1, <1>2, <1>3, <1>4, <1>5 DEF IInv

LEMMA UnlinkFailsKeeps == ASSUME IInv, NEW p \in Callers, UnlinkFails(p) PROVE IInv'
<1>1. TypeOK'
  BY DurableRecordAssumption DEF IInv, TypeOK, Dirs, Names, Steps, UnlinkFails, Refuse, Missing,
     Return, Goto, fs
<1>2. NeverTorn' /\ BoundOnce'
  BY DEF IInv, NeverTorn, BoundOnce, UnlinkFails, Refuse, Missing, Return, Goto, fs
<1>3. WriterInv'
  BY DurableRecordAssumption DEF IInv, TypeOK, WriterInv, Dirs, Names, UnlinkFails, Refuse,
     Missing, Return, Goto, fs
<1>4. PromoterInv'
  BY DurableRecordAssumption DEF IInv, TypeOK, PromoterInv, Promoting, Dirs, Names, UnlinkFails,
     Refuse, Missing, Return, Goto, fs
<1>5. KnowsInv'
  BY DurableRecordAssumption DEF IInv, TypeOK, KnowsInv, Found, Settled, Agreed, Stable,
     BoundOnce, AtRest, Dirs, Names, UnlinkFails, Refuse, Missing, Return, Goto, fs
<1> QED
  BY <1>1, <1>2, <1>3, <1>4, <1>5 DEF IInv

LEMMA SyncRemovalKeeps == ASSUME IInv, NEW p \in Callers, SyncRemoval(p) PROVE IInv'
<1>1. TypeOK'
  BY DurableRecordAssumption DEF IInv, TypeOK, Dirs, Names, Steps, SyncRemoval, SyncDir, Goto,
     locals
<1>2. NeverTorn' /\ BoundOnce'
  BY DurableRecordAssumption DEF IInv, TypeOK, NeverTorn, BoundOnce, Dirs, Names, SyncRemoval,
     SyncDir, Goto, locals
<1>3. WriterInv'
  BY DurableRecordAssumption DEF IInv, TypeOK, WriterInv, Dirs, Names, SyncRemoval, SyncDir,
     Goto, locals
<1>4. PromoterInv'
  BY DurableRecordAssumption DEF IInv, TypeOK, PromoterInv, Promoting, Dirs, Names, SyncRemoval,
     SyncDir, Goto, locals
<1>5. KnowsInv'
  BY DurableRecordAssumption DEF IInv, TypeOK, KnowsInv, Found, Settled, Agreed, Stable,
     BoundOnce, AtRest, Dirs, Names, SyncRemoval, SyncDir, Goto, locals
<1> QED
  BY <1>1, <1>2, <1>3, <1>4, <1>5 DEF IInv

LEMMA AbsentKeeps == ASSUME IInv, NEW p \in Callers, Absent(p) PROVE IInv'
<1>1. TypeOK'
  BY DurableRecordAssumption DEF IInv, TypeOK, Dirs, Names, Steps, Absent, Read, Refuse,
     Missing, Goto, fs, Return
<1>2. NeverTorn' /\ BoundOnce'
  BY DEF IInv, NeverTorn, BoundOnce, Absent, Read, Refuse, Missing, Goto, fs, Return
<1>3. WriterInv'
  BY DurableRecordAssumption DEF IInv, TypeOK, WriterInv, Dirs, Names, Absent, Read, Refuse,
     Missing, Goto, fs, Return
<1>4. PromoterInv'
  BY DurableRecordAssumption DEF IInv, TypeOK, PromoterInv, Promoting, Dirs, Names, Absent,
     Read, Refuse, Missing, Goto, fs, Return
<1>5. KnowsInv'
  BY DurableRecordAssumption DEF IInv, TypeOK, KnowsInv, Found, Settled, Agreed, Stable,
     BoundOnce, AtRest, Dirs, Names, Absent, Read, Refuse, Missing, Goto, fs, Return
<1> QED
  BY <1>1, <1>2, <1>3, <1>4, <1>5 DEF IInv

LEMMA FinalKeeps == ASSUME IInv, NEW p \in Callers, Final(p) PROVE IInv'
<1>1. TypeOK'
  BY DurableRecordAssumption DEF IInv, TypeOK, Dirs, Names, Steps, Final, Refuse, Durable,
     Exact, Return, Goto, fs
<1>2. NeverTorn' /\ BoundOnce'
  BY DEF IInv, NeverTorn, BoundOnce, Final, Refuse, Durable, Exact, Return, Goto, fs
<1>3. WriterInv'
  BY DurableRecordAssumption DEF IInv, TypeOK, WriterInv, Dirs, Names, Final, Refuse, Durable,
     Exact, Return, Goto, fs
<1>4. PromoterInv'
  BY DurableRecordAssumption DEF IInv, TypeOK, PromoterInv, Promoting, Dirs, Names, Final,
     Refuse, Durable, Exact, Return, Goto, fs
<1>5. KnowsInv'
  BY DurableRecordAssumption DEF IInv, TypeOK, KnowsInv, Found, Settled, Agreed, Stable,
     BoundOnce, AtRest, Dirs, Names, Final, Refuse, Durable, Exact, Return, Goto, fs
<1> QED
  BY <1>1, <1>2, <1>3, <1>4, <1>5 DEF IInv

LEMMA FailKeeps == ASSUME IInv, NEW p \in Callers, Fail(p) PROVE IInv'
<1>1. TypeOK'
  BY DurableRecordAssumption DEF IInv, TypeOK, Dirs, Names, Steps, Fail, Return, AtRest, Goto,
     fs
<1>2. NeverTorn' /\ BoundOnce'
  BY DEF IInv, NeverTorn, BoundOnce, Fail, Return, AtRest, Goto, fs
<1>3. WriterInv'
  BY DurableRecordAssumption DEF IInv, TypeOK, WriterInv, Dirs, Names, Fail, Return, AtRest,
     Goto, fs
<1>4. PromoterInv'
  BY DurableRecordAssumption DEF IInv, TypeOK, PromoterInv, Promoting, Dirs, Names, Fail,
     Return, AtRest, Goto, fs
<1>5. KnowsInv'
  BY DurableRecordAssumption DEF IInv, TypeOK, KnowsInv, Found, Settled, Agreed, Stable,
     BoundOnce, AtRest, Dirs, Names, Fail, Return, Goto, fs
<1> QED
  BY <1>1, <1>2, <1>3, <1>4, <1>5 DEF IInv

\* Power is lost.  No call survives, and a binding that survives is to a file
\* that was durable before the binding was made.
LEMMA PowerCutKeeps == ASSUME IInv, PowerCut PROVE IInv'
<1>1. TypeOK'
  BY DurableRecordAssumption DEF IInv, TypeOK, PowerCut, Dirs, Steps
<1>2. NeverTorn' /\ BoundOnce'
  BY DurableRecordAssumption DEF IInv, TypeOK, NeverTorn, BoundOnce, PowerCut, Dirs, Names
<1>3. WriterInv' /\ PromoterInv' /\ KnowsInv'
  BY DEF WriterInv, PromoterInv, Promoting, KnowsInv, Found, Settled, Agreed, AtRest, PowerCut
<1> QED
  BY <1>1, <1>2, <1>3 DEF IInv

LEMMA StepKeeps == IInv /\ [Next]_vars => IInv'
<1> SUFFICES ASSUME IInv, [Next]_vars PROVE IInv'
  OBVIOUS
<1>1. CASE PowerCut
  BY <1>1, PowerCutKeeps
<1>2. CASE UNCHANGED vars
  BY <1>2 DEF vars, IInv, TypeOK, NeverTorn, BoundOnce, WriterInv, PromoterInv, KnowsInv, Stable,
     AtRest
<1>3. ASSUME NEW p \in Callers, Begin(p) \/ Call(p) \/ Fail(p) PROVE IInv'
  BY <1>3, BeginKeeps, LookCanonicalKeeps, LookDuplicateKeeps, LookPendingKeeps, CreateKeeps,
     AlreadyExistsKeeps, WriteKeeps, SyncFileKeeps, SyncEntryKeeps, RecheckKeeps,
     ConfirmPendingKeeps, ConfirmPendingEntryKeeps, ReinspectKeeps, CheckKeeps, RenameKeeps,
     RenameFailsKeeps, SyncPromotionKeeps, VerifyKeeps, VerifyPendingKeeps, ExistsKeeps,
     ExistsPendingKeeps, ConfirmKeeps, ConfirmEntryKeeps, ReconfirmKeeps, SettleKeeps,
     RemoveKeeps, UnlinkKeeps, UnlinkFailsKeeps, SyncRemovalKeeps, AbsentKeeps, FinalKeeps,
     FailKeeps DEF Call
<1> QED
  BY <1>1, <1>2, <1>3 DEF Next

LEMMA Invariance == Spec => []IInv
<1>1. Init => IInv
  BY InitInv
<1>2. IInv /\ [Next]_vars => IInv'
  BY StepKeeps
<1> QED
  BY <1>1, <1>2, PTL DEF Spec

\* No power cut leaves a torn file under the canonical name.
THEOREM CanonicalNeverTorn == Spec => []NeverTorn
<1>1. IInv => NeverTorn
  BY DEF IInv
<1> QED
  BY <1>1, Invariance, PTL

-----------------------------------------------------------------------------
\* A record is fixed exactly when its binding is on every disk a power cut may
\* leave, and then to one of the values.
LEMMA FixedIsStable ==
    ASSUME IInv
    PROVE  /\ Fixed \in Values \cup {None}
           /\ Stable <=> Fixed # None
           /\ Stable => Fixed = file[dir["canonical"]]
BY DurableRecordAssumption DEF IInv, TypeOK, NeverTorn, BoundOnce, Fixed, Stable, Dirs, Names

\* A step of WriteOnce, or none.
Promise == \/ Fixed' = Fixed /\ told' = told
           \/ Fixed = None /\ Fixed' \in Values /\ told' = told
           \/ Fixed \in Values /\ Fixed' = Fixed /\ told' = told \cup {Fixed}

\* Each step of a call is a step of WriteOnce or a stutter.
LEMMA BeginPromise == ASSUME IInv, NEW p \in Callers, Begin(p) PROVE Promise
  BY DEF Promise, Fixed, Begin, Goto, fs, AtRest

LEMMA LookCanonicalPromise == ASSUME IInv, NEW p \in Callers, LookCanonical(p) PROVE Promise
  BY DEF Promise, Fixed, LookCanonical, Read, Refuse, Missing, Exact, Goto, fs, Return

LEMMA LookDuplicatePromise == ASSUME IInv, NEW p \in Callers, LookDuplicate(p) PROVE Promise
  BY DEF Promise, Fixed, LookDuplicate, Read, Refuse, Missing, Exact, Goto, fs, Return

LEMMA LookPendingPromise == ASSUME IInv, NEW p \in Callers, LookPending(p) PROVE Promise
  BY DEF Promise, Fixed, LookPending, Read, Refuse, Missing, Exact, Goto, fs, Return

LEMMA CreatePromise == ASSUME IInv, NEW p \in Callers, Create(p) PROVE Promise
  BY DurableRecordAssumption, FixedIsStable DEF IInv, TypeOK, NeverTorn, BoundOnce, Promise,
     Fixed, Stable, Dirs, Names, Create, Goto, Entry, Missing, Free

LEMMA AlreadyExistsPromise == ASSUME IInv, NEW p \in Callers, AlreadyExists(p) PROVE Promise
  BY DEF Promise, Fixed, AlreadyExists, Read, Missing, Goto, fs

LEMMA WritePromise == ASSUME IInv, NEW p \in Callers, Write(p) PROVE Promise
  BY DurableRecordAssumption, FixedIsStable DEF IInv, TypeOK, NeverTorn, BoundOnce, Promise,
     Fixed, Stable, Dirs, Names, Write, Goto, locals, WriterInv

LEMMA SyncFilePromise == ASSUME IInv, NEW p \in Callers, SyncFile(p) PROVE Promise
  BY DurableRecordAssumption, FixedIsStable DEF IInv, TypeOK, NeverTorn, BoundOnce, Promise,
     Fixed, Stable, Dirs, Names, SyncFile, Goto

LEMMA SyncEntryPromise == ASSUME IInv, NEW p \in Callers, SyncEntry(p) PROVE Promise
  BY DurableRecordAssumption, FixedIsStable DEF IInv, TypeOK, NeverTorn, BoundOnce, Promise,
     Fixed, Stable, Dirs, Names, SyncEntry, SyncDir, Goto, locals

LEMMA RecheckPromise == ASSUME IInv, NEW p \in Callers, Recheck(p) PROVE Promise
  BY DEF Promise, Fixed, Recheck, Read, Refuse, Exact, Goto, fs, Return

LEMMA ConfirmPendingPromise == ASSUME IInv, NEW p \in Callers, ConfirmPending(p) PROVE Promise
  BY DurableRecordAssumption, FixedIsStable DEF IInv, TypeOK, NeverTorn, BoundOnce, Promise,
     Fixed, Stable, Dirs, Names, ConfirmPending, SyncNamed, Refuse, Goto, Missing, locals,
     Return, fs

LEMMA ConfirmPendingEntryPromise == ASSUME IInv, NEW p \in Callers, ConfirmPendingEntry(p) PROVE Promise
  BY DurableRecordAssumption, FixedIsStable DEF IInv, TypeOK, NeverTorn, BoundOnce, Promise,
     Fixed, Stable, Dirs, Names, ConfirmPendingEntry, SyncDir, Goto, locals

LEMMA ReinspectPromise == ASSUME IInv, NEW p \in Callers, Reinspect(p) PROVE Promise
  BY DEF Promise, Fixed, Reinspect, Read, Refuse, Exact, Goto, fs, Return

LEMMA CheckPromise == ASSUME IInv, NEW p \in Callers, Check(p) PROVE Promise
  BY DEF Promise, Fixed, Check, Read, Refuse, Missing, Goto, fs, Return

LEMMA RenamePromise == ASSUME IInv, NEW p \in Callers, Rename(p) PROVE Promise
  BY DurableRecordAssumption, FixedIsStable DEF IInv, TypeOK, NeverTorn, BoundOnce, Promise,
     Fixed, Stable, Dirs, Names, Rename, Goto, Entry, Missing, locals

LEMMA RenameFailsPromise == ASSUME IInv, NEW p \in Callers, RenameFails(p) PROVE Promise
  BY DEF Promise, Fixed, RenameFails, Read, Refuse, Missing, Goto, fs, Return

LEMMA SyncPromotionPromise == ASSUME IInv, NEW p \in Callers, SyncPromotion(p) PROVE Promise
  BY DurableRecordAssumption, FixedIsStable DEF IInv, TypeOK, NeverTorn, BoundOnce, Promise,
     Fixed, Stable, Dirs, Names, SyncPromotion, SyncDir, Goto, locals

LEMMA VerifyPromise == ASSUME IInv, NEW p \in Callers, Verify(p) PROVE Promise
  BY DEF Promise, Fixed, Verify, Read, Refuse, Exact, Goto, fs, Return

LEMMA VerifyPendingPromise == ASSUME IInv, NEW p \in Callers, VerifyPending(p) PROVE Promise
  BY DEF Promise, Fixed, VerifyPending, Read, Refuse, Missing, Goto, fs, Return

LEMMA ExistsPromise == ASSUME IInv, NEW p \in Callers, Exists(p) PROVE Promise
  BY DEF Promise, Fixed, Exists, Read, Refuse, Exact, Goto, fs, Return

LEMMA ExistsPendingPromise == ASSUME IInv, NEW p \in Callers, ExistsPending(p) PROVE Promise
  BY DEF Promise, Fixed, ExistsPending, Read, Refuse, Exact, Goto, fs, Return

LEMMA ConfirmPromise == ASSUME IInv, NEW p \in Callers, Confirm(p) PROVE Promise
  BY DurableRecordAssumption, FixedIsStable DEF IInv, TypeOK, NeverTorn, BoundOnce, Promise,
     Fixed, Stable, Dirs, Names, Confirm, SyncNamed, Refuse, Goto, Missing, locals, Return, fs

LEMMA ConfirmEntryPromise == ASSUME IInv, NEW p \in Callers, ConfirmEntry(p) PROVE Promise
  BY DurableRecordAssumption, FixedIsStable DEF IInv, TypeOK, NeverTorn, BoundOnce, Promise,
     Fixed, Stable, Dirs, Names, ConfirmEntry, SyncDir, Goto, locals

LEMMA ReconfirmPromise == ASSUME IInv, NEW p \in Callers, Reconfirm(p) PROVE Promise
  BY DEF Promise, Fixed, Reconfirm, Read, Refuse, Exact, Goto, fs, Return

LEMMA SettlePromise == ASSUME IInv, NEW p \in Callers, Settle(p) PROVE Promise
  BY DurableRecordAssumption, FixedIsStable DEF IInv, TypeOK, NeverTorn, BoundOnce, Promise,
     Fixed, Stable, Dirs, Names, KnowsInv, Agreed, Settled, AtRest, Settle, Read, Refuse,
     Durable, Missing, Exact, Goto, fs, Return

LEMMA RemovePromise == ASSUME IInv, NEW p \in Callers, Remove(p) PROVE Promise
  BY DEF Promise, Fixed, Remove, Read, Refuse, Goto, fs, Return

LEMMA UnlinkPromise == ASSUME IInv, NEW p \in Callers, Unlink(p) PROVE Promise
  BY DurableRecordAssumption, FixedIsStable DEF IInv, TypeOK, NeverTorn, BoundOnce, Promise,
     Fixed, Stable, Dirs, Names, Unlink, Goto, Entry, Missing, locals

LEMMA UnlinkFailsPromise == ASSUME IInv, NEW p \in Callers, UnlinkFails(p) PROVE Promise
  BY DEF Promise, Fixed, UnlinkFails, Refuse, Missing, Return, Goto, fs

LEMMA SyncRemovalPromise == ASSUME IInv, NEW p \in Callers, SyncRemoval(p) PROVE Promise
  BY DurableRecordAssumption, FixedIsStable DEF IInv, TypeOK, NeverTorn, BoundOnce, Promise,
     Fixed, Stable, Dirs, Names, SyncRemoval, SyncDir, Goto, locals

LEMMA AbsentPromise == ASSUME IInv, NEW p \in Callers, Absent(p) PROVE Promise
  BY DEF Promise, Fixed, Absent, Read, Refuse, Missing, Goto, fs, Return

LEMMA FinalPromise == ASSUME IInv, NEW p \in Callers, Final(p) PROVE Promise
  BY DurableRecordAssumption, FixedIsStable DEF IInv, TypeOK, NeverTorn, BoundOnce, Promise,
     Fixed, Stable, Dirs, Names, KnowsInv, Agreed, Settled, AtRest, Final, Refuse, Durable,
     Exact, Return, Goto, fs

LEMMA FailPromise == ASSUME IInv, NEW p \in Callers, Fail(p) PROVE Promise
  BY DEF Promise, Fixed, Fail, Return, AtRest, Goto, fs

LEMMA PowerCutPromise == ASSUME IInv, PowerCut PROVE Promise
<1>1. IInv'
  BY PowerCutKeeps
<1>2. Stable => Fixed' = Fixed
  BY DurableRecordAssumption DEF IInv, TypeOK, NeverTorn, BoundOnce, PowerCut, Stable, Fixed, Dirs, Names
<1>3. Fixed' \in Values \cup {None}
  BY <1>1, FixedIsStable, DurableRecordAssumption DEF IInv, TypeOK, NeverTorn, BoundOnce, Fixed, Dirs, Names
<1>4. told' = told
  BY DEF PowerCut
<1> QED
  BY <1>2, <1>3, <1>4, FixedIsStable DEF Promise

\* DurableRecord implements WriteOnce: the binding of the canonical name that
\* every disk has is the register, and no caller is told "durable" of another
\* value, whatever fails, dies or loses power, in any order.
THEOREM RecordIsRegister == Spec => KeepsRegister
<1>1. Init => Register!Init
  BY DurableRecordAssumption DEF Init, Register!Init, Fixed, Names
<1>2. IInv /\ [Next]_vars => [Register!Next]_Register!vars
  <2> SUFFICES ASSUME IInv, [Next]_vars PROVE Promise
    BY DEF Promise, Register!Next, Register!Fix, Register!Tell, Register!vars
  <2>1. CASE PowerCut
    BY <2>1, PowerCutPromise
  <2>2. CASE UNCHANGED vars
    BY <2>2 DEF vars, Promise, Fixed
  <2>3. ASSUME NEW p \in Callers, Begin(p) \/ Call(p) \/ Fail(p) PROVE Promise
    BY <2>3, BeginPromise, LookCanonicalPromise, LookDuplicatePromise, LookPendingPromise,
       CreatePromise, AlreadyExistsPromise, WritePromise, SyncFilePromise, SyncEntryPromise,
       RecheckPromise, ConfirmPendingPromise, ConfirmPendingEntryPromise, ReinspectPromise,
       CheckPromise, RenamePromise, RenameFailsPromise, SyncPromotionPromise, VerifyPromise,
       VerifyPendingPromise, ExistsPromise, ExistsPendingPromise, ConfirmPromise,
       ConfirmEntryPromise, ReconfirmPromise, SettlePromise, RemovePromise, UnlinkPromise,
       UnlinkFailsPromise, SyncRemovalPromise, AbsentPromise, FinalPromise, FailPromise DEF Call
  <2> QED
    BY <2>1, <2>2, <2>3 DEF Next
<1> QED
  BY <1>1, <1>2, Invariance, PTL DEF Spec, KeepsRegister, Register!Spec

-----------------------------------------------------------------------------
(* Refusals.  A caller that owns the directory finds at each step what its   *)
(* earlier steps left there.                                                 *)

\* A pending name never leads to the file the canonical name leads to.
Apart == \A d \in disk \cup {dir} : d["pending"] # NoFile => d["pending"] # d["canonical"]

\* A call knows of no duplicate until it looks for one.
Confirming == {"confirm", "confirm_entry", "reconfirm", "settle", "remove", "unlink",
               "sync_removal", "absent", "final"}
Holding == {"verify_pending"} \cup Confirming

OwnTypes ==
    /\ canon \in [Callers -> Files \cup {NoFile}] /\ dup \in [Callers -> Files \cup {NoFile}]
    /\ \A p \in Callers : pc[p] \notin Confirming => dup[p] = NoFile

\* What it finds, step by step.
OwnerAt(p) ==
    /\ pc[p] \notin {"exists", "exists_pending"}
    /\ pc[p] \in {"look_pending", "create", "write", "sync_file", "sync_entry", "recheck"}
                  \cup Promoting => Missing("canonical")
    /\ pc[p] = "create" => Missing("pending")
    /\ pc[p] \in {"write", "sync_file"} => dir["pending"] = handle[p]
    /\ pc[p] \in {"sync_file", "sync_entry", "recheck"} \cup Promoting => Exact(p, "pending")
    /\ pc[p] \in Promoting => dir["pending"] = snap[p]
    /\ pc[p] \in {"look_duplicate", "sync_promotion", "verify"} \cup Holding => Exact(p, "canonical")
    /\ pc[p] \in {"sync_promotion", "verify"} => dir["canonical"] = snap[p]
    /\ pc[p] \in {"look_duplicate"} \cup Holding => dir["canonical"] = canon[p]
    /\ pc[p] \in {"sync_promotion", "verify", "verify_pending", "sync_removal", "absent", "final"}
          => Missing("pending")
    /\ pc[p] \in {"confirm", "confirm_entry", "reconfirm", "settle", "remove", "unlink"} =>
          dup[p] = dir["pending"] /\ (dup[p] # NoFile => Exact(p, "pending"))
    /\ pc[p] \in {"remove", "unlink"} => dup[p] # NoFile

\* One caller at a time, and each on its way.
OwnerInv ==
    /\ OwnTypes /\ Apart
    /\ exclusive => /\ \A p, q \in Callers : ~AtRest(p) /\ ~AtRest(q) => p = q
                    /\ \A p \in Callers : OwnerAt(p)

\* Somebody else's bytes under one of the names.
Caused(p) == \E n \in Names : ~Missing(n) /\ ~Exact(p, n)

LEMMA CallsApart ==
    ASSUME IInv, OwnTypes, Apart, NEW p \in Callers, Call(p)
    PROVE  OwnTypes' /\ Apart'
<1>1. CASE LookCanonical(p)
  BY <1>1, DurableRecordAssumption
     DEF LookCanonical, Read, Refuse, Missing, Exact, Return, Goto, fs, locals, OwnTypes,
         Confirming, Apart, IInv, TypeOK, Dirs, Names
<1>2. CASE LookDuplicate(p)
  BY <1>2, DurableRecordAssumption
     DEF LookDuplicate, Read, Refuse, Missing, Exact, Return, Goto, fs, locals, OwnTypes,
         Confirming, Apart, IInv, TypeOK, Dirs, Names
<1>3. CASE LookPending(p)
  BY <1>3, DurableRecordAssumption
     DEF LookPending, Read, Refuse, Missing, Exact, Return, Goto, fs, locals, OwnTypes,
         Confirming, Apart, IInv, TypeOK, Dirs, Names
<1>4. CASE Create(p)
  <2>1. canon' \in [Callers -> Files \cup {NoFile}] /\ dup' \in [Callers -> Files \cup {NoFile}]
    BY <1>4, DurableRecordAssumption
    DEF Create, Goto, Entry, Free, Missing, OwnTypes, IInv, TypeOK, Dirs, Names
  <2>2. \A q \in Callers : pc'[q] \notin Confirming => dup'[q] = NoFile
    <3>1. pc[p] = "create" /\ dup' = dup /\ pc' = [pc EXCEPT ![p] = "write"]
      BY <1>4 DEF Create, Goto
    <3> QED BY <3>1 DEF OwnTypes, Confirming, IInv, TypeOK
  <2>3. Apart'
    BY <1>4, DurableRecordAssumption
    DEF Create, Goto, Entry, Free, Missing, Apart, IInv, TypeOK, Dirs, Names
  <2> QED BY <2>1, <2>2, <2>3 DEF OwnTypes, Confirming
<1>5. CASE AlreadyExists(p)
  BY <1>5, DurableRecordAssumption
     DEF AlreadyExists, Read, Missing, Goto, fs, locals, OwnTypes, Confirming, Apart, IInv,
         TypeOK, Dirs, Names
<1>6. CASE Write(p)
  BY <1>6, DurableRecordAssumption
     DEF Write, Goto, fs, locals, OwnTypes, Confirming, Apart, IInv, TypeOK, Dirs, Names
<1>7. CASE SyncFile(p)
  BY <1>7, DurableRecordAssumption
     DEF SyncFile, Goto, fs, locals, OwnTypes, Confirming, Apart, IInv, TypeOK, Dirs, Names
<1>8. CASE SyncEntry(p)
  BY <1>8, DurableRecordAssumption
     DEF SyncEntry, SyncDir, Goto, fs, locals, OwnTypes, Confirming, Apart, IInv, TypeOK,
         Dirs, Names
<1>9. CASE Recheck(p)
  BY <1>9, DurableRecordAssumption
     DEF Recheck, Read, Refuse, Exact, Return, Goto, fs, locals, OwnTypes, Confirming,
         Apart, IInv, TypeOK, Dirs, Names
<1>10. CASE ConfirmPending(p)
  BY <1>10, DurableRecordAssumption
     DEF ConfirmPending, SyncNamed, Refuse, Missing, Return, Goto, fs, locals, OwnTypes,
         Confirming, Apart, IInv, TypeOK, Dirs, Names
<1>11. CASE ConfirmPendingEntry(p)
  BY <1>11, DurableRecordAssumption
     DEF ConfirmPendingEntry, SyncDir, Goto, fs, locals, OwnTypes, Confirming, Apart, IInv,
         TypeOK, Dirs, Names
<1>12. CASE Reinspect(p)
  BY <1>12, DurableRecordAssumption
     DEF Reinspect, Read, Refuse, Exact, Return, Goto, fs, locals, OwnTypes, Confirming,
         Apart, IInv, TypeOK, Dirs, Names
<1>13. CASE Check(p)
  BY <1>13, DurableRecordAssumption
     DEF Check, Read, Refuse, Missing, Return, Goto, fs, locals, OwnTypes, Confirming,
         Apart, IInv, TypeOK, Dirs, Names
<1>14. CASE Rename(p)
  BY <1>14, DurableRecordAssumption
     DEF Rename, Entry, Missing, Goto, fs, locals, OwnTypes, Confirming, Apart, IInv,
         TypeOK, Dirs, Names, Promoting
<1>15. CASE RenameFails(p)
  BY <1>15, DurableRecordAssumption
     DEF RenameFails, Read, Refuse, Missing, Return, Goto, fs, locals, OwnTypes, Confirming,
         Apart, IInv, TypeOK, Dirs, Names
<1>16. CASE SyncPromotion(p)
  BY <1>16, DurableRecordAssumption
     DEF SyncPromotion, SyncDir, Goto, fs, locals, OwnTypes, Confirming, Apart, IInv,
         TypeOK, Dirs, Names
<1>17. CASE Verify(p)
  BY <1>17, DurableRecordAssumption
     DEF Verify, Read, Refuse, Exact, Return, Goto, fs, locals, OwnTypes, Confirming, Apart,
         IInv, TypeOK, Dirs, Names
<1>18. CASE VerifyPending(p)
  BY <1>18, DurableRecordAssumption
     DEF VerifyPending, Read, Refuse, Missing, Return, Goto, fs, locals, OwnTypes,
         Confirming, Apart, IInv, TypeOK, Dirs, Names
<1>19. CASE Exists(p)
  BY <1>19, DurableRecordAssumption
     DEF Exists, Read, Refuse, Exact, Return, Goto, fs, locals, OwnTypes, Confirming, Apart,
         IInv, TypeOK, Dirs, Names
<1>20. CASE ExistsPending(p)
  BY <1>20, DurableRecordAssumption
     DEF ExistsPending, Read, Refuse, Exact, Return, Goto, fs, locals, OwnTypes, Confirming,
         Apart, IInv, TypeOK, Dirs, Names
<1>21. CASE Confirm(p)
  <2>1. canon' \in [Callers -> Files \cup {NoFile}] /\ dup' \in [Callers -> Files \cup {NoFile}]
    BY <1>21, DurableRecordAssumption
    DEF Confirm, SyncNamed, Refuse, Return, Missing, Goto, fs, locals, OwnTypes, IInv,
        TypeOK, Dirs, Names
  <2>2. \A q \in Callers : pc'[q] \notin Confirming => dup'[q] = NoFile
    BY <1>21, DurableRecordAssumption
    DEF Confirm, SyncNamed, Refuse, Return, Missing, Goto, fs, locals, OwnTypes, Confirming,
        IInv, TypeOK, Dirs, Names
  <2>3. Apart'
    BY <1>21, DurableRecordAssumption
    DEF Confirm, SyncNamed, Refuse, Return, Missing, Goto, fs, locals, Apart, IInv, TypeOK,
        Dirs, Names
  <2> QED BY <2>1, <2>2, <2>3 DEF OwnTypes, Confirming
<1>22. CASE ConfirmEntry(p)
  BY <1>22, DurableRecordAssumption
     DEF ConfirmEntry, SyncDir, Goto, fs, locals, OwnTypes, Confirming, Apart, IInv, TypeOK,
         Dirs, Names
<1>23. CASE Reconfirm(p)
  BY <1>23, DurableRecordAssumption
     DEF Reconfirm, Read, Refuse, Exact, Return, Goto, fs, locals, OwnTypes, Confirming,
         Apart, IInv, TypeOK, Dirs, Names
<1>24. CASE Settle(p)
  <2>1. canon' \in [Callers -> Files \cup {NoFile}] /\ dup' \in [Callers -> Files \cup {NoFile}]
    BY <1>24, DurableRecordAssumption
    DEF Settle, Read, Durable, Refuse, Return, Missing, Exact, Goto, fs, OwnTypes, IInv,
        TypeOK, Dirs, Names
  <2>2. \A q \in Callers : pc'[q] \notin Confirming => dup'[q] = NoFile
    BY <1>24, DurableRecordAssumption
    DEF Settle, Read, Durable, Refuse, Return, Missing, Exact, Goto, fs, OwnTypes,
        Confirming, IInv, TypeOK, Dirs, Names
  <2>3. Apart'
    BY <1>24, DurableRecordAssumption
    DEF Settle, Read, Durable, Refuse, Return, Missing, Exact, Goto, fs, Apart, IInv,
        TypeOK, Dirs, Names
  <2> QED BY <2>1, <2>2, <2>3 DEF OwnTypes, Confirming
<1>25. CASE Remove(p)
  BY <1>25, DurableRecordAssumption
     DEF Remove, Read, Refuse, Return, Goto, fs, locals, OwnTypes, Confirming, Apart, IInv,
         TypeOK, Dirs, Names
<1>26. CASE Unlink(p)
  BY <1>26, DurableRecordAssumption
     DEF Unlink, Entry, Missing, Goto, fs, locals, OwnTypes, Confirming, Apart, IInv,
         TypeOK, Dirs, Names
<1>27. CASE UnlinkFails(p)
  BY <1>27, DurableRecordAssumption
     DEF UnlinkFails, Refuse, Missing, Return, Goto, fs, locals, OwnTypes, Confirming,
         Apart, IInv, TypeOK, Dirs, Names
<1>28. CASE SyncRemoval(p)
  BY <1>28, DurableRecordAssumption
     DEF SyncRemoval, SyncDir, Goto, fs, locals, OwnTypes, Confirming, Apart, IInv, TypeOK,
         Dirs, Names
<1>29. CASE Absent(p)
  BY <1>29, DurableRecordAssumption
     DEF Absent, Read, Refuse, Missing, Return, Goto, fs, locals, OwnTypes, Confirming,
         Apart, IInv, TypeOK, Dirs, Names
<1>30. CASE Final(p)
  BY <1>30, DurableRecordAssumption
     DEF Final, Durable, Refuse, Exact, Return, Goto, fs, locals, OwnTypes, Confirming,
         Apart, IInv, TypeOK, Dirs, Names
<1> QED
  BY <1>1, <1>2, <1>3, <1>4, <1>5, <1>6, <1>7, <1>8, <1>9, <1>10, <1>11, <1>12, <1>13, <1>14,
     <1>15, <1>16, <1>17, <1>18, <1>19, <1>20, <1>21, <1>22, <1>23, <1>24, <1>25, <1>26, <1>27,
     <1>28, <1>29, <1>30 DEF Call

LEMMA OwnerCalls ==
    ASSUME IInv, TypeOK', OwnTypes, Apart, NEW p \in Callers, Call(p), OwnerAt(p)
    PROVE  OwnerAt(p)' /\ (pc'[p] = "refused" => Caused(p))
<1>1. CASE LookCanonical(p)
  BY <1>1, DurableRecordAssumption
     DEF LookCanonical, Read, Refuse, Return, Goto, fs, locals, OwnerAt, Caused, Holding,
         Confirming, Promoting, Missing, Exact, OwnTypes, Apart, IInv, TypeOK, Dirs, Names
<1>2. CASE LookDuplicate(p)
  BY <1>2, DurableRecordAssumption
     DEF LookDuplicate, Read, Refuse, Return, Goto, fs, locals, OwnerAt, Caused, Holding,
         Confirming, Promoting, Missing, Exact, OwnTypes, Apart, IInv, TypeOK, Dirs, Names
<1>3. CASE LookPending(p)
  BY <1>3, DurableRecordAssumption
     DEF LookPending, Read, Refuse, Return, Goto, fs, locals, OwnerAt, Caused, Holding,
         Confirming, Promoting, Missing, Exact, OwnTypes, Apart, IInv, TypeOK, Dirs, Names
<1>4. CASE Create(p)
  BY <1>4, DurableRecordAssumption
     DEF Create, Entry, Free, Goto, fs, locals, OwnerAt, Caused, Holding, Confirming,
         Promoting, Missing, Exact, OwnTypes, Apart, IInv, TypeOK, Dirs, Names, WriterInv
<1>5. CASE AlreadyExists(p)
  BY <1>5, DurableRecordAssumption
     DEF AlreadyExists, Read, Goto, fs, locals, OwnerAt, Caused, Holding, Confirming,
         Promoting, Missing, Exact, OwnTypes, Apart, IInv, TypeOK, Dirs, Names
<1>6. CASE Write(p)
  BY <1>6, DurableRecordAssumption
     DEF Write, Goto, fs, locals, OwnerAt, Caused, Holding, Confirming, Promoting, Missing,
         Exact, OwnTypes, Apart, IInv, TypeOK, Dirs, Names, WriterInv
<1>7. CASE SyncFile(p)
  BY <1>7, DurableRecordAssumption
     DEF SyncFile, Goto, fs, locals, OwnerAt, Caused, Holding, Confirming, Promoting,
         Missing, Exact, OwnTypes, Apart, IInv, TypeOK, Dirs, Names, WriterInv
<1>8. CASE SyncEntry(p)
  BY <1>8, DurableRecordAssumption
     DEF SyncEntry, SyncDir, Goto, fs, locals, OwnerAt, Caused, Holding, Confirming,
         Promoting, Missing, Exact, OwnTypes, Apart, IInv, TypeOK, Dirs, Names
<1>9. CASE Recheck(p)
  BY <1>9, DurableRecordAssumption
     DEF Recheck, Read, Refuse, Return, Goto, fs, locals, OwnerAt, Caused, Holding,
         Confirming, Promoting, Missing, Exact, OwnTypes, Apart, IInv, TypeOK, Dirs, Names
<1>10. CASE ConfirmPending(p)
  BY <1>10, DurableRecordAssumption
     DEF ConfirmPending, SyncNamed, Refuse, Return, Goto, fs, locals, OwnerAt, Caused,
         Holding, Confirming, Promoting, Missing, Exact, OwnTypes, Apart, IInv, TypeOK,
         Dirs, Names
<1>11. CASE ConfirmPendingEntry(p)
  BY <1>11, DurableRecordAssumption
     DEF ConfirmPendingEntry, SyncDir, Goto, fs, locals, OwnerAt, Caused, Holding,
         Confirming, Promoting, Missing, Exact, OwnTypes, Apart, IInv, TypeOK, Dirs, Names
<1>12. CASE Reinspect(p)
  BY <1>12, DurableRecordAssumption
     DEF Reinspect, Read, Refuse, Return, Goto, fs, locals, OwnerAt, Caused, Holding,
         Confirming, Promoting, Missing, Exact, OwnTypes, Apart, IInv, TypeOK, Dirs, Names
<1>13. CASE Check(p)
  BY <1>13, DurableRecordAssumption
     DEF Check, Read, Refuse, Return, Goto, fs, locals, OwnerAt, Caused, Holding,
         Confirming, Promoting, Missing, Exact, OwnTypes, Apart, IInv, TypeOK, Dirs, Names
<1>14. CASE Rename(p)
  BY <1>14, DurableRecordAssumption
     DEF Rename, Entry, Goto, fs, locals, OwnerAt, Caused, Holding, Confirming, Promoting,
         Missing, Exact, OwnTypes, Apart, IInv, TypeOK, Dirs, Names
<1>15. CASE RenameFails(p)
  BY <1>15, DurableRecordAssumption
     DEF RenameFails, Read, Refuse, Return, Goto, fs, locals, OwnerAt, Caused, Holding,
         Confirming, Promoting, Missing, Exact, OwnTypes, Apart, IInv, TypeOK, Dirs, Names
<1>16. CASE SyncPromotion(p)
  BY <1>16, DurableRecordAssumption
     DEF SyncPromotion, SyncDir, Goto, fs, locals, OwnerAt, Caused, Holding, Confirming,
         Promoting, Missing, Exact, OwnTypes, Apart, IInv, TypeOK, Dirs, Names
<1>17. CASE Verify(p)
  BY <1>17, DurableRecordAssumption
     DEF Verify, Read, Refuse, Return, Goto, fs, locals, OwnerAt, Caused, Holding,
         Confirming, Promoting, Missing, Exact, OwnTypes, Apart, IInv, TypeOK, Dirs, Names
<1>18. CASE VerifyPending(p)
  <2>1. Missing("pending") /\ pc[p] = "verify_pending"
    BY <1>18 DEF VerifyPending, OwnerAt
  <2>2. Read(p, "confirm") /\ UNCHANGED <<snap, canon, dup>>
    BY <1>18, <2>1 DEF VerifyPending
  <2> QED BY <2>1, <2>2, DurableRecordAssumption
    DEF Read, Goto, fs, OwnerAt, Holding, Confirming, Promoting, Missing, Exact, OwnTypes,
        IInv, TypeOK, Dirs, Names
<1>19. CASE Exists(p)
  BY <1>19, DurableRecordAssumption
     DEF Exists, Read, Refuse, Return, Goto, fs, locals, OwnerAt, Caused, Holding,
         Confirming, Promoting, Missing, Exact, OwnTypes, Apart, IInv, TypeOK, Dirs, Names
<1>20. CASE ExistsPending(p)
  BY <1>20, DurableRecordAssumption
     DEF ExistsPending, Read, Refuse, Return, Goto, fs, locals, OwnerAt, Caused, Holding,
         Confirming, Promoting, Missing, Exact, OwnTypes, Apart, IInv, TypeOK, Dirs, Names
<1>21. CASE Confirm(p)
  BY <1>21, DurableRecordAssumption
     DEF Confirm, SyncNamed, Refuse, Return, Goto, fs, locals, OwnerAt, Caused, Holding,
         Confirming, Promoting, Missing, Exact, OwnTypes, Apart, IInv, TypeOK, Dirs, Names
<1>22. CASE ConfirmEntry(p)
  BY <1>22, DurableRecordAssumption
     DEF ConfirmEntry, SyncDir, Goto, fs, locals, OwnerAt, Caused, Holding, Confirming,
         Promoting, Missing, Exact, OwnTypes, Apart, IInv, TypeOK, Dirs, Names
<1>23. CASE Reconfirm(p)
  BY <1>23, DurableRecordAssumption
     DEF Reconfirm, Read, Refuse, Return, Goto, fs, locals, OwnerAt, Caused, Holding,
         Confirming, Promoting, Missing, Exact, OwnTypes, Apart, IInv, TypeOK, Dirs, Names
<1>24. CASE Settle(p)
  BY <1>24, DurableRecordAssumption
     DEF Settle, Read, Durable, Refuse, Return, Goto, fs, locals, OwnerAt, Caused, Holding,
         Confirming, Promoting, Missing, Exact, OwnTypes, Apart, IInv, TypeOK, Dirs, Names
<1>25. CASE Remove(p)
  BY <1>25, DurableRecordAssumption
     DEF Remove, Read, Refuse, Return, Goto, fs, locals, OwnerAt, Caused, Holding,
         Confirming, Promoting, Missing, Exact, OwnTypes, Apart, IInv, TypeOK, Dirs, Names
<1>26. CASE Unlink(p)
  BY <1>26, DurableRecordAssumption
     DEF Unlink, Entry, Goto, fs, locals, OwnerAt, Caused, Holding, Confirming, Promoting,
         Missing, Exact, OwnTypes, Apart, IInv, TypeOK, Dirs, Names
<1>27. CASE UnlinkFails(p)
  BY <1>27, DurableRecordAssumption
     DEF UnlinkFails, Refuse, Return, Goto, fs, locals, OwnerAt, Caused, Holding,
         Confirming, Promoting, Missing, Exact, OwnTypes, Apart, IInv, TypeOK, Dirs, Names
<1>28. CASE SyncRemoval(p)
  BY <1>28, DurableRecordAssumption
     DEF SyncRemoval, SyncDir, Goto, fs, locals, OwnerAt, Caused, Holding, Confirming,
         Promoting, Missing, Exact, OwnTypes, Apart, IInv, TypeOK, Dirs, Names
<1>29. CASE Absent(p)
  BY <1>29, DurableRecordAssumption
     DEF Absent, Read, Refuse, Return, Goto, fs, locals, OwnerAt, Caused, Holding,
         Confirming, Promoting, Missing, Exact, OwnTypes, Apart, IInv, TypeOK, Dirs, Names
<1>30. CASE Final(p)
  BY <1>30, DurableRecordAssumption
     DEF Final, Durable, Refuse, Return, Goto, fs, locals, OwnerAt, Caused, Holding,
         Confirming, Promoting, Missing, Exact, OwnTypes, Apart, IInv, TypeOK, Dirs, Names
<1> QED
  BY <1>1, <1>2, <1>3, <1>4, <1>5, <1>6, <1>7, <1>8, <1>9, <1>10, <1>11, <1>12, <1>13, <1>14,
     <1>15, <1>16, <1>17, <1>18, <1>19, <1>20, <1>21, <1>22, <1>23, <1>24, <1>25, <1>26, <1>27,
     <1>28, <1>29, <1>30 DEF Call

\* Only the caller that takes a step moves.
LEMMA CallsMove ==
    ASSUME NEW p \in Callers, Call(p)
    PROVE  ~AtRest(p) /\ exclusive' = exclusive /\ \E s : Goto(p, s)
<1>1. CASE LookCanonical(p)
  BY <1>1 DEF AtRest, LookCanonical, Read, Refuse, Return
<1>2. CASE LookDuplicate(p)
  BY <1>2 DEF AtRest, LookDuplicate, Read, Refuse, Return
<1>3. CASE LookPending(p)
  BY <1>3 DEF AtRest, LookPending, Read, Refuse, Return
<1>4. CASE Create(p)
  BY <1>4 DEF AtRest, Create
<1>5. CASE AlreadyExists(p)
  BY <1>5 DEF AtRest, AlreadyExists, Read
<1>6. CASE Write(p)
  BY <1>6 DEF AtRest, Write
<1>7. CASE SyncFile(p)
  BY <1>7 DEF AtRest, SyncFile
<1>8. CASE SyncEntry(p)
  BY <1>8 DEF AtRest, SyncEntry, SyncDir
<1>9. CASE Recheck(p)
  BY <1>9 DEF AtRest, Recheck, Read, Refuse, Return
<1>10. CASE ConfirmPending(p)
  BY <1>10 DEF AtRest, ConfirmPending, SyncNamed, Refuse, Return
<1>11. CASE ConfirmPendingEntry(p)
  BY <1>11 DEF AtRest, ConfirmPendingEntry, SyncDir
<1>12. CASE Reinspect(p)
  BY <1>12 DEF AtRest, Reinspect, Read, Refuse, Return
<1>13. CASE Check(p)
  BY <1>13 DEF AtRest, Check, Read, Refuse, Return
<1>14. CASE Rename(p)
  BY <1>14 DEF AtRest, Rename
<1>15. CASE RenameFails(p)
  BY <1>15 DEF AtRest, RenameFails, Read, Refuse, Return
<1>16. CASE SyncPromotion(p)
  BY <1>16 DEF AtRest, SyncPromotion, SyncDir
<1>17. CASE Verify(p)
  BY <1>17 DEF AtRest, Verify, Read, Refuse, Return
<1>18. CASE VerifyPending(p)
  BY <1>18 DEF AtRest, VerifyPending, Read, Refuse, Return
<1>19. CASE Exists(p)
  BY <1>19 DEF AtRest, Exists, Read, Refuse, Return
<1>20. CASE ExistsPending(p)
  BY <1>20 DEF AtRest, ExistsPending, Read, Refuse, Return
<1>21. CASE Confirm(p)
  BY <1>21 DEF AtRest, Confirm, SyncNamed, Refuse, Return
<1>22. CASE ConfirmEntry(p)
  BY <1>22 DEF AtRest, ConfirmEntry, SyncDir
<1>23. CASE Reconfirm(p)
  BY <1>23 DEF AtRest, Reconfirm, Read, Refuse, Return
<1>24. CASE Settle(p)
  BY <1>24 DEF AtRest, Settle, Read, Durable, Refuse, Return
<1>25. CASE Remove(p)
  BY <1>25 DEF AtRest, Remove, Read, Refuse, Return
<1>26. CASE Unlink(p)
  BY <1>26 DEF AtRest, Unlink
<1>27. CASE UnlinkFails(p)
  BY <1>27 DEF AtRest, UnlinkFails, Refuse, Return
<1>28. CASE SyncRemoval(p)
  BY <1>28 DEF AtRest, SyncRemoval, SyncDir
<1>29. CASE Absent(p)
  BY <1>29 DEF AtRest, Absent, Read, Refuse, Return
<1>30. CASE Final(p)
  BY <1>30 DEF AtRest, Final, Durable, Refuse, Return
<1> QED
  BY <1>1, <1>2, <1>3, <1>4, <1>5, <1>6, <1>7, <1>8, <1>9, <1>10, <1>11, <1>12, <1>13, <1>14,
     <1>15, <1>16, <1>17, <1>18, <1>19, <1>20, <1>21, <1>22, <1>23, <1>24, <1>25, <1>26, <1>27,
     <1>28, <1>29, <1>30 DEF Call

LEMMA OthersStay ==
    ASSUME IInv, NEW p \in Callers, Begin(p) \/ Call(p) \/ Fail(p)
    PROVE  exclusive' = exclusive /\ \A q \in Callers : q # p => pc'[q] = pc[q]
<1>1. exclusive' = exclusive /\ \E s : Goto(p, s)
  BY CallsMove DEF Begin, Fail, Return
<1> QED BY <1>1 DEF Goto, IInv, TypeOK

LEMMA OwnerKeeps == IInv /\ OwnerInv /\ [Next]_vars => OwnerInv'
<1> SUFFICES ASSUME IInv, OwnerInv, [Next]_vars PROVE OwnerInv'
  OBVIOUS
<1>0. IInv'
  BY StepKeeps
<1>1. CASE PowerCut
  <2>1. OwnTypes' /\ Apart'
    BY <1>1 DEF PowerCut, OwnerInv, OwnTypes, Confirming, Apart
  <2>2. \A p \in Callers : AtRest(p)' /\ OwnerAt(p)'
    BY <1>1 DEF PowerCut, AtRest, OwnerAt, Promoting, Holding, Confirming
  <2> QED BY <2>1, <2>2 DEF OwnerInv
<1>2. CASE UNCHANGED vars
  BY <1>2 DEF vars, OwnerInv, OwnTypes, Confirming, Apart, AtRest, OwnerAt, Missing, Exact
<1>3. ASSUME NEW p \in Callers, Begin(p) \/ Call(p) \/ Fail(p) PROVE OwnerInv'
  <2>1. OwnTypes' /\ Apart'
    <3>1. CASE Begin(p)
      BY <3>1, DurableRecordAssumption
      DEF Begin, AtRest, Goto, fs, IInv, TypeOK, OwnerInv, OwnTypes, Confirming, Apart
    <3>2. CASE Fail(p)
      <4>1. Apart' /\ canon' \in [Callers -> Files \cup {NoFile}]
                   /\ dup' \in [Callers -> Files \cup {NoFile}]
        BY <3>2 DEF Fail, Return, fs, OwnerInv, OwnTypes, Apart
      <4>2. \A q \in Callers : pc'[q] \notin Confirming => dup'[q] = NoFile
        BY <3>2 DEF Fail, Return, Goto, IInv, TypeOK, OwnerInv, OwnTypes
      <4> QED BY <4>1, <4>2 DEF OwnTypes, Confirming
    <3>3. CASE Call(p)
      <4>1. OwnTypes /\ Apart
        BY DEF OwnerInv
      <4> QED BY <3>3, <4>1, CallsApart
    <3> QED BY <1>3, <3>1, <3>2, <3>3
  <2>2. ASSUME exclusive
        PROVE  /\ \A q, r \in Callers : ~AtRest(q)' /\ ~AtRest(r)' => q = r
               /\ \A q \in Callers : OwnerAt(q)'
    <3>1. \A q \in Callers : q # p => pc'[q] = pc[q] /\ AtRest(q)
      <4>1. CASE Begin(p)
        BY <1>3, <2>2, <4>1, OthersStay DEF Begin
      <4>2. CASE Call(p) \/ Fail(p)
        <5>1. ~AtRest(p)
          BY <4>2, CallsMove DEF Fail
        <5> QED BY <1>3, <2>2, <5>1, OthersStay DEF OwnerInv
      <4> QED BY <1>3, <4>1, <4>2
    <3>2. \A q \in Callers : q # p => AtRest(q)' /\ OwnerAt(q)'
      BY <3>1 DEF AtRest, OwnerAt, Promoting, Holding, Confirming
    <3>3. OwnerAt(p)'
      <4>1. CASE Call(p)
        BY <1>0, <1>3, <2>2, <4>1, OwnerCalls DEF OwnerInv, IInv
      <4>2. CASE Begin(p)
        BY <4>2 DEF Begin, Goto, OwnerAt, Promoting, Holding, Confirming, IInv, TypeOK
      <4>3. CASE Fail(p)
        BY <4>3 DEF Fail, Return, Goto, OwnerAt, Promoting, Holding, Confirming, IInv, TypeOK
      <4> QED BY <1>3, <4>1, <4>2, <4>3
    <3> QED BY <3>2, <3>3
  <2> QED BY <1>3, <2>1, <2>2, OthersStay DEF OwnerInv
<1> QED BY <1>1, <1>2, <1>3 DEF Next

\* A caller that owns the directory is refused only for bytes under one of the
\* names that are not its own (publish_at).
THEOREM OwnerRefusedForCause == Spec => RefusalHasCause
<1>1. Init => OwnerInv
  <2> SUFFICES ASSUME Init PROVE OwnerInv
    OBVIOUS
  <2>1. OwnTypes /\ Apart
    BY DEF Init, OwnTypes, Confirming, Apart, Names
  <2>2. \A p \in Callers : AtRest(p) /\ OwnerAt(p)
    BY DEF Init, AtRest, OwnerAt, Promoting, Holding, Confirming
  <2> QED BY <2>1, <2>2 DEF OwnerInv
<1>2. IInv /\ OwnerInv /\ [Next]_vars => OwnerInv'
  BY OwnerKeeps
<1>3. IInv /\ OwnerInv /\ [Next]_vars =>
        [\A p \in Callers : exclusive /\ pc[p] # "refused" /\ pc'[p] = "refused" =>
            \E n \in Names : ~Missing(n) /\ ~Exact(p, n)]_vars
  <2> SUFFICES ASSUME IInv, OwnerInv, Next, NEW p \in Callers,
                      exclusive, pc[p] # "refused", pc'[p] = "refused"
               PROVE  \E n \in Names : ~Missing(n) /\ ~Exact(p, n)
    OBVIOUS
  <2>0. TypeOK'
    BY StepKeeps DEF IInv
  <2>1. ~PowerCut
    BY DEF PowerCut
  <2>2. PICK q \in Callers : Begin(q) \/ Call(q) \/ Fail(q)
    BY <2>1 DEF Next
  <2>3. q = p
    BY <2>2, OthersStay
  <2>4. Call(p)
    BY <2>2, <2>3 DEF Begin, Fail, Return, Goto, IInv, TypeOK
  <2> QED BY <2>0, <2>4, OwnerCalls DEF OwnerInv, Caused
<1> QED BY <1>1, <1>2, <1>3, Invariance, PTL DEF Spec, RefusalHasCause

-----------------------------------------------------------------------------
\* CleanupTransaction.  Every directory that a power cut may leave holds one
\* generation at most beside its own intent, files in quarantine only under
\* that intent, and a staged marker only once both live names are free of it.
\* A receipt that is held has its pair, its intent, or nothing left to delete;
\* one that is spent left no file without an intent.  CleanupStages says what
\* the call has made durable at each of its steps.

Pendings == {"intent_pending", "staged_pending"}

\* What a leaf may hold: a live file is never half written, and nobody but the
\* transaction writes under its names; a stranger's file can only be live.
LeafType(d) ==
    /\ d \in [Cleanup!Leaves -> Gens \cup {NoFile, Torn, Foreign}]
    /\ \A n \in Cleanup!Live : d[n] # Torn
    /\ \A n \in Cleanup!Quarantine \cup Cleanup!Markers : d[n] \in Gens \cup {NoFile}
    /\ \A n \in Pendings : d[n] # Foreign

\* Two generations are never on the disk together.
OneGeneration(d) ==
    \A m, n \in Cleanup!Leaves : d[m] \in Gens /\ d[n] \in Gens => d[m] = d[n]

\* From any such directory the deletion can be finished: before the staged
\* marker both files are where the intent says, live or in quarantine, and
\* after it neither is live any more.
Resumable(d) ==
    /\ Cleanup!Has(d, "intent") /\ ~Cleanup!Has(d, "staged") =>
          \/ d["index"] = d["intent"] /\ d["data"] = d["intent"]
          \/ d["q_index"] = d["intent"] /\ d["intent"] \in {d["data"], d["q_data"]}
    /\ Cleanup!Has(d, "intent") /\ Cleanup!Has(d, "staged") =>
          /\ d["staged"] = d["intent"]
          /\ \A n \in Cleanup!Live : d[n] # d["intent"]
    /\ \A n \in Cleanup!Quarantine : Cleanup!Has(d, n) => d[n] = d["intent"]

\* A file in quarantine is not live as well, and the staged marker is only
\* written under an intent.
Pairs(d) ==
    /\ Cleanup!Has(d, "q_index") => d["index"] # d["q_index"]
    /\ Cleanup!Has(d, "q_data") => d["data"] # d["q_data"]
    /\ Cleanup!Has(d, "staged_pending") => Cleanup!Has(d, "intent") /\ ~Cleanup!Has(d, "staged")

Sound(d) == LeafType(d) /\ OneGeneration(d) /\ Resumable(d) /\ Pairs(d)

Holds(d, g) == \E n \in Cleanup!Live \cup Cleanup!Quarantine : d[n] = g

\* A receipt that is held has its pair, its intent, or nothing left on any
\* disk; one that is spent has left no file without an intent.
HeldInv == \A g \in Gens : c_receipt[g] = "held" =>
    \/ c_dir["index"] = g /\ c_dir["data"] = g
    \/ c_dir["intent"] = g
    \/ \A d \in c_disk : ~Holds(d, g)
SpentInv == \A g \in Gens : c_receipt[g] = "spent" =>
    \A d \in c_disk : Holds(d, g) => d["intent"] = g

Beginning == {"publish_intent", "write_intent", "sync_intent", "rename_intent"}
Quarantining == {"quarantine_index", "sync_index", "quarantine_data", "sync_data", "audit_pair", 
   "publish_staged", "write_staged", "sync_staged", "rename_staged"}
Deleting == {"delete", "sync_delete"}
Ending == {"sync_retire", "tail", "sync_tail"}
IndexMoved == Quarantining \ {"quarantine_index"}
DataMoved == {"sync_data", "audit_pair", "publish_staged", "write_staged", "sync_staged", "rename_staged"}
CleanupSteps == {"idle", "refused", "read", "fresh", "publish_intent", "write_intent", "sync_intent",
          "rename_intent", "confirm_intent", "advance", "quarantine_index", "sync_index",
          "quarantine_data", "sync_data", "audit_pair", "publish_staged", "write_staged",
          "sync_staged", "rename_staged", "confirm_staged", "delete", "sync_delete",
          "sync_retire", "tail", "sync_tail"}

\* The values of the variables.
CleanupTypes == 
    /\ c_dir \in c_disk
    /\ c_receipt \in [Gens -> {"unborn", "held", "spent", "lost"}]
    /\ c_step \in CleanupSteps
    /\ c_gen \in Gens \cup {NoFile} /\ c_intent \in Gens \cup {NoFile} /\ c_begin \in BOOLEAN

\* What a call knows of the receipt that it was begun with.
CleanupCall ==
    /\ Cleanup!Idle => c_gen = NoFile /\ ~c_begin /\ c_intent = NoFile
    /\ c_begin => c_gen \in Gens /\ c_receipt[c_gen] \in {"held", "spent"}

\* What the call has made durable at each of its steps: an intent that no power
\* cut takes back before a file is moved, a staged marker that none takes back
\* before one is deleted.
CleanupStages ==
    /\ c_step = "fresh" => ~Cleanup!Has(c_dir, "intent") /\ ~Cleanup!Has(c_dir, "staged")
    /\ c_step \in Beginning =>
          /\ c_begin /\ c_intent = c_gen /\ c_dir["index"] = c_gen /\ c_dir["data"] = c_gen
          /\ ~Cleanup!Has(c_dir, "intent") /\ ~Cleanup!Has(c_dir, "staged")
    /\ c_step = "confirm_intent" => c_begin /\ c_gen = c_intent /\ c_dir["intent"] = c_intent
    /\ c_step \in {"advance", "confirm_staged"} \cup Quarantining \cup Deleting =>
          c_intent \in Gens /\ \A d \in c_disk : d["intent"] = c_intent
    /\ c_step \in Quarantining => ~Cleanup!Has(c_dir, "staged")
    /\ c_step \in IndexMoved \cup {"confirm_staged"} => c_dir["q_index"] = c_intent
    /\ c_step \in DataMoved \cup {"confirm_staged"} => c_dir["q_data"] = c_intent
    /\ c_step = "confirm_staged" => c_dir["staged"] = c_intent
    /\ c_step \in Deleting => \A d \in c_disk : d["staged"] = c_intent
    /\ c_step = "delete" => \A d \in c_disk : \A n \in Cleanup!Quarantine : d[n] = c_dir[n]
    /\ c_step \in Ending => c_intent # NoFile /\ ~Cleanup!Has(c_dir, "intent")
    /\ c_step = "sync_retire" => c_dir["staged"] = c_intent
         /\ \A d \in c_disk : ~Holds(d, c_intent)
    /\ c_step = "tail" => c_dir["staged"] = c_intent
         /\ \A d \in c_disk : ~Cleanup!Has(d, "intent")
    /\ c_step = "sync_tail" => ~Cleanup!Has(c_dir, "staged")

CleanupDisks == \A d \in c_disk : Sound(d)
CleanupInv == CleanupTypes /\ CleanupDisks /\ HeldInv /\ SpentInv /\ CleanupCall /\ CleanupStages

\* The names of the leaves and the groups of steps are written out in this section.
USE DEF Cleanup!Has, Holds, Cleanup!Idle, Cleanup!Leaves, Cleanup!Live, Cleanup!Quarantine,
   Cleanup!Markers, Pendings, CleanupSteps, Beginning, Quarantining, Deleting, Ending, IndexMoved,
   DataMoved, Cleanup!Entry, Cleanup!Goto

LEMMA CleanupReadKeeps ==
    ASSUME Cleanup!CleanupAssumption, CleanupInv, Cleanup!Read
    PROVE  CleanupInv'
<1>1. CleanupTypes'
  <2>1. c_dir' \in c_disk'
    BY DEF CleanupInv, CleanupTypes, CleanupDisks, Sound, LeafType, CleanupStages,
       Cleanup!CleanupAssumption, CleanupCall, Cleanup!Read, Cleanup!Look, Cleanup!End,
       Cleanup!Return, Cleanup!Refuse
  <2>2. c_step' \in CleanupSteps
    BY DEF CleanupCall, Cleanup!Read, Cleanup!Look, Cleanup!End, Cleanup!Return, Cleanup!Refuse
  <2>3. c_gen' \in Gens \cup {NoFile}
    BY DEF CleanupInv, CleanupTypes, CleanupDisks, Sound, LeafType, CleanupStages,
       Cleanup!CleanupAssumption, CleanupCall, Cleanup!Read, Cleanup!Look, Cleanup!End,
       Cleanup!Return, Cleanup!Refuse
  <2>4. c_intent' \in Gens \cup {NoFile}
    BY DEF CleanupInv, CleanupTypes, CleanupDisks, Sound, LeafType, CleanupStages,
       Cleanup!CleanupAssumption, CleanupCall, Cleanup!Read, Cleanup!Look, Cleanup!End,
       Cleanup!Return, Cleanup!Refuse
  <2>5. c_begin' \in BOOLEAN
    BY DEF CleanupInv, CleanupTypes, CleanupDisks, Sound, LeafType, CleanupStages,
       Cleanup!CleanupAssumption, CleanupCall, Cleanup!Read, Cleanup!Look, Cleanup!End,
       Cleanup!Return, Cleanup!Refuse
  <2>6. c_receipt' \in [Gens -> {"unborn", "held", "spent", "lost"}]
    BY DEF CleanupInv, CleanupTypes, CleanupDisks, Sound, LeafType, CleanupStages,
       Cleanup!CleanupAssumption, CleanupCall, Cleanup!Read, Cleanup!Look, Cleanup!End,
       Cleanup!Return, Cleanup!Refuse
  <2> QED BY <2>1, <2>2, <2>3, <2>4, <2>5, <2>6 DEF CleanupTypes
<1>2. CleanupDisks'
  BY DEF CleanupInv, CleanupTypes, CleanupDisks, Cleanup!CleanupAssumption, CleanupStages,
     CleanupCall, Sound, LeafType, OneGeneration, Resumable, Pairs, Cleanup!Read, Cleanup!Look,
     Cleanup!End, Cleanup!Return, Cleanup!Refuse
<1>3. HeldInv'
  BY DEF CleanupInv, CleanupTypes, CleanupDisks, Cleanup!CleanupAssumption, CleanupStages,
     CleanupCall, HeldInv, SpentInv, Sound, LeafType, OneGeneration, Resumable, Pairs,
     Cleanup!Read, Cleanup!Look, Cleanup!End, Cleanup!Return, Cleanup!Refuse
<1>4. SpentInv'
  BY DEF CleanupInv, CleanupTypes, CleanupDisks, Cleanup!CleanupAssumption, CleanupStages,
     CleanupCall, HeldInv, SpentInv, Sound, LeafType, OneGeneration, Resumable, Pairs,
     Cleanup!Read, Cleanup!Look, Cleanup!End, Cleanup!Return, Cleanup!Refuse
<1>5. CleanupCall'
  BY DEF CleanupInv, CleanupTypes, Cleanup!CleanupAssumption, CleanupStages, CleanupCall,
     Cleanup!Read, Cleanup!Look, Cleanup!End, Cleanup!Return, Cleanup!Refuse
<1>6. CleanupStages'
  BY DEF CleanupInv, CleanupTypes, CleanupDisks, Cleanup!CleanupAssumption, CleanupStages,
     CleanupCall, Sound, LeafType, OneGeneration, Resumable, Pairs, Cleanup!Read, Cleanup!Look,
     Cleanup!End, Cleanup!Return, Cleanup!Refuse
<1> QED BY <1>1, <1>2, <1>3, <1>4, <1>5, <1>6 DEF CleanupInv

LEMMA CleanupFreshKeeps ==
    ASSUME Cleanup!CleanupAssumption, CleanupInv, Cleanup!Fresh
    PROVE  CleanupInv'
<1>1. CleanupTypes'
  <2>1. c_dir' \in c_disk'
    BY DEF CleanupInv, CleanupTypes, Cleanup!CleanupAssumption, CleanupCall, Cleanup!Fresh,
       Cleanup!End, Cleanup!Return, Cleanup!Refuse
  <2>2. c_step' \in CleanupSteps
    BY DEF CleanupCall, Cleanup!Fresh, Cleanup!End, Cleanup!Return, Cleanup!Refuse
  <2>3. c_gen' \in Gens \cup {NoFile}
    BY DEF CleanupInv, CleanupTypes, Cleanup!CleanupAssumption, CleanupCall, Cleanup!Fresh,
       Cleanup!End, Cleanup!Return, Cleanup!Refuse
  <2>4. c_intent' \in Gens \cup {NoFile}
    BY DEF CleanupInv, CleanupTypes, Cleanup!CleanupAssumption, CleanupCall, Cleanup!Fresh,
       Cleanup!End, Cleanup!Return, Cleanup!Refuse
  <2>5. c_begin' \in BOOLEAN
    BY DEF CleanupCall, Cleanup!Fresh, Cleanup!End, Cleanup!Return, Cleanup!Refuse
  <2>6. c_receipt' \in [Gens -> {"unborn", "held", "spent", "lost"}]
    BY DEF CleanupInv, CleanupTypes, Cleanup!CleanupAssumption, CleanupCall, Cleanup!Fresh,
       Cleanup!End, Cleanup!Return, Cleanup!Refuse
  <2> QED BY <2>1, <2>2, <2>3, <2>4, <2>5, <2>6 DEF CleanupTypes
<1>2. CleanupDisks'
  BY DEF CleanupInv, CleanupTypes, CleanupDisks, Cleanup!CleanupAssumption, CleanupStages,
     CleanupCall, Sound, LeafType, OneGeneration, Resumable, Pairs, Cleanup!Fresh, Cleanup!End,
     Cleanup!Return, Cleanup!Refuse
<1>3. HeldInv'
  BY DEF CleanupInv, CleanupTypes, CleanupDisks, Cleanup!CleanupAssumption, CleanupStages,
     CleanupCall, HeldInv, SpentInv, Sound, LeafType, OneGeneration, Resumable, Pairs,
     Cleanup!Fresh, Cleanup!End, Cleanup!Return, Cleanup!Refuse
<1>4. SpentInv'
  BY DEF CleanupInv, CleanupTypes, CleanupDisks, Cleanup!CleanupAssumption, CleanupStages,
     CleanupCall, HeldInv, SpentInv, Sound, LeafType, OneGeneration, Resumable, Pairs,
     Cleanup!Fresh, Cleanup!End, Cleanup!Return, Cleanup!Refuse
<1>5. CleanupCall'
  BY DEF CleanupInv, CleanupTypes, Cleanup!CleanupAssumption, CleanupStages, CleanupCall,
     Cleanup!Fresh, Cleanup!End, Cleanup!Return, Cleanup!Refuse
<1>6. CleanupStages'
  BY DEF CleanupInv, CleanupTypes, CleanupDisks, Cleanup!CleanupAssumption, CleanupStages,
     CleanupCall, Sound, LeafType, OneGeneration, Resumable, Pairs, Cleanup!Fresh, Cleanup!End,
     Cleanup!Return, Cleanup!Refuse
<1> QED BY <1>1, <1>2, <1>3, <1>4, <1>5, <1>6 DEF CleanupInv

LEMMA CleanupConfirmIntentKeeps ==
    ASSUME Cleanup!CleanupAssumption, CleanupInv, Cleanup!ConfirmIntent
    PROVE  CleanupInv'
<1>1. CleanupTypes'
  BY DEF CleanupInv, CleanupTypes, Cleanup!CleanupAssumption, CleanupCall, Cleanup!ConfirmIntent
<1>2. CleanupDisks'
  BY DEF CleanupInv, CleanupTypes, CleanupDisks, Cleanup!CleanupAssumption, CleanupStages,
     CleanupCall, Sound, LeafType, OneGeneration, Resumable, Pairs, Cleanup!ConfirmIntent
<1>3. HeldInv'
  BY DEF CleanupInv, CleanupTypes, CleanupDisks, Cleanup!CleanupAssumption, CleanupStages,
     CleanupCall, HeldInv, SpentInv, Sound, LeafType, OneGeneration, Resumable, Pairs,
     Cleanup!ConfirmIntent
<1>4. SpentInv'
  BY DEF CleanupInv, CleanupTypes, CleanupDisks, Cleanup!CleanupAssumption, CleanupStages,
     CleanupCall, HeldInv, SpentInv, Sound, LeafType, OneGeneration, Resumable, Pairs,
     Cleanup!ConfirmIntent
<1>5. CleanupCall'
  BY DEF CleanupInv, CleanupTypes, Cleanup!CleanupAssumption, CleanupStages, CleanupCall,
     Cleanup!ConfirmIntent
<1>6. CleanupStages'
  BY DEF CleanupInv, CleanupTypes, CleanupDisks, Cleanup!CleanupAssumption, CleanupStages,
     CleanupCall, Sound, LeafType, OneGeneration, Resumable, Pairs, Cleanup!ConfirmIntent
<1> QED BY <1>1, <1>2, <1>3, <1>4, <1>5, <1>6 DEF CleanupInv

LEMMA CleanupConfirmStagedKeeps ==
    ASSUME Cleanup!CleanupAssumption, CleanupInv, Cleanup!ConfirmStaged
    PROVE  CleanupInv'
<1>1. CleanupTypes'
  BY DEF CleanupInv, CleanupTypes, Cleanup!CleanupAssumption, CleanupCall, Cleanup!ConfirmStaged,
     Cleanup!SyncDir
<1>2. CleanupDisks'
  BY DEF CleanupInv, CleanupTypes, CleanupDisks, Cleanup!CleanupAssumption, CleanupStages,
     CleanupCall, Sound, LeafType, OneGeneration, Resumable, Pairs, Cleanup!ConfirmStaged,
     Cleanup!SyncDir
<1>3. HeldInv'
  BY DEF CleanupInv, CleanupTypes, CleanupDisks, Cleanup!CleanupAssumption, CleanupStages,
     CleanupCall, HeldInv, SpentInv, Sound, LeafType, OneGeneration, Resumable, Pairs,
     Cleanup!ConfirmStaged, Cleanup!SyncDir
<1>4. SpentInv'
  BY DEF CleanupInv, CleanupTypes, CleanupDisks, Cleanup!CleanupAssumption, CleanupStages,
     CleanupCall, HeldInv, SpentInv, Sound, LeafType, OneGeneration, Resumable, Pairs,
     Cleanup!ConfirmStaged, Cleanup!SyncDir
<1>5. CleanupCall'
  BY DEF CleanupInv, CleanupTypes, Cleanup!CleanupAssumption, CleanupStages, CleanupCall,
     Cleanup!ConfirmStaged, Cleanup!SyncDir
<1>6. CleanupStages'
  BY DEF CleanupInv, CleanupTypes, CleanupDisks, Cleanup!CleanupAssumption, CleanupStages,
     CleanupCall, Sound, LeafType, OneGeneration, Resumable, Pairs, Cleanup!ConfirmStaged,
     Cleanup!SyncDir
<1> QED BY <1>1, <1>2, <1>3, <1>4, <1>5, <1>6 DEF CleanupInv

LEMMA CleanupAdvanceKeeps ==
    ASSUME Cleanup!CleanupAssumption, CleanupInv, Cleanup!Advance
    PROVE  CleanupInv'
<1>1. CleanupTypes'
  <2>1. c_dir' \in c_disk'
    BY DEF CleanupInv, CleanupTypes, CleanupDisks, Sound, LeafType, CleanupStages,
       Cleanup!CleanupAssumption, CleanupCall, Cleanup!Advance, Cleanup!SyncDir, Cleanup!End,
       Cleanup!Return, Cleanup!Refuse
  <2>2. c_step' \in CleanupSteps
    BY DEF CleanupCall, Cleanup!Advance, Cleanup!SyncDir, Cleanup!End, Cleanup!Return,
       Cleanup!Refuse
  <2>3. c_gen' \in Gens \cup {NoFile}
    BY DEF CleanupInv, CleanupTypes, CleanupDisks, Sound, LeafType, CleanupStages,
       Cleanup!CleanupAssumption, CleanupCall, Cleanup!Advance, Cleanup!SyncDir, Cleanup!End,
       Cleanup!Return, Cleanup!Refuse
  <2>4. c_intent' \in Gens \cup {NoFile}
    BY DEF CleanupInv, CleanupTypes, CleanupDisks, Sound, LeafType, CleanupStages,
       Cleanup!CleanupAssumption, CleanupCall, Cleanup!Advance, Cleanup!SyncDir, Cleanup!End,
       Cleanup!Return, Cleanup!Refuse
  <2>5. c_begin' \in BOOLEAN
    BY DEF CleanupInv, CleanupTypes, CleanupDisks, Sound, LeafType, CleanupStages,
       Cleanup!CleanupAssumption, CleanupCall, Cleanup!Advance, Cleanup!SyncDir, Cleanup!End,
       Cleanup!Return, Cleanup!Refuse
  <2>6. c_receipt' \in [Gens -> {"unborn", "held", "spent", "lost"}]
    BY DEF CleanupInv, CleanupTypes, CleanupDisks, Sound, LeafType, CleanupStages,
       Cleanup!CleanupAssumption, CleanupCall, Cleanup!Advance, Cleanup!SyncDir, Cleanup!End,
       Cleanup!Return, Cleanup!Refuse
  <2> QED BY <2>1, <2>2, <2>3, <2>4, <2>5, <2>6 DEF CleanupTypes
<1>2. CleanupDisks'
  BY DEF CleanupInv, CleanupTypes, CleanupDisks, Cleanup!CleanupAssumption, CleanupStages,
     CleanupCall, Sound, LeafType, OneGeneration, Resumable, Pairs, Cleanup!Advance,
     Cleanup!SyncDir, Cleanup!End, Cleanup!Return, Cleanup!Refuse
<1>3. HeldInv'
  BY DEF CleanupInv, CleanupTypes, CleanupDisks, Cleanup!CleanupAssumption, CleanupStages,
     CleanupCall, HeldInv, SpentInv, Sound, LeafType, OneGeneration, Resumable, Pairs,
     Cleanup!Advance, Cleanup!SyncDir, Cleanup!End, Cleanup!Return, Cleanup!Refuse
<1>4. SpentInv'
  BY DEF CleanupInv, CleanupTypes, CleanupDisks, Cleanup!CleanupAssumption, CleanupStages,
     CleanupCall, HeldInv, SpentInv, Sound, LeafType, OneGeneration, Resumable, Pairs,
     Cleanup!Advance, Cleanup!SyncDir, Cleanup!End, Cleanup!Return, Cleanup!Refuse
<1>5. CleanupCall'
  BY DEF CleanupInv, CleanupTypes, Cleanup!CleanupAssumption, CleanupStages, CleanupCall,
     Cleanup!Advance, Cleanup!SyncDir, Cleanup!End, Cleanup!Return, Cleanup!Refuse
<1>6. CleanupStages'
  BY DEF CleanupInv, CleanupTypes, CleanupDisks, Cleanup!CleanupAssumption, CleanupStages,
     CleanupCall, Sound, LeafType, OneGeneration, Resumable, Pairs, Cleanup!Advance,
     Cleanup!SyncDir, Cleanup!End, Cleanup!Return, Cleanup!Refuse
<1> QED BY <1>1, <1>2, <1>3, <1>4, <1>5, <1>6 DEF CleanupInv

LEMMA CleanupQuarantineIndexKeeps ==
    ASSUME Cleanup!CleanupAssumption, CleanupInv, Cleanup!QuarantineIndex
    PROVE  CleanupInv'
<1>1. CleanupTypes'
  BY DEF CleanupInv, CleanupTypes, Cleanup!CleanupAssumption, CleanupCall,
     Cleanup!QuarantineIndex, Cleanup!IndexAt, Cleanup!DataAt, Cleanup!Located, Cleanup!Look,
     Cleanup!End, Cleanup!Return, Cleanup!Refuse
<1>2. CleanupDisks'
  BY DEF CleanupInv, CleanupTypes, CleanupDisks, Cleanup!CleanupAssumption, CleanupStages,
     CleanupCall, Sound, LeafType, OneGeneration, Resumable, Pairs, Cleanup!QuarantineIndex,
     Cleanup!IndexAt, Cleanup!DataAt, Cleanup!Located, Cleanup!Look, Cleanup!End, Cleanup!Return,
     Cleanup!Refuse
<1>3. HeldInv'
  BY DEF CleanupInv, CleanupTypes, CleanupDisks, Cleanup!CleanupAssumption, CleanupStages,
     CleanupCall, HeldInv, SpentInv, Sound, LeafType, OneGeneration, Resumable, Pairs,
     Cleanup!QuarantineIndex, Cleanup!IndexAt, Cleanup!DataAt, Cleanup!Located, Cleanup!Look,
     Cleanup!End, Cleanup!Return, Cleanup!Refuse
<1>4. SpentInv'
  BY DEF CleanupInv, CleanupTypes, CleanupDisks, Cleanup!CleanupAssumption, CleanupStages,
     CleanupCall, HeldInv, SpentInv, Sound, LeafType, OneGeneration, Resumable, Pairs,
     Cleanup!QuarantineIndex, Cleanup!IndexAt, Cleanup!DataAt, Cleanup!Located, Cleanup!Look,
     Cleanup!End, Cleanup!Return, Cleanup!Refuse
<1>5. CleanupCall'
  BY DEF CleanupInv, CleanupTypes, Cleanup!CleanupAssumption, CleanupStages, CleanupCall,
     Cleanup!QuarantineIndex, Cleanup!IndexAt, Cleanup!DataAt, Cleanup!Located, Cleanup!Look,
     Cleanup!End, Cleanup!Return, Cleanup!Refuse
<1>6. CleanupStages'
  BY DEF CleanupInv, CleanupTypes, CleanupDisks, Cleanup!CleanupAssumption, CleanupStages,
     CleanupCall, Sound, LeafType, OneGeneration, Resumable, Pairs, Cleanup!QuarantineIndex,
     Cleanup!IndexAt, Cleanup!DataAt, Cleanup!Located, Cleanup!Look, Cleanup!End, Cleanup!Return,
     Cleanup!Refuse
<1> QED BY <1>1, <1>2, <1>3, <1>4, <1>5, <1>6 DEF CleanupInv

LEMMA CleanupSyncIndexKeeps ==
    ASSUME Cleanup!CleanupAssumption, CleanupInv, Cleanup!SyncIndex
    PROVE  CleanupInv'
<1>1. CleanupTypes'
  BY DEF CleanupInv, CleanupTypes, Cleanup!CleanupAssumption, CleanupCall, Cleanup!SyncIndex,
     Cleanup!SyncDir
<1>2. CleanupDisks'
  BY DEF CleanupInv, CleanupTypes, CleanupDisks, Cleanup!CleanupAssumption, CleanupStages,
     CleanupCall, Sound, LeafType, OneGeneration, Resumable, Pairs, Cleanup!SyncIndex,
     Cleanup!SyncDir
<1>3. HeldInv'
  BY DEF CleanupInv, CleanupTypes, CleanupDisks, Cleanup!CleanupAssumption, CleanupStages,
     CleanupCall, HeldInv, SpentInv, Sound, LeafType, OneGeneration, Resumable, Pairs,
     Cleanup!SyncIndex, Cleanup!SyncDir
<1>4. SpentInv'
  BY DEF CleanupInv, CleanupTypes, CleanupDisks, Cleanup!CleanupAssumption, CleanupStages,
     CleanupCall, HeldInv, SpentInv, Sound, LeafType, OneGeneration, Resumable, Pairs,
     Cleanup!SyncIndex, Cleanup!SyncDir
<1>5. CleanupCall'
  BY DEF CleanupInv, CleanupTypes, Cleanup!CleanupAssumption, CleanupStages, CleanupCall,
     Cleanup!SyncIndex, Cleanup!SyncDir
<1>6. CleanupStages'
  BY DEF CleanupInv, CleanupTypes, CleanupDisks, Cleanup!CleanupAssumption, CleanupStages,
     CleanupCall, Sound, LeafType, OneGeneration, Resumable, Pairs, Cleanup!SyncIndex,
     Cleanup!SyncDir
<1> QED BY <1>1, <1>2, <1>3, <1>4, <1>5, <1>6 DEF CleanupInv

LEMMA CleanupQuarantineDataKeeps ==
    ASSUME Cleanup!CleanupAssumption, CleanupInv, Cleanup!QuarantineData
    PROVE  CleanupInv'
<1>1. CleanupTypes'
  BY DEF CleanupInv, CleanupTypes, Cleanup!CleanupAssumption, CleanupCall, Cleanup!QuarantineData,
     Cleanup!IndexAt, Cleanup!DataAt, Cleanup!Located, Cleanup!Look, Cleanup!End, Cleanup!Return,
     Cleanup!Refuse
<1>2. CleanupDisks'
  BY DEF CleanupInv, CleanupTypes, CleanupDisks, Cleanup!CleanupAssumption, CleanupStages,
     CleanupCall, Sound, LeafType, OneGeneration, Resumable, Pairs, Cleanup!QuarantineData,
     Cleanup!IndexAt, Cleanup!DataAt, Cleanup!Located, Cleanup!Look, Cleanup!End, Cleanup!Return,
     Cleanup!Refuse
<1>3. HeldInv'
  BY DEF CleanupInv, CleanupTypes, CleanupDisks, Cleanup!CleanupAssumption, CleanupStages,
     CleanupCall, HeldInv, SpentInv, Sound, LeafType, OneGeneration, Resumable, Pairs,
     Cleanup!QuarantineData, Cleanup!IndexAt, Cleanup!DataAt, Cleanup!Located, Cleanup!Look,
     Cleanup!End, Cleanup!Return, Cleanup!Refuse
<1>4. SpentInv'
  BY DEF CleanupInv, CleanupTypes, CleanupDisks, Cleanup!CleanupAssumption, CleanupStages,
     CleanupCall, HeldInv, SpentInv, Sound, LeafType, OneGeneration, Resumable, Pairs,
     Cleanup!QuarantineData, Cleanup!IndexAt, Cleanup!DataAt, Cleanup!Located, Cleanup!Look,
     Cleanup!End, Cleanup!Return, Cleanup!Refuse
<1>5. CleanupCall'
  BY DEF CleanupInv, CleanupTypes, Cleanup!CleanupAssumption, CleanupStages, CleanupCall,
     Cleanup!QuarantineData, Cleanup!IndexAt, Cleanup!DataAt, Cleanup!Located, Cleanup!Look,
     Cleanup!End, Cleanup!Return, Cleanup!Refuse
<1>6. CleanupStages'
  BY DEF CleanupInv, CleanupTypes, CleanupDisks, Cleanup!CleanupAssumption, CleanupStages,
     CleanupCall, Sound, LeafType, OneGeneration, Resumable, Pairs, Cleanup!QuarantineData,
     Cleanup!IndexAt, Cleanup!DataAt, Cleanup!Located, Cleanup!Look, Cleanup!End, Cleanup!Return,
     Cleanup!Refuse
<1> QED BY <1>1, <1>2, <1>3, <1>4, <1>5, <1>6 DEF CleanupInv

LEMMA CleanupSyncDataKeeps ==
    ASSUME Cleanup!CleanupAssumption, CleanupInv, Cleanup!SyncData
    PROVE  CleanupInv'
<1>1. CleanupTypes'
  BY DEF CleanupInv, CleanupTypes, Cleanup!CleanupAssumption, CleanupCall, Cleanup!SyncData,
     Cleanup!SyncDir
<1>2. CleanupDisks'
  BY DEF CleanupInv, CleanupTypes, CleanupDisks, Cleanup!CleanupAssumption, CleanupStages,
     CleanupCall, Sound, LeafType, OneGeneration, Resumable, Pairs, Cleanup!SyncData,
     Cleanup!SyncDir
<1>3. HeldInv'
  BY DEF CleanupInv, CleanupTypes, CleanupDisks, Cleanup!CleanupAssumption, CleanupStages,
     CleanupCall, HeldInv, SpentInv, Sound, LeafType, OneGeneration, Resumable, Pairs,
     Cleanup!SyncData, Cleanup!SyncDir
<1>4. SpentInv'
  BY DEF CleanupInv, CleanupTypes, CleanupDisks, Cleanup!CleanupAssumption, CleanupStages,
     CleanupCall, HeldInv, SpentInv, Sound, LeafType, OneGeneration, Resumable, Pairs,
     Cleanup!SyncData, Cleanup!SyncDir
<1>5. CleanupCall'
  BY DEF CleanupInv, CleanupTypes, Cleanup!CleanupAssumption, CleanupStages, CleanupCall,
     Cleanup!SyncData, Cleanup!SyncDir
<1>6. CleanupStages'
  BY DEF CleanupInv, CleanupTypes, CleanupDisks, Cleanup!CleanupAssumption, CleanupStages,
     CleanupCall, Sound, LeafType, OneGeneration, Resumable, Pairs, Cleanup!SyncData,
     Cleanup!SyncDir
<1> QED BY <1>1, <1>2, <1>3, <1>4, <1>5, <1>6 DEF CleanupInv

LEMMA CleanupAuditPairKeeps ==
    ASSUME Cleanup!CleanupAssumption, CleanupInv, Cleanup!AuditPair
    PROVE  CleanupInv'
<1>1. CleanupTypes'
  <2>1. c_dir' \in c_disk'
    BY DEF CleanupInv, CleanupTypes, Cleanup!CleanupAssumption, CleanupCall, Cleanup!AuditPair,
       Cleanup!Look, Cleanup!End, Cleanup!Return, Cleanup!Refuse
  <2>2. c_step' \in CleanupSteps
    BY DEF CleanupCall, Cleanup!AuditPair, Cleanup!Look, Cleanup!End, Cleanup!Return,
       Cleanup!Refuse
  <2>3. c_gen' \in Gens \cup {NoFile}
    BY DEF CleanupInv, CleanupTypes, Cleanup!CleanupAssumption, CleanupCall, Cleanup!AuditPair,
       Cleanup!Look, Cleanup!End, Cleanup!Return, Cleanup!Refuse
  <2>4. c_intent' \in Gens \cup {NoFile}
    BY DEF CleanupInv, CleanupTypes, Cleanup!CleanupAssumption, CleanupCall, Cleanup!AuditPair,
       Cleanup!Look, Cleanup!End, Cleanup!Return, Cleanup!Refuse
  <2>5. c_begin' \in BOOLEAN
    BY DEF CleanupInv, CleanupTypes, Cleanup!CleanupAssumption, CleanupCall, Cleanup!AuditPair,
       Cleanup!Look, Cleanup!End, Cleanup!Return, Cleanup!Refuse
  <2>6. c_receipt' \in [Gens -> {"unborn", "held", "spent", "lost"}]
    BY DEF CleanupInv, CleanupTypes, Cleanup!CleanupAssumption, CleanupCall, Cleanup!AuditPair,
       Cleanup!Look, Cleanup!End, Cleanup!Return, Cleanup!Refuse
  <2> QED BY <2>1, <2>2, <2>3, <2>4, <2>5, <2>6 DEF CleanupTypes
<1>2. CleanupDisks'
  BY DEF CleanupInv, CleanupTypes, CleanupDisks, Cleanup!CleanupAssumption, CleanupStages,
     CleanupCall, Sound, LeafType, OneGeneration, Resumable, Pairs, Cleanup!AuditPair,
     Cleanup!IndexAt, Cleanup!DataAt, Cleanup!Located, Cleanup!Look, Cleanup!End, Cleanup!Return,
     Cleanup!Refuse
<1>3. HeldInv'
  BY DEF CleanupInv, CleanupTypes, CleanupDisks, Cleanup!CleanupAssumption, CleanupStages,
     CleanupCall, HeldInv, SpentInv, Sound, LeafType, OneGeneration, Resumable, Pairs,
     Cleanup!AuditPair, Cleanup!IndexAt, Cleanup!DataAt, Cleanup!Located, Cleanup!Look,
     Cleanup!End, Cleanup!Return, Cleanup!Refuse
<1>4. SpentInv'
  BY DEF CleanupInv, CleanupTypes, CleanupDisks, Cleanup!CleanupAssumption, CleanupStages,
     CleanupCall, HeldInv, SpentInv, Sound, LeafType, OneGeneration, Resumable, Pairs,
     Cleanup!AuditPair, Cleanup!IndexAt, Cleanup!DataAt, Cleanup!Located, Cleanup!Look,
     Cleanup!End, Cleanup!Return, Cleanup!Refuse
<1>5. CleanupCall'
  BY DEF CleanupInv, CleanupTypes, Cleanup!CleanupAssumption, CleanupStages, CleanupCall,
     Cleanup!AuditPair, Cleanup!IndexAt, Cleanup!DataAt, Cleanup!Located, Cleanup!Look,
     Cleanup!End, Cleanup!Return, Cleanup!Refuse
<1>6. CleanupStages'
  BY DEF CleanupInv, CleanupTypes, CleanupDisks, Cleanup!CleanupAssumption, CleanupStages,
     CleanupCall, Sound, LeafType, OneGeneration, Resumable, Pairs, Cleanup!AuditPair,
     Cleanup!IndexAt, Cleanup!DataAt, Cleanup!Located, Cleanup!Look, Cleanup!End, Cleanup!Return,
     Cleanup!Refuse
<1> QED BY <1>1, <1>2, <1>3, <1>4, <1>5, <1>6 DEF CleanupInv

LEMMA CleanupDeleteKeeps ==
    ASSUME Cleanup!CleanupAssumption, CleanupInv, Cleanup!Delete
    PROVE  CleanupInv'
<1>1. CleanupTypes'
  BY DEF CleanupInv, CleanupTypes, Cleanup!CleanupAssumption, CleanupCall, Cleanup!Delete,
     Cleanup!IndexAt, Cleanup!DataAt, Cleanup!Located, Cleanup!End, Cleanup!Return, Cleanup!Refuse
<1>2. CleanupDisks'
  BY DEF CleanupInv, CleanupTypes, CleanupDisks, Cleanup!CleanupAssumption, CleanupStages,
     CleanupCall, Sound, LeafType, OneGeneration, Resumable, Pairs, Cleanup!Delete,
     Cleanup!IndexAt, Cleanup!DataAt, Cleanup!Located, Cleanup!End, Cleanup!Return, Cleanup!Refuse
<1>3. HeldInv'
  BY DEF CleanupInv, CleanupTypes, CleanupDisks, Cleanup!CleanupAssumption, CleanupStages,
     CleanupCall, HeldInv, SpentInv, Sound, LeafType, OneGeneration, Resumable, Pairs,
     Cleanup!Delete, Cleanup!IndexAt, Cleanup!DataAt, Cleanup!Located, Cleanup!End,
     Cleanup!Return, Cleanup!Refuse
<1>4. SpentInv'
  BY DEF CleanupInv, CleanupTypes, CleanupDisks, Cleanup!CleanupAssumption, CleanupStages,
     CleanupCall, HeldInv, SpentInv, Sound, LeafType, OneGeneration, Resumable, Pairs,
     Cleanup!Delete, Cleanup!IndexAt, Cleanup!DataAt, Cleanup!Located, Cleanup!End,
     Cleanup!Return, Cleanup!Refuse
<1>5. CleanupCall'
  BY DEF CleanupInv, CleanupTypes, Cleanup!CleanupAssumption, CleanupStages, CleanupCall,
     Cleanup!Delete, Cleanup!IndexAt, Cleanup!DataAt, Cleanup!Located, Cleanup!End,
     Cleanup!Return, Cleanup!Refuse
<1>6. CleanupStages'
  BY DEF CleanupInv, CleanupTypes, CleanupDisks, Cleanup!CleanupAssumption, CleanupStages,
     CleanupCall, Sound, LeafType, OneGeneration, Resumable, Pairs, Cleanup!Delete,
     Cleanup!IndexAt, Cleanup!DataAt, Cleanup!Located, Cleanup!End, Cleanup!Return, Cleanup!Refuse
<1> QED BY <1>1, <1>2, <1>3, <1>4, <1>5, <1>6 DEF CleanupInv

LEMMA CleanupSyncDeleteKeeps ==
    ASSUME Cleanup!CleanupAssumption, CleanupInv, Cleanup!SyncDelete
    PROVE  CleanupInv'
<1>1. CleanupTypes'
  BY DEF CleanupInv, CleanupTypes, Cleanup!CleanupAssumption, CleanupCall, Cleanup!SyncDelete,
     Cleanup!SyncDir
<1>2. CleanupDisks'
  BY DEF CleanupInv, CleanupTypes, CleanupDisks, Cleanup!CleanupAssumption, CleanupStages,
     CleanupCall, Sound, LeafType, OneGeneration, Resumable, Pairs, Cleanup!SyncDelete,
     Cleanup!SyncDir
<1>3. HeldInv'
  BY DEF CleanupInv, CleanupTypes, CleanupDisks, Cleanup!CleanupAssumption, CleanupStages,
     CleanupCall, HeldInv, SpentInv, Sound, LeafType, OneGeneration, Resumable, Pairs,
     Cleanup!SyncDelete, Cleanup!SyncDir
<1>4. SpentInv'
  BY DEF CleanupInv, CleanupTypes, CleanupDisks, Cleanup!CleanupAssumption, CleanupStages,
     CleanupCall, HeldInv, SpentInv, Sound, LeafType, OneGeneration, Resumable, Pairs,
     Cleanup!SyncDelete, Cleanup!SyncDir
<1>5. CleanupCall'
  BY DEF CleanupInv, CleanupTypes, Cleanup!CleanupAssumption, CleanupStages, CleanupCall,
     Cleanup!SyncDelete, Cleanup!SyncDir
<1>6. CleanupStages'
  BY DEF CleanupInv, CleanupTypes, CleanupDisks, Cleanup!CleanupAssumption, CleanupStages,
     CleanupCall, Sound, LeafType, OneGeneration, Resumable, Pairs, Cleanup!SyncDelete,
     Cleanup!SyncDir
<1> QED BY <1>1, <1>2, <1>3, <1>4, <1>5, <1>6 DEF CleanupInv

LEMMA CleanupSyncRetireKeeps ==
    ASSUME Cleanup!CleanupAssumption, CleanupInv, Cleanup!SyncRetire
    PROVE  CleanupInv'
<1>1. CleanupTypes'
  BY DEF CleanupInv, CleanupTypes, Cleanup!CleanupAssumption, CleanupCall, Cleanup!SyncRetire,
     Cleanup!SyncDir
<1>2. CleanupDisks'
  BY DEF CleanupInv, CleanupTypes, CleanupDisks, Cleanup!CleanupAssumption, CleanupStages,
     CleanupCall, Sound, LeafType, OneGeneration, Resumable, Pairs, Cleanup!SyncRetire,
     Cleanup!SyncDir
<1>3. HeldInv'
  BY DEF CleanupInv, CleanupTypes, CleanupDisks, Cleanup!CleanupAssumption, CleanupStages,
     CleanupCall, HeldInv, SpentInv, Sound, LeafType, OneGeneration, Resumable, Pairs,
     Cleanup!SyncRetire, Cleanup!SyncDir
<1>4. SpentInv'
  BY DEF CleanupInv, CleanupTypes, CleanupDisks, Cleanup!CleanupAssumption, CleanupStages,
     CleanupCall, HeldInv, SpentInv, Sound, LeafType, OneGeneration, Resumable, Pairs,
     Cleanup!SyncRetire, Cleanup!SyncDir
<1>5. CleanupCall'
  BY DEF CleanupInv, CleanupTypes, Cleanup!CleanupAssumption, CleanupStages, CleanupCall,
     Cleanup!SyncRetire, Cleanup!SyncDir
<1>6. CleanupStages'
  BY DEF CleanupInv, CleanupTypes, CleanupDisks, Cleanup!CleanupAssumption, CleanupStages,
     CleanupCall, Sound, LeafType, OneGeneration, Resumable, Pairs, Cleanup!SyncRetire,
     Cleanup!SyncDir
<1> QED BY <1>1, <1>2, <1>3, <1>4, <1>5, <1>6 DEF CleanupInv

LEMMA CleanupTailKeeps ==
    ASSUME Cleanup!CleanupAssumption, CleanupInv, Cleanup!Tail
    PROVE  CleanupInv'
<1>1. CleanupTypes'
  <2>1. c_dir' \in c_disk'
    BY DEF CleanupInv, CleanupTypes, Cleanup!CleanupAssumption, CleanupCall, Cleanup!Tail,
       Cleanup!End, Cleanup!Return, Cleanup!Refuse
  <2>2. c_step' \in CleanupSteps
    BY DEF CleanupCall, Cleanup!Tail, Cleanup!End, Cleanup!Return, Cleanup!Refuse
  <2>3. c_gen' \in Gens \cup {NoFile}
    BY DEF CleanupInv, CleanupTypes, Cleanup!CleanupAssumption, CleanupCall, Cleanup!Tail,
       Cleanup!End, Cleanup!Return, Cleanup!Refuse
  <2>4. c_intent' \in Gens \cup {NoFile}
    BY DEF CleanupInv, CleanupTypes, Cleanup!CleanupAssumption, CleanupCall, Cleanup!Tail,
       Cleanup!End, Cleanup!Return, Cleanup!Refuse
  <2>5. c_begin' \in BOOLEAN
    BY DEF CleanupInv, CleanupTypes, Cleanup!CleanupAssumption, CleanupCall, Cleanup!Tail,
       Cleanup!End, Cleanup!Return, Cleanup!Refuse
  <2>6. c_receipt' \in [Gens -> {"unborn", "held", "spent", "lost"}]
    BY DEF CleanupInv, CleanupTypes, Cleanup!CleanupAssumption, CleanupCall, Cleanup!Tail,
       Cleanup!End, Cleanup!Return, Cleanup!Refuse
  <2> QED BY <2>1, <2>2, <2>3, <2>4, <2>5, <2>6 DEF CleanupTypes
<1>2. CleanupDisks'
  BY DEF CleanupInv, CleanupTypes, CleanupDisks, Cleanup!CleanupAssumption, CleanupStages,
     CleanupCall, Sound, LeafType, OneGeneration, Resumable, Pairs, Cleanup!Tail, Cleanup!End,
     Cleanup!Return, Cleanup!Refuse
<1>3. HeldInv'
  BY DEF CleanupInv, CleanupTypes, CleanupDisks, Cleanup!CleanupAssumption, CleanupStages,
     CleanupCall, HeldInv, SpentInv, Sound, LeafType, OneGeneration, Resumable, Pairs,
     Cleanup!Tail, Cleanup!End, Cleanup!Return, Cleanup!Refuse
<1>4. SpentInv'
  BY DEF CleanupInv, CleanupTypes, CleanupDisks, Cleanup!CleanupAssumption, CleanupStages,
     CleanupCall, HeldInv, SpentInv, Sound, LeafType, OneGeneration, Resumable, Pairs,
     Cleanup!Tail, Cleanup!End, Cleanup!Return, Cleanup!Refuse
<1>5. CleanupCall'
  BY DEF CleanupInv, CleanupTypes, Cleanup!CleanupAssumption, CleanupStages, CleanupCall,
     Cleanup!Tail, Cleanup!End, Cleanup!Return, Cleanup!Refuse
<1>6. CleanupStages'
  BY DEF CleanupInv, CleanupTypes, CleanupDisks, Cleanup!CleanupAssumption, CleanupStages,
     CleanupCall, Sound, LeafType, OneGeneration, Resumable, Pairs, Cleanup!Tail, Cleanup!End,
     Cleanup!Return, Cleanup!Refuse
<1> QED BY <1>1, <1>2, <1>3, <1>4, <1>5, <1>6 DEF CleanupInv

LEMMA CleanupSyncTailKeeps ==
    ASSUME Cleanup!CleanupAssumption, CleanupInv, Cleanup!SyncTail
    PROVE  CleanupInv'
<1>1. CleanupTypes'
  BY DEF CleanupInv, CleanupTypes, Cleanup!CleanupAssumption, CleanupCall, Cleanup!SyncTail,
     Cleanup!End
<1>2. CleanupDisks'
  BY DEF CleanupInv, CleanupTypes, CleanupDisks, Cleanup!CleanupAssumption, CleanupStages,
     CleanupCall, Sound, LeafType, OneGeneration, Resumable, Pairs, Cleanup!SyncTail, Cleanup!End
<1>3. HeldInv'
  BY DEF CleanupInv, CleanupTypes, CleanupDisks, Cleanup!CleanupAssumption, CleanupStages,
     CleanupCall, HeldInv, SpentInv, Sound, LeafType, OneGeneration, Resumable, Pairs,
     Cleanup!SyncTail, Cleanup!End
<1>4. SpentInv'
  BY DEF CleanupInv, CleanupTypes, CleanupDisks, Cleanup!CleanupAssumption, CleanupStages,
     CleanupCall, HeldInv, SpentInv, Sound, LeafType, OneGeneration, Resumable, Pairs,
     Cleanup!SyncTail, Cleanup!End
<1>5. CleanupCall'
  BY DEF CleanupInv, CleanupTypes, Cleanup!CleanupAssumption, CleanupStages, CleanupCall,
     Cleanup!SyncTail, Cleanup!End
<1>6. CleanupStages'
  BY DEF CleanupInv, CleanupTypes, CleanupDisks, Cleanup!CleanupAssumption, CleanupStages,
     CleanupCall, Sound, LeafType, OneGeneration, Resumable, Pairs, Cleanup!SyncTail, Cleanup!End
<1> QED BY <1>1, <1>2, <1>3, <1>4, <1>5, <1>6 DEF CleanupInv

LEMMA CleanupFailKeeps ==
    ASSUME Cleanup!CleanupAssumption, CleanupInv, Cleanup!Fail
    PROVE  CleanupInv'
<1>1. CleanupTypes'
  BY DEF CleanupInv, CleanupTypes, Cleanup!CleanupAssumption, CleanupCall, Cleanup!Fail,
     Cleanup!End, Cleanup!Return
<1>2. CleanupDisks'
  BY DEF CleanupInv, CleanupTypes, CleanupDisks, Cleanup!CleanupAssumption, CleanupStages,
     CleanupCall, Sound, LeafType, OneGeneration, Resumable, Pairs, Cleanup!Fail, Cleanup!End,
     Cleanup!Return
<1>3. HeldInv'
  BY DEF CleanupInv, CleanupTypes, CleanupDisks, Cleanup!CleanupAssumption, CleanupStages,
     CleanupCall, HeldInv, SpentInv, Sound, LeafType, OneGeneration, Resumable, Pairs,
     Cleanup!Fail, Cleanup!End, Cleanup!Return
<1>4. SpentInv'
  BY DEF CleanupInv, CleanupTypes, CleanupDisks, Cleanup!CleanupAssumption, CleanupStages,
     CleanupCall, HeldInv, SpentInv, Sound, LeafType, OneGeneration, Resumable, Pairs,
     Cleanup!Fail, Cleanup!End, Cleanup!Return
<1>5. CleanupCall'
  BY DEF CleanupStages, CleanupCall, Cleanup!Fail, Cleanup!End, Cleanup!Return
<1>6. CleanupStages'
  BY DEF Cleanup!CleanupAssumption, CleanupStages, CleanupCall, Sound, LeafType, OneGeneration,
     Resumable, Pairs, Cleanup!Fail, Cleanup!End, Cleanup!Return
<1> QED BY <1>1, <1>2, <1>3, <1>4, <1>5, <1>6 DEF CleanupInv

LEMMA CleanupPowerCutKeeps ==
    ASSUME Cleanup!CleanupAssumption, CleanupInv, Cleanup!PowerCut
    PROVE  CleanupInv'
<1>1. CleanupTypes'
  BY DEF CleanupInv, CleanupTypes, Cleanup!CleanupAssumption, CleanupCall, Cleanup!PowerCut,
     Cleanup!End
<1>2. CleanupDisks'
  BY DEF CleanupInv, CleanupTypes, CleanupDisks, Cleanup!CleanupAssumption, CleanupStages,
     CleanupCall, Sound, LeafType, OneGeneration, Resumable, Pairs, Cleanup!PowerCut, Cleanup!End
<1>3. HeldInv'
  BY DEF Cleanup!CleanupAssumption, CleanupStages, CleanupCall, HeldInv, SpentInv, Sound,
     LeafType, OneGeneration, Resumable, Pairs, Cleanup!PowerCut, Cleanup!End
<1>4. SpentInv'
  BY DEF Cleanup!CleanupAssumption, CleanupStages, CleanupCall, HeldInv, SpentInv, Sound,
     LeafType, OneGeneration, Resumable, Pairs, Cleanup!PowerCut, Cleanup!End
<1>5. CleanupCall'
  BY DEF CleanupStages, CleanupCall, Cleanup!PowerCut, Cleanup!End
<1>6. CleanupStages'
  BY DEF Cleanup!CleanupAssumption, CleanupStages, CleanupCall, Sound, LeafType, OneGeneration,
     Resumable, Pairs, Cleanup!PowerCut, Cleanup!End
<1> QED BY <1>1, <1>2, <1>3, <1>4, <1>5, <1>6 DEF CleanupInv

LEMMA CleanupIntrudeKeeps ==
    ASSUME Cleanup!CleanupAssumption, CleanupInv, Cleanup!Intrude
    PROVE  CleanupInv'
<1>1. CleanupTypes'
  BY DEF CleanupInv, CleanupTypes, Cleanup!CleanupAssumption, CleanupCall, Cleanup!Intrude
<1>2. CleanupDisks'
  BY DEF CleanupInv, CleanupTypes, CleanupDisks, Cleanup!CleanupAssumption, CleanupStages,
     CleanupCall, Sound, LeafType, OneGeneration, Resumable, Pairs, Cleanup!Intrude
<1>3. HeldInv'
  BY DEF CleanupInv, CleanupTypes, CleanupDisks, Cleanup!CleanupAssumption, CleanupStages,
     CleanupCall, HeldInv, SpentInv, Sound, LeafType, OneGeneration, Resumable, Pairs,
     Cleanup!Intrude
<1>4. SpentInv'
  BY DEF CleanupInv, CleanupTypes, CleanupDisks, Cleanup!CleanupAssumption, CleanupStages,
     CleanupCall, HeldInv, SpentInv, Sound, LeafType, OneGeneration, Resumable, Pairs,
     Cleanup!Intrude
<1>5. CleanupCall'
  BY DEF CleanupInv, CleanupTypes, Cleanup!CleanupAssumption, CleanupStages, CleanupCall,
     Cleanup!Intrude
<1>6. CleanupStages'
  BY DEF CleanupInv, CleanupTypes, CleanupDisks, Cleanup!CleanupAssumption, CleanupStages,
     CleanupCall, Sound, LeafType, OneGeneration, Resumable, Pairs, Cleanup!Intrude
<1> QED BY <1>1, <1>2, <1>3, <1>4, <1>5, <1>6 DEF CleanupInv

LEMMA CleanupPreparePendingKeeps ==
    ASSUME Cleanup!CleanupAssumption, CleanupInv, NEW m \in Cleanup!Markers,
             Cleanup!PreparePending(m)
    PROVE  CleanupInv'
<1>1. CleanupTypes'
  <2>1. c_dir' \in c_disk'
    BY DEF CleanupInv, CleanupTypes, Cleanup!CleanupAssumption, CleanupCall,
       Cleanup!PreparePending, Cleanup!Pending, Cleanup!PublishStep, Cleanup!WriteStep,
       Cleanup!SyncStep, Cleanup!Look, Cleanup!End, Cleanup!Return, Cleanup!Refuse,
       Cleanup!PublishStep, Cleanup!WriteStep, Cleanup!SyncStep
  <2>2. c_step' \in CleanupSteps
    BY DEF Cleanup!CleanupAssumption, CleanupCall, Cleanup!PreparePending, Cleanup!Pending,
       Cleanup!PublishStep, Cleanup!WriteStep, Cleanup!SyncStep, Cleanup!Look, Cleanup!End,
       Cleanup!Return, Cleanup!Refuse, Cleanup!PublishStep, Cleanup!WriteStep, Cleanup!SyncStep
  <2>3. c_gen' \in Gens \cup {NoFile}
    BY DEF CleanupInv, CleanupTypes, Cleanup!CleanupAssumption, CleanupCall,
       Cleanup!PreparePending, Cleanup!Pending, Cleanup!PublishStep, Cleanup!WriteStep,
       Cleanup!SyncStep, Cleanup!Look, Cleanup!End, Cleanup!Return, Cleanup!Refuse,
       Cleanup!PublishStep, Cleanup!WriteStep, Cleanup!SyncStep
  <2>4. c_intent' \in Gens \cup {NoFile}
    BY DEF CleanupInv, CleanupTypes, Cleanup!CleanupAssumption, CleanupCall,
       Cleanup!PreparePending, Cleanup!Pending, Cleanup!PublishStep, Cleanup!WriteStep,
       Cleanup!SyncStep, Cleanup!Look, Cleanup!End, Cleanup!Return, Cleanup!Refuse,
       Cleanup!PublishStep, Cleanup!WriteStep, Cleanup!SyncStep
  <2>5. c_begin' \in BOOLEAN
    BY DEF CleanupInv, CleanupTypes, Cleanup!CleanupAssumption, CleanupCall,
       Cleanup!PreparePending, Cleanup!Pending, Cleanup!PublishStep, Cleanup!WriteStep,
       Cleanup!SyncStep, Cleanup!Look, Cleanup!End, Cleanup!Return, Cleanup!Refuse,
       Cleanup!PublishStep, Cleanup!WriteStep, Cleanup!SyncStep
  <2>6. c_receipt' \in [Gens -> {"unborn", "held", "spent", "lost"}]
    BY DEF CleanupInv, CleanupTypes, Cleanup!CleanupAssumption, CleanupCall,
       Cleanup!PreparePending, Cleanup!Pending, Cleanup!PublishStep, Cleanup!WriteStep,
       Cleanup!SyncStep, Cleanup!Look, Cleanup!End, Cleanup!Return, Cleanup!Refuse,
       Cleanup!PublishStep, Cleanup!WriteStep, Cleanup!SyncStep
  <2> QED BY <2>1, <2>2, <2>3, <2>4, <2>5, <2>6 DEF CleanupTypes
<1>2. CleanupDisks'
  BY DEF CleanupInv, CleanupTypes, CleanupDisks, Cleanup!CleanupAssumption, CleanupStages,
     CleanupCall, Sound, LeafType, OneGeneration, Resumable, Pairs, Cleanup!PreparePending,
     Cleanup!Pending, Cleanup!PublishStep, Cleanup!WriteStep, Cleanup!SyncStep, Cleanup!Look,
     Cleanup!End, Cleanup!Return, Cleanup!Refuse
<1>3. HeldInv'
  BY DEF CleanupInv, CleanupTypes, CleanupDisks, Cleanup!CleanupAssumption, CleanupStages,
     CleanupCall, HeldInv, SpentInv, Sound, LeafType, OneGeneration, Resumable, Pairs,
     Cleanup!PreparePending, Cleanup!Pending, Cleanup!PublishStep, Cleanup!WriteStep,
     Cleanup!SyncStep, Cleanup!Look, Cleanup!End, Cleanup!Return, Cleanup!Refuse
<1>4. SpentInv'
  BY DEF CleanupInv, CleanupTypes, CleanupDisks, Cleanup!CleanupAssumption, CleanupStages,
     CleanupCall, HeldInv, SpentInv, Sound, LeafType, OneGeneration, Resumable, Pairs,
     Cleanup!PreparePending, Cleanup!Pending, Cleanup!PublishStep, Cleanup!WriteStep,
     Cleanup!SyncStep, Cleanup!Look, Cleanup!End, Cleanup!Return, Cleanup!Refuse
<1>5. CleanupCall'
  BY DEF CleanupInv, CleanupTypes, Cleanup!CleanupAssumption, CleanupStages, CleanupCall,
     Cleanup!PreparePending, Cleanup!Pending, Cleanup!PublishStep, Cleanup!WriteStep,
     Cleanup!SyncStep, Cleanup!Look, Cleanup!End, Cleanup!Return, Cleanup!Refuse
<1>6. CleanupStages'
  BY DEF CleanupInv, CleanupTypes, CleanupDisks, Cleanup!CleanupAssumption, CleanupStages,
     CleanupCall, Sound, LeafType, OneGeneration, Resumable, Pairs, Cleanup!PreparePending,
     Cleanup!Pending, Cleanup!PublishStep, Cleanup!WriteStep, Cleanup!SyncStep, Cleanup!Look,
     Cleanup!End, Cleanup!Return, Cleanup!Refuse
<1> QED BY <1>1, <1>2, <1>3, <1>4, <1>5, <1>6 DEF CleanupInv

LEMMA CleanupWritePendingKeeps ==
    ASSUME Cleanup!CleanupAssumption, CleanupInv, NEW m \in Cleanup!Markers,
             Cleanup!WritePending(m)
    PROVE  CleanupInv'
<1>1. CleanupTypes'
  BY DEF CleanupInv, CleanupTypes, Cleanup!CleanupAssumption, CleanupCall, Cleanup!WritePending,
     Cleanup!Pending, Cleanup!WriteStep, Cleanup!SyncStep
<1>2. CleanupDisks'
  BY DEF CleanupInv, CleanupTypes, CleanupDisks, Cleanup!CleanupAssumption, CleanupStages,
     CleanupCall, Sound, LeafType, OneGeneration, Resumable, Pairs, Cleanup!WritePending,
     Cleanup!Pending, Cleanup!WriteStep, Cleanup!SyncStep
<1>3. HeldInv'
  BY DEF CleanupInv, CleanupTypes, CleanupDisks, Cleanup!CleanupAssumption, CleanupStages,
     CleanupCall, HeldInv, SpentInv, Sound, LeafType, OneGeneration, Resumable, Pairs,
     Cleanup!WritePending, Cleanup!Pending, Cleanup!WriteStep, Cleanup!SyncStep
<1>4. SpentInv'
  BY DEF CleanupInv, CleanupTypes, CleanupDisks, Cleanup!CleanupAssumption, CleanupStages,
     CleanupCall, HeldInv, SpentInv, Sound, LeafType, OneGeneration, Resumable, Pairs,
     Cleanup!WritePending, Cleanup!Pending, Cleanup!WriteStep, Cleanup!SyncStep
<1>5. CleanupCall'
  BY DEF CleanupInv, CleanupTypes, Cleanup!CleanupAssumption, CleanupStages, CleanupCall,
     Cleanup!WritePending, Cleanup!Pending, Cleanup!WriteStep, Cleanup!SyncStep
<1>6. CleanupStages'
  BY DEF CleanupInv, CleanupTypes, CleanupDisks, Cleanup!CleanupAssumption, CleanupStages,
     CleanupCall, Sound, LeafType, OneGeneration, Resumable, Pairs, Cleanup!WritePending,
     Cleanup!Pending, Cleanup!WriteStep, Cleanup!SyncStep
<1> QED BY <1>1, <1>2, <1>3, <1>4, <1>5, <1>6 DEF CleanupInv

LEMMA CleanupSyncPendingKeeps ==
    ASSUME Cleanup!CleanupAssumption, CleanupInv, NEW m \in Cleanup!Markers,
             Cleanup!SyncPending(m)
    PROVE  CleanupInv'
<1>1. CleanupTypes'
  BY DEF CleanupInv, CleanupTypes, Cleanup!CleanupAssumption, CleanupCall, Cleanup!SyncPending,
     Cleanup!SyncStep, Cleanup!RenameStep, Cleanup!SyncDir
<1>2. CleanupDisks'
  BY DEF CleanupInv, CleanupTypes, CleanupDisks, Cleanup!CleanupAssumption, CleanupStages,
     CleanupCall, Sound, LeafType, OneGeneration, Resumable, Pairs, Cleanup!SyncPending,
     Cleanup!SyncStep, Cleanup!RenameStep, Cleanup!SyncDir
<1>3. HeldInv'
  BY DEF CleanupInv, CleanupTypes, CleanupDisks, Cleanup!CleanupAssumption, CleanupStages,
     CleanupCall, HeldInv, SpentInv, Sound, LeafType, OneGeneration, Resumable, Pairs,
     Cleanup!SyncPending, Cleanup!SyncStep, Cleanup!RenameStep, Cleanup!SyncDir
<1>4. SpentInv'
  BY DEF CleanupInv, CleanupTypes, CleanupDisks, Cleanup!CleanupAssumption, CleanupStages,
     CleanupCall, HeldInv, SpentInv, Sound, LeafType, OneGeneration, Resumable, Pairs,
     Cleanup!SyncPending, Cleanup!SyncStep, Cleanup!RenameStep, Cleanup!SyncDir
<1>5. CleanupCall'
  BY DEF CleanupInv, CleanupTypes, Cleanup!CleanupAssumption, CleanupStages, CleanupCall,
     Cleanup!SyncPending, Cleanup!SyncStep, Cleanup!RenameStep, Cleanup!SyncDir
<1>6. CleanupStages'
  BY DEF CleanupInv, CleanupTypes, CleanupDisks, Cleanup!CleanupAssumption, CleanupStages,
     CleanupCall, Sound, LeafType, OneGeneration, Resumable, Pairs, Cleanup!SyncPending,
     Cleanup!SyncStep, Cleanup!RenameStep, Cleanup!SyncDir
<1> QED BY <1>1, <1>2, <1>3, <1>4, <1>5, <1>6 DEF CleanupInv

LEMMA CleanupRenameMarkerKeeps ==
    ASSUME Cleanup!CleanupAssumption, CleanupInv, NEW m \in Cleanup!Markers,
             Cleanup!RenameMarker(m)
    PROVE  CleanupInv'
<1>1. CleanupTypes'
  BY DEF CleanupInv, CleanupTypes, Cleanup!CleanupAssumption, CleanupCall, Cleanup!RenameMarker,
     Cleanup!Pending, Cleanup!RenameStep, Cleanup!ConfirmStep
<1>2. CleanupDisks'
  BY DEF CleanupInv, CleanupTypes, CleanupDisks, Cleanup!CleanupAssumption, CleanupStages,
     CleanupCall, Sound, LeafType, OneGeneration, Resumable, Pairs, Cleanup!RenameMarker,
     Cleanup!Pending, Cleanup!RenameStep, Cleanup!ConfirmStep
<1>3. HeldInv'
  BY DEF CleanupInv, CleanupTypes, CleanupDisks, Cleanup!CleanupAssumption, CleanupStages,
     CleanupCall, HeldInv, SpentInv, Sound, LeafType, OneGeneration, Resumable, Pairs,
     Cleanup!RenameMarker, Cleanup!Pending, Cleanup!RenameStep, Cleanup!ConfirmStep
<1>4. SpentInv'
  BY DEF CleanupInv, CleanupTypes, CleanupDisks, Cleanup!CleanupAssumption, CleanupStages,
     CleanupCall, HeldInv, SpentInv, Sound, LeafType, OneGeneration, Resumable, Pairs,
     Cleanup!RenameMarker, Cleanup!Pending, Cleanup!RenameStep, Cleanup!ConfirmStep
<1>5. CleanupCall'
  BY DEF CleanupInv, CleanupTypes, Cleanup!CleanupAssumption, CleanupStages, CleanupCall,
     Cleanup!RenameMarker, Cleanup!Pending, Cleanup!RenameStep, Cleanup!ConfirmStep
<1>6. CleanupStages'
  BY DEF CleanupInv, CleanupTypes, CleanupDisks, Cleanup!CleanupAssumption, CleanupStages,
     CleanupCall, Sound, LeafType, OneGeneration, Resumable, Pairs, Cleanup!RenameMarker,
     Cleanup!Pending, Cleanup!RenameStep, Cleanup!ConfirmStep
<1> QED BY <1>1, <1>2, <1>3, <1>4, <1>5, <1>6 DEF CleanupInv

LEMMA CleanupNewStoreKeeps ==
    ASSUME Cleanup!CleanupAssumption, CleanupInv, NEW g \in Gens, Cleanup!NewStore(g)
    PROVE  CleanupInv'
<1>1. CleanupTypes'
  BY DEF CleanupInv, CleanupTypes, Cleanup!CleanupAssumption, CleanupCall, Cleanup!NewStore,
     Cleanup!Empty
<1>2. CleanupDisks'
  BY DEF CleanupInv, CleanupTypes, CleanupDisks, Cleanup!CleanupAssumption, CleanupStages,
     CleanupCall, Sound, LeafType, OneGeneration, Resumable, Pairs, Cleanup!NewStore,
     Cleanup!Empty
<1>3. HeldInv'
  BY DEF CleanupInv, CleanupTypes, CleanupDisks, Cleanup!CleanupAssumption, CleanupStages,
     CleanupCall, HeldInv, SpentInv, Sound, LeafType, OneGeneration, Resumable, Pairs,
     Cleanup!NewStore, Cleanup!Empty
<1>4. SpentInv'
  BY DEF CleanupInv, CleanupTypes, CleanupDisks, Cleanup!CleanupAssumption, CleanupStages,
     CleanupCall, HeldInv, SpentInv, Sound, LeafType, OneGeneration, Resumable, Pairs,
     Cleanup!NewStore, Cleanup!Empty
<1>5. CleanupCall'
  BY DEF CleanupInv, CleanupTypes, Cleanup!CleanupAssumption, CleanupStages, CleanupCall,
     Cleanup!NewStore, Cleanup!Empty
<1>6. CleanupStages'
  BY DEF Cleanup!CleanupAssumption, CleanupStages, CleanupCall, Sound, LeafType, OneGeneration,
     Resumable, Pairs, Cleanup!NewStore, Cleanup!Empty
<1> QED BY <1>1, <1>2, <1>3, <1>4, <1>5, <1>6 DEF CleanupInv

LEMMA CleanupBeginOrResumeKeeps ==
    ASSUME Cleanup!CleanupAssumption, CleanupInv, NEW g \in Gens, Cleanup!BeginOrResume(g)
    PROVE  CleanupInv'
<1>1. CleanupTypes'
  BY DEF CleanupInv, CleanupTypes, Cleanup!CleanupAssumption, CleanupCall, Cleanup!BeginOrResume
<1>2. CleanupDisks'
  BY DEF CleanupInv, CleanupTypes, CleanupDisks, Cleanup!CleanupAssumption, CleanupStages,
     CleanupCall, Sound, LeafType, OneGeneration, Resumable, Pairs, Cleanup!BeginOrResume
<1>3. HeldInv'
  BY DEF CleanupInv, CleanupTypes, CleanupDisks, Cleanup!CleanupAssumption, CleanupStages,
     CleanupCall, HeldInv, SpentInv, Sound, LeafType, OneGeneration, Resumable, Pairs,
     Cleanup!BeginOrResume
<1>4. SpentInv'
  BY DEF CleanupInv, CleanupTypes, CleanupDisks, Cleanup!CleanupAssumption, CleanupStages,
     CleanupCall, HeldInv, SpentInv, Sound, LeafType, OneGeneration, Resumable, Pairs,
     Cleanup!BeginOrResume
<1>5. CleanupCall'
  BY DEF CleanupStages, CleanupCall, Cleanup!BeginOrResume
<1>6. CleanupStages'
  BY DEF Cleanup!CleanupAssumption, CleanupStages, CleanupCall, Sound, LeafType, OneGeneration,
     Resumable, Pairs, Cleanup!BeginOrResume
<1> QED BY <1>1, <1>2, <1>3, <1>4, <1>5, <1>6 DEF CleanupInv

LEMMA CleanupCrashKeeps ==
    ASSUME Cleanup!CleanupAssumption, CleanupInv, NEW g \in Gens, Cleanup!Crash(g)
    PROVE  CleanupInv'
<1>1. CleanupTypes'
  BY DEF CleanupInv, CleanupTypes, Cleanup!CleanupAssumption, CleanupCall, Cleanup!Crash,
     Cleanup!End
<1>2. CleanupDisks'
  BY DEF CleanupInv, CleanupTypes, CleanupDisks, Cleanup!CleanupAssumption, CleanupStages,
     CleanupCall, Sound, LeafType, OneGeneration, Resumable, Pairs, Cleanup!Crash, Cleanup!End
<1>3. HeldInv'
  BY DEF CleanupInv, CleanupTypes, CleanupDisks, Cleanup!CleanupAssumption, CleanupStages,
     CleanupCall, HeldInv, SpentInv, Sound, LeafType, OneGeneration, Resumable, Pairs,
     Cleanup!Crash, Cleanup!End
<1>4. SpentInv'
  BY DEF CleanupInv, CleanupTypes, CleanupDisks, Cleanup!CleanupAssumption, CleanupStages,
     CleanupCall, HeldInv, SpentInv, Sound, LeafType, OneGeneration, Resumable, Pairs,
     Cleanup!Crash, Cleanup!End
<1>5. CleanupCall'
  BY DEF CleanupInv, CleanupTypes, Cleanup!CleanupAssumption, CleanupStages, CleanupCall,
     Cleanup!Crash, Cleanup!End
<1>6. CleanupStages'
  BY DEF CleanupInv, CleanupTypes, CleanupDisks, Cleanup!CleanupAssumption, CleanupStages,
     CleanupCall, Sound, LeafType, OneGeneration, Resumable, Pairs, Cleanup!Crash, Cleanup!End
<1> QED BY <1>1, <1>2, <1>3, <1>4, <1>5, <1>6 DEF CleanupInv

LEMMA CleanupResumeKeeps ==
    ASSUME Cleanup!CleanupAssumption, CleanupInv, NEW g \in Gens \cup {NoFile}, Cleanup!Resume(g)
    PROVE  CleanupInv'
<1>1. CleanupTypes'
  BY DEF CleanupInv, CleanupTypes, Cleanup!CleanupAssumption, CleanupCall, Cleanup!Resume
<1>2. CleanupDisks'
  BY DEF CleanupInv, CleanupTypes, CleanupDisks, Cleanup!CleanupAssumption, CleanupStages,
     CleanupCall, Sound, LeafType, OneGeneration, Resumable, Pairs, Cleanup!Resume
<1>3. HeldInv'
  BY DEF CleanupInv, CleanupTypes, CleanupDisks, Cleanup!CleanupAssumption, CleanupStages,
     CleanupCall, HeldInv, SpentInv, Sound, LeafType, OneGeneration, Resumable, Pairs,
     Cleanup!Resume
<1>4. SpentInv'
  BY DEF CleanupInv, CleanupTypes, CleanupDisks, Cleanup!CleanupAssumption, CleanupStages,
     CleanupCall, HeldInv, SpentInv, Sound, LeafType, OneGeneration, Resumable, Pairs,
     Cleanup!Resume
<1>5. CleanupCall'
  BY DEF CleanupInv, CleanupTypes, Cleanup!CleanupAssumption, CleanupStages, CleanupCall,
     Cleanup!Resume
<1>6. CleanupStages'
  BY DEF Cleanup!CleanupAssumption, CleanupStages, CleanupCall, Sound, LeafType, OneGeneration,
     Resumable, Pairs, Cleanup!Resume
<1> QED BY <1>1, <1>2, <1>3, <1>4, <1>5, <1>6 DEF CleanupInv

HIDE DEF Cleanup!Has, Holds, Cleanup!Idle, Cleanup!Leaves, Cleanup!Live, Cleanup!Quarantine,
   Cleanup!Markers, Pendings, CleanupSteps, Beginning, Quarantining, Deleting, Ending, IndexMoved,
   DataMoved, Cleanup!Entry, Cleanup!Goto

LEMMA CleanupInitInv == ASSUME Cleanup!CleanupAssumption, Cleanup!Init PROVE CleanupInv
BY DEF Cleanup!Init, CleanupInv, CleanupTypes, CleanupDisks, HeldInv, SpentInv, CleanupCall,
   CleanupStages, Sound, LeafType, OneGeneration, Resumable, Pairs, Cleanup!Has, Holds,
   Cleanup!Idle, Cleanup!CleanupAssumption, CleanupSteps, Cleanup!Leaves, Cleanup!Live,
   Cleanup!Quarantine, Cleanup!Markers, Pendings, Beginning, Quarantining, Deleting, Ending,
   IndexMoved, DataMoved

LEMMA CleanupNextInv ==
    ASSUME Cleanup!CleanupAssumption, CleanupInv, [Cleanup!Next]_Cleanup!vars
    PROVE  CleanupInv'
<1>1. CASE Cleanup!Call
  BY <1>1, CleanupReadKeeps, CleanupFreshKeeps, CleanupConfirmIntentKeeps,
     CleanupConfirmStagedKeeps, CleanupAdvanceKeeps, CleanupQuarantineIndexKeeps,
     CleanupSyncIndexKeeps, CleanupQuarantineDataKeeps, CleanupSyncDataKeeps,
     CleanupAuditPairKeeps, CleanupDeleteKeeps, CleanupSyncDeleteKeeps, CleanupSyncRetireKeeps,
     CleanupTailKeeps, CleanupSyncTailKeeps, CleanupPreparePendingKeeps, CleanupWritePendingKeeps,
     CleanupSyncPendingKeeps, CleanupRenameMarkerKeeps DEF Cleanup!Call
<1>2. CASE ~Cleanup!Call /\ Cleanup!Next
  BY <1>2, CleanupFailKeeps, CleanupPowerCutKeeps, CleanupIntrudeKeeps, CleanupNewStoreKeeps,
     CleanupBeginOrResumeKeeps, CleanupCrashKeeps, CleanupResumeKeeps DEF Cleanup!Next
<1>3. CASE UNCHANGED Cleanup!vars
  BY <1>3 DEF Cleanup!vars, CleanupInv, CleanupTypes, CleanupDisks, HeldInv, SpentInv,
     CleanupCall, CleanupStages, Cleanup!Idle
<1> QED BY <1>1, <1>2, <1>3

\* Whatever fails, dies or loses power, the deletion of a pair keeps the
\* invariant (OOCCleanupTransaction).
THEOREM CleanupInvariant == ASSUME Cleanup!CleanupAssumption PROVE Cleanup!Spec => []CleanupInv
<1>1. Cleanup!Init => CleanupInv BY CleanupInitInv
<1>2. CleanupInv /\ [Cleanup!Next]_Cleanup!vars => CleanupInv' BY CleanupNextInv
<1> QED BY <1>1, <1>2, PTL DEF Cleanup!Spec

\* The steps of a call, as far as they delete.
LEMMA RunAuthority ==
    ASSUME Cleanup!CleanupAssumption, CleanupInv, Cleanup!Call,
           NEW g \in Gens, NEW n \in Cleanup!Live \cup Cleanup!Quarantine, c_dir[n] = g,
             c_dir'[n] # g
    PROVE  \A d \in c_disk : d["intent"] = g /\ (n \in Cleanup!Quarantine => d["staged"] = g)
<1>1. c_dir' # c_dir
  OBVIOUS
<1>2. LeafType(c_dir) /\ OneGeneration(c_dir) /\ Resumable(c_dir)
  BY DEF CleanupInv, CleanupTypes, CleanupDisks, Sound
<1>3. CASE Cleanup!QuarantineIndex
  BY <1>2, <1>3 DEF CleanupInv, CleanupStages, Cleanup!QuarantineIndex, Cleanup!IndexAt,
     Cleanup!DataAt, Cleanup!Located, Cleanup!Entry, Cleanup!Look, Cleanup!Goto, Cleanup!Refuse,
     Cleanup!Return, Cleanup!Has, LeafType, Cleanup!Leaves, Cleanup!Live, Cleanup!Quarantine,
     Quarantining, Cleanup!CleanupAssumption
<1>4. CASE Cleanup!QuarantineData
  BY <1>2, <1>4 DEF CleanupInv, CleanupStages, Cleanup!QuarantineData, Cleanup!IndexAt,
     Cleanup!DataAt, Cleanup!Located, Cleanup!Entry, Cleanup!Look, Cleanup!Goto, Cleanup!Refuse,
     Cleanup!Return, Cleanup!Has, LeafType, Cleanup!Leaves, Cleanup!Live, Cleanup!Quarantine,
     Quarantining, Cleanup!CleanupAssumption
<1>5. CASE Cleanup!Delete
  BY <1>2, <1>5 DEF CleanupInv, CleanupStages, Cleanup!Delete, Cleanup!IndexAt, Cleanup!DataAt,
     Cleanup!Located, Cleanup!Entry, Cleanup!Goto, Cleanup!Refuse, Cleanup!Return, Cleanup!Has,
     LeafType, Cleanup!Leaves, Cleanup!Live, Cleanup!Quarantine, Deleting,
     Cleanup!CleanupAssumption
<1>6. CASE Cleanup!Tail
  BY <1>2, <1>6 DEF Cleanup!Tail, Cleanup!Entry, Cleanup!Refuse, Cleanup!Return, LeafType,
     Cleanup!Leaves, Cleanup!Live, Cleanup!Quarantine
<1>7. CASE \E m \in Cleanup!Markers : Cleanup!PreparePending(m) \/ Cleanup!WritePending(m)
        \/ Cleanup!SyncPending(m) \/ Cleanup!RenameMarker(m)
  BY <1>2, <1>7 DEF Cleanup!PreparePending, Cleanup!WritePending, Cleanup!SyncPending,
     Cleanup!RenameMarker, Cleanup!Entry, Cleanup!Look, Cleanup!SyncDir, Cleanup!Refuse,
     Cleanup!Return, LeafType, Cleanup!Leaves, Cleanup!Live, Cleanup!Quarantine, Cleanup!Markers,
     Cleanup!Pending
<1>8. CASE \/ Cleanup!Read \/ Cleanup!Fresh \/ Cleanup!ConfirmIntent \/ Cleanup!ConfirmStaged
                \/ Cleanup!Advance \/ Cleanup!SyncIndex \/ Cleanup!SyncData
            \/ Cleanup!AuditPair \/ Cleanup!SyncDelete \/ Cleanup!SyncRetire \/ Cleanup!SyncTail
  BY <1>1, <1>8 DEF Cleanup!Read, Cleanup!Fresh, Cleanup!ConfirmIntent, Cleanup!ConfirmStaged,
     Cleanup!Advance, Cleanup!SyncIndex, Cleanup!SyncData, Cleanup!AuditPair, Cleanup!SyncDelete,
     Cleanup!SyncRetire, Cleanup!SyncTail, Cleanup!Look, Cleanup!SyncDir, Cleanup!Refuse,
     Cleanup!Return, Cleanup!End
<1> QED BY <1>3, <1>4, <1>5, <1>6, <1>7, <1>8 DEF Cleanup!Call

\* A file is moved or deleted only under an intent, and deleted from quarantine
\* only under a staged marker, that no power cut takes back
\* (advance_transaction).
THEOREM CleanupAuthority ==
    ASSUME Cleanup!CleanupAssumption
    PROVE  Cleanup!Spec => Cleanup!ActsOnDurableAuthority
<1>1. CleanupInv /\ [Cleanup!Next]_Cleanup!vars => [Cleanup!OnAuthority]_Cleanup!vars
  <2> SUFFICES ASSUME CleanupInv, Cleanup!Next PROVE Cleanup!OnAuthority
    OBVIOUS
  <2>1. ASSUME NEW g \in Gens, NEW n \in Cleanup!Live \cup Cleanup!Quarantine, c_dir[n] = g,
          c_dir'[n] # g, Cleanup!Call
        PROVE  \A d \in c_disk : d["intent"] = g /\ (n \in Cleanup!Quarantine => d["staged"] = g)
    BY <2>1, RunAuthority
  <2> QED BY <2>1 DEF Cleanup!OnAuthority
<1> QED BY <1>1, CleanupInvariant, PTL DEF Cleanup!Spec, Cleanup!ActsOnDurableAuthority

\* Any directory that a power cut leaves can be taken up and finished by the
\* next call (advance_transaction, finish_staged_only_tail).
THEOREM CleanupResumable ==
    ASSUME Cleanup!CleanupAssumption
    PROVE  Cleanup!Spec => []Cleanup!EveryDiskResumable
<1>1. CleanupInv => Cleanup!EveryDiskResumable
  BY DEF CleanupInv, CleanupDisks, Sound, LeafType, Resumable, Cleanup!EveryDiskResumable,
     Cleanup!Markers, Cleanup!Quarantine
<1> QED BY <1>1, CleanupInvariant, PTL

\* A receipt that is spent has left no file that an intent does not account for
\* (begin_or_resume).
THEOREM CleanupAccounted ==
    ASSUME Cleanup!CleanupAssumption
    PROVE  Cleanup!Spec => []Cleanup!SpentIsAccountedFor
<1>1. CleanupInv => Cleanup!SpentIsAccountedFor
  BY DEF CleanupInv, SpentInv, Holds, Cleanup!SpentIsAccountedFor
<1> QED BY <1>1, CleanupInvariant, PTL

LEMMA RefusedForCause ==
    ASSUME Cleanup!CleanupAssumption, CleanupInv, Cleanup!Next, ~c_begin, ~Cleanup!Idle,
             c_step' = "refused"
    PROVE  \/ \E n \in Cleanup!Live : c_dir[n] = Foreign
           \/ c_gen \in Gens /\ Cleanup!Has(c_dir, "intent") /\ c_gen # c_dir["intent"]
<1> USE DEF Cleanup!Live, Cleanup!Quarantine
<1>1. LeafType(c_dir) /\ OneGeneration(c_dir) /\ Resumable(c_dir) /\ Pairs(c_dir)
  BY DEF CleanupInv, CleanupTypes, CleanupDisks, Sound
<1>2. CASE Cleanup!Read
  BY <1>2 DEF Cleanup!Read, Cleanup!Look, Cleanup!Goto, CleanupInv, CleanupTypes
<1>3. CASE Cleanup!Fresh
  BY <1>1, <1>3 DEF CleanupInv, CleanupStages, Cleanup!Fresh, Cleanup!Return, Cleanup!End,
     Resumable, LeafType, Cleanup!Leaves, Cleanup!Markers, Cleanup!Has, Cleanup!CleanupAssumption
<1>4. CASE Cleanup!Advance
  BY <1>1, <1>4 DEF CleanupInv, CleanupTypes, CleanupStages, Cleanup!Advance, Cleanup!SyncDir,
     Cleanup!Goto, Resumable, Cleanup!Has, Cleanup!CleanupAssumption
<1>5. CASE Cleanup!QuarantineIndex
  BY <1>1, <1>5 DEF CleanupInv, CleanupTypes, CleanupStages, Cleanup!QuarantineIndex,
     Cleanup!IndexAt, Cleanup!DataAt, Cleanup!Located, Cleanup!Entry, Cleanup!Look, Cleanup!Goto,
     Resumable, LeafType, OneGeneration, Pairs, Cleanup!Leaves, Cleanup!Markers, Cleanup!Has,
     Quarantining, Cleanup!CleanupAssumption
<1>6. CASE Cleanup!QuarantineData
  BY <1>1, <1>6 DEF CleanupInv, CleanupTypes, CleanupStages, Cleanup!QuarantineData,
     Cleanup!IndexAt, Cleanup!DataAt, Cleanup!Located, Cleanup!Entry, Cleanup!Look, Cleanup!Goto,
     Resumable, LeafType, OneGeneration, Pairs, Cleanup!Leaves, Cleanup!Markers, Cleanup!Has,
     Quarantining, IndexMoved, Cleanup!CleanupAssumption
<1>7. CASE Cleanup!AuditPair
  BY <1>1, <1>7 DEF CleanupInv, CleanupTypes, CleanupStages, Cleanup!AuditPair, Cleanup!IndexAt,
     Cleanup!DataAt, Cleanup!Located, Cleanup!Look, Cleanup!Goto, Resumable, LeafType,
     OneGeneration, Pairs, Cleanup!Leaves, Cleanup!Markers, Cleanup!Has, Quarantining, IndexMoved,
     DataMoved, Cleanup!CleanupAssumption
<1>8. CASE Cleanup!Delete
  BY <1>1, <1>8 DEF Cleanup!Delete, Cleanup!IndexAt, Cleanup!DataAt, Cleanup!Located,
     Cleanup!Entry, Cleanup!Goto, Resumable, LeafType, OneGeneration, Pairs, Cleanup!Leaves,
     Cleanup!Markers, Cleanup!Has, Deleting, Cleanup!CleanupAssumption
<1>9. CASE Cleanup!Tail
  BY <1>1, <1>9 DEF CleanupInv, CleanupTypes, CleanupStages, Cleanup!Tail, Cleanup!Entry,
     Cleanup!Goto, Resumable, LeafType, Cleanup!Leaves, Cleanup!Markers, Cleanup!Has, Ending,
     Cleanup!CleanupAssumption
<1>10. CASE \E m \in Cleanup!Markers : Cleanup!PreparePending(m)
  <2>1. PICK m \in Cleanup!Markers : Cleanup!PreparePending(m)
    BY <1>10
  <2>2. m = "staged"
    BY <2>1 DEF Cleanup!Markers, Cleanup!PreparePending, Cleanup!PublishStep, CleanupInv,
       CleanupStages, Beginning
  <2>3. c_step = "publish_staged" /\ c_dir["staged_pending"] \notin {NoFile, Torn, c_intent}
    BY <2>1, <2>2 DEF Cleanup!PreparePending, Cleanup!PublishStep, Cleanup!WriteStep,
       Cleanup!SyncStep, Cleanup!Pending, Cleanup!Entry, Cleanup!Look, Cleanup!Goto
  <2>4. c_intent \in Gens /\ c_dir["intent"] = c_intent
    BY <2>3 DEF CleanupInv, CleanupTypes, CleanupStages, Quarantining
  <2> QED BY <1>1, <2>3, <2>4 DEF LeafType, OneGeneration, Cleanup!Leaves, Cleanup!Markers,
     Pendings
<1>11. CASE \/ \E m \in Cleanup!Markers : Cleanup!WritePending(m) \/ Cleanup!SyncPending(m)
                 \/ Cleanup!RenameMarker(m)
            \/ Cleanup!ConfirmIntent \/ Cleanup!ConfirmStaged \/ Cleanup!SyncIndex
                 \/ Cleanup!SyncData \/ Cleanup!SyncDelete \/ Cleanup!SyncRetire
                      \/ Cleanup!SyncTail
  BY <1>11 DEF Cleanup!WritePending, Cleanup!SyncPending, Cleanup!RenameMarker,
     Cleanup!ConfirmIntent, Cleanup!ConfirmStaged, Cleanup!SyncIndex, Cleanup!SyncData,
     Cleanup!SyncDelete, Cleanup!SyncRetire, Cleanup!SyncTail, Cleanup!SyncStep,
     Cleanup!RenameStep, Cleanup!ConfirmStep, Cleanup!Entry, Cleanup!SyncDir, Cleanup!Goto,
     Cleanup!End, CleanupInv, CleanupTypes
<1>12. CASE ~Cleanup!Call
  <2>1. c_step = c_step' \/ c_step' = "idle"
    BY <1>12 DEF Cleanup!Next, Cleanup!Fail, Cleanup!Return, Cleanup!End, Cleanup!PowerCut,
       Cleanup!Intrude, Cleanup!NewStore, Cleanup!BeginOrResume, Cleanup!Resume, Cleanup!Crash,
       Cleanup!Idle
  <2> QED BY <2>1 DEF Cleanup!Idle
<1>13. Cleanup!Call => \/ Cleanup!Read \/ Cleanup!Fresh
                            \/ (\E m \in Cleanup!Markers : Cleanup!PreparePending(m))
                \/ (\E m \in Cleanup!Markers : Cleanup!WritePending(m) \/ Cleanup!SyncPending(m)
                     \/ Cleanup!RenameMarker(m))
                \/ Cleanup!ConfirmIntent \/ Cleanup!ConfirmStaged \/ Cleanup!Advance
                     \/ Cleanup!QuarantineIndex \/ Cleanup!SyncIndex
                \/ Cleanup!QuarantineData \/ Cleanup!SyncData \/ Cleanup!AuditPair
                     \/ Cleanup!Delete \/ Cleanup!SyncDelete \/ Cleanup!SyncRetire
                \/ Cleanup!Tail \/ Cleanup!SyncTail
  BY DEF Cleanup!Call
<1> QED BY <1>2, <1>3, <1>4, <1>5, <1>6, <1>7, <1>8, <1>9, <1>10, <1>11, <1>12, <1>13

\* A call that resumes a deletion is refused only for what a stranger put there
\* or what a power cut tore (advance_transaction).
THEOREM CleanupRefusals ==
    ASSUME Cleanup!CleanupAssumption
    PROVE  Cleanup!Spec => Cleanup!ResumeRefusedForCause
<1>1. CleanupInv /\ [Cleanup!Next]_Cleanup!vars =>
        [~c_begin /\ ~Cleanup!Idle /\ c_step' = "refused" =>
            \/ \E n \in Cleanup!Live : c_dir[n] = Foreign
            \/ c_gen \in Gens /\ Cleanup!Has(c_dir, "intent")
                 /\ c_gen # c_dir["intent"]]_Cleanup!vars
  BY RefusedForCause
<1> QED BY <1>1, CleanupInvariant, PTL DEF Cleanup!Spec, Cleanup!ResumeRefusedForCause

-----------------------------------------------------------------------------
\* SieveResume.  A checkpoint, under its name or kept by the disk, finds in the
\* store what it vouches for: SieveInv says so of the two files of the base
\* path, of the process and of each of its steps.  OnCourse says that a process
\* is, after any number of interruptions, where a run without any would be.

\* The checkpoints that the next process may find: the one under its name, and
\* the one that a power cut brings back.
Checkpointed == {s_names.ckpt, s_kept.ckpt} \ {None}

\* The first n rows of t begin with s.
Within(s, t, n) == Len(s) <= n /\ \A i \in 1 .. Len(s) : s[i] = t[i]

Pcs == {"down", "sieve", "suspend", "write", "rename", "settle", "finalize", "seal", "flush",
        "compare", "remove", "removed", "finish", "clean", "throw"}
Probes == [count : Nat, generation : Nat] \cup {None}
Saved == Sieve!Checkpoints \cup {None}
Runs ==
    [cursor : 0 .. Len(Yield), round : Nat, target : Nat, since : Nat,
        seen : SUBSET Sieve!Relations,
     generation : Nat, probed : Probes,
     terminal : Saved, preserve : BOOLEAN,
     recovered : {"no", "prefix", "terminal", "final"},
     saving : {"periodic", "terminal", "restore"}, remove : BOOLEAN]
Stores == [id : Nat, rows : Seq(Sieve!Relations), synced : Nat, sealed : BOOLEAN,
    safelySealed : BOOLEAN]
Directories == [pair : BOOLEAN, ckpt : Saved, tmp : BOOLEAN]

\* The values of the variables.
SieveTypes ==
    /\ s_pc \in Pcs
    /\ s_run \in Runs
    /\ s_store \in Stores
    /\ s_store.synced <= Len(s_store.rows) /\ (s_store.safelySealed => s_store.sealed)
    /\ s_names \in Directories
    /\ s_kept \in Directories
    /\ s_starts \in Nat

\* The store s has the rows that the checkpoint c vouches for, synced; a sealed
\* store has just those, and they are all.
Covers(s, c) ==
    /\ s.id = c.id /\ Within(c.rows, s.rows, s.synced)
    /\ s.sealed => c.complete /\ s.rows = c.rows

\* Every checkpoint that can be found finds its store.
Recoverable == \A c \in Checkpointed : s_names.pair /\ s_kept.pair /\ Covers(s_store, c)

\* The checkpoint on the disk is not newer than the one under the name.
KeptOlder ==
    /\ Sieve!NotOlder(s_kept.ckpt, s_names.ckpt)
    /\ s_kept.ckpt # None /\ s_names.ckpt # None
         => Len(s_kept.ckpt.rows) <= Len(s_names.ckpt.rows)

\* The terminal checkpoint of the run vouches for the store as it is.
Terminal ==
    /\ s_run.terminal # None /\ s_run.terminal.complete /\ s_run.terminal.cursor = s_run.cursor
    /\ s_run.terminal.rows = s_store.rows /\ s_run.terminal.id = s_store.id
    /\ s_store.synced = Len(s_store.rows)

\* What a running process knows: it is past every checkpoint, and one that does
\* not preserve the corpus has found none.
Running == s_pc # "down" =>
    /\ \A c \in Checkpointed : c.cursor <= s_run.cursor
    /\ s_run.terminal # None => s_run.terminal.cursor <= s_run.cursor
    /\ ~ s_run.preserve => Checkpointed = {}
    /\ s_run.recovered = "final" => Terminal

Saving == {"suspend", "write", "rename", "settle"}
Completing == {"finalize", "seal", "flush", "compare", "remove", "removed"}

\* What has been published and made durable at each step of a save and of the
\* completion of a run.
SieveStages ==
    /\ s_pc \notin {"down", "throw"} => s_names.pair
    /\ s_pc \in {"sieve", "suspend"} => s_run.saving # "restore"
    /\ s_pc = "sieve" /\ s_run.recovered = "final" => s_store.sealed
         /\ s_names.ckpt = s_run.terminal
    /\ s_pc \in {"sieve"} \cup Saving /\ s_store.sealed =>
          s_run.recovered = "final" \/ s_run.saving = "restore"
    /\ s_pc \in Saving /\ s_run.recovered = "final" => s_run.saving = "restore"
    /\ s_pc \in Saving \ {"suspend"} =>
          s_kept.pair /\ s_run.preserve /\ s_store.synced = Len(s_store.rows)
    /\ s_pc = "settle" => s_names.ckpt = Sieve!Intended
    /\ s_pc \in Saving /\ s_run.saving = "restore" => s_store.sealed /\ Terminal
    /\ s_pc \in Completing => s_run.preserve /\ Terminal
    /\ s_pc \in Completing \ {"removed"} => s_names.ckpt = s_run.terminal
    /\ s_pc \in {"seal", "flush"} => s_kept.ckpt = s_run.terminal
    /\ s_pc = "finalize" /\ s_run.recovered = "final" => s_store.sealed
    /\ s_pc \in {"flush", "compare", "remove", "removed"} => s_store.sealed
    /\ s_pc = "removed" => s_kept.pair
    /\ s_pc \in {"removed", "finish", "clean"} => s_names.ckpt = None
    /\ s_pc \in {"finish", "clean"} => s_kept.ckpt = None

\* The states of a run that nothing interrupts, between two batches; Alone[k]
\* is the one after k steps, and Goal the last.
States == [cursor : 0 .. Sieve!Budget, round : 0 .. RoundLimit - 1, target : Nat,
    rows : Seq(Sieve!Relations)]
Ended(at) == Sieve!Sifted(at.cursor, Len(at.rows), at.target)
    /\ Sieve!LastRound(at.cursor, Len(at.rows), at.round)
Visited(at) == \E n \in 0 .. Sieve!Longest : Sieve!Alone[n] = at

\* Where a checkpoint, and where the process, is on that way.
Position(c) == [cursor |-> c.cursor, round |-> c.round, target |-> c.target, rows |-> c.rows]
Right(c) == Visited(Position(c)) /\ (c.complete => Ended(Position(c)))
Here == [cursor |-> s_run.cursor, round |-> s_run.round, target |-> s_run.target,
    rows |-> s_store.rows]

\* The sieving is over, and the run only has to be completed.
Over ==
    \/ s_run.recovered \in {"terminal", "final"} \/ s_pc \in Completing \cup {"finish", "clean"}
    \/ s_pc \in Saving /\ s_run.saving \in {"terminal", "restore"}

\* Every checkpoint, and the process, is where the run that nothing interrupts
\* comes by; a complete checkpoint is at its end, and what was delivered is its
\* corpus.
CheckpointsRight ==
    /\ \A c \in Checkpointed : Right(c)
    /\ s_run.terminal # None => Right(s_run.terminal)
OnTheWay == s_pc \notin {"down", "throw"} =>
    s_run.seen = Sieve!ToSet(s_store.rows) /\ Visited(Here) /\ (Over => Ended(Here))
OnCourse == CheckpointsRight /\ OnTheWay /\ Sieve!CorpusExact

\* The inductive invariant.
SieveInv == SieveTypes /\ Recoverable /\ KeptOlder /\ Running /\ SieveStages

LEMMA WithinIsPrefix ==
    ASSUME NEW S, NEW s \in Seq(S), NEW t \in Seq(S), NEW n \in 0 .. Len(t)
    PROVE  /\ Sieve!IsPrefix(s, SubSeq(t, 1, n)) <=> Within(s, t, n)
           /\ Sieve!IsPrefix(s, t) <=> Within(s, t, Len(t))
BY DEF Sieve!IsPrefix, Within

\* A set of numbers that is not empty has a least element.
LEMMA LeastElement ==
    ASSUME NEW T \in SUBSET Nat, T # {}
    PROVE  \E i \in T : \A k \in T : i <= k
<1>1. PICK i \in T : \A k \in T : ~(<<k, i>> \in OpToRel(<, Nat))
  BY NatLessThanWellFounded, WFMin
<1>2. \A k \in T : ~(k < i)
  BY <1>1 DEF OpToRel
<1> QED BY <1>2

\* What a batch adds is of the batch, and with what was seen it is all of it.
LEMMA UnseenType ==
    ASSUME NEW seen, NEW batch \in Seq(Sieve!Relations)
    PROVE  /\ Sieve!Unseen(seen, batch) \in Seq(Sieve!Relations)
           /\ seen \cup Sieve!ToSet(Sieve!Unseen(seen, batch)) = seen \cup Sieve!ToSet(batch)
<1> DEFINE first == {i \in DOMAIN batch : batch[i] \notin seen
      /\ \A j \in 1 .. i - 1 : batch[j] # batch[i]}
           before(i) == Cardinality(first \cap (1 .. i))
           picked(n) == CHOOSE i \in first : before(i) = n
<1>1. Len(batch) \in Nat /\ DOMAIN batch = 1 .. Len(batch) /\ first \subseteq 1 .. Len(batch)
  OBVIOUS
<1>2. IsFiniteSet(1 .. Len(batch))
  BY <1>1, FS_Interval
<1>3. \A T \in SUBSET first : IsFiniteSet(T) /\ Cardinality(T) \in Nat
  BY <1>1, <1>2, FS_Subset, FS_CardinalityType
<1>4. before(0) = 0 /\ before(Len(batch)) = Cardinality(first) /\ \A i \in Nat : before(i) \in Nat
  <2>1. first \cap (1 .. 0) = {} /\ first \cap (1 .. Len(batch)) = first
    BY <1>1
  <2> QED BY <1>3, <2>1, FS_EmptySet
<1> HIDE DEF first
<1>5. \A n \in 1 .. Cardinality(first) : \E i \in first : before(i) = n
  <2> SUFFICES ASSUME NEW n \in 1 .. Cardinality(first) PROVE \E i \in first : before(i) = n
    OBVIOUS
  <2> DEFINE T == {i \in Nat : before(i) >= n}
  <2>1. Len(batch) \in T /\ T \subseteq Nat
    BY <1>1, <1>3, <1>4
  <2>2. PICK i \in T : \A k \in T : i <= k
    BY <2>1, LeastElement
  <2>3. i \in Nat /\ i # 0 /\ i - 1 \in Nat /\ ~ before(i - 1) >= n
    <3>1. i \in Nat /\ i # 0
      <4>1. i \in Nat /\ before(i) >= n
        BY <2>2
      <4> HIDE DEF before
      <4> QED BY <1>4, <4>1
    <3>2. i - 1 \in Nat /\ i - 1 \notin T
      BY <2>2, <3>1
    <3> QED BY <3>1, <3>2
  <2>4. CASE i \notin first
    <3>1. first \cap (1 .. i) = first \cap (1 .. (i - 1))
      BY <1>1, <2>3, <2>4
    <3> QED BY <2>2, <2>3, <3>1
  <2>5. CASE i \in first
    <3>1. first \cap (1 .. i) = (first \cap (1 .. (i - 1))) \cup {i}
            /\ i \notin first \cap (1 .. (i - 1))
      BY <1>1, <2>3, <2>5
    <3>2. before(i) = before(i - 1) + 1
      BY <1>3, <3>1, FS_AddElement
    <3>3. before(i) \in Nat /\ before(i - 1) \in Nat /\ before(i) >= n /\ n \in Nat
      BY <1>3, <1>4, <2>2, <2>3
    <3>4. before(i) = n
      <4> HIDE DEF before
      <4> QED BY <2>3, <3>2, <3>3
    <3> QED BY <2>5, <3>4
  <2> QED BY <2>4, <2>5
<1>6. \A n \in 1 .. Cardinality(first) : batch[picked(n)] \in Sieve!Relations
  <2> SUFFICES ASSUME NEW n \in 1 .. Cardinality(first) PROVE batch[picked(n)] \in Sieve!Relations
    OBVIOUS
  <2>1. picked(n) \in first
    BY <1>5
  <2>2. \A i \in first : batch[i] \in Sieve!Relations
    BY <1>1
  <2> HIDE DEF picked
  <2> QED BY <2>1, <2>2
<1>7. Cardinality(first) \in Nat
  BY <1>3
<1> DEFINE all == [n \in 1 .. Cardinality(first) |-> batch[picked(n)]]
<1>8. all \in Seq(Sieve!Relations) /\ DOMAIN all = 1 .. Cardinality(first)
  <2>1. \A N \in Nat : \A f \in [1 .. N -> Sieve!Relations] : f \in Seq(Sieve!Relations)
    OBVIOUS
  <2> HIDE DEF picked
  <2>2. [n \in 1 .. Cardinality(first) |-> batch[picked(n)]] \in [1 .. Cardinality(first) -> Sieve!Relations]
    BY <1>6
  <2> QED BY <1>7, <2>1, <2>2
<1>9. \A n \in 1 .. Cardinality(first) : picked(n) \in first
  BY <1>5
<1>10. \A i \in first : before(i) \in 1 .. Cardinality(first) /\ picked(before(i)) = i
  <2> SUFFICES ASSUME NEW i \in first PROVE before(i) \in 1 .. Cardinality(first)
        /\ picked(before(i)) = i
    OBVIOUS
  <2>1. \A j, k \in first : j < k => before(j) < before(k)
    <3> SUFFICES ASSUME NEW j \in first, NEW k \in first, j < k PROVE before(j) < before(k)
      OBVIOUS
    <3>1. first \cap (1 .. j) \subseteq first \cap (1 .. k) /\ k \in first \cap (1 .. k)
            /\ k \notin first \cap (1 .. j)
      BY <1>1
    <3>2. Cardinality(first \cap (1 .. j)) < Cardinality(first \cap (1 .. k))
      <4>1. IsFiniteSet(first \cap (1 .. k)) /\ first \cap (1 .. j) # first \cap (1 .. k)
        BY <1>3, <3>1
      <4>2. Cardinality(first \cap (1 .. j)) <= Cardinality(first \cap (1 .. k))
            /\ (Cardinality(first \cap (1 .. j)) = Cardinality(first \cap (1 .. k))
                  => first \cap (1 .. j) = first \cap (1 .. k))
        BY <3>1, <4>1, FS_Subset
      <4>3. Cardinality(first \cap (1 .. j)) \in Nat /\ Cardinality(first \cap (1 .. k)) \in Nat
        BY <1>3
      <4> QED BY <4>1, <4>2, <4>3
    <3> QED BY <3>2
  <2>2. before(i) \in 1 .. Cardinality(first)
    <3>1. first \cap (1 .. i) \subseteq first /\ IsFiniteSet(first) /\ first \cap (1 .. i) # {}
      BY <1>1, <1>3
    <3>2. Cardinality(first \cap (1 .. i)) <= Cardinality(first)
      BY <3>1, FS_Subset
    <3>3. Cardinality(first \cap (1 .. i)) # 0
      BY <1>3, <3>1, FS_EmptySet
    <3>4. Cardinality(first \cap (1 .. i)) \in Nat /\ Cardinality(first) \in Nat
      BY <1>3
    <3> QED BY <3>2, <3>3, <3>4
  <2>3. picked(before(i)) \in first /\ before(picked(before(i))) = before(i)
    BY <2>2, <1>5
  <2>4. \A j \in first : j \in Nat /\ before(j) \in Nat
    BY <1>1, <1>3
  <2> DEFINE k == picked(before(i))
  <2>5. k \in first /\ before(k) = before(i)
    BY <2>3
  <2> HIDE DEF k, before
  <2>6. k = i
    <3>1. ~ k < i /\ ~ i < k
      BY <2>1, <2>4, <2>5
    <3> QED BY <2>4, <2>5, <3>1
  <2> QED BY <2>2, <2>6 DEF k
<1>11. \A i \in DOMAIN batch : batch[i] \notin seen => \E j \in first : batch[j] = batch[i]
  <2> SUFFICES ASSUME NEW i \in DOMAIN batch,
        batch[i] \notin seen PROVE \E j \in first : batch[j] = batch[i]
    OBVIOUS
  <2> DEFINE T == {k \in DOMAIN batch : batch[k] = batch[i]}
  <2>1. T \subseteq Nat /\ i \in T
    BY <1>1
  <2>2. PICK j \in T : \A k \in T : j <= k
    BY <2>1, LeastElement
  <2>3. j \in 1 .. Len(batch) /\ \A k \in 1 .. j - 1 : k \in 1 .. Len(batch) /\ ~ j <= k
    BY <1>1, <2>2
  <2>4. \A k \in 1 .. j - 1 : batch[k] # batch[j]
    BY <1>1, <2>2, <2>3
  <2> QED BY <1>1, <2>2, <2>4 DEF first
<1>12. \A i \in first : i \in DOMAIN batch
  BY <1>1
<1>13. \A n \in 1 .. Cardinality(first) : all[n] = batch[picked(n)]
  OBVIOUS
<1> HIDE DEF all, picked, before
<1>14. seen \cup Sieve!ToSet(all) = seen \cup Sieve!ToSet(batch)
  <2>1. ASSUME NEW r \in Sieve!ToSet(all) PROVE r \in Sieve!ToSet(batch)
    <3>1. PICK n \in 1 .. Cardinality(first) : r = all[n]
      BY <1>8 DEF Sieve!ToSet
    <3> QED BY <1>9, <1>12, <1>13, <3>1 DEF Sieve!ToSet
  <2>2. ASSUME NEW r \in Sieve!ToSet(batch), r \notin seen PROVE r \in Sieve!ToSet(all)
    <3>1. PICK i \in DOMAIN batch : r = batch[i]
      BY DEF Sieve!ToSet
    <3>2. PICK j \in first : batch[j] = r
      BY <1>11, <2>2, <3>1
    <3>3. before(j) \in 1 .. Cardinality(first) /\ all[before(j)] = r
      BY <1>10, <1>13, <3>2
    <3> QED BY <1>8, <3>3 DEF Sieve!ToSet
  <2> QED BY <2>1, <2>2
<1> QED BY <1>8, <1>14 DEF Sieve!Unseen, Sieve!Cardinality, Cardinality, first, all, picked,
   before

\* The run that nothing interrupts, step by step.
LEMMA AloneEquation ==
    ASSUME Sieve!SieveResumeAssumption
    PROVE  Sieve!Alone = [n \in 0 .. Sieve!Longest |->
                       IF n = 0 THEN [cursor |-> 0, round |-> 0, target |-> FirstTarget,
                           rows |-> <<>>]
                                ELSE Sieve!Onward(Sieve!Alone[n - 1])]
<1> DEFINE start == [cursor |-> 0, round |-> 0, target |-> FirstTarget, rows |-> <<>>]
           Is(f, m) == f = [n \in 0 .. m |-> IF n = 0 THEN start ELSE Sieve!Onward(f[n - 1])]
           T == {m \in Nat : ~ \E f : Is(f, m)}
<1>1. Sieve!Longest \in Nat
  BY DEF Sieve!Longest, Sieve!Budget, Sieve!SieveResumeAssumption
<1> HIDE DEF start
<1>2. T = {}
  <2> SUFFICES ASSUME T # {} PROVE FALSE
    OBVIOUS
  <2>1. PICK m \in T : \A k \in T : m <= k
    BY LeastElement
  <2>2. m # 0
    <3>1. Is([n \in 0 .. 0 |-> start], 0)
      OBVIOUS
    <3> QED BY <2>1, <3>1
  <2>7. T \subseteq Nat
    OBVIOUS
  <2>8. m \in Nat /\ m - 1 \in Nat /\ ~ m <= m - 1
    BY <2>1, <2>2, <2>7
  <2>9. m - 1 \notin T
    <3> HIDE DEF T
    <3> QED BY <2>1, <2>8
  <2>3. m - 1 \in Nat /\ m \in Nat /\ m - 1 \notin T
    BY <2>8, <2>9
  <2>4. PICK f : Is(f, m - 1)
    BY <2>3
  <2> DEFINE g == [n \in 0 .. m |-> IF n = m THEN Sieve!Onward(f[m - 1]) ELSE f[n]]
  <2>5. \A n \in 0 .. m : g[n] = IF n = 0 THEN start ELSE Sieve!Onward(g[n - 1])
    <3> SUFFICES ASSUME NEW n \in 0 .. m PROVE g[n] = IF n = 0 THEN start
          ELSE Sieve!Onward(g[n - 1])
      OBVIOUS
    <3>1. CASE n = m
      <4>1. n # 0 /\ n - 1 \in 0 .. m /\ n - 1 # m /\ n - 1 = m - 1
        BY <2>2, <2>3, <3>1
      <4> QED BY <3>1, <4>1
    <3>2. CASE n # m
      <4>1. n \in 0 .. m - 1 /\ g[n] = f[n]
        BY <2>3, <3>2
      <4>2. f[n] = IF n = 0 THEN start ELSE Sieve!Onward(f[n - 1])
        BY <2>4, <4>1
      <4>3. n # 0 => n - 1 \in 0 .. m /\ n - 1 # m
        BY <2>3, <4>1
      <4> QED BY <4>1, <4>2, <4>3
    <3> QED BY <3>1, <3>2
  <2>6. Is(g, m)
    BY <2>5
  <2> QED BY <2>1, <2>6
<1>3. \E f : Is(f, Sieve!Longest)
  BY <1>1, <1>2
<1>4. Sieve!Alone = CHOOSE f : Is(f, Sieve!Longest)
  BY DEF Sieve!Alone, start
<1> QED BY <1>3, <1>4 DEF start

LEMMA IdleIsRun == ASSUME Sieve!SieveResumeAssumption PROVE Sieve!Idle \in Runs
<1>1. Len(Yield) \in Nat
  BY DEF Sieve!SieveResumeAssumption
<1>2. None \in Probes /\ None \in Saved /\ FirstTarget \in Nat
  BY DEF Probes, Saved, Sieve!SieveResumeAssumption
<1> QED BY <1>1, <1>2 DEF Sieve!Idle, Runs

\* A checkpoint's rows stay in a store that is cut to its synced rows.
LEMMA SieveCutKeeps ==
    ASSUME s_store \in Stores, s_store.synced <= Len(s_store.rows),
             NEW s \in Sieve!CutTail(s_store)
    PROVE  /\ s \in Stores /\ s.synced = s_store.synced /\ s.synced <= Len(s.rows)
           /\ s.id = s_store.id /\ s.sealed = s_store.sealed
                /\ s.safelySealed = s_store.safelySealed
           /\ \A c \in Sieve!Checkpoints : Covers(s_store, c) => Covers(s, c)
<1>1. PICK n \in s_store.synced .. Len(s_store.rows) : s = [s_store EXCEPT !.rows = SubSeq(@, 1,
        n)]
  BY DEF Sieve!CutTail
<1>2. /\ s_store.rows \in Seq(Sieve!Relations) /\ n \in Nat
           /\ n <= Len(s_store.rows) /\ s_store.synced \in Nat
      /\ s_store.synced <= n
  BY <1>1 DEF Stores
<1> DEFINE rows == SubSeq(s_store.rows, 1, n)
<1>3. rows \in Seq(Sieve!Relations) /\ Len(rows) = n
        /\ \A i \in 1 .. n : rows[i] = s_store.rows[i]
  BY <1>2
<1>4. n = Len(s_store.rows) => rows = s_store.rows
  BY <1>2
<1>5. s = [s_store EXCEPT !.rows = rows]
  BY <1>1 DEF Stores
<1> HIDE DEF rows
<1>6. /\ s \in Stores /\ s.synced = s_store.synced /\ s.synced <= Len(s.rows) /\ s.rows = rows
      /\ s.id = s_store.id /\ s.sealed = s_store.sealed /\ s.safelySealed = s_store.safelySealed
  BY <1>2, <1>3, <1>5 DEF Stores
<1>7. ASSUME NEW c \in Sieve!Checkpoints, Covers(s_store, c) PROVE Covers(s, c)
  <2>1. Len(c.rows) \in Nat /\ Len(c.rows) <= s_store.synced
    BY <1>7 DEF Sieve!Checkpoints, Covers, Within
  <2>2. Within(c.rows, s.rows, s.synced)
    BY <1>2, <1>3, <1>6, <1>7, <2>1 DEF Covers, Within
  <2>3. s.sealed => c.complete /\ s.rows = c.rows
    BY <1>2, <1>4, <1>6, <1>7, <2>1 DEF Covers
  <2> QED BY <1>6, <1>7, <2>2, <2>3 DEF Covers
<1> QED BY <1>6, <1>7

\* What a step may do to the store without harm to a checkpoint.
LEMMA CoversStill ==
    ASSUME NEW s \in Stores, NEW t \in Stores, NEW c \in Sieve!Checkpoints, Covers(s, c),
           s.synced <= t.synced, t.rows = s.rows, t.id = s.id, t.sealed => s.sealed
    PROVE  Covers(t, c)
<1>1. Len(c.rows) \in Nat /\ s.synced \in Nat /\ t.synced \in Nat
  BY DEF Sieve!Checkpoints, Stores
<1> QED BY <1>1 DEF Covers, Within

LEMMA FoundTyped ==
    ASSUME s_names \in Directories, s_kept \in Directories
    PROVE  Checkpointed \subseteq Sieve!Checkpoints /\ None \notin Checkpointed
BY DEF Checkpointed, Directories, Saved

LEMMA IntendedCovers ==
    ASSUME Sieve!SieveResumeAssumption, SieveInv, s_pc \in {"rename", "settle"}
    PROVE  /\ Sieve!Intended \in Sieve!Checkpoints /\ Sieve!Intended # None
           /\ Sieve!Intended.id = s_store.id /\ Sieve!Intended.rows = s_store.rows
                /\ Sieve!Intended.cursor = s_run.cursor
           /\ s_store.sealed => Sieve!Intended.complete
           /\ s_run.saving = "terminal" => Sieve!Intended.complete
           /\ Covers(s_store, Sieve!Intended)
<1> USE DEF SieveInv
<1>1. s_run \in Runs /\ s_store \in Stores /\ s_store.synced = Len(s_store.rows)
  BY DEF SieveTypes, SieveStages, Saving
<1>2. Sieve!Intended \in Sieve!Checkpoints
  BY <1>1 DEF Sieve!Intended, Runs, Stores, Saved, Sieve!Checkpoints, SieveStages, Saving,
     Terminal
<1>3. PICK c \in Sieve!Checkpoints : c = Sieve!Intended
  BY <1>2
<1>4. c # None
  BY DEF Sieve!SieveResumeAssumption
<1>5. /\ c.id = s_store.id /\ c.rows = s_store.rows /\ c.cursor = s_run.cursor
      /\ s_store.sealed => c.complete
      /\ s_run.saving = "terminal" => c.complete
  <2>1. CASE s_run.saving = "restore"
    BY <1>3, <2>1 DEF Sieve!Intended, SieveStages, Saving, Terminal
  <2>2. CASE s_run.saving # "restore"
    <3>1. ~ s_store.sealed
      BY <2>2 DEF SieveStages, Saving
    <3> QED BY <1>3, <2>2, <3>1 DEF Sieve!Intended
  <2> QED BY <2>1, <2>2
<1>6. Covers(s_store, c)
  BY <1>1, <1>5 DEF Covers, Within, Stores
<1> QED BY <1>3, <1>4, <1>5, <1>6

\* Every step of a process, every failure of a call and every power cut keeps
\* the invariant.
LEMMA SieveStartFreshKeeps ==
    ASSUME Sieve!SieveResumeAssumption, SieveInv, Sieve!StartFresh
    PROVE  SieveInv'
<1> USE DEF SieveInv
<1>a. s_run \in Runs /\ s_store \in Stores /\ s_names \in Directories /\ s_kept \in Directories
  BY DEF SieveTypes

<1>b. PICK remove \in BOOLEAN : s_run' = [Sieve!Idle EXCEPT !.remove = remove]
  BY DEF Sieve!StartFresh, Sieve!SieveResumeAssumption
<1>c. /\ s_run' \in Runs /\ s_run'.terminal = None /\ s_run'.preserve = FALSE
      /\ s_run'.recovered = "no" /\ s_run'.saving = "periodic"
  BY IdleIsRun, <1>b DEF Sieve!Idle, Runs
<1>d. Checkpointed = {} /\ Checkpointed' = {}
  BY <1>a DEF Recoverable, Checkpointed, Sieve!StartFresh, Directories
<1>e. s_store'.sealed = FALSE /\ s_pc' = "sieve" /\ s_names'.pair
  BY <1>a DEF Sieve!StartFresh, Directories
<1>1. SieveTypes'
  <2>1. s_pc' \in Pcs
    BY DEF SieveInv, SieveTypes, Pcs, Sieve!StartFresh, Sieve!Launch
  <2>2. s_run' \in Runs
    BY <1>c
  <2>3. s_store' \in Stores /\ s_store'.synced <= Len(s_store'.rows)
          /\ (s_store'.safelySealed => s_store'.sealed)
    BY DEF SieveInv, SieveTypes, Stores, Sieve!StartFresh, Sieve!Launch
  <2>4. s_names' \in Directories /\ s_kept' \in Directories
    BY DEF SieveInv, SieveTypes, Directories, Saved, Sieve!StartFresh, Sieve!Launch
  <2>5. s_starts' \in Nat
    BY DEF SieveInv, SieveTypes, Sieve!StartFresh, Sieve!Launch
  <2> QED BY <2>1, <2>2, <2>3, <2>4, <2>5 DEF SieveTypes
<1>2. Recoverable'
  BY DEF Recoverable, Checkpointed, Sieve!StartFresh, Sieve!Launch
<1>3. KeptOlder'
  BY DEF Recoverable, KeptOlder, Checkpointed, Stores, Directories, Sieve!NotOlder,
     Sieve!StartFresh, Sieve!Launch
<1>4. Running'
  BY <1>c, <1>d DEF Running
<1>5. SieveStages'
  BY <1>c, <1>e DEF SieveStages, Saving, Completing
<1> QED BY <1>1, <1>2, <1>3, <1>4, <1>5 DEF SieveInv

LEMMA SieveRecoverKeeps ==
    ASSUME Sieve!SieveResumeAssumption, SieveInv, Sieve!Recover
    PROVE  SieveInv'
<1> USE DEF SieveInv
<1>a. s_run \in Runs /\ s_store \in Stores /\ s_names \in Directories /\ s_kept \in Directories
  BY DEF SieveTypes

<1>b. PICK c \in Sieve!Checkpoints : c = s_names.ckpt /\ c \in Checkpointed
  BY <1>a DEF Sieve!Recover, Directories, Saved, Checkpointed
<1>c. s_names.pair /\ s_kept.pair /\ Covers(s_store, c)
  BY <1>b DEF Recoverable
<1>d. c.cursor \in 0 .. Len(Yield) /\ c.round \in Nat /\ c.target \in Nat /\ c.generation \in Nat
      /\ c.rows \in Seq(Sieve!Relations) /\ Sieve!ToSet(c.rows) \in SUBSET Sieve!Relations
           /\ c.complete \in BOOLEAN /\ c.id \in Nat
  BY DEF Sieve!Checkpoints, Sieve!ToSet
<1>e. PICK how \in {"prefix", "terminal", "final"}, remove \in BOOLEAN :
        /\ s_run' = Sieve!Resumed(c, how, remove)
        /\ \/ how # "final" /\ Sieve!PrefixIntact(c)
             /\ s_store' = [s_store EXCEPT !.rows = c.rows,
                               !.synced = IF @ < Len(c.rows) THEN @ ELSE Len(c.rows)]
           \/ how = "final" /\ Sieve!FinalIntact(c) /\ UNCHANGED s_store
  BY <1>b DEF Sieve!Recover, Sieve!SieveResumeAssumption
<1>f. /\ s_run' \in Runs /\ s_run'.terminal = c /\ s_run'.preserve = TRUE
           /\ s_run'.cursor = c.cursor
      /\ s_run'.recovered = how /\ s_run'.saving = "periodic"
  <2> DEFINE seen == Sieve!ToSet(c.rows)
  <2>1. s_run' = [cursor |-> c.cursor, round |-> c.round, target |-> c.target, since |-> 0,
                seen |-> seen, generation |-> c.generation, probed |-> None, terminal |-> c,
                preserve |-> TRUE, recovered |-> how, saving |-> "periodic", remove |-> remove]
    BY <1>e DEF Sieve!Resumed, Sieve!Idle
  <2>2. seen \in SUBSET Sieve!Relations /\ c \in Saved /\ None \in Probes
    BY <1>d DEF Saved, Probes
  <2> HIDE DEF seen
  <2> QED BY <1>d, <2>1, <2>2 DEF Runs
<1>g. /\ s_store' \in Stores /\ s_store'.synced = Len(s_store'.rows) /\ s_store'.rows = c.rows
      /\ s_store'.id = s_store.id /\ s_store'.sealed = s_store.sealed
      /\ s_store'.safelySealed = s_store.safelySealed
  <2>1. Len(c.rows) <= s_store.synced /\ s_store.synced <= Len(s_store.rows) /\ s_store.id = c.id
    BY <1>c DEF Covers, Within, SieveTypes
  <2>2. CASE how # "final"
    <3>1. Len(c.rows) \in Nat /\ s_store.synced \in Nat /\ Len(c.rows) <= s_store.synced
      BY <1>a, <1>d, <2>1 DEF Stores
    <3>2. (IF s_store.synced < Len(c.rows) THEN s_store.synced ELSE Len(c.rows)) = Len(c.rows)
      BY <3>1
    <3>3. s_store' = [s_store EXCEPT !.rows = c.rows, !.synced = Len(c.rows)]
      BY <1>a, <1>e, <2>2, <3>2 DEF Stores
    <3> QED BY <1>a, <1>d, <3>1, <3>3 DEF Stores
  <2>3. CASE how = "final"
    BY <1>a, <1>d, <1>e, <2>1, <2>3 DEF Stores, Sieve!FinalIntact
  <2> QED BY <2>2, <2>3
<1>h. s_pc' = "sieve" /\ s_names' = s_names /\ s_kept' = s_kept /\ Checkpointed' = Checkpointed
  BY DEF Sieve!Recover, Checkpointed
<1>i. s_store.sealed = (how = "final") /\ (how = "final" => c.complete)
  BY <1>a, <1>e DEF Sieve!PrefixIntact, Sieve!FinalIntact, Stores
<1>1. SieveTypes'
  <2>1. s_pc' \in Pcs
    BY DEF SieveInv, SieveTypes, Pcs, Sieve!Recover, Sieve!Launch, Sieve!PrefixIntact,
       Sieve!FinalIntact, Sieve!Resumed, Sieve!Idle
  <2>2. s_run' \in Runs
    BY <1>f
  <2>3. s_store' \in Stores /\ s_store'.synced <= Len(s_store'.rows)
          /\ (s_store'.safelySealed => s_store'.sealed)
    BY <1>a, <1>g DEF SieveTypes
  <2>4. s_names' \in Directories /\ s_kept' \in Directories
    BY DEF SieveInv, SieveTypes, Directories, Saved, Sieve!Recover, Sieve!Launch,
       Sieve!PrefixIntact, Sieve!FinalIntact, Sieve!Resumed, Sieve!Idle
  <2>5. s_starts' \in Nat
    BY DEF SieveInv, SieveTypes, Sieve!Recover, Sieve!Launch, Sieve!PrefixIntact,
       Sieve!FinalIntact, Sieve!Resumed, Sieve!Idle
  <2> QED BY <2>1, <2>2, <2>3, <2>4, <2>5 DEF SieveTypes
<1>2. Recoverable'

  <2> SUFFICES ASSUME NEW d \in Checkpointed PROVE Covers(s_store', d)
    BY <1>b, <1>c, <1>h DEF Recoverable
  <2>1. Covers(s_store, d) /\ d \in Sieve!Checkpoints
    BY <1>a DEF Recoverable, Checkpointed, Directories, Saved
  <2>2. Len(d.rows) <= Len(c.rows) /\ d.rows \in Seq(Sieve!Relations)
    BY <1>b, <2>1 DEF KeptOlder, Checkpointed, Sieve!Checkpoints
  <2>3. \A i \in 1 .. Len(d.rows) : d.rows[i] = c.rows[i]
    BY <1>c, <1>d, <2>1, <2>2 DEF Covers, Within
  <2>4. s_store'.sealed => d.complete /\ s_store'.rows = d.rows
    BY <1>c, <1>g, <2>1 DEF Covers
  <2>5. s_store'.id = d.id
    BY <1>g, <2>1 DEF Covers
  <2> QED BY <1>g, <2>2, <2>3, <2>4, <2>5 DEF Covers, Within
<1>3. KeptOlder'
  BY <1>g, <1>h DEF KeptOlder, Sieve!NotOlder
<1>4. Running'

  <2>1. \A d \in Checkpointed : d.cursor <= c.cursor
    BY <1>b, <1>d DEF KeptOlder, Sieve!NotOlder, Checkpointed
  <2>2. s_run'.recovered = "final" => Terminal'
    BY <1>c, <1>f, <1>g, <1>i, <1>a, <1>b DEF Terminal, Covers, Checkpointed
  <2> QED BY <1>d, <1>f, <1>h, <2>1, <2>2 DEF Running
<1>5. SieveStages'
  BY <1>a, <1>b, <1>c, <1>f, <1>g, <1>h, <1>i DEF SieveStages, Saving, Completing, Stores
<1> QED BY <1>1, <1>2, <1>3, <1>4, <1>5 DEF SieveInv

LEMMA SieveRefuseKeeps ==
    ASSUME Sieve!SieveResumeAssumption, SieveInv, Sieve!Refuse
    PROVE  SieveInv'
<1> USE DEF SieveInv
<1>a. s_run \in Runs /\ s_store \in Stores /\ s_names \in Directories /\ s_kept \in Directories
  BY DEF SieveTypes
<1>1. SieveTypes'
  <2>1. s_pc' \in Pcs
    BY DEF SieveInv, SieveTypes, Pcs, Sieve!Refuse, Sieve!Launch
  <2>2. s_run' \in Runs
    BY IdleIsRun DEF SieveInv, SieveTypes, Runs, Sieve!Refuse, Sieve!Launch
  <2>3. s_store' \in Stores /\ s_store'.synced <= Len(s_store'.rows)
          /\ (s_store'.safelySealed => s_store'.sealed)
    BY DEF SieveInv, SieveTypes, Stores, Sieve!Refuse, Sieve!Launch
  <2>4. s_names' \in Directories /\ s_kept' \in Directories
    BY DEF SieveInv, SieveTypes, Directories, Saved, Sieve!Refuse, Sieve!Launch
  <2>5. s_starts' \in Nat
    BY DEF SieveInv, SieveTypes, Sieve!Refuse, Sieve!Launch
  <2> QED BY <2>1, <2>2, <2>3, <2>4, <2>5 DEF SieveTypes
<1>2. Recoverable'
  BY DEF SieveInv, Recoverable, Checkpointed, Covers, Within, KeptOlder, Sieve!NotOlder,
     Sieve!Refuse
<1>3. KeptOlder'
  BY DEF SieveInv, Recoverable, Checkpointed, Covers, Within, KeptOlder, Sieve!NotOlder,
     Sieve!Refuse
<1>4. Running'
  BY DEF Running, Sieve!Refuse, Sieve!Launch
<1>5. SieveStages'
  BY DEF SieveStages, Terminal, Sieve!Refuse, Sieve!Launch
<1> QED BY <1>1, <1>2, <1>3, <1>4, <1>5 DEF SieveInv

LEMMA SieveSieveBatchKeeps ==
    ASSUME Sieve!SieveResumeAssumption, SieveInv, Sieve!SieveBatch
    PROVE  SieveInv'
<1> USE DEF SieveInv
<1>a. s_run \in Runs /\ s_store \in Stores /\ s_names \in Directories /\ s_kept \in Directories
  BY DEF SieveTypes

<1>b. /\ s_run.cursor \in 0 .. Len(Yield) /\ s_run.cursor # Len(Yield) /\ Len(Yield) \in Nat
      /\ s_run.recovered \notin {"terminal", "final"} /\ s_pc = "sieve"
  BY <1>a DEF Sieve!SieveBatch, Sieve!RoundOver, Sieve!Sifted, Sieve!Budget, Runs,
     Sieve!SieveResumeAssumption
<1>c. PICK batch \in Seq(Sieve!Relations) : batch = Yield[s_run.cursor + 1]
  BY <1>b DEF Sieve!SieveResumeAssumption
<1>d. PICK new \in Seq(Sieve!Relations) : new = Sieve!Unseen(s_run.seen, batch)
  BY UnseenType
<1>e. Sieve!ToSet(batch) \in SUBSET Sieve!Relations
  BY DEF Sieve!ToSet
<1>f. /\ s_run' = [s_run EXCEPT !.cursor = @ + 1, !.since = @ + 1,
                            !.seen = @ \cup Sieve!ToSet(batch), !.saving = "periodic"]
      /\ s_store' = [s_store EXCEPT !.rows = @ \o new]
      /\ s_pc' \in {"sieve", "suspend"} /\ s_names' = s_names /\ s_kept' = s_kept
           /\ Checkpointed' = Checkpointed
  BY <1>c, <1>d DEF Sieve!SieveBatch, Checkpointed
<1>g. /\ s_run' \in Runs /\ s_run'.cursor = s_run.cursor + 1 /\ s_run'.terminal = s_run.terminal
      /\ s_run'.preserve = s_run.preserve /\ s_run'.saving = "periodic"
           /\ s_run'.recovered = s_run.recovered
  <2>1. s_run.cursor + 1 \in 0 .. Len(Yield) /\ s_run.since + 1 \in Nat
          /\ s_run.seen \cup Sieve!ToSet(batch) \in SUBSET Sieve!Relations
    BY <1>a, <1>b, <1>e DEF Runs
  <2> DEFINE cursor == s_run.cursor + 1
             since == s_run.since + 1
             seen == s_run.seen \cup Sieve!ToSet(batch)
  <2>2. s_run' = [s_run EXCEPT !.cursor = cursor, !.since = since, !.seen = seen,
          !.saving = "periodic"]
    BY <1>a, <1>f DEF Runs
  <2> HIDE DEF cursor, since, seen
  <2>3. cursor = s_run.cursor + 1
    BY DEF cursor
  <2>4. cursor \in 0 .. Len(Yield) /\ since \in Nat /\ seen \in SUBSET Sieve!Relations
    BY <2>1 DEF cursor, since, seen
  <2> QED BY <1>a, <2>2, <2>3, <2>4 DEF Runs
<1>h. /\ s_store' \in Stores /\ s_store'.synced = s_store.synced
           /\ s_store'.rows = s_store.rows \o new
      /\ s_store'.id = s_store.id /\ s_store'.sealed = s_store.sealed
      /\ s_store'.safelySealed = s_store.safelySealed
  <2>1. s_store.rows \o new \in Seq(Sieve!Relations)
    BY <1>a DEF Stores
  <2> DEFINE rows == s_store.rows \o new
  <2>2. s_store' = [s_store EXCEPT !.rows = rows]
    BY <1>a, <1>f DEF Stores
  <2> HIDE DEF rows
  <2>3. rows = s_store.rows \o new
    BY DEF rows
  <2>4. rows \in Seq(Sieve!Relations)
    BY <2>1, <2>3
  <2> QED BY <1>a, <2>2, <2>3, <2>4 DEF Stores
<1>i. /\ Len(s_store.rows) \in Nat /\ Len(s_store'.rows) \in Nat
           /\ Len(s_store.rows) <= Len(s_store'.rows)
      /\ \A i \in 1 .. Len(s_store.rows) : s_store'.rows[i] = s_store.rows[i]
  BY <1>a, <1>h DEF Stores
<1>j. ~ s_store.sealed
  BY <1>a, <1>b DEF SieveStages, Stores
<1>1. SieveTypes'
  <2>1. s_pc' \in Pcs
    BY DEF SieveInv, SieveTypes, Pcs, Sieve!SieveBatch, Sieve!RoundOver, Sieve!Sifted
  <2>2. s_run' \in Runs
    BY <1>g
  <2>3. s_store' \in Stores /\ s_store'.synced <= Len(s_store'.rows)
          /\ (s_store'.safelySealed => s_store'.sealed)
    BY <1>a, <1>h, <1>i DEF SieveTypes, Stores
  <2>4. s_names' \in Directories /\ s_kept' \in Directories
    BY DEF SieveInv, SieveTypes, Directories, Saved, Sieve!SieveBatch, Sieve!RoundOver,
       Sieve!Sifted
  <2>5. s_starts' \in Nat
    BY DEF SieveInv, SieveTypes, Sieve!SieveBatch, Sieve!RoundOver, Sieve!Sifted
  <2> QED BY <2>1, <2>2, <2>3, <2>4, <2>5 DEF SieveTypes
<1>2. Recoverable'

  <2> SUFFICES ASSUME NEW d \in Checkpointed PROVE Covers(s_store', d)
    BY <1>f DEF Recoverable
  <2>1. Covers(s_store, d) /\ d \in Sieve!Checkpoints
    BY <1>a DEF Recoverable, Checkpointed, Directories, Saved
  <2>2. Len(d.rows) \in Nat /\ s_store.synced \in Nat /\ s_store.synced <= Len(s_store.rows)
    BY <1>a, <2>1 DEF Sieve!Checkpoints, Stores, SieveTypes
  <2> QED BY <1>h, <1>i, <1>j, <2>1, <2>2 DEF Covers, Within
<1>3. KeptOlder'
  BY <1>f, <1>h DEF KeptOlder, Sieve!NotOlder
<1>4. Running'

  <2>1. \A d \in Checkpointed : d.cursor \in Nat
    BY <1>a DEF Checkpointed, Directories, Saved, Sieve!Checkpoints
  <2>2. s_run.terminal # None => s_run.terminal.cursor \in Nat
    BY <1>a DEF Runs, Saved, Sieve!Checkpoints
  <2> QED BY <1>b, <1>f, <1>g, <2>1, <2>2 DEF Running
<1>5. SieveStages'
  BY <1>b, <1>f, <1>g, <1>h, <1>j DEF SieveStages, Saving, Completing
<1> QED BY <1>1, <1>2, <1>3, <1>4, <1>5 DEF SieveInv

LEMMA SieveReduceKeeps ==
    ASSUME Sieve!SieveResumeAssumption, SieveInv, Sieve!Reduce
    PROVE  SieveInv'
<1> USE DEF SieveInv
<1>a. s_run \in Runs /\ s_store \in Stores /\ s_names \in Directories /\ s_kept \in Directories
  BY DEF SieveTypes

<1>b. s_pc = "sieve" /\ s_names' = s_names /\ s_names.pair /\ Checkpointed' \subseteq Checkpointed
  BY DEF Sieve!Reduce, SieveStages, Checkpointed
<1>c. /\ s_store' \in Stores /\ s_store'.id = s_store.id /\ s_store'.rows = s_store.rows
      /\ s_store'.sealed = s_store.sealed /\ s_store'.safelySealed = s_store.safelySealed
      /\ s_store'.synced \in {s_store.synced, Len(s_store.rows)}
  BY <1>a DEF Sieve!Reduce, Stores
<1>e. /\ s_run' \in Runs /\ s_run'.cursor = s_run.cursor /\ s_run'.terminal = s_run.terminal
      /\ s_run'.preserve = s_run.preserve /\ s_run'.recovered = s_run.recovered
      /\ s_run'.saving \in {s_run.saving, "terminal"}
  <2> DEFINE final == s_run.recovered = "final"
             generation == IF final THEN s_run.generation ELSE s_run.generation + 1
             probe == [count |-> Len(s_store.rows), generation |-> generation]
             probed == [s_run EXCEPT !.generation = generation, !.probed = probe]
  <2>1. generation \in Nat /\ Len(s_store.rows) \in Nat
    BY <1>a DEF Runs, Stores
  <2>2. probe \in Probes
    BY <2>1 DEF Probes
  <2>3. \/ s_run' = [probed EXCEPT !.saving = "terminal"]
        \/ s_run' = [probed EXCEPT !.round = @ + 1, !.target = Sieve!Grown(@)]
    BY DEF Sieve!Reduce
  <2> HIDE DEF generation, probe
  <2>4. /\ probed \in Runs /\ probed.cursor = s_run.cursor /\ probed.terminal = s_run.terminal
        /\ probed.preserve = s_run.preserve /\ probed.recovered = s_run.recovered
        /\ probed.saving = s_run.saving
    BY <1>a, <2>1, <2>2 DEF Runs
  <2> HIDE DEF probed
  <2>5. CASE s_run' = [probed EXCEPT !.saving = "terminal"]
    BY <2>4, <2>5 DEF Runs
  <2>6. CASE s_run' = [probed EXCEPT !.round = @ + 1, !.target = Sieve!Grown(@)]
    <3> DEFINE round == probed.round + 1
               target == Sieve!Grown(probed.target)
    <3>1. s_run' = [probed EXCEPT !.round = round, !.target = target]
      BY <2>4, <2>6 DEF Runs
    <3>2. round \in Nat /\ target \in Nat
      BY <2>4 DEF Runs, Sieve!Grown, Sieve!SieveResumeAssumption
    <3> HIDE DEF round, target
    <3> QED BY <2>4, <3>1, <3>2 DEF Runs
  <2> QED BY <2>3, <2>5, <2>6
<1>f. CASE s_run.recovered = "final"
  <2>1. s_store' = s_store /\ s_kept' = s_kept /\ s_pc' = "finalize"
    BY <1>f DEF Sieve!Reduce
  <2>2. Terminal /\ Terminal'
    BY <1>b, <1>e, <1>f, <2>1 DEF Running, Terminal
  <2>3. s_run.terminal = s_names.ckpt /\ s_names.ckpt \in Checkpointed
    BY <1>a, <1>b, <1>f, <2>2 DEF SieveStages, Terminal, Checkpointed
  <2>4. Recoverable' /\ KeptOlder'
    BY <1>b, <1>e, <2>1 DEF Recoverable, KeptOlder, Sieve!NotOlder, Checkpointed
  <2>5. Running'
    BY <1>b, <1>e, <2>1, <2>2 DEF Running
  <2>6. SieveStages'
    BY <1>b, <1>e, <1>f, <2>1, <2>2, <2>3 DEF SieveStages, Completing, Saving, Running
  <2>7. SieveTypes'
    BY <1>a, <1>b, <1>e, <2>1 DEF SieveTypes, Pcs, Sieve!Reduce
  <2> QED BY <2>4, <2>5, <2>6, <2>7
<1>g. CASE s_run.recovered # "final"
  <2>1. s_store'.synced = Len(s_store.rows) /\ s_kept' = s_names
          /\ s_store.synced <= Len(s_store.rows)
    BY <1>a, <1>g DEF Sieve!Reduce, Stores, SieveTypes
  <2>2. \/ s_pc' = "suspend" /\ s_run'.saving = "terminal"
        \/ s_pc' = "sieve" /\ s_run'.saving = s_run.saving
    BY <1>a, <1>g DEF Sieve!Reduce, Runs
  <2>3. \A c \in Checkpointed' : Covers(s_store', c)
    BY <1>a, <1>b, <1>c, <2>1, FoundTyped, CoversStill DEF Recoverable
  <2>4. Recoverable' /\ KeptOlder'
    <3>1. \A c \in Checkpointed' : c = s_names.ckpt /\ c \in Checkpointed
      BY <1>b, <2>1 DEF Checkpointed
    <3>2. s_names.ckpt # None => s_names.ckpt.cursor \in Nat /\ Len(s_names.ckpt.rows) \in Nat
      BY <1>a DEF Directories, Saved, Sieve!Checkpoints
    <3> QED BY <1>b, <2>1, <2>3, <3>1, <3>2 DEF Recoverable, KeptOlder, Sieve!NotOlder
  <2>5. Running'
    BY <1>b, <1>e, <1>g, <2>2 DEF Running
  <2>6. SieveStages'
    BY <1>b, <1>c, <1>e, <1>g, <2>2 DEF SieveStages, Completing, Saving
  <2>7. SieveTypes'
    BY <1>a, <1>b, <1>c, <1>e, <2>1, <2>2 DEF SieveTypes, Pcs, Sieve!Reduce
  <2> QED BY <2>4, <2>5, <2>6, <2>7
<1> QED BY <1>f, <1>g

LEMMA SieveSuspendKeeps ==
    ASSUME Sieve!SieveResumeAssumption, SieveInv, Sieve!Suspend
    PROVE  SieveInv'
<1> USE DEF SieveInv
<1>a. s_run \in Runs /\ s_store \in Stores /\ s_names \in Directories /\ s_kept \in Directories
  BY DEF SieveTypes

<1>b. s_pc = "suspend" /\ s_pc' = "write" /\ s_names' = s_names /\ s_kept' = s_names
        /\ s_names.pair /\ Checkpointed' \subseteq Checkpointed
  BY DEF Sieve!Suspend, SieveStages, Checkpointed
<1>c. /\ s_store' \in Stores /\ s_store'.id = s_store.id /\ s_store'.rows = s_store.rows
      /\ s_store'.sealed = s_store.sealed /\ s_store'.safelySealed = s_store.safelySealed
      /\ s_store'.synced = Len(s_store.rows) /\ s_store.synced <= Len(s_store.rows)
  BY <1>a DEF Sieve!Suspend, Stores, SieveTypes
<1>d. /\ s_run' \in Runs /\ s_run'.cursor = s_run.cursor /\ s_run'.terminal = s_run.terminal
      /\ s_run'.preserve = TRUE /\ s_run'.recovered = s_run.recovered
           /\ s_run'.saving = s_run.saving
  <2>1. s_run.generation + 1 \in Nat
    BY <1>a DEF Runs
  <2> DEFINE generation == s_run.generation + 1
  <2>2. s_run' = [s_run EXCEPT !.generation = generation, !.preserve = TRUE]
    BY <1>a DEF Sieve!Suspend, Runs
  <2> HIDE DEF generation
  <2>3. generation \in Nat
    BY <2>1 DEF generation
  <2> QED BY <1>a, <2>2, <2>3 DEF Runs
<1>e. s_run.recovered # "final" /\ s_run.saving # "restore" /\ ~ s_store.sealed
  BY <1>b DEF SieveStages, Saving
<1>f. \A c \in Checkpointed' : c = s_names.ckpt /\ c \in Checkpointed /\ Covers(s_store', c)
  BY <1>a, <1>b, <1>c, FoundTyped, CoversStill DEF Recoverable, Checkpointed
<1>1. SieveTypes'
  <2>1. s_pc' \in Pcs
    BY DEF SieveInv, SieveTypes, Pcs, Sieve!Suspend
  <2>2. s_run' \in Runs
    BY <1>d
  <2>3. s_store' \in Stores /\ s_store'.synced <= Len(s_store'.rows)
          /\ (s_store'.safelySealed => s_store'.sealed)
    BY DEF SieveInv, SieveTypes, Stores, Sieve!Suspend
  <2>4. s_names' \in Directories /\ s_kept' \in Directories
    BY DEF SieveInv, SieveTypes, Directories, Saved, Sieve!Suspend
  <2>5. s_starts' \in Nat
    BY DEF SieveInv, SieveTypes, Sieve!Suspend
  <2> QED BY <2>1, <2>2, <2>3, <2>4, <2>5 DEF SieveTypes
<1>2. Recoverable'
  BY <1>b, <1>f DEF Recoverable
<1>3. KeptOlder'

  <2>1. s_names.ckpt # None => s_names.ckpt.cursor \in Nat /\ Len(s_names.ckpt.rows) \in Nat
    BY <1>a DEF Directories, Saved, Sieve!Checkpoints
  <2>2. s_names.ckpt # None => s_names.ckpt \in Checkpointed
    BY DEF Checkpointed
  <2> QED BY <1>b, <2>1, <2>2 DEF KeptOlder, Sieve!NotOlder
<1>4. Running'
  BY <1>b, <1>d, <1>e, <1>f DEF Running
<1>5. SieveStages'
  BY <1>b, <1>c, <1>d, <1>e DEF SieveStages, Saving, Completing
<1> QED BY <1>1, <1>2, <1>3, <1>4, <1>5 DEF SieveInv

LEMMA SieveWriteTemporaryKeeps ==
    ASSUME Sieve!SieveResumeAssumption, SieveInv, Sieve!WriteTemporary
    PROVE  SieveInv'
<1> USE DEF SieveInv
<1>a. s_run \in Runs /\ s_store \in Stores /\ s_names \in Directories /\ s_kept \in Directories
  BY DEF SieveTypes
<1>1. SieveTypes'
  <2>1. s_pc' \in Pcs
    BY DEF SieveInv, SieveTypes, Pcs, Sieve!WriteTemporary
  <2>2. s_run' \in Runs
    BY IdleIsRun DEF SieveInv, SieveTypes, Runs, Sieve!WriteTemporary
  <2>3. s_store' \in Stores /\ s_store'.synced <= Len(s_store'.rows)
          /\ (s_store'.safelySealed => s_store'.sealed)
    BY DEF SieveInv, SieveTypes, Stores, Sieve!WriteTemporary
  <2>4. s_names' \in Directories /\ s_kept' \in Directories
    BY DEF SieveInv, SieveTypes, Directories, Saved, Sieve!WriteTemporary
  <2>5. s_starts' \in Nat
    BY DEF SieveInv, SieveTypes, Sieve!WriteTemporary
  <2> QED BY <2>1, <2>2, <2>3, <2>4, <2>5 DEF SieveTypes
<1>2. Recoverable'
  BY DEF SieveInv, SieveTypes, Directories, Recoverable, Checkpointed, Covers, Within,
     Sieve!WriteTemporary
<1>3. KeptOlder'
  BY DEF SieveInv, SieveTypes, Directories, KeptOlder, Sieve!NotOlder, Sieve!WriteTemporary
<1>4. Running'
  BY DEF KeptOlder, Running, Checkpointed, Within, Terminal, Runs, Sieve!WriteTemporary
<1>5. SieveStages'
  BY DEF Saving, Completing, SieveStages, Within, Terminal, Runs, Sieve!WriteTemporary
<1> QED BY <1>1, <1>2, <1>3, <1>4, <1>5 DEF SieveInv

LEMMA SieveRenameKeeps ==
    ASSUME Sieve!SieveResumeAssumption, SieveInv, Sieve!Rename
    PROVE  SieveInv'
<1> USE DEF SieveInv
<1>a. s_run \in Runs /\ s_store \in Stores /\ s_names \in Directories /\ s_kept \in Directories
  BY DEF SieveTypes

<1>b. /\ s_pc = "rename" /\ s_pc' = "settle" /\ s_run' = s_run /\ s_store' = s_store
           /\ s_kept' = s_kept
      /\ s_names.pair /\ s_kept.pair /\ s_run.preserve /\ s_store.synced = Len(s_store.rows)
  BY DEF Sieve!Rename, SieveStages, Saving
<1>d. PICK c \in Sieve!Checkpoints : c = Sieve!Intended
  BY <1>b, IntendedCovers
<1>e. c # None /\ c.id = s_store.id /\ c.rows = s_store.rows /\ c.cursor = s_run.cursor
        /\ (s_store.sealed => c.complete)
  BY <1>b, <1>d, IntendedCovers
<1>f. /\ s_names' \in Directories /\ s_names'.ckpt = c /\ s_names'.pair /\ s_names'.tmp = FALSE
  BY <1>a, <1>b, <1>d DEF Sieve!Rename, Directories, Saved
<1>g. Checkpointed' \subseteq Checkpointed \cup {c}
  BY <1>b, <1>f DEF Checkpointed
<1>h. Covers(s_store, c)
  BY <1>b, <1>d, IntendedCovers
<1>i. Sieve!Intended' = c
  BY <1>b, <1>d DEF Sieve!Intended
<1>1. SieveTypes'
  <2>1. s_pc' \in Pcs
    BY DEF SieveInv, SieveTypes, Pcs, Sieve!Rename
  <2>2. s_run' \in Runs
    BY IdleIsRun DEF SieveInv, SieveTypes, Runs, Sieve!Rename
  <2>3. s_store' \in Stores /\ s_store'.synced <= Len(s_store'.rows)
          /\ (s_store'.safelySealed => s_store'.sealed)
    BY DEF SieveInv, SieveTypes, Stores, Sieve!Rename
  <2>4. s_names' \in Directories /\ s_kept' \in Directories
    BY <1>a, <1>b, <1>f
  <2>5. s_starts' \in Nat
    BY DEF SieveInv, SieveTypes, Sieve!Rename
  <2> QED BY <2>1, <2>2, <2>3, <2>4, <2>5 DEF SieveTypes
<1>2. Recoverable'
  BY <1>b, <1>f, <1>g, <1>h DEF Recoverable
<1>3. KeptOlder'

  <2> SUFFICES ASSUME s_kept.ckpt # None
               PROVE  s_kept.ckpt.id = c.id /\ s_kept.ckpt.cursor <= c.cursor
                        /\ Len(s_kept.ckpt.rows) <= Len(c.rows)
    BY <1>b, <1>e, <1>f DEF KeptOlder, Sieve!NotOlder
  <2>1. s_kept.ckpt \in Checkpointed
    BY DEF Checkpointed
  <2>2. Covers(s_store, s_kept.ckpt) /\ s_kept.ckpt.cursor <= s_run.cursor
    BY <1>b, <2>1 DEF Recoverable, Running
  <2> QED BY <1>b, <1>e, <2>2 DEF Covers, Within
<1>4. Running'

  <2>1. c.cursor <= s_run.cursor
    BY <1>d, <1>e DEF Sieve!Checkpoints
  <2>2. Terminal' = Terminal
    BY <1>b DEF Terminal
  <2> QED BY <1>b, <1>g, <2>1, <2>2 DEF Running
<1>5. SieveStages'

  <2>1. Terminal' = Terminal
    BY <1>b DEF Terminal
  <2> QED BY <1>b, <1>f, <1>i, <2>1 DEF SieveStages, Saving, Completing
<1> QED BY <1>1, <1>2, <1>3, <1>4, <1>5 DEF SieveInv

LEMMA SieveSaveFailsKeeps ==
    ASSUME Sieve!SieveResumeAssumption, SieveInv, Sieve!SaveFails
    PROVE  SieveInv'
<1> USE DEF SieveInv
<1>a. s_run \in Runs /\ s_store \in Stores /\ s_names \in Directories /\ s_kept \in Directories
  BY DEF SieveTypes
<1>1. SieveTypes'
  <2>1. s_pc' \in Pcs
    BY DEF SieveInv, SieveTypes, Pcs, Sieve!SaveFails, Sieve!Fault
  <2>2. s_run' \in Runs
    BY IdleIsRun DEF SieveInv, SieveTypes, Runs, Sieve!SaveFails, Sieve!Fault
  <2>3. s_store' \in Stores /\ s_store'.synced <= Len(s_store'.rows)
          /\ (s_store'.safelySealed => s_store'.sealed)
    BY DEF SieveInv, SieveTypes, Stores, Sieve!SaveFails, Sieve!Fault
  <2>4. s_names' \in Directories /\ s_kept' \in Directories
    BY DEF SieveInv, SieveTypes, Directories, Saved, Sieve!SaveFails, Sieve!Fault
  <2>5. s_starts' \in Nat
    BY DEF SieveInv, SieveTypes, Sieve!SaveFails, Sieve!Fault
  <2> QED BY <2>1, <2>2, <2>3, <2>4, <2>5 DEF SieveTypes
<1>2. Recoverable'
  BY DEF SieveInv, SieveTypes, Directories, Recoverable, Checkpointed, Covers, Within,
     Sieve!SaveFails
<1>3. KeptOlder'
  BY DEF SieveInv, SieveTypes, Directories, KeptOlder, Sieve!NotOlder, Sieve!SaveFails
<1>4. Running'
  BY DEF Saving, KeptOlder, Running, SieveStages, Checkpointed, Covers, Within, Terminal, Runs,
     Stores, Directories, Sieve!NotOlder, Sieve!SaveFails, Sieve!Fault
<1>5. SieveStages'
  BY DEF Saving, Completing, SieveStages, Sieve!SaveFails, Sieve!Fault
<1> QED BY <1>1, <1>2, <1>3, <1>4, <1>5 DEF SieveInv

LEMMA SieveSettleKeeps ==
    ASSUME Sieve!SieveResumeAssumption, SieveInv, Sieve!Settle
    PROVE  SieveInv'
<1> USE DEF SieveInv
<1>a. s_run \in Runs /\ s_store \in Stores /\ s_names \in Directories /\ s_kept \in Directories
  BY DEF SieveTypes

<1>b. /\ s_pc = "settle" /\ s_store' = s_store /\ s_names' = s_names
           /\ s_kept' \in {s_kept, s_names}
      /\ s_names.pair /\ s_kept.pair /\ s_run.preserve /\ s_store.synced = Len(s_store.rows)
      /\ Checkpointed' \subseteq Checkpointed
  BY DEF Sieve!Settle, SieveStages, Saving, Checkpointed
<1>c. PICK c \in Sieve!Checkpoints : c = Sieve!Intended /\ c = s_names.ckpt
  BY <1>b, IntendedCovers DEF SieveStages
<1>d. /\ c # None /\ c.id = s_store.id /\ c.rows = s_store.rows /\ c.cursor = s_run.cursor
      /\ s_run.saving = "terminal" => c.complete
  BY <1>b, <1>c, IntendedCovers
<1>e. Recoverable' /\ KeptOlder'
  <2>1. Recoverable'
    BY <1>b DEF Recoverable
  <2>2. c.cursor \in Nat /\ Len(c.rows) \in Nat
    BY DEF Sieve!Checkpoints
  <2> QED BY <1>b, <1>c, <2>1, <2>2 DEF KeptOlder, Sieve!NotOlder
<1>f. CASE /\ s_run.saving # "restore" /\ s_run' = [s_run EXCEPT !.terminal = c, !.since = 0]
           /\ s_pc' = IF s_run.saving = "terminal" THEN "finalize" ELSE "sieve"
  <2>1. /\ s_run' \in Runs /\ s_run'.cursor = s_run.cursor /\ s_run'.terminal = c
        /\ s_run'.preserve = s_run.preserve /\ s_run'.recovered = s_run.recovered
        /\ s_run'.saving = s_run.saving
    <3>1. c \in Saved
      BY DEF Saved
    <3> QED BY <1>a, <1>f, <3>1 DEF Runs
  <2>2. ~ s_store.sealed /\ s_run.recovered # "final" /\ s_run.saving \in {"periodic", "terminal"}
    BY <1>a, <1>b, <1>f DEF SieveStages, Saving, Runs
  <2>3. s_run.saving = "terminal" => Terminal'
    BY <1>b, <1>d, <2>1 DEF Terminal
  <2>4. c.cursor <= s_run.cursor
    BY <1>d DEF Sieve!Checkpoints
  <2>5. Running'
    BY <1>b, <1>f, <2>1, <2>2, <2>4 DEF Running
  <2>6. SieveStages'
    BY <1>b, <1>c, <1>f, <2>1, <2>2, <2>3 DEF SieveStages, Saving, Completing
  <2>7. SieveTypes'
    BY <1>a, <1>b, <1>f, <2>1 DEF SieveTypes, Pcs, Sieve!Settle
  <2> QED BY <1>e, <2>5, <2>6, <2>7
<1>g. CASE s_pc' = "throw" /\ s_run' = s_run
  <2>1. Terminal' = Terminal
    BY <1>b, <1>g DEF Terminal
  <2>2. Running'
    BY <1>b, <1>g, <2>1 DEF Running
  <2>3. SieveStages'
    BY <1>g DEF SieveStages, Saving, Completing
  <2>4. SieveTypes'
    BY <1>a, <1>b, <1>g DEF SieveTypes, Pcs, Sieve!Settle
  <2> QED BY <1>e, <2>2, <2>3, <2>4
<1> QED BY <1>c, <1>f, <1>g DEF Sieve!Settle

LEMMA SieveFlushMetadataKeeps ==
    ASSUME Sieve!SieveResumeAssumption, SieveInv, Sieve!FlushMetadata
    PROVE  SieveInv'
<1> USE DEF SieveInv
<1>a. s_run \in Runs /\ s_store \in Stores /\ s_names \in Directories /\ s_kept \in Directories
  BY DEF SieveTypes
<1>1. SieveTypes'
  <2>1. s_pc' \in Pcs
    BY DEF SieveInv, SieveTypes, Pcs, Sieve!FlushMetadata
  <2>2. s_run' \in Runs
    BY IdleIsRun DEF SieveInv, SieveTypes, Runs, Sieve!FlushMetadata
  <2>3. s_store' \in Stores /\ s_store'.synced <= Len(s_store'.rows)
          /\ (s_store'.safelySealed => s_store'.sealed)
    BY DEF SieveInv, SieveTypes, Stores, Sieve!FlushMetadata
  <2>4. s_names' \in Directories /\ s_kept' \in Directories
    BY DEF SieveInv, SieveTypes, Directories, Saved, Sieve!FlushMetadata
  <2>5. s_starts' \in Nat
    BY DEF SieveInv, SieveTypes, Sieve!FlushMetadata
  <2> QED BY <2>1, <2>2, <2>3, <2>4, <2>5 DEF SieveTypes
<1>2. Recoverable'
  BY DEF Recoverable, Checkpointed, Sieve!FlushMetadata
<1>3. KeptOlder'
  BY DEF Completing, KeptOlder, Running, SieveStages, Checkpointed, Covers, Within, Terminal,
     Runs, Stores, Directories, Sieve!NotOlder, Sieve!FlushMetadata
<1>4. Running'
  BY DEF Running, Checkpointed, Within, Terminal, Runs, Sieve!FlushMetadata
<1>5. SieveStages'
  BY DEF Saving, Completing, SieveStages, Within, Terminal, Runs, Sieve!FlushMetadata
<1> QED BY <1>1, <1>2, <1>3, <1>4, <1>5 DEF SieveInv

LEMMA SieveWriteMagicKeeps ==
    ASSUME Sieve!SieveResumeAssumption, SieveInv, Sieve!WriteMagic
    PROVE  SieveInv'
<1> USE DEF SieveInv
<1>a. s_run \in Runs /\ s_store \in Stores /\ s_names \in Directories /\ s_kept \in Directories
  BY DEF SieveTypes
<1>1. SieveTypes'
  <2>1. s_pc' \in Pcs
    BY DEF SieveInv, SieveTypes, Pcs, Sieve!WriteMagic
  <2>2. s_run' \in Runs
    BY IdleIsRun DEF SieveInv, SieveTypes, Runs, Sieve!WriteMagic
  <2>3. s_store' \in Stores /\ s_store'.synced <= Len(s_store'.rows)
          /\ (s_store'.safelySealed => s_store'.sealed)
    BY DEF SieveInv, SieveTypes, Stores, Sieve!WriteMagic
  <2>4. s_names' \in Directories /\ s_kept' \in Directories
    BY DEF SieveInv, SieveTypes, Directories, Saved, Sieve!WriteMagic
  <2>5. s_starts' \in Nat
    BY DEF SieveInv, SieveTypes, Sieve!WriteMagic
  <2> QED BY <2>1, <2>2, <2>3, <2>4, <2>5 DEF SieveTypes
<1>2. Recoverable'
  BY DEF Completing, Recoverable, SieveStages, Checkpointed, Covers, Within, Terminal, Runs,
     Sieve!WriteMagic
<1>3. KeptOlder'
  BY DEF KeptOlder, Sieve!NotOlder, Sieve!WriteMagic
<1>4. Running'
  BY DEF Running, Checkpointed, Within, Terminal, Runs, Stores, Directories, Sieve!NotOlder,
     Sieve!WriteMagic
<1>5. SieveStages'
  BY DEF Saving, Completing, SieveStages, Within, Terminal, Runs, Sieve!WriteMagic
<1> QED BY <1>1, <1>2, <1>3, <1>4, <1>5 DEF SieveInv

LEMMA SieveFlushMagicKeeps ==
    ASSUME Sieve!SieveResumeAssumption, SieveInv, Sieve!FlushMagic
    PROVE  SieveInv'
<1> USE DEF SieveInv
<1>a. s_run \in Runs /\ s_store \in Stores /\ s_names \in Directories /\ s_kept \in Directories
  BY DEF SieveTypes
<1>1. SieveTypes'
  <2>1. s_pc' \in Pcs
    BY DEF SieveInv, SieveTypes, Pcs, Sieve!FlushMagic
  <2>2. s_run' \in Runs
    BY IdleIsRun DEF SieveInv, SieveTypes, Runs, Sieve!FlushMagic
  <2>3. s_store' \in Stores /\ s_store'.synced <= Len(s_store'.rows)
          /\ (s_store'.safelySealed => s_store'.sealed)
    BY <1>a DEF SieveTypes, Stores, SieveStages, Sieve!FlushMagic
  <2>4. s_names' \in Directories /\ s_kept' \in Directories
    BY DEF SieveInv, SieveTypes, Directories, Saved, Sieve!FlushMagic
  <2>5. s_starts' \in Nat
    BY DEF SieveInv, SieveTypes, Sieve!FlushMagic
  <2> QED BY <2>1, <2>2, <2>3, <2>4, <2>5 DEF SieveTypes
<1>2. Recoverable'
  BY DEF Recoverable, Checkpointed, Covers, Sieve!FlushMagic
<1>3. KeptOlder'
  BY DEF Completing, KeptOlder, SieveStages, Checkpointed, Covers, Stores, Directories,
     Sieve!NotOlder, Sieve!FlushMagic
<1>4. Running'
  BY DEF Completing, Running, SieveStages, Checkpointed, Covers, Within, Terminal, Runs,
     Sieve!FlushMagic
<1>5. SieveStages'
  BY DEF Saving, Completing, SieveStages, Within, Terminal, Runs, Sieve!FlushMagic
<1> QED BY <1>1, <1>2, <1>3, <1>4, <1>5 DEF SieveInv

LEMMA SieveCompareKeeps ==
    ASSUME Sieve!SieveResumeAssumption, SieveInv, Sieve!Compare
    PROVE  SieveInv'
<1> USE DEF SieveInv
<1>a. s_run \in Runs /\ s_store \in Stores /\ s_names \in Directories /\ s_kept \in Directories
  BY DEF SieveTypes
<1>1. SieveTypes'
  <2>1. s_pc' \in Pcs
    BY DEF SieveInv, SieveTypes, Pcs, Sieve!Compare
  <2>2. s_run' \in Runs
    BY IdleIsRun DEF SieveInv, SieveTypes, Runs, Sieve!Compare
  <2>3. s_store' \in Stores /\ s_store'.synced <= Len(s_store'.rows)
          /\ (s_store'.safelySealed => s_store'.sealed)
    BY DEF SieveInv, SieveTypes, Stores, Sieve!Compare
  <2>4. s_names' \in Directories /\ s_kept' \in Directories
    BY DEF SieveInv, SieveTypes, Directories, Saved, Sieve!Compare
  <2>5. s_starts' \in Nat
    BY DEF SieveInv, SieveTypes, Sieve!Compare
  <2> QED BY <2>1, <2>2, <2>3, <2>4, <2>5 DEF SieveTypes
<1>2. Recoverable'
  BY DEF SieveInv, Recoverable, Checkpointed, Covers, Within, KeptOlder, Sieve!NotOlder,
     Sieve!Compare
<1>3. KeptOlder'
  BY DEF SieveInv, Recoverable, Checkpointed, Covers, Within, KeptOlder, Sieve!NotOlder,
     Sieve!Compare
<1>4. Running'
  BY DEF Running, Checkpointed, Within, Terminal, Runs, Sieve!Compare
<1>5. SieveStages'
  BY DEF Saving, Completing, SieveStages, Within, Terminal, Runs, Sieve!Compare
<1> QED BY <1>1, <1>2, <1>3, <1>4, <1>5 DEF SieveInv

LEMMA SieveRemoveCheckpointKeeps ==
    ASSUME Sieve!SieveResumeAssumption, SieveInv, Sieve!RemoveCheckpoint
    PROVE  SieveInv'
<1> USE DEF SieveInv
<1>a. s_run \in Runs /\ s_store \in Stores /\ s_names \in Directories /\ s_kept \in Directories
  BY DEF SieveTypes
<1>1. SieveTypes'
  <2>1. s_pc' \in Pcs
    BY DEF SieveInv, SieveTypes, Pcs, Sieve!RemoveCheckpoint
  <2>2. s_run' \in Runs
    BY IdleIsRun DEF SieveInv, SieveTypes, Runs, Sieve!RemoveCheckpoint
  <2>3. s_store' \in Stores /\ s_store'.synced <= Len(s_store'.rows)
          /\ (s_store'.safelySealed => s_store'.sealed)
    BY DEF SieveInv, SieveTypes, Stores, Sieve!RemoveCheckpoint
  <2>4. s_names' \in Directories /\ s_kept' \in Directories
    BY DEF SieveInv, SieveTypes, Directories, Saved, Sieve!RemoveCheckpoint
  <2>5. s_starts' \in Nat
    BY DEF SieveInv, SieveTypes, Sieve!RemoveCheckpoint
  <2> QED BY <2>1, <2>2, <2>3, <2>4, <2>5 DEF SieveTypes
<1>2. Recoverable'
  BY DEF SieveTypes, Recoverable, SieveStages, Checkpointed, Covers, Stores, Directories,
     Sieve!NotOlder, Sieve!RemoveCheckpoint
<1>3. KeptOlder'
  BY DEF SieveTypes, Recoverable, KeptOlder, SieveStages, Checkpointed, Covers, Stores,
     Directories, Sieve!NotOlder, Sieve!RemoveCheckpoint
<1>4. Running'
  BY DEF SieveTypes, Completing, Running, SieveStages, Checkpointed, Covers, Within, Terminal,
     Runs, Stores, Directories, Sieve!NotOlder, Sieve!RemoveCheckpoint
<1>5. SieveStages'
  BY DEF SieveTypes, Saving, Completing, Recoverable, SieveStages, Checkpointed, Covers, Within,
     Terminal, Runs, Stores, Directories, Sieve!NotOlder, Sieve!RemoveCheckpoint
<1> QED BY <1>1, <1>2, <1>3, <1>4, <1>5 DEF SieveInv

LEMMA SieveFlushRemovalKeeps ==
    ASSUME Sieve!SieveResumeAssumption, SieveInv, Sieve!FlushRemoval
    PROVE  SieveInv'
<1> USE DEF SieveInv
<1>a. s_run \in Runs /\ s_store \in Stores /\ s_names \in Directories /\ s_kept \in Directories
  BY DEF SieveTypes
<1>1. SieveTypes'
  <2>1. s_pc' \in Pcs
    BY DEF SieveInv, SieveTypes, Pcs, Sieve!FlushRemoval, Sieve!Fault
  <2>2. s_run' \in Runs
    BY IdleIsRun DEF SieveInv, SieveTypes, Runs, Sieve!FlushRemoval, Sieve!Fault
  <2>3. s_store' \in Stores /\ s_store'.synced <= Len(s_store'.rows)
          /\ (s_store'.safelySealed => s_store'.sealed)
    BY DEF SieveInv, SieveTypes, Stores, Sieve!FlushRemoval, Sieve!Fault
  <2>4. s_names' \in Directories /\ s_kept' \in Directories
    BY DEF SieveInv, SieveTypes, Directories, Saved, Sieve!FlushRemoval, Sieve!Fault
  <2>5. s_starts' \in Nat
    BY DEF SieveInv, SieveTypes, Sieve!FlushRemoval, Sieve!Fault
  <2> QED BY <2>1, <2>2, <2>3, <2>4, <2>5 DEF SieveTypes
<1>2. Recoverable'
  BY DEF Recoverable, Checkpointed, Sieve!FlushRemoval, Sieve!Fault
<1>3. KeptOlder'
  BY DEF KeptOlder, SieveStages, Stores, Directories, Sieve!NotOlder, Sieve!FlushRemoval,
     Sieve!Fault
<1>4. Running'
  BY DEF SieveTypes, Running, SieveStages, Checkpointed, Covers, Within, Terminal, Runs,
     Sieve!FlushRemoval, Sieve!Fault
<1>5. SieveStages'
  BY DEF SieveTypes, Saving, Completing, SieveStages, Within, Terminal, Runs, Sieve!FlushRemoval,
     Sieve!Fault
<1> QED BY <1>1, <1>2, <1>3, <1>4, <1>5 DEF SieveInv

LEMMA SieveFinishKeeps ==
    ASSUME Sieve!SieveResumeAssumption, SieveInv, Sieve!Finish
    PROVE  SieveInv'
<1> USE DEF SieveInv
<1>a. s_run \in Runs /\ s_store \in Stores /\ s_names \in Directories /\ s_kept \in Directories
  BY DEF SieveTypes
<1>1. SieveTypes'
  <2>1. s_pc' \in Pcs
    BY DEF SieveInv, SieveTypes, Pcs, Sieve!Finish
  <2>2. s_run' \in Runs
    BY IdleIsRun DEF SieveInv, SieveTypes, Runs, Sieve!Finish
  <2>3. s_store' \in Stores /\ s_store'.synced <= Len(s_store'.rows)
          /\ (s_store'.safelySealed => s_store'.sealed)
    BY DEF SieveInv, SieveTypes, Stores, Sieve!Finish
  <2>4. s_names' \in Directories /\ s_kept' \in Directories
    BY DEF SieveInv, SieveTypes, Directories, Saved, Sieve!Finish
  <2>5. s_starts' \in Nat
    BY DEF SieveInv, SieveTypes, Sieve!Finish
  <2> QED BY <2>1, <2>2, <2>3, <2>4, <2>5 DEF SieveTypes
<1>2. Recoverable'
  BY DEF SieveInv, Recoverable, Checkpointed, Covers, Within, KeptOlder, Sieve!NotOlder,
     Sieve!Finish
<1>3. KeptOlder'
  BY DEF SieveInv, Recoverable, Checkpointed, Covers, Within, KeptOlder, Sieve!NotOlder,
     Sieve!Finish
<1>4. Running'
  BY DEF Running, Checkpointed, Sieve!Finish
<1>5. SieveStages'
  BY DEF Saving, Completing, SieveStages, Sieve!Finish
<1> QED BY <1>1, <1>2, <1>3, <1>4, <1>5 DEF SieveInv

LEMMA SieveCleanRawKeeps ==
    ASSUME Sieve!SieveResumeAssumption, SieveInv, Sieve!CleanRaw
    PROVE  SieveInv'
<1> USE DEF SieveInv
<1>a. s_run \in Runs /\ s_store \in Stores /\ s_names \in Directories /\ s_kept \in Directories
  BY DEF SieveTypes
<1>1. SieveTypes'
  <2>1. s_pc' \in Pcs
    BY DEF SieveInv, SieveTypes, Pcs, Sieve!CleanRaw, Sieve!Fault
  <2>2. s_run' \in Runs
    BY IdleIsRun DEF SieveInv, SieveTypes, Runs, Sieve!CleanRaw, Sieve!Fault
  <2>3. s_store' \in Stores /\ s_store'.synced <= Len(s_store'.rows)
          /\ (s_store'.safelySealed => s_store'.sealed)
    BY DEF SieveInv, SieveTypes, Stores, Sieve!CleanRaw, Sieve!Fault
  <2>4. s_names' \in Directories /\ s_kept' \in Directories
    BY DEF SieveInv, SieveTypes, Directories, Saved, Sieve!CleanRaw, Sieve!Fault
  <2>5. s_starts' \in Nat
    BY DEF SieveInv, SieveTypes, Sieve!CleanRaw, Sieve!Fault
  <2> QED BY <2>1, <2>2, <2>3, <2>4, <2>5 DEF SieveTypes
<1>2. Recoverable'
  BY DEF SieveTypes, Recoverable, SieveStages, Checkpointed, Covers, Stores, Directories,
     Sieve!NotOlder, Sieve!CleanRaw, Sieve!Fault
<1>3. KeptOlder'
  BY DEF SieveTypes, KeptOlder, SieveStages, Checkpointed, Covers, Stores, Directories,
     Sieve!NotOlder, Sieve!CleanRaw, Sieve!Fault
<1>4. Running'
  BY DEF Running, Sieve!CleanRaw
<1>5. SieveStages'
  BY DEF Saving, Completing, SieveStages, Sieve!CleanRaw, Sieve!Fault
<1> QED BY <1>1, <1>2, <1>3, <1>4, <1>5 DEF SieveInv

LEMMA SieveThrowKeeps ==
    ASSUME Sieve!SieveResumeAssumption, SieveInv, Sieve!Throw
    PROVE  SieveInv'
<1> USE DEF SieveInv
<1>a. s_run \in Runs /\ s_store \in Stores /\ s_names \in Directories /\ s_kept \in Directories
  BY DEF SieveTypes
<1>1. SieveTypes'
  <2>1. s_pc' \in Pcs
    BY DEF SieveInv, SieveTypes, Pcs, Sieve!Throw, Sieve!Fault
  <2>2. s_run' \in Runs
    BY IdleIsRun DEF SieveInv, SieveTypes, Runs, Sieve!Throw, Sieve!Fault
  <2>3. s_store' \in Stores /\ s_store'.synced <= Len(s_store'.rows)
          /\ (s_store'.safelySealed => s_store'.sealed)
    BY DEF SieveInv, SieveTypes, Stores, Sieve!Throw, Sieve!Fault
  <2>4. s_names' \in Directories /\ s_kept' \in Directories
    BY DEF SieveInv, SieveTypes, Directories, Saved, Sieve!Throw, Sieve!Fault
  <2>5. s_starts' \in Nat
    BY DEF SieveInv, SieveTypes, Sieve!Throw, Sieve!Fault
  <2> QED BY <2>1, <2>2, <2>3, <2>4, <2>5 DEF SieveTypes
<1>2. Recoverable'
  BY DEF SieveInv, Recoverable, Checkpointed, Covers, Within, KeptOlder, Sieve!NotOlder,
     Sieve!Throw
<1>3. KeptOlder'
  BY DEF SieveInv, Recoverable, Checkpointed, Covers, Within, KeptOlder, Sieve!NotOlder,
     Sieve!Throw
<1>4. Running'
  BY DEF Running, Checkpointed, Within, Terminal, Runs, Sieve!Throw, Sieve!Fault
<1>5. SieveStages'
  BY DEF Saving, Completing, SieveStages, Sieve!Throw, Sieve!Fault
<1> QED BY <1>1, <1>2, <1>3, <1>4, <1>5 DEF SieveInv

LEMMA SieveUnwindKeeps ==
    ASSUME Sieve!SieveResumeAssumption, SieveInv, Sieve!Unwind
    PROVE  SieveInv'
<1> USE DEF SieveInv
<1>a. s_run \in Runs /\ s_store \in Stores /\ s_names \in Directories /\ s_kept \in Directories
  BY DEF SieveTypes

<1>b. s_pc' = "down" /\ s_run' = Sieve!Idle /\ s_pc = "throw"
  BY DEF Sieve!Unwind
<1>c. \/ /\ ~ s_run.preserve /\ s_names' = [s_names EXCEPT !.pair = FALSE] /\ s_kept' = s_names'
           /\ s_store' = s_store
      \/ s_store' \in Sieve!CutTail(s_store) /\ s_names' = s_names /\ s_kept' = s_kept
  BY DEF Sieve!Unwind

<1>d. s_run' \in Runs
  BY <1>b, IdleIsRun
<1>e. Running' /\ SieveStages'
  BY <1>b DEF Running, SieveStages, Saving, Completing

<1>f. CASE ~ s_run.preserve /\ s_names' = [s_names EXCEPT !.pair = FALSE] /\ s_kept' = s_names'
        /\ s_store' = s_store
  <2>1. Checkpointed = {} /\ s_names.ckpt = None
    BY <1>b, <1>f DEF Running, Checkpointed
  <2>2. s_names' \in Directories /\ s_names'.ckpt = None
    BY <1>a, <1>f, <2>1 DEF Directories
  <2>3. Checkpointed' = {} /\ KeptOlder'
    BY <1>f, <2>2 DEF Checkpointed, KeptOlder, Sieve!NotOlder
  <2>4. SieveTypes'
    BY <1>a, <1>b, <1>d, <1>f, <2>2 DEF SieveTypes, Pcs, Sieve!Unwind
  <2> QED BY <1>e, <2>3, <2>4 DEF Recoverable
<1>g. CASE s_store' \in Sieve!CutTail(s_store) /\ s_names' = s_names /\ s_kept' = s_kept
  <2>1. /\ s_store' \in Stores /\ s_store'.synced <= Len(s_store'.rows)
        /\ s_store'.id = s_store.id /\ s_store'.sealed = s_store.sealed
             /\ s_store'.safelySealed = s_store.safelySealed
        /\ \A c \in Checkpointed : Covers(s_store, c) => Covers(s_store', c)
    BY <1>a, <1>g, SieveCutKeeps, FoundTyped DEF SieveTypes
  <2>2. Recoverable' /\ KeptOlder'
    BY <1>g, <2>1 DEF Recoverable, Checkpointed, KeptOlder, Sieve!NotOlder
  <2>3. SieveTypes'
    BY <1>a, <1>b, <1>d, <1>g, <2>1 DEF SieveTypes, Pcs, Sieve!Unwind
  <2> QED BY <1>e, <2>2, <2>3
<1> QED BY <1>c, <1>f, <1>g

LEMMA SieveKillKeeps ==
    ASSUME Sieve!SieveResumeAssumption, SieveInv, Sieve!Kill
    PROVE  SieveInv'
<1> USE DEF SieveInv
<1>a. s_run \in Runs /\ s_store \in Stores /\ s_names \in Directories /\ s_kept \in Directories
  BY DEF SieveTypes

<1>b. s_pc' = "down" /\ s_run' = Sieve!Idle /\ s_store' \in Sieve!CutTail(s_store)
        /\ s_names' = s_names /\ s_kept' = s_kept /\ Checkpointed' = Checkpointed
  BY DEF Sieve!Kill, Checkpointed
<1>c. /\ s_store' \in Stores /\ s_store'.synced <= Len(s_store'.rows)
      /\ s_store'.id = s_store.id /\ s_store'.sealed = s_store.sealed
           /\ s_store'.safelySealed = s_store.safelySealed
      /\ \A c \in Checkpointed : Covers(s_store, c) => Covers(s_store', c)
  BY <1>a, <1>b, SieveCutKeeps, FoundTyped DEF SieveTypes

<1>d. s_run' \in Runs
  BY <1>b, IdleIsRun
<1>e. Running' /\ SieveStages'
  BY <1>b DEF Running, SieveStages, Saving, Completing
<1>1. SieveTypes'
  <2>1. s_pc' \in Pcs
    BY DEF SieveInv, SieveTypes, Pcs, Sieve!Kill, Sieve!CutTail
  <2>2. s_run' \in Runs
    BY <1>d
  <2>3. s_store' \in Stores /\ s_store'.synced <= Len(s_store'.rows)
          /\ (s_store'.safelySealed => s_store'.sealed)
    BY <1>c DEF SieveTypes
  <2>4. s_names' \in Directories /\ s_kept' \in Directories
    BY DEF SieveInv, SieveTypes, Directories, Saved, Sieve!Kill, Sieve!CutTail
  <2>5. s_starts' \in Nat
    BY DEF SieveInv, SieveTypes, Sieve!Kill, Sieve!CutTail
  <2> QED BY <2>1, <2>2, <2>3, <2>4, <2>5 DEF SieveTypes
<1>2. Recoverable'
  BY <1>b, <1>c DEF Recoverable
<1>3. KeptOlder'
  BY <1>b, <1>c DEF KeptOlder, Sieve!NotOlder
<1>4. Running'
  BY <1>e
<1>5. SieveStages'
  BY <1>e
<1> QED BY <1>1, <1>2, <1>3, <1>4, <1>5 DEF SieveInv

LEMMA SievePowerCutKeeps ==
    ASSUME Sieve!SieveResumeAssumption, SieveInv, Sieve!PowerCut
    PROVE  SieveInv'
<1> USE DEF SieveInv
<1>a. s_run \in Runs /\ s_store \in Stores /\ s_names \in Directories /\ s_kept \in Directories
  BY DEF SieveTypes

<1>b. PICK cut \in Sieve!CutTail(s_store), magic \in {s_store.sealed, s_store.safelySealed} :
        s_store' = [cut EXCEPT !.sealed = magic, !.safelySealed = magic, !.synced = Len(cut.rows)]
  BY DEF Sieve!PowerCut
<1>c. PICK p \in {s_names, s_kept}, c \in {s_names, s_kept}, t \in {s_names, s_kept} :
        s_names' = [pair |-> p.pair, ckpt |-> c.ckpt, tmp |-> t.tmp]
  BY DEF Sieve!PowerCut
<1>l. s_kept' = s_names' /\ s_pc' = "down" /\ s_run' = Sieve!Idle
  BY DEF Sieve!PowerCut

<1>d. s_run' \in Runs
  BY <1>b, <1>c, <1>l, IdleIsRun
<1>e. Running' /\ SieveStages'
  BY <1>b, <1>c, <1>l DEF Running, SieveStages, Saving, Completing

<1>f. /\ cut \in Stores /\ cut.synced <= Len(cut.rows) /\ cut.sealed = s_store.sealed
      /\ \A d \in Sieve!Checkpoints : Covers(s_store, d) => Covers(cut, d)
  BY <1>a, SieveCutKeeps DEF SieveTypes
<1>g. magic \in BOOLEAN /\ (magic => cut.sealed) /\ Len(cut.rows) \in Nat
  BY <1>a, <1>f DEF SieveTypes, Stores
<1>h. /\ s_store' \in Stores /\ s_store'.synced = Len(cut.rows) /\ s_store'.rows = cut.rows
           /\ s_store'.id = cut.id
      /\ s_store'.sealed = magic /\ s_store'.safelySealed = magic
  BY <1>b, <1>c, <1>l, <1>f, <1>g DEF Stores
<1>i. s_names' \in Directories /\ s_kept' \in Directories /\ s_names'.ckpt = s_kept'.ckpt
        /\ Checkpointed' \subseteq Checkpointed
  BY <1>a, <1>b, <1>c, <1>l DEF Directories, Checkpointed
<1>j. \A d \in Checkpointed : Covers(s_store', d)
  <2> SUFFICES ASSUME NEW d \in Checkpointed PROVE Covers(s_store', d)
    OBVIOUS
  <2>1. d \in Sieve!Checkpoints /\ Covers(cut, d)
    BY <1>a, <1>f, FoundTyped DEF Recoverable
  <2> QED BY <1>f, <1>g, <1>h, <2>1, CoversStill
<1>k. Checkpointed # {} => s_names'.pair /\ s_kept'.pair
  BY <1>b, <1>c, <1>l DEF Recoverable
<1>1. SieveTypes'
  <2>1. s_pc' \in Pcs
    BY <1>l DEF Pcs
  <2>2. s_run' \in Runs
    BY <1>d
  <2>3. s_store' \in Stores /\ s_store'.synced <= Len(s_store'.rows)
          /\ (s_store'.safelySealed => s_store'.sealed)
    BY <1>h DEF Stores
  <2>4. s_names' \in Directories /\ s_kept' \in Directories
    BY <1>i
  <2>5. s_starts' \in Nat
    BY DEF SieveInv, SieveTypes, Sieve!PowerCut, Sieve!CutTail
  <2> QED BY <2>1, <2>2, <2>3, <2>4, <2>5 DEF SieveTypes
<1>2. Recoverable'
  BY <1>i, <1>j, <1>k DEF Recoverable
<1>3. KeptOlder'

  <2>1. s_kept'.ckpt # None => s_kept'.ckpt.cursor \in Nat /\ Len(s_kept'.ckpt.rows) \in Nat
    BY <1>i DEF Directories, Saved, Sieve!Checkpoints
  <2> QED BY <1>i, <2>1 DEF KeptOlder, Sieve!NotOlder
<1>4. Running'
  BY <1>e
<1>5. SieveStages'
  BY <1>e
<1> QED BY <1>1, <1>2, <1>3, <1>4, <1>5 DEF SieveInv

LEMMA SieveInitInv == ASSUME Sieve!SieveResumeAssumption, Sieve!Init PROVE SieveInv
<1>1. None \in Saved /\ Sieve!Idle \in Runs
  BY IdleIsRun DEF Saved
<1>2. s_names \in Directories /\ s_kept \in Directories /\ s_names.ckpt = None
        /\ s_kept.ckpt = None
  BY <1>1 DEF Sieve!Init, Directories
<1>3. s_store \in Stores /\ s_store.synced = 0 /\ Len(s_store.rows) = 0
        /\ s_store.safelySealed = FALSE
  BY DEF Sieve!Init, Stores
<1>4. Checkpointed = {}
  BY <1>2 DEF Checkpointed
<1>5. s_pc = "down" /\ s_run = Sieve!Idle /\ s_starts = 0
  BY DEF Sieve!Init
<1> QED BY <1>1, <1>2, <1>3, <1>4, <1>5 DEF SieveInv, SieveTypes, Pcs, Recoverable, KeptOlder,
   Sieve!NotOlder, Running, SieveStages, Saving, Completing

LEMMA SieveNextInv ==
    ASSUME Sieve!SieveResumeAssumption, SieveInv, [Sieve!Next]_Sieve!vars
    PROVE  SieveInv'
<1>1. CASE Sieve!Next
  BY <1>1, SieveStartFreshKeeps, SieveRecoverKeeps, SieveRefuseKeeps, SieveSieveBatchKeeps,
     SieveReduceKeeps, SieveSuspendKeeps, SieveWriteTemporaryKeeps, SieveRenameKeeps,
     SieveSaveFailsKeeps, SieveSettleKeeps, SieveFlushMetadataKeeps, SieveWriteMagicKeeps,
     SieveFlushMagicKeeps, SieveCompareKeeps, SieveRemoveCheckpointKeeps, SieveFlushRemovalKeeps,
     SieveFinishKeeps, SieveCleanRawKeeps, SieveThrowKeeps, SieveUnwindKeeps, SieveKillKeeps,
     SievePowerCutKeeps DEF Sieve!Next
<1>2. CASE UNCHANGED Sieve!vars
  <2>1. /\ s_pc' = s_pc /\ s_run' = s_run /\ s_store' = s_store /\ s_names' = s_names
             /\ s_kept' = s_kept
        /\ s_starts' = s_starts
    BY <1>2 DEF Sieve!vars
  <2>2. SieveTypes' /\ Checkpointed' = Checkpointed /\ Terminal' = Terminal
          /\ Sieve!Intended' = Sieve!Intended
    BY <2>1 DEF SieveInv, SieveTypes, Checkpointed, Terminal, Sieve!Intended
  <2>3. Recoverable' /\ KeptOlder' /\ Running'
    BY <2>1, <2>2 DEF SieveInv, Recoverable, KeptOlder, Running, Covers, Within, Sieve!NotOlder
  <2>4. SieveStages'
    BY <2>1, <2>2 DEF SieveInv, SieveStages
  <2> QED BY <2>2, <2>3, <2>4 DEF SieveInv
<1> QED BY <1>1, <1>2

\* Whatever fails, dies or loses power, the sieve keeps the invariant
\* (Pipeline::sieve_and_collect).
THEOREM SieveInvariant == ASSUME Sieve!SieveResumeAssumption PROVE Sieve!Spec => []SieveInv
<1>1. Sieve!Init => SieveInv BY SieveInitInv
<1>2. SieveInv /\ [Sieve!Next]_Sieve!vars => SieveInv' BY SieveNextInv
<1> QED BY <1>1, <1>2, PTL DEF Sieve!Spec

\* The checkpoint that the next process finds is covered by a store that it can
\* recover (OOCRelationWriter::validate_resume_prefix).
THEOREM SieveRecoverable ==
    ASSUME Sieve!SieveResumeAssumption
    PROVE  Sieve!Spec => []Sieve!CheckpointRecoverable
<1>1. SieveInv => Sieve!CheckpointRecoverable
  <2> SUFFICES ASSUME SieveInv, NEW c \in Checkpointed
               PROVE  /\ s_names.pair /\ s_kept.pair /\ s_store.id = c.id
                      /\ Sieve!IsPrefix(c.rows, SubSeq(s_store.rows, 1, s_store.synced))
                      /\ s_store.sealed => c.complete /\ s_store.rows = c.rows
    BY DEF Sieve!CheckpointRecoverable, Checkpointed
  <2>1. s_names.pair /\ s_kept.pair /\ Covers(s_store, c) /\ c \in Sieve!Checkpoints
    BY FoundTyped DEF SieveInv, SieveTypes, Recoverable
  <2>2. c.rows \in Seq(Sieve!Relations) /\ s_store.rows \in Seq(Sieve!Relations)
          /\ s_store.synced \in 0 .. Len(s_store.rows)
    BY <2>1 DEF SieveInv, SieveTypes, Stores, Sieve!Checkpoints
  <2> QED BY <2>1, <2>2, WithinIsPrefix DEF Covers
<1> QED BY <1>1, SieveInvariant, PTL

\* No step takes the checkpoint back.
LEMMA NeverOlder ==
    ASSUME Sieve!SieveResumeAssumption, SieveInv, Sieve!Next
    PROVE  Sieve!NotOlder(s_kept.ckpt, s_names'.ckpt) /\ Sieve!NotOlder(s_kept.ckpt, s_kept'.ckpt)
<1>1. KeptOlder /\ KeptOlder' /\ s_names \in Directories /\ s_kept \in Directories
  BY SieveNextInv DEF SieveInv, SieveTypes
<1>2. Sieve!NotOlder(s_kept.ckpt, s_kept.ckpt) /\ Sieve!NotOlder(s_kept.ckpt, s_names.ckpt)
  <2>1. s_kept.ckpt # None => s_kept.ckpt.cursor \in Nat
    BY <1>1 DEF Directories, Saved, Sieve!Checkpoints
  <2> QED BY <1>1, <2>1 DEF KeptOlder, Sieve!NotOlder
<1>3. CASE Sieve!Rename \/ Sieve!RemoveCheckpoint
  <2>1. s_kept' = s_kept /\ s_store' = s_store
    BY <1>3 DEF Sieve!Rename, Sieve!RemoveCheckpoint
  <2> QED BY <1>1, <1>2, <2>1 DEF KeptOlder, Sieve!NotOlder
<1>4. CASE Sieve!Next /\ ~ (Sieve!Rename \/ Sieve!RemoveCheckpoint)
  <2>1. s_names'.ckpt \in {s_kept.ckpt, s_names.ckpt}
          /\ s_kept'.ckpt \in {s_kept.ckpt, s_names.ckpt}
    <3>1. CASE Sieve!StartFresh \/ Sieve!Recover \/ Sieve!Refuse \/ Sieve!SieveBatch
            \/ Sieve!Reduce \/ Sieve!Suspend
      BY <1>1, <3>1 DEF Sieve!StartFresh, Sieve!Recover, Sieve!Refuse, Sieve!SieveBatch,
         Sieve!Reduce, Sieve!Suspend, Directories
    <3>2. CASE Sieve!WriteTemporary \/ Sieve!SaveFails \/ Sieve!Settle
      BY <1>1, <3>2 DEF Sieve!WriteTemporary, Sieve!SaveFails, Sieve!Settle, Directories
    <3>3. CASE Sieve!FlushMetadata \/ Sieve!WriteMagic \/ Sieve!FlushMagic \/ Sieve!Compare
            \/ Sieve!FlushRemoval \/ Sieve!Finish
      BY <1>1, <3>3 DEF Sieve!FlushMetadata, Sieve!WriteMagic, Sieve!FlushMagic, Sieve!Compare,
         Sieve!FlushRemoval, Sieve!Finish
    <3>4. CASE Sieve!CleanRaw \/ Sieve!Throw \/ Sieve!Unwind \/ Sieve!Kill
      BY <1>1, <3>4 DEF Sieve!CleanRaw, Sieve!Throw, Sieve!Unwind, Sieve!Kill, Directories
    <3>5. CASE Sieve!PowerCut
      BY <3>5 DEF Sieve!PowerCut
    <3> QED BY <1>4, <3>1, <3>2, <3>3, <3>4, <3>5 DEF Sieve!Next
  <2> QED BY <1>2, <2>1
<1> QED BY <1>3, <1>4

\* What a durable checkpoint has passed is never given up for an older one
\* (SieveCheckpoint::save, remove_checked).
THEOREM SieveProgress == ASSUME Sieve!SieveResumeAssumption PROVE Sieve!Spec => Sieve!ProgressKept
<1>1. SieveInv /\ [Sieve!Next]_Sieve!vars =>
        [Sieve!NotOlder(s_kept.ckpt, s_names'.ckpt)
            /\ Sieve!NotOlder(s_kept.ckpt, s_kept'.ckpt)]_Sieve!vars
  BY NeverOlder
<1> QED BY <1>1, SieveInvariant, PTL DEF Sieve!Spec, Sieve!ProgressKept

-----------------------------------------------------------------------------
LEMMA OnwardStep ==
    ASSUME Sieve!SieveResumeAssumption, NEW at \in States
    PROVE  /\ Sieve!Onward(at) \in States
           /\ Ended(at) => Sieve!Onward(at) = at
           /\ ~ Ended(at)
                => Sieve!Onward(at).cursor + Sieve!Onward(at).round = at.cursor + at.round + 1
<1>1. /\ Sieve!Budget \in Nat /\ RoundLimit \in Nat \ {0} /\ Sieve!Budget = Len(Yield)
      /\ at.cursor \in 0 .. Sieve!Budget /\ at.round \in 0 .. RoundLimit - 1 /\ at.target \in Nat
      /\ at.rows \in Seq(Sieve!Relations) /\ Len(at.rows) \in Nat
  BY DEF States, Sieve!Budget, Sieve!SieveResumeAssumption
<1>2. CASE ~ Sieve!Sifted(at.cursor, Len(at.rows), at.target)
  <2> DEFINE cursor == at.cursor + 1
             rows == at.rows \o Sieve!Unseen(Sieve!ToSet(at.rows), Yield[at.cursor + 1])
  <2>1. cursor \in 0 .. Sieve!Budget /\ cursor \in 1 .. Len(Yield)
    BY <1>1, <1>2 DEF Sieve!Sifted
  <2>2. Yield[at.cursor + 1] \in Seq(Sieve!Relations)
    BY <2>1 DEF Sieve!SieveResumeAssumption
  <2>3. rows \in Seq(Sieve!Relations)
    BY <1>1, <2>2, UnseenType
  <2>4. Sieve!Onward(at) = [at EXCEPT !.cursor = cursor, !.rows = rows]
    BY <1>2 DEF Sieve!Onward, States
  <2>5. cursor + at.round = at.cursor + at.round + 1
    BY <1>1
  <2> HIDE DEF cursor, rows
  <2>6. Sieve!Onward(at) \in States /\ Sieve!Onward(at).cursor = cursor
          /\ Sieve!Onward(at).round = at.round
    BY <2>1, <2>3, <2>4 DEF States
  <2> QED BY <1>2, <2>5, <2>6 DEF Ended
<1>3. CASE Ended(at)
  BY <1>3 DEF Ended, Sieve!Onward
<1>4. CASE /\ Sieve!Sifted(at.cursor, Len(at.rows), at.target)
           /\ ~ Sieve!LastRound(at.cursor, Len(at.rows), at.round)
  <2> DEFINE round == at.round + 1
             target == Sieve!Grown(at.target)
  <2>1. round \in 0 .. RoundLimit - 1
    BY <1>1, <1>4 DEF Sieve!LastRound
  <2>2. target \in Nat
    BY <1>1 DEF Sieve!Grown, Sieve!SieveResumeAssumption
  <2>3. Sieve!Onward(at) = [at EXCEPT !.round = round, !.target = target]
    BY <1>4 DEF Sieve!Onward, States
  <2>4. at.cursor + round = at.cursor + at.round + 1
    BY <1>1
  <2> HIDE DEF round, target
  <2>5. Sieve!Onward(at) \in States /\ Sieve!Onward(at).cursor = at.cursor
          /\ Sieve!Onward(at).round = round
    BY <2>1, <2>2, <2>3 DEF States
  <2> QED BY <1>4, <2>4, <2>5 DEF Ended
<1> QED BY <1>2, <1>3, <1>4 DEF Ended

LEMMA AloneSteps ==
    ASSUME Sieve!SieveResumeAssumption
    PROVE  /\ Sieve!Longest \in Nat
           /\ Sieve!Alone[0] = [cursor |-> 0, round |-> 0, target |-> FirstTarget, rows |-> <<>>]
           /\ \A n \in 1 .. Sieve!Longest : Sieve!Alone[n] = Sieve!Onward(Sieve!Alone[n - 1])
<1>1. Sieve!Longest \in Nat
  BY DEF Sieve!Longest, Sieve!Budget, Sieve!SieveResumeAssumption
<1>2. 0 \in 0 .. Sieve!Longest
  BY <1>1
<1>3. Sieve!Alone[0] = [cursor |-> 0, round |-> 0, target |-> FirstTarget, rows |-> <<>>]
  BY <1>2, AloneEquation
<1>4. ASSUME NEW n \in 1 .. Sieve!Longest PROVE Sieve!Alone[n] = Sieve!Onward(Sieve!Alone[n - 1])
  <2>1. n \in 0 .. Sieve!Longest /\ n # 0
    BY <1>1
  <2> QED BY <2>1, AloneEquation
<1> QED BY <1>1, <1>3, <1>4

\* A run alone stays in its states, and each of its steps counts until it ends.
LEMMA AloneTyped ==
    ASSUME Sieve!SieveResumeAssumption, NEW n \in 0 .. Sieve!Longest
    PROVE  /\ Sieve!Alone[n] \in States
           /\ Ended(Sieve!Alone[n]) \/ Sieve!Alone[n].cursor + Sieve!Alone[n].round = n
<1> DEFINE P(k) == /\ Sieve!Alone[k] \in States
                   /\ Ended(Sieve!Alone[k]) \/ Sieve!Alone[k].cursor + Sieve!Alone[k].round = k
           T == {k \in 0 .. Sieve!Longest : ~ P(k)}
<1>1. Sieve!Longest \in Nat
  BY AloneSteps
<1>2. P(0)
  <2>1. FirstTarget \in Nat /\ 0 \in 0 .. Sieve!Budget /\ 0 \in 0 .. RoundLimit - 1
          /\ <<>> \in Seq(Sieve!Relations)
    BY DEF Sieve!SieveResumeAssumption, Sieve!Budget
  <2> DEFINE at == Sieve!Alone[0]
  <2>2. at = [cursor |-> 0, round |-> 0, target |-> FirstTarget, rows |-> <<>>]
    BY AloneSteps
  <2> HIDE DEF at
  <2>3. at \in States /\ at.cursor + at.round = 0
    BY <2>1, <2>2 DEF States
  <2> QED BY <2>3 DEF at
<1>3. ASSUME NEW k \in 1 .. Sieve!Longest, P(k - 1) PROVE P(k)
  <2> DEFINE at == Sieve!Alone[k - 1]
  <2>1. Sieve!Alone[k] = Sieve!Onward(at) /\ at \in States
    BY <1>3, AloneSteps
  <2>2. Ended(at) \/ at.cursor + at.round = k - 1
    BY <1>3
  <2> HIDE DEF at
  <2>3. CASE Ended(at)
    BY <2>1, <2>3, OnwardStep
  <2>4. CASE ~ Ended(at)
    <3>1. Sieve!Onward(at).cursor + Sieve!Onward(at).round = at.cursor + at.round + 1
      BY <2>1, <2>4, OnwardStep
    <3>2. (k - 1) + 1 = k
      BY <1>1
    <3> QED BY <2>1, <2>2, <2>4, <3>1, <3>2, OnwardStep
  <2> QED BY <2>3, <2>4
<1> HIDE DEF P
<1>4. T = {}
  <2> SUFFICES ASSUME T # {} PROVE FALSE
    OBVIOUS
  <2>1. T \in SUBSET Nat
    BY <1>1
  <2>2. PICK m \in T : \A k \in T : m <= k
    BY <2>1, LeastElement
  <2>3. m \in 0 .. Sieve!Longest /\ ~ P(m) /\ m # 0
    BY <1>2, <2>2
  <2>4. m \in 1 .. Sieve!Longest /\ m - 1 \in 0 .. Sieve!Longest /\ ~ m <= m - 1
    BY <1>1, <2>3
  <2>5. m - 1 \notin T
    BY <2>2, <2>4
  <2> QED BY <1>3, <2>3, <2>4, <2>5
<1> QED BY <1>4 DEF P

\* The run that nothing interrupts is over at Goal and nowhere before.
LEMMA EndedStays ==
    ASSUME Sieve!SieveResumeAssumption, NEW n \in 0 .. Sieve!Longest, Ended(Sieve!Alone[n])
    PROVE  Sieve!Alone[n] = Sieve!Goal
<1> DEFINE at == Sieve!Alone[n]
           T == {k \in n .. Sieve!Longest : Sieve!Alone[k] # at}
<1>1. Sieve!Longest \in Nat /\ n \in Nat /\ n <= Sieve!Longest
  BY AloneSteps
<1>2. at \in States /\ Sieve!Onward(at) = at
  BY AloneTyped, OnwardStep
<1> HIDE DEF at
<1>3. T = {}
  <2> SUFFICES ASSUME T # {} PROVE FALSE
    OBVIOUS
  <2>1. T \in SUBSET Nat
    BY <1>1
  <2>2. PICK m \in T : \A k \in T : m <= k
    BY <2>1, LeastElement
  <2>3. m \in n .. Sieve!Longest /\ Sieve!Alone[m] # at /\ m # n
    BY <2>2 DEF at
  <2>4. m \in 1 .. Sieve!Longest /\ m - 1 \in n .. Sieve!Longest /\ ~ m <= m - 1
    BY <1>1, <2>3
  <2>5. m - 1 \notin T
    BY <2>2, <2>4
  <2>6. Sieve!Alone[m] = Sieve!Onward(Sieve!Alone[m - 1])
    BY <2>4, AloneSteps
  <2> QED BY <1>2, <2>3, <2>4, <2>5, <2>6
<1>4. Sieve!Longest \in n .. Sieve!Longest
  BY <1>1
<1> QED BY <1>3, <1>4 DEF Sieve!Goal, at

\* The run alone ends in its longest course, whatever the batches hold.
LEMMA GoalEnded ==
    ASSUME Sieve!SieveResumeAssumption
    PROVE  Ended(Sieve!Goal) /\ Sieve!Goal \in States
<1>1. Sieve!Longest \in 0 .. Sieve!Longest /\ Sieve!Goal = Sieve!Alone[Sieve!Longest]
  BY AloneSteps DEF Sieve!Goal
<1>2. Sieve!Goal \in States /\ (Ended(Sieve!Goal)
        \/ Sieve!Goal.cursor + Sieve!Goal.round = Sieve!Longest)
  BY <1>1, AloneTyped
<1>3. Sieve!Goal.cursor + Sieve!Goal.round # Sieve!Longest
  BY <1>2 DEF States, Sieve!Longest, Sieve!Budget, Sieve!SieveResumeAssumption
<1> QED BY <1>2, <1>3

LEMMA EndedIsGoal ==
    ASSUME Sieve!SieveResumeAssumption, NEW at, Visited(at), Ended(at)
    PROVE  at = Sieve!Goal
BY EndedStays DEF Visited

LEMMA OnwardVisited ==
    ASSUME Sieve!SieveResumeAssumption, NEW at, Visited(at)
    PROVE  Visited(Sieve!Onward(at))
<1>1. PICK n \in 0 .. Sieve!Longest : Sieve!Alone[n] = at
  BY DEF Visited
<1>2. Sieve!Longest \in Nat
  BY AloneSteps
<1>3. CASE n = Sieve!Longest
  <2>1. at = Sieve!Goal
    BY <1>1, <1>3 DEF Sieve!Goal
  <2>2. Sieve!Onward(at) = at
    BY <2>1, GoalEnded, OnwardStep
  <2> QED BY <2>2
<1>4. CASE n # Sieve!Longest
  <2>1. n + 1 \in 1 .. Sieve!Longest /\ n + 1 \in 0 .. Sieve!Longest /\ (n + 1) - 1 = n
    BY <1>2, <1>4
  <2>2. Sieve!Alone[n + 1] = Sieve!Onward(at)
    BY <1>1, <2>1, AloneSteps
  <2> QED BY <2>1, <2>2 DEF Visited
<1> QED BY <1>3, <1>4

-----------------------------------------------------------------------------
\* A step that moves neither the run nor its rows, and finds no new checkpoint.
LEMMA StaysOnCourse ==
    ASSUME OnCourse, Checkpointed' \subseteq Checkpointed, s_delivered' = s_delivered,
           s_run'.terminal \in {None, s_run.terminal},
           s_pc' \notin {"down", "throw"} =>
               /\ s_pc \notin {"down", "throw"} /\ Here' = Here /\ s_run'.seen = s_run.seen
               /\ s_store'.rows = s_store.rows /\ (Over' => Over)
    PROVE  OnCourse'
<1> USE DEF OnCourse
<1>1. CheckpointsRight'
  BY DEF CheckpointsRight
<1>2. OnTheWay'
  <2> SUFFICES ASSUME s_pc' \notin {"down", "throw"}
               PROVE  s_run'.seen = Sieve!ToSet(s_store'.rows) /\ Visited(Here')
                        /\ (Over' => Ended(Here'))
    BY DEF OnTheWay
  <2>1. s_run.seen = Sieve!ToSet(s_store.rows) /\ Visited(Here) /\ (Over => Ended(Here))
    BY DEF OnTheWay
  <2> QED BY <2>1
<1>3. Sieve!CorpusExact'
  BY DEF Sieve!CorpusExact
<1> QED BY <1>1, <1>2, <1>3

\* The steps that move the run, find a checkpoint or publish one.
LEMMA StartFreshOnCourse ==
    ASSUME Sieve!SieveResumeAssumption, SieveInv, SieveInv', OnCourse, Sieve!StartFresh
    PROVE  OnCourse'
<1> USE DEF SieveInv, OnCourse
<1>1. PICK remove \in BOOLEAN : s_run' = [Sieve!Idle EXCEPT !.remove = remove]
  BY DEF Sieve!StartFresh, Sieve!SieveResumeAssumption
<1>2. /\ s_run'.cursor = 0 /\ s_run'.round = 0 /\ s_run'.target = FirstTarget /\ s_run'.seen = {}
      /\ s_run'.recovered = "no" /\ s_run'.terminal = None
  BY IdleIsRun, <1>1 DEF Sieve!Idle
<1>3. s_pc' = "sieve" /\ s_store'.rows = <<>> /\ s_delivered' = s_delivered
  BY DEF Sieve!StartFresh
<1>4. Checkpointed' \subseteq Checkpointed
  BY DEF Sieve!StartFresh, Checkpointed, SieveTypes, Directories
<1>5. Here' = Sieve!Alone[0] /\ 0 \in 0 .. Sieve!Longest
  BY <1>2, <1>3, AloneSteps DEF Here
<1>6. Visited(Here')
  BY <1>5 DEF Visited
<1>7. Sieve!ToSet(s_store'.rows) = {} /\ ~ Over'
  BY <1>2, <1>3 DEF Sieve!ToSet, Over, Completing, Saving
<1> QED BY <1>2, <1>3, <1>4, <1>6, <1>7 DEF CheckpointsRight, OnTheWay, Sieve!CorpusExact

LEMMA RecoverOnCourse ==
    ASSUME Sieve!SieveResumeAssumption, SieveInv, SieveInv', OnCourse, Sieve!Recover
    PROVE  OnCourse'
<1> USE DEF SieveInv, OnCourse
<1>1. PICK c \in Sieve!Checkpoints : c = s_names.ckpt /\ c \in Checkpointed
  BY DEF Sieve!Recover, SieveTypes, Directories, Saved, Checkpointed
<1>2. Right(c)
  BY <1>1 DEF CheckpointsRight
<1>3. PICK how \in {"prefix", "terminal", "final"}, remove \in BOOLEAN :
        /\ s_run' = Sieve!Resumed(c, how, remove) /\ s_store'.rows = c.rows
        /\ how # "prefix" => c.complete
  <2>1. s_store \in Stores /\ c.complete \in BOOLEAN
    BY DEF SieveTypes, Sieve!Checkpoints
  <2>2. PICK remove \in RawCleanup :
           \/ /\ s_run' = Sieve!Resumed(c, IF c.complete THEN "terminal" ELSE "prefix", remove)
              /\ s_store'.rows = c.rows
           \/ Sieve!FinalIntact(c) /\ s_run' = Sieve!Resumed(c, "final", remove)
                /\ UNCHANGED s_store
    BY <1>1, <2>1 DEF Sieve!Recover, Stores
  <2>3. remove \in BOOLEAN
    BY DEF Sieve!SieveResumeAssumption
  <2>4. CASE s_store'.rows = c.rows /\ s_run' = Sieve!Resumed(c, IF c.complete THEN "terminal"
          ELSE "prefix", remove)
    BY <2>3, <2>4
  <2>5. CASE Sieve!FinalIntact(c) /\ s_run' = Sieve!Resumed(c, "final", remove)
          /\ UNCHANGED s_store
    BY <2>3, <2>5 DEF Sieve!FinalIntact
  <2> QED BY <2>2, <2>4, <2>5
<1>4. /\ s_run'.cursor = c.cursor /\ s_run'.round = c.round /\ s_run'.target = c.target
      /\ s_run'.seen = Sieve!ToSet(c.rows) /\ s_run'.terminal = c /\ s_run'.recovered = how
      /\ s_run'.saving = "periodic"
  BY <1>3, IdleIsRun DEF Sieve!Resumed, Sieve!Idle
<1>5. s_pc' = "sieve" /\ s_delivered' = s_delivered /\ Checkpointed' = Checkpointed
  BY DEF Sieve!Recover, Checkpointed
<1>6. Here' = Position(c)
  BY <1>3, <1>4 DEF Here, Position
<1>7. Over' => c.complete
  BY <1>3, <1>4, <1>5 DEF Over, Completing, Saving
<1>8. OnTheWay'
  BY <1>2, <1>3, <1>4, <1>6, <1>7 DEF OnTheWay, Right
<1> QED BY <1>2, <1>4, <1>5, <1>8 DEF CheckpointsRight, Sieve!CorpusExact

LEMMA SieveBatchOnCourse ==
    ASSUME Sieve!SieveResumeAssumption, SieveInv, SieveInv', OnCourse, Sieve!SieveBatch
    PROVE  OnCourse'
<1> USE DEF SieveInv, OnCourse
<1>1. /\ s_pc = "sieve" /\ ~ Sieve!RoundOver /\ s_run \in Runs /\ s_store \in Stores
      /\ s_run.cursor \in 0 .. Len(Yield) /\ s_run.cursor # Len(Yield) /\ Len(Yield) \in Nat
      /\ s_delivered' = s_delivered /\ Checkpointed' = Checkpointed
  <2>1. s_run \in Runs /\ s_store \in Stores
    BY DEF SieveTypes
  <2>2. s_pc = "sieve" /\ ~ Sieve!RoundOver /\ s_delivered' = s_delivered
          /\ Checkpointed' = Checkpointed
    BY DEF Sieve!SieveBatch, Checkpointed
  <2>3. s_run.cursor \in 0 .. Len(Yield) /\ Len(Yield) \in Nat
    BY <2>1 DEF Runs, Sieve!SieveResumeAssumption
  <2>4. s_run.cursor # Len(Yield)
    BY <2>2 DEF Sieve!RoundOver, Sieve!Sifted, Sieve!Budget
  <2> QED BY <2>1, <2>2, <2>3, <2>4
<1>2. PICK batch \in Seq(Sieve!Relations) : batch = Yield[s_run.cursor + 1]
  BY <1>1 DEF Sieve!SieveResumeAssumption
<1>3. s_run.seen = Sieve!ToSet(s_store.rows) /\ Visited(Here)
  BY <1>1 DEF OnTheWay
<1> DEFINE new == Sieve!Unseen(s_run.seen, batch)
           cursor == s_run.cursor + 1
           seen == s_run.seen \cup Sieve!ToSet(batch)
           rows == s_store.rows \o new
<1>4. new \in Seq(Sieve!Relations) /\ s_store.rows \in Seq(Sieve!Relations)
        /\ rows \in Seq(Sieve!Relations)
  BY <1>1, UnseenType DEF Stores
<1>5. Sieve!ToSet(rows) = seen
  <2>1. Sieve!ToSet(rows) = Sieve!ToSet(s_store.rows) \cup Sieve!ToSet(new)
    <3> HIDE DEF new
    <3>1. /\ DOMAIN rows = 1 .. Len(s_store.rows) + Len(new) /\ Len(s_store.rows) \in Nat
               /\ Len(new) \in Nat
          /\ \A i \in 1 .. Len(s_store.rows) : rows[i] = s_store.rows[i]
          /\ \A i \in 1 .. Len(new) : rows[Len(s_store.rows) + i] = new[i]
      BY <1>4
    <3>2. DOMAIN s_store.rows = 1 .. Len(s_store.rows) /\ DOMAIN new = 1 .. Len(new)
      BY <1>4
    <3> HIDE DEF rows
    <3>3. ASSUME NEW r \in Sieve!ToSet(rows) PROVE r \in Sieve!ToSet(s_store.rows) \cup Sieve!ToSet(new)
      <4>1. PICK i \in 1 .. Len(s_store.rows) + Len(new) : r = rows[i]
        BY <3>1 DEF Sieve!ToSet
      <4>2. CASE i \in 1 .. Len(s_store.rows)
        BY <3>1, <3>2, <4>1, <4>2 DEF Sieve!ToSet
      <4>3. CASE i \notin 1 .. Len(s_store.rows)
        <5> DEFINE j == i - Len(s_store.rows)
        <5>1. j \in 1 .. Len(new) /\ Len(s_store.rows) + j = i
          BY <3>1, <4>3
        <5> HIDE DEF j
        <5>2. r = new[j]
          BY <3>1, <4>1, <5>1
        <5> QED BY <3>2, <5>1, <5>2 DEF Sieve!ToSet
      <4> QED BY <4>2, <4>3
    <3>4. ASSUME NEW r \in Sieve!ToSet(s_store.rows) PROVE r \in Sieve!ToSet(rows)
      <4>1. PICK i \in 1 .. Len(s_store.rows) : r = s_store.rows[i]
        BY <3>2 DEF Sieve!ToSet
      <4>2. i \in DOMAIN rows /\ rows[i] = r
        BY <3>1, <4>1
      <4> QED BY <4>2 DEF Sieve!ToSet
    <3>5. ASSUME NEW r \in Sieve!ToSet(new) PROVE r \in Sieve!ToSet(rows)
      <4>1. PICK i \in 1 .. Len(new) : r = new[i]
        BY <3>2 DEF Sieve!ToSet
      <4>2. Len(s_store.rows) + i \in DOMAIN rows /\ rows[Len(s_store.rows) + i] = r
        BY <3>1, <4>1
      <4> QED BY <4>2 DEF Sieve!ToSet
    <3> QED BY <3>3, <3>4, <3>5
  <2>2. s_run.seen \cup Sieve!ToSet(new) = s_run.seen \cup Sieve!ToSet(batch)
    BY UnseenType
  <2> QED BY <1>3, <2>1, <2>2
<1>6. /\ s_run' = [s_run EXCEPT !.cursor = cursor, !.since = s_run.since + 1, !.seen = seen,
                            !.saving = "periodic"]
      /\ s_store' = [s_store EXCEPT !.rows = rows] /\ s_pc' \in {"sieve", "suspend"}
  <2>1. s_run' = [s_run EXCEPT !.cursor = s_run.cursor + 1, !.since = s_run.since + 1,
          !.seen = s_run.seen \cup Sieve!ToSet(batch),
                            !.saving = "periodic"]
    BY <1>1, <1>2 DEF Sieve!SieveBatch, Runs
  <2>2. s_store' = [s_store EXCEPT !.rows = s_store.rows \o Sieve!Unseen(s_run.seen, batch)]
    BY <1>1, <1>2 DEF Sieve!SieveBatch, Stores
  <2>3. s_pc' \in {"sieve", "suspend"}
    BY DEF Sieve!SieveBatch
  <2> QED BY <2>1, <2>2, <2>3
<1>7. Sieve!Onward(Here) = [Here EXCEPT !.cursor = cursor, !.rows = rows]
  <2>1. ~ Sieve!Sifted(Here.cursor, Len(Here.rows), Here.target)
    BY <1>1 DEF Sieve!RoundOver, Here
  <2>2. Here.cursor = s_run.cursor /\ Here.rows = s_store.rows
    BY DEF Here
  <2>3. Sieve!Onward(Here) = [Here EXCEPT !.cursor = Here.cursor + 1,
                                    !.rows = Here.rows \o Sieve!Unseen(Sieve!ToSet(Here.rows),
                                        Yield[Here.cursor + 1])]
    <3>1. Here = [cursor |-> s_run.cursor, round |-> s_run.round, target |-> s_run.target,
            rows |-> s_store.rows]
      BY DEF Here
    <3> QED BY <2>1, <3>1 DEF Sieve!Onward
  <2> QED BY <1>2, <1>3, <2>2, <2>3
<1> HIDE DEF new, cursor, seen, rows
<1>8. /\ s_run'.cursor = cursor /\ s_run'.round = s_run.round /\ s_run'.target = s_run.target
      /\ s_run'.seen = seen /\ s_run'.terminal = s_run.terminal /\ s_run'.saving = "periodic"
      /\ s_run'.recovered = s_run.recovered /\ s_store'.rows = rows
  BY <1>1, <1>6 DEF Runs, Stores
<1>9. Here' = Sieve!Onward(Here)
  BY <1>7, <1>8 DEF Here
<1>10. ~ Over'
  BY <1>1, <1>6, <1>8 DEF Over, Sieve!RoundOver, Completing, Saving
<1>11. OnTheWay'
  BY <1>3, <1>5, <1>8, <1>9, <1>10, OnwardVisited DEF OnTheWay
<1> QED BY <1>1, <1>8, <1>11 DEF CheckpointsRight, Sieve!CorpusExact

LEMMA ReduceOnCourse ==
    ASSUME Sieve!SieveResumeAssumption, SieveInv, SieveInv', OnCourse, Sieve!Reduce
    PROVE  OnCourse'
<1> USE DEF SieveInv, OnCourse
<1>1. /\ s_pc = "sieve" /\ Sieve!RoundOver /\ s_run \in Runs /\ s_store \in Stores
      /\ s_delivered' = s_delivered /\ Checkpointed' \subseteq Checkpointed
           /\ s_store'.rows = s_store.rows
  BY DEF Sieve!Reduce, SieveTypes, Checkpointed, Stores
<1>2. s_run.seen = Sieve!ToSet(s_store.rows) /\ Visited(Here) /\ (Over => Ended(Here))
  BY <1>1 DEF OnTheWay
<1> DEFINE final == s_run.recovered = "final"
           generation == IF final THEN s_run.generation ELSE s_run.generation + 1
           probe == [count |-> Len(s_store.rows), generation |-> generation]
           probed == [s_run EXCEPT !.generation = generation, !.probed = probe]
           last == \/ s_run.recovered \in {"terminal", "final"}
                   \/ Sieve!LastRound(s_run.cursor, Len(s_store.rows), s_run.round)
<1>3. IF last THEN s_run' = [probed EXCEPT !.saving = "terminal"]
        /\ s_pc' \in {"finalize", "suspend"}
              ELSE s_run' = [probed EXCEPT !.round = @ + 1, !.target = Sieve!Grown(@)]
                  /\ s_pc' = "sieve"
  BY DEF Sieve!Reduce
<1> HIDE DEF generation, probe
<1>4. /\ probed.cursor = s_run.cursor /\ probed.terminal = s_run.terminal
           /\ probed.seen = s_run.seen
      /\ probed.round = s_run.round /\ probed.target = s_run.target
      /\ probed.recovered = s_run.recovered /\ DOMAIN probed = DOMAIN s_run
  BY <1>1 DEF Runs
<1>5. DOMAIN s_run = {"cursor", "round", "target", "since", "seen", "generation", "probed", "terminal",
                    "preserve", "recovered", "saving", "remove"}
  BY <1>1 DEF Runs
<1> HIDE DEF probed
<1>6. /\ s_run'.cursor = s_run.cursor /\ s_run'.terminal = s_run.terminal
           /\ s_run'.seen = s_run.seen
      /\ s_run'.recovered = s_run.recovered
  BY <1>3, <1>4, <1>5
<1>7. CASE last
  <2>1. Here' = Here
    BY <1>1, <1>3, <1>4, <1>5, <1>6, <1>7 DEF Here
  <2>2. Ended(Here)
    <3>1. CASE s_run.recovered \in {"terminal", "final"}
      BY <1>2, <3>1 DEF Over
    <3>2. CASE s_run.recovered \notin {"terminal", "final"}
      BY <1>1, <1>7, <3>2 DEF Sieve!RoundOver, Ended, Here
    <3> QED BY <3>1, <3>2
  <2>3. OnTheWay'
    BY <1>1, <1>2, <1>6, <2>1, <2>2 DEF OnTheWay
  <2> QED BY <1>1, <1>6, <2>3 DEF CheckpointsRight, Sieve!CorpusExact
<1>8. CASE ~ last
  <2>1. s_run'.round = s_run.round + 1 /\ s_run'.target = Sieve!Grown(s_run.target)
          /\ s_pc' = "sieve"
    BY <1>3, <1>4, <1>5, <1>8
  <2>2. Here' = Sieve!Onward(Here)
    <3>1. Here = [cursor |-> s_run.cursor, round |-> s_run.round, target |-> s_run.target,
            rows |-> s_store.rows]
      BY DEF Here
    <3>2. Sieve!Sifted(s_run.cursor, Len(s_store.rows), s_run.target)
            /\ ~ Sieve!LastRound(s_run.cursor, Len(s_store.rows), s_run.round)
      BY <1>1, <1>8 DEF Sieve!RoundOver
    <3>3. Sieve!Onward(Here) = [Here EXCEPT !.round = s_run.round + 1,
            !.target = Sieve!Grown(s_run.target)]
      BY <3>1, <3>2 DEF Sieve!Onward
    <3> QED BY <1>1, <1>6, <2>1, <3>1, <3>3 DEF Here
  <2>3. ~ Over'
    BY <1>6, <1>8, <2>1 DEF Over, Completing, Saving
  <2>4. OnTheWay'
    BY <1>1, <1>2, <1>6, <2>2, <2>3, OnwardVisited DEF OnTheWay
  <2> QED BY <1>1, <1>6, <2>4 DEF CheckpointsRight, Sieve!CorpusExact
<1> QED BY <1>7, <1>8

LEMMA RenameOnCourse ==
    ASSUME Sieve!SieveResumeAssumption, SieveInv, SieveInv', OnCourse, Sieve!Rename
    PROVE  OnCourse'
<1> USE DEF SieveInv, OnCourse
<1>1. /\ s_pc = "rename" /\ s_pc' = "settle" /\ s_run' = s_run /\ s_store' = s_store
           /\ s_kept' = s_kept
      /\ s_delivered' = s_delivered /\ s_names \in Directories
  BY DEF Sieve!Rename, SieveTypes
<1>2. PICK c \in Sieve!Checkpoints : c = Sieve!Intended
  BY <1>1, IntendedCovers
<1>3. Checkpointed' \subseteq Checkpointed \cup {c}
  BY <1>1, <1>2 DEF Sieve!Rename, Checkpointed, Directories
<1>4. Visited(Here) /\ (Over => Ended(Here))
  BY <1>1 DEF OnTheWay
<1>5. Right(c)
  <2>1. CASE s_run.saving = "restore"
    <3>1. c = s_run.terminal /\ s_run.terminal # None
      BY <1>1, <1>2, <2>1 DEF Sieve!Intended, SieveStages, Saving, Terminal
    <3> QED BY <3>1 DEF CheckpointsRight
  <2>2. CASE s_run.saving # "restore"
    <3>1. /\ c.cursor = s_run.cursor /\ c.round = s_run.round /\ c.target = s_run.target
          /\ c.rows = s_store.rows /\ c.complete = (s_run.saving = "terminal")
      BY <1>2, <2>2 DEF Sieve!Intended
    <3>2. Position(c) = Here
      BY <3>1 DEF Position, Here
    <3>3. c.complete => Over
      BY <1>1, <3>1 DEF Over, Saving
    <3> QED BY <1>4, <3>2, <3>3 DEF Right
  <2> QED BY <2>1, <2>2
<1>6. OnTheWay'
  <2>1. Here' = Here /\ (Over' => Over)
    BY <1>1 DEF Here, Over, Saving, Completing
  <2>2. s_run.seen = Sieve!ToSet(s_store.rows)
    BY <1>1 DEF OnTheWay
  <2> QED BY <1>1, <1>4, <2>1, <2>2 DEF OnTheWay
<1> QED BY <1>1, <1>3, <1>5, <1>6 DEF CheckpointsRight, Sieve!CorpusExact

LEMMA SettleOnCourse ==
    ASSUME Sieve!SieveResumeAssumption, SieveInv, SieveInv', OnCourse, Sieve!Settle
    PROVE  OnCourse'
<1> USE DEF SieveInv, OnCourse
<1>1. /\ s_pc = "settle" /\ s_store' = s_store /\ Checkpointed' \subseteq Checkpointed
           /\ s_delivered' = s_delivered
      /\ s_run \in Runs
  BY DEF Sieve!Settle, Checkpointed, SieveTypes
<1>2. PICK c \in Sieve!Checkpoints : c = Sieve!Intended /\ c = s_names.ckpt /\ c \in Checkpointed
  BY <1>1, IntendedCovers DEF SieveStages, Checkpointed
<1>3. Right(c)
  BY <1>2 DEF CheckpointsRight
<1>4. CASE s_pc' = "throw" /\ s_run' = s_run
  BY <1>1, <1>4, StaysOnCourse
<1>5. CASE /\ s_run.saving # "restore" /\ s_run' = [s_run EXCEPT !.terminal = c, !.since = 0]
           /\ s_pc' = IF s_run.saving = "terminal" THEN "finalize" ELSE "sieve"
  <2>1. /\ s_run'.cursor = s_run.cursor /\ s_run'.round = s_run.round
             /\ s_run'.target = s_run.target
        /\ s_run'.seen = s_run.seen /\ s_run'.recovered = s_run.recovered /\ s_run'.terminal = c
        /\ s_run'.saving = s_run.saving
    BY <1>1, <1>5 DEF Runs
  <2>2. Here' = Here
    BY <1>1, <2>1 DEF Here
  <2>3. Over' => Over
    BY <1>1, <1>5, <2>1 DEF Over, Saving, Completing
  <2>4. OnTheWay'
    BY <1>1, <2>1, <2>2, <2>3 DEF OnTheWay
  <2> QED BY <1>1, <1>3, <2>1, <2>4 DEF CheckpointsRight, Sieve!CorpusExact
<1> QED BY <1>2, <1>4, <1>5 DEF Sieve!Settle

LEMMA FinishOnCourse ==
    ASSUME Sieve!SieveResumeAssumption, SieveInv, SieveInv', OnCourse, Sieve!Finish
    PROVE  OnCourse'
<1> USE DEF SieveInv, OnCourse
<1>1. /\ s_pc = "finish" /\ s_store' = s_store /\ Checkpointed' = Checkpointed
           /\ s_run' \in {s_run, Sieve!Idle}
      /\ Sieve!Idle.terminal = None
  BY DEF Sieve!Finish, Checkpointed, Sieve!Idle
<1>2. s_run.seen = Sieve!ToSet(s_store.rows) /\ Visited(Here) /\ Ended(Here)
  BY <1>1 DEF OnTheWay, Over
<1>3. s_delivered' \in {s_delivered, [rows |-> s_store.rows, cursor |-> s_run.cursor]}
  BY DEF Sieve!Finish
<1>4. Sieve!Goal.rows = s_store.rows /\ Sieve!Goal.cursor = s_run.cursor
  BY <1>2, EndedIsGoal DEF Here
<1>5. Sieve!CorpusExact'
  BY <1>3, <1>4 DEF Sieve!CorpusExact
<1>6. s_pc' \notin {"down", "throw"} => s_pc' = "clean" /\ s_run' = s_run
  BY DEF Sieve!Finish
<1>7. OnTheWay'
  <2>1. s_pc' \notin {"down", "throw"} => Here' = Here /\ s_run'.seen = s_run.seen
    BY <1>1, <1>6 DEF Here
  <2> QED BY <1>1, <1>2, <2>1 DEF OnTheWay
<1> QED BY <1>1, <1>5, <1>7 DEF CheckpointsRight

LEMMA OtherOnCourse ==
    ASSUME Sieve!SieveResumeAssumption, SieveInv, SieveInv', OnCourse,
           \/ Sieve!Refuse \/ Sieve!Suspend \/ Sieve!WriteTemporary \/ Sieve!SaveFails
           \/ Sieve!FlushMetadata \/ Sieve!WriteMagic \/ Sieve!FlushMagic \/ Sieve!Compare
           \/ Sieve!RemoveCheckpoint \/ Sieve!FlushRemoval \/ Sieve!CleanRaw
           \/ Sieve!Throw \/ Sieve!Unwind \/ Sieve!Kill \/ Sieve!PowerCut
    PROVE  OnCourse'
<1>a. s_run \in Runs /\ s_store \in Stores /\ s_names \in Directories /\ s_kept \in Directories
  BY DEF SieveInv, SieveTypes
<1>b. Sieve!Idle.terminal = None
  BY DEF Sieve!Idle
<1>1. CASE Sieve!Refuse \/ Sieve!WriteTemporary \/ Sieve!SaveFails
  <2>1. /\ Checkpointed' \subseteq Checkpointed /\ s_delivered' = s_delivered
             /\ s_store' = s_store
        /\ s_run'.terminal = s_run.terminal /\ s_run'.seen = s_run.seen /\ Here' = Here
        /\ s_run'.recovered = s_run.recovered /\ s_run'.saving = s_run.saving
    BY <1>1, <1>a DEF Sieve!Refuse, Sieve!WriteTemporary, Sieve!SaveFails, Checkpointed,
       Directories, Runs, Here
  <2>2. s_pc' \notin {"down", "throw"} => s_pc \notin {"down", "throw"} /\ (Over' => Over)
    BY <1>1, <2>1 DEF Sieve!Refuse, Sieve!Launch, Sieve!WriteTemporary, Sieve!SaveFails, Over,
       Saving, Completing
  <2> QED BY <2>1, <2>2, StaysOnCourse
<1>2. CASE Sieve!Suspend
  <2>1. /\ Checkpointed' \subseteq Checkpointed /\ s_delivered' = s_delivered
             /\ s_store'.rows = s_store.rows
        /\ s_run'.terminal = s_run.terminal /\ s_run'.seen = s_run.seen
        /\ s_run'.recovered = s_run.recovered /\ s_run'.saving = s_run.saving
        /\ s_run'.cursor = s_run.cursor /\ s_run'.round = s_run.round
             /\ s_run'.target = s_run.target
    <3>1. s_run' = [s_run EXCEPT !.generation = @ + 1, !.preserve = TRUE]
            /\ s_store' = [s_store EXCEPT !.synced = Len(s_store.rows)]
      BY <1>2 DEF Sieve!Suspend
    <3>2. Checkpointed' \subseteq Checkpointed /\ s_delivered' = s_delivered
      BY <1>2 DEF Sieve!Suspend, Checkpointed
    <3> QED BY <1>a, <3>1, <3>2 DEF Runs, Stores
  <2>2. s_pc = "suspend" /\ s_pc' = "write"
    BY <1>2 DEF Sieve!Suspend
  <2>3. Here' = Here /\ (Over' => Over)
    BY <2>1, <2>2 DEF Here, Over, Saving, Completing
  <2> QED BY <2>1, <2>2, <2>3, StaysOnCourse
<1>3. CASE Sieve!FlushMetadata \/ Sieve!WriteMagic \/ Sieve!FlushMagic \/ Sieve!Compare
        \/ Sieve!RemoveCheckpoint
  <2>1. /\ Checkpointed' \subseteq Checkpointed /\ s_delivered' = s_delivered
             /\ s_store'.rows = s_store.rows /\ s_run' = s_run
    BY <1>3, <1>a DEF Sieve!FlushMetadata, Sieve!WriteMagic, Sieve!FlushMagic, Sieve!Compare,
       Sieve!RemoveCheckpoint, Checkpointed, Directories, Stores
  <2>2. s_pc \in Completing
    BY <1>3 DEF Sieve!FlushMetadata, Sieve!WriteMagic, Sieve!FlushMagic, Sieve!Compare,
       Sieve!RemoveCheckpoint, Completing
  <2>3. Here' = Here /\ Over /\ s_pc \notin {"down", "throw"}
    BY <2>1, <2>2 DEF Here, Over, Completing
  <2> QED BY <2>1, <2>3, StaysOnCourse
<1>4. CASE Sieve!FlushRemoval
  <2>1. /\ Checkpointed' \subseteq Checkpointed /\ s_delivered' = s_delivered
             /\ s_store' = s_store
        /\ s_run'.terminal = s_run.terminal /\ s_run'.seen = s_run.seen /\ Here' = Here
    BY <1>4, <1>a DEF Sieve!FlushRemoval, Checkpointed, Runs, Here
  <2>2. Over /\ s_pc \notin {"down", "throw"}
    BY <1>4 DEF Sieve!FlushRemoval, Over, Completing
  <2> QED BY <2>1, <2>2, StaysOnCourse
<1>5. CASE Sieve!CleanRaw \/ Sieve!Throw \/ Sieve!Unwind \/ Sieve!Kill
  <2>1. /\ Checkpointed' \subseteq Checkpointed /\ s_delivered' = s_delivered
             /\ s_run'.terminal \in {None, s_run.terminal}
        /\ s_pc' \in {"down", "throw"}
    BY <1>5, <1>a, <1>b DEF Sieve!CleanRaw, Sieve!Throw, Sieve!Unwind, Sieve!Kill, Checkpointed,
       Directories
  <2> QED BY <2>1, StaysOnCourse
<1>6. CASE Sieve!PowerCut
  <2>1. PICK c \in {s_names, s_kept} : s_names'.ckpt = c.ckpt
    <3>1. PICK p \in {s_names, s_kept}, d \in {s_names, s_kept}, t \in {s_names, s_kept} :
              s_names' = [pair |-> p.pair, ckpt |-> d.ckpt, tmp |-> t.tmp]
      BY <1>6 DEF Sieve!PowerCut
    <3> QED BY <3>1
  <2>2. s_kept' = s_names' /\ s_pc' = "down" /\ s_run' = Sieve!Idle /\ s_delivered' = s_delivered
    BY <1>6 DEF Sieve!PowerCut
  <2>3. Checkpointed' \subseteq Checkpointed
    BY <2>1, <2>2 DEF Checkpointed
  <2> QED BY <1>b, <2>2, <2>3, StaysOnCourse
<1> QED BY <1>1, <1>2, <1>3, <1>4, <1>5, <1>6

LEMMA NextOnCourse ==
    ASSUME Sieve!SieveResumeAssumption, SieveInv, SieveInv', OnCourse, [Sieve!Next]_Sieve!vars
    PROVE  OnCourse'
<1>1. CASE Sieve!Next
  BY <1>1, StartFreshOnCourse, RecoverOnCourse, SieveBatchOnCourse, ReduceOnCourse,
     RenameOnCourse, SettleOnCourse, FinishOnCourse, OtherOnCourse DEF Sieve!Next
<1>2. CASE UNCHANGED Sieve!vars
  <2>1. /\ s_pc' = s_pc /\ s_run' = s_run /\ s_store' = s_store /\ s_names' = s_names
             /\ s_kept' = s_kept
        /\ s_delivered' = s_delivered
    BY <1>2 DEF Sieve!vars
  <2>2. Checkpointed' = Checkpointed /\ Here' = Here /\ (Over' => Over)
    BY <2>1 DEF Checkpointed, Here, Over, Saving, Completing
  <2> QED BY <2>1, <2>2, StaysOnCourse
<1> QED BY <1>1, <1>2

\* However often it is interrupted, the sieve delivers the corpus of the run
\* that was not (Pipeline::sieve_and_collect).
THEOREM SieveExact == ASSUME Sieve!SieveResumeAssumption PROVE Sieve!Spec => []Sieve!CorpusExact
<1>1. Sieve!Init => OnCourse
  BY DEF Sieve!Init, Sieve!Idle, OnCourse, CheckpointsRight, Checkpointed, OnTheWay,
     Sieve!CorpusExact
<1>2. SieveInv /\ SieveInv' /\ OnCourse /\ [Sieve!Next]_Sieve!vars => OnCourse'
  BY NextOnCourse
<1>3. OnCourse => Sieve!CorpusExact
  BY DEF OnCourse
<1> QED BY <1>1, <1>2, <1>3, SieveInvariant, PTL DEF Sieve!Spec

-----------------------------------------------------------------------------
\* WaveMerge.  The generations that were started are 0 .. n - 1: all before the
\* last are closed (MergeChain), the last holds what its steps can leave
\* (MergeLast), one more may be reserved when the last is closed as well, and
\* the process does what its step needs of them (MergeStage).

\* The values that the leaves of a lease take, and the leases that are named.
MergeRecords == {Merge!Absent, "torn", "pending", "canonical"}
MergePlaces == {Merge!Absent, "staging", "final"}
MergeLeases ==
    [lock : BOOLEAN, reserved : MergeRecords, place : MergePlaces, owner : MergeRecords,
        owned : MergeRecords,
     corpus : 0 .. 2, handoff : MergeRecords, tomb : BOOLEAN]
MergeReservations == {Merge!Boundary(b) : b \in 0 .. 8}

MergeHanded == [Merge!Boundary(8) EXCEPT !.reserved = Merge!Absent, !.corpus = 2,
    !.handoff = "canonical"]
MergeOffered(h) == [Merge!Boundary(8) EXCEPT !.corpus = 2, !.handoff = h]

\* While a reservation is built, one of its markers may be torn.
MergeBuilding(l) ==
    \/ l \in MergeReservations
    \/ l = [Merge!Boundary(0) EXCEPT !.reserved = "torn"]
    \/ l = [Merge!Boundary(3) EXCEPT !.owner = "torn"]
    \/ l = [Merge!Boundary(5) EXCEPT !.owned = "torn"]

\* The lease of a generation that writes its corpus.
MergeComplete(l) == l.lock = TRUE /\ l.place = "final" /\ l.owner = "canonical"
    /\ l.owned = "canonical"

MergeWriting(l) ==
    /\ MergeComplete(l) /\ l.reserved = "canonical" /\ l.tomb = FALSE
    /\ l.corpus < 2 => l.handoff = Merge!Absent

\* What the removal of a lease goes through.
MergeShrunk(l) ==
    /\ l.lock = TRUE /\ l.handoff = Merge!Absent
    /\ \/ MergeComplete(l) /\ l.reserved = "canonical"
       \/ /\ l.place = "staging" /\ l.owned = "canonical" /\ l.reserved = "canonical"
          /\ l.owner = "canonical" \/ (l.owner = Merge!Absent /\ l.corpus = 0)
       \/ /\ l.place = Merge!Absent /\ l.owner = Merge!Absent /\ l.corpus = 0
          /\ \/ l.owned = "canonical" /\ l.reserved \in {Merge!Absent, "canonical"}
             \/ l.owned = Merge!Absent /\ l.reserved = Merge!Absent

\* The lease of the generation that was started last.
MergeHeld(l) == l \in MergeReservations \/ MergeWriting(l) \/ MergeShrunk(l) \/ l = MergeHanded

\* Converging and Raw, of the lease alone.
MergeConv(l) == l.tomb = TRUE \/ l = MergeOffered("pending") \/ l = MergeOffered("canonical")
MergeRawLease(l) ==
    /\ l.owned = "canonical" /\ l.tomb = FALSE
    /\ \/ l.place = Merge!Absent /\ l.reserved \in {Merge!Absent, "canonical"}
       \/ /\ l.place # Merge!Absent /\ l.reserved = "canonical" /\ l.handoff = Merge!Absent
          /\ \/ l.owner = "canonical" /\ (l.corpus > 0 \/ l.place = "staging")
             \/ l.owner = Merge!Absent /\ l.corpus = 0 /\ l.place = "staging"

MergeTypes ==
    /\ m_lease \in [Merge!Ordinals -> MergeLeases] /\ m_start \in [Merge!Ordinals -> MergeRecords]
         /\ m_commit \in MergeRecords
    /\ m_gen \in 0 .. Generations /\ m_crashes \in Nat
    /\ m_pc \in {"down", "reopen", "refused", "idle", "exhausted", "converge", "reconcile", "remove",
               "descend", "reserve", "build", "start", "write", "commit", "committed"}

\* n generations are started; all but the last of them are closed, and one
\* more may be reserved once that one is closed too.
MergeChain(n) ==
    /\ \A g \in Merge!Ordinals : (m_start[g] # Merge!Absent) <=> g < n
    /\ \A g \in Merge!Ordinals : g + 1 < n => Merge!Closed(g)
    /\ \A g \in Merge!Ordinals : g > n => m_lease[g] = Merge!NoLease
    /\ n \in Merge!Ordinals =>
          \/ m_lease[n] = Merge!NoLease
          \/ MergeBuilding(m_lease[n]) /\ (n > 0 => Merge!Closed(n - 1))

\* What the last generation and the commit may be: a start is completed on a
\* whole reservation, and a commit is to a prepared generation.
MergeLast(n) ==
    /\ n > 0 /\ m_start[n - 1] # "canonical" => Merge!At(n - 1, 8)
    /\ n > 0 /\ m_start[n - 1] = "canonical" => MergeHeld(m_lease[n - 1])
    /\ m_commit # Merge!Absent => n > 0 /\ Merge!Prepared(n - 1)

\* Which generation the process works on: the last, or the next.
MergeOnLast(n) ==
    /\ n > 0 /\ m_gen = n - 1 /\ m_start[m_gen] = "canonical"
    /\ n \in Merge!Ordinals => m_lease[n] = Merge!NoLease
MergeOnNext(n) == n \in Merge!Ordinals /\ m_gen = n /\ (n > 0 => Merge!Closed(n - 1))

\* What the process has established at each of its steps.
MergeStage(n) ==
    /\ m_pc = "refused" => Merge!AnyTorn
    /\ m_pc \notin {"down", "refused", "commit", "committed", "reopen"} => m_commit = Merge!Absent
    /\ m_pc = "exhausted" => n = Generations
    /\ m_pc = "reopen" => n > 0 /\ m_start[n - 1] = "canonical"
         /\ (Merge!At(n - 1, 0) \/ Merge!Prepared(n - 1))
    /\ m_pc = "idle" => ~ Merge!AnyTorn /\ (n > 0 => Merge!Reservation(n - 1) \/ Merge!Raw(n - 1))
    /\ m_pc = "converge" =>
          /\ MergeOnLast(n)
          /\ \/ MergeShrunk(m_lease[m_gen]) /\ m_lease[m_gen].tomb = TRUE
             \/ MergeWriting(m_lease[m_gen]) /\ m_lease[m_gen].corpus = 2
                  /\ m_lease[m_gen].handoff \in {"pending", "canonical"}
    /\ m_pc = "reconcile" => n > 0 /\ m_gen = n - 1 /\ ~ Merge!Closed(m_gen)
         /\ (Merge!Reservation(m_gen) \/ Merge!Raw(m_gen))
    /\ m_pc = "remove" => MergeOnLast(n) /\ MergeShrunk(m_lease[m_gen])
         /\ m_lease[m_gen].tomb = FALSE
    /\ m_pc = "descend" => (MergeOnLast(n) \/ MergeOnNext(n))
         /\ m_lease[m_gen] \in MergeReservations
    /\ m_pc = "reserve" => MergeOnNext(n)
         /\ (m_lease[n] = Merge!NoLease \/ m_lease[n] \in MergeReservations)
    /\ m_pc = "build" => MergeOnNext(n) /\ MergeBuilding(m_lease[n])
    /\ m_pc = "start" =>
          /\ Merge!At(m_gen, 8)
          /\ MergeOnNext(n) \/ (n > 0 /\ m_gen = n - 1 /\ m_start[m_gen] \in {"torn", "pending"})
    /\ m_pc = "write" => MergeOnLast(n) /\ MergeWriting(m_lease[m_gen])
    /\ m_pc = "commit" => MergeOnLast(n) /\ Merge!Prepared(m_gen)

\* A generation that was started since the last crash has not been paid for
\* yet; every other one has cost a crash.
MergeFresh(n) ==
    \/ m_pc \in {"write", "commit", "committed"}
    \/ m_pc = "start" /\ m_gen + 1 = n
MergeAccounted(n) == n <= (IF MergeFresh(n) THEN m_crashes + 1 ELSE m_crashes)

\* The inductive invariant.
MergeInv == MergeTypes /\ \E n \in 0 .. Generations : MergeChain(n) /\ MergeLast(n)
    /\ MergeStage(n) /\ MergeAccounted(n)

\* A lease is told by its leaves.
LEMMA MergeSameLease ==
    ASSUME NEW l \in MergeLeases, NEW k \in MergeLeases,
           l.lock = k.lock, l.reserved = k.reserved, l.place = k.place, l.owner = k.owner,
           l.owned = k.owned, l.corpus = k.corpus, l.handoff = k.handoff, l.tomb = k.tomb
    PROVE  l = k
<1>1. l = [lock |-> l.lock, reserved |-> l.reserved, place |-> l.place, owner |-> l.owner,
          owned |-> l.owned, corpus |-> l.corpus, handoff |-> l.handoff, tomb |-> l.tomb]
  BY DEF MergeLeases
<1>2. k = [lock |-> k.lock, reserved |-> k.reserved, place |-> k.place, owner |-> k.owner,
          owned |-> k.owned, corpus |-> k.corpus, handoff |-> k.handoff, tomb |-> k.tomb]
  BY DEF MergeLeases
<1> QED BY <1>1, <1>2

\* The leaves of a reservation at a boundary.
LEMMA MergeBoundaryShape ==
    ASSUME NEW b \in 0 .. 8
    PROVE  /\ Merge!Boundary(b) \in MergeLeases /\ Merge!Boundary(b) \in MergeReservations
           /\ Merge!Boundary(b).lock = TRUE /\ Merge!Boundary(b).corpus = 0
                /\ Merge!Boundary(b).handoff = Merge!Absent
           /\ Merge!Boundary(b).tomb = FALSE
           /\ Merge!Boundary(b).reserved = Merge!Reserved(b)
                /\ Merge!Boundary(b).place = Merge!Directory(b)
           /\ Merge!Boundary(b).owner = Merge!Owner(b) /\ Merge!Boundary(b).owned = Merge!Owned(b)
<1> DEFINE r == Merge!Reserved(b)
           d == Merge!Directory(b)
           o == Merge!Owner(b)
           w == Merge!Owned(b)
<1>1. r \in MergeRecords /\ d \in MergePlaces /\ o \in MergeRecords /\ w \in MergeRecords
        /\ Merge!Absent \in MergeRecords
  BY DEF Merge!Reserved, Merge!Directory, Merge!Owner, Merge!Owned, MergeRecords, MergePlaces
<1>2. Merge!Boundary(b) = [lock |-> TRUE, reserved |-> r, place |-> d, owner |-> o, owned |-> w,
        corpus |-> 0,
                     handoff |-> Merge!Absent, tomb |-> FALSE]
  BY DEF Merge!Boundary
<1>3. Merge!Boundary(b) \in MergeReservations
  BY DEF MergeReservations
<1>4. Merge!Reserved(b) = r /\ Merge!Directory(b) = d /\ Merge!Owner(b) = o /\ Merge!Owned(b) = w
  OBVIOUS
<1> HIDE DEF r, d, o, w
<1>5. Merge!Boundary(b) \in MergeLeases
  BY <1>1, <1>2 DEF MergeLeases
<1> QED BY <1>2, <1>3, <1>4, <1>5

\* What all of them have in common.
LEMMA MergeReservationShape ==
    ASSUME NEW l \in MergeReservations
    PROVE  /\ l \in MergeLeases /\ l.lock = TRUE /\ l.corpus = 0 /\ l.handoff = Merge!Absent
                /\ l.tomb = FALSE
           /\ l.reserved # "torn" /\ l.owner # "torn" /\ l.owned # "torn"
           /\ l.place = Merge!Absent => l.owned = Merge!Absent
           /\ l.owned = "canonical" => l.owner = "canonical" /\ l.reserved = "canonical"
<1>1. PICK b \in 0 .. 8 : l = Merge!Boundary(b)
  BY DEF MergeReservations
<1>2. /\ Merge!Reserved(b) # "torn" /\ Merge!Owner(b) # "torn" /\ Merge!Owned(b) # "torn"
      /\ Merge!Directory(b) = Merge!Absent => Merge!Owned(b) = Merge!Absent
      /\ Merge!Owned(b) = "canonical" => Merge!Owner(b) = "canonical"
           /\ Merge!Reserved(b) = "canonical"
  BY DEF Merge!Reserved, Merge!Directory, Merge!Owner, Merge!Owned, Merge!Absent
<1> QED BY <1>1, <1>2, MergeBoundaryShape

\* The first and the last boundary, and the lease with its handoff, leaf by leaf.
LEMMA MergeEnds ==
    ASSUME NEW l \in MergeLeases
    PROVE  /\ l = Merge!Boundary(0) <=>
                 /\ l.lock = TRUE /\ l.reserved = Merge!Absent /\ l.place = Merge!Absent
                      /\ l.owner = Merge!Absent
                 /\ l.owned = Merge!Absent /\ l.corpus = 0 /\ l.handoff = Merge!Absent
                      /\ l.tomb = FALSE
           /\ l = Merge!Boundary(8) <=>
                 /\ l.lock = TRUE /\ l.reserved = "canonical" /\ l.place = "final"
                 /\ l.owner = "canonical" /\ l.owned = "canonical" /\ l.corpus = 0
                 /\ l.handoff = Merge!Absent /\ l.tomb = FALSE
           /\ l = MergeHanded <=>
                 /\ l.lock = TRUE /\ l.reserved = Merge!Absent /\ l.place = "final"
                 /\ l.owner = "canonical" /\ l.owned = "canonical" /\ l.corpus = 2
                 /\ l.handoff = "canonical" /\ l.tomb = FALSE
           /\ \A h \in MergeRecords : l = MergeOffered(h) <=>
                 /\ l.lock = TRUE /\ l.reserved = "canonical" /\ l.place = "final"
                 /\ l.owner = "canonical" /\ l.owned = "canonical" /\ l.corpus = 2
                 /\ l.handoff = h /\ l.tomb = FALSE
<1>1. /\ Merge!Boundary(0) \in MergeLeases /\ Merge!Boundary(0).lock = TRUE
           /\ Merge!Boundary(0).reserved = Merge!Absent
      /\ Merge!Boundary(0).place = Merge!Absent /\ Merge!Boundary(0).owner = Merge!Absent
           /\ Merge!Boundary(0).owned = Merge!Absent
      /\ Merge!Boundary(0).corpus = 0 /\ Merge!Boundary(0).handoff = Merge!Absent
           /\ Merge!Boundary(0).tomb = FALSE
  <2>1. /\ 0 \in 0 .. 8 /\ Merge!Reserved(0) = Merge!Absent /\ Merge!Directory(0) = Merge!Absent
             /\ Merge!Owner(0) = Merge!Absent
        /\ Merge!Owned(0) = Merge!Absent
    BY DEF Merge!Reserved, Merge!Directory, Merge!Owner, Merge!Owned
  <2> QED BY <2>1, MergeBoundaryShape, Zenon
<1>2. /\ Merge!Boundary(8) \in MergeLeases /\ Merge!Boundary(8).lock = TRUE
           /\ Merge!Boundary(8).reserved = "canonical"
      /\ Merge!Boundary(8).place = "final" /\ Merge!Boundary(8).owner = "canonical"
      /\ Merge!Boundary(8).owned = "canonical" /\ Merge!Boundary(8).corpus = 0
      /\ Merge!Boundary(8).handoff = Merge!Absent /\ Merge!Boundary(8).tomb = FALSE
  <2>1. /\ 8 \in 0 .. 8 /\ Merge!Reserved(8) = "canonical" /\ Merge!Directory(8) = "final"
        /\ Merge!Owner(8) = "canonical" /\ Merge!Owned(8) = "canonical"
    BY DEF Merge!Reserved, Merge!Directory, Merge!Owner, Merge!Owned
  <2> QED BY <2>1, MergeBoundaryShape, Zenon
<1>3. Merge!Absent \in MergeRecords /\ "canonical" \in MergeRecords /\ 2 \in 0 .. 2
  BY DEF MergeRecords
<1>4. ASSUME NEW h \in MergeRecords
      PROVE  /\ MergeOffered(h) \in MergeLeases /\ MergeOffered(h).lock = TRUE
                  /\ MergeOffered(h).reserved = "canonical"
             /\ MergeOffered(h).place = "final" /\ MergeOffered(h).owner = "canonical"
             /\ MergeOffered(h).owned = "canonical" /\ MergeOffered(h).corpus = 2
             /\ MergeOffered(h).handoff = h /\ MergeOffered(h).tomb = FALSE
  <2> DEFINE k == [Merge!Boundary(8) EXCEPT !.corpus = 2]
  <2>0. k = [Merge!Boundary(8) EXCEPT !.corpus = 2]
    OBVIOUS
  <2> HIDE DEF k
  <2>1. /\ k \in MergeLeases /\ k.lock = TRUE /\ k.reserved = "canonical" /\ k.place = "final"
        /\ k.owner = "canonical" /\ k.owned = "canonical" /\ k.corpus = 2 /\ k.tomb = FALSE
    BY <2>0, <1>2, <1>3 DEF MergeLeases
  <2>2. MergeOffered(h) = [k EXCEPT !.handoff = h]
    BY <2>0, Zenon DEF MergeOffered, k
  <2> QED BY <2>0, <2>1, <2>2 DEF MergeLeases
<1>5. /\ MergeHanded \in MergeLeases /\ MergeHanded.lock = TRUE
           /\ MergeHanded.reserved = Merge!Absent
      /\ MergeHanded.place = "final" /\ MergeHanded.owner = "canonical"
      /\ MergeHanded.owned = "canonical" /\ MergeHanded.corpus = 2
      /\ MergeHanded.handoff = "canonical" /\ MergeHanded.tomb = FALSE
  <2> DEFINE k == [Merge!Boundary(8) EXCEPT !.reserved = Merge!Absent]
             m == [k EXCEPT !.corpus = 2]
  <2>0. k = [Merge!Boundary(8) EXCEPT !.reserved = Merge!Absent] /\ m = [k EXCEPT !.corpus = 2]
    OBVIOUS
  <2> HIDE DEF k, m
  <2>1. /\ k \in MergeLeases /\ k.lock = TRUE /\ k.reserved = Merge!Absent /\ k.place = "final"
        /\ k.owner = "canonical" /\ k.owned = "canonical" /\ k.corpus = 0 /\ k.tomb = FALSE
    BY <2>0, <1>2, <1>3 DEF MergeLeases
  <2>2. MergeHanded = [m EXCEPT !.handoff = "canonical"]
    BY <2>0, Zenon DEF MergeHanded, k, m
  <2>3. /\ m \in MergeLeases /\ m.lock = TRUE /\ m.reserved = Merge!Absent /\ m.place = "final"
        /\ m.owner = "canonical" /\ m.owned = "canonical" /\ m.corpus = 2 /\ m.tomb = FALSE
    BY <2>0, <1>3, <2>1 DEF MergeLeases
  <2> QED BY <2>0, <1>3, <2>2, <2>3 DEF MergeLeases
<1>6. l = Merge!Boundary(0) <=>
                 /\ l.lock = TRUE /\ l.reserved = Merge!Absent /\ l.place = Merge!Absent
                      /\ l.owner = Merge!Absent
                 /\ l.owned = Merge!Absent /\ l.corpus = 0 /\ l.handoff = Merge!Absent
                      /\ l.tomb = FALSE
  BY <1>1, MergeSameLease, Zenon
<1>7. l = Merge!Boundary(8) <=>
                 /\ l.lock = TRUE /\ l.reserved = "canonical" /\ l.place = "final"
                 /\ l.owner = "canonical" /\ l.owned = "canonical" /\ l.corpus = 0
                 /\ l.handoff = Merge!Absent /\ l.tomb = FALSE
  BY <1>2, MergeSameLease, Zenon
<1>8. l = MergeHanded <=>
                 /\ l.lock = TRUE /\ l.reserved = Merge!Absent /\ l.place = "final"
                 /\ l.owner = "canonical" /\ l.owned = "canonical" /\ l.corpus = 2
                 /\ l.handoff = "canonical" /\ l.tomb = FALSE
  BY <1>5, MergeSameLease, Zenon
<1>9. ASSUME NEW h \in MergeRecords
      PROVE  l = MergeOffered(h) <=>
                 /\ l.lock = TRUE /\ l.reserved = "canonical" /\ l.place = "final"
                 /\ l.owner = "canonical" /\ l.owned = "canonical" /\ l.corpus = 2
                 /\ l.handoff = h /\ l.tomb = FALSE
  <2>1. CASE l = MergeOffered(h)
    BY <1>4, <2>1, Zenon
  <2>2. ASSUME l.lock = TRUE, l.reserved = "canonical", l.place = "final", l.owner = "canonical",
               l.owned = "canonical", l.corpus = 2, l.handoff = h, l.tomb = FALSE
        PROVE  l = MergeOffered(h)
    <3> DEFINE k == MergeOffered(h)
    <3>1. /\ k \in MergeLeases /\ k.lock = TRUE /\ k.reserved = "canonical" /\ k.place = "final"
          /\ k.owner = "canonical" /\ k.owned = "canonical" /\ k.corpus = 2 /\ k.handoff = h
          /\ k.tomb = FALSE
      BY <1>4, Zenon
    <3> HIDE DEF k
    <3>2. l = k
      BY <2>2, <3>1, MergeSameLease
    <3> QED BY <3>2 DEF k
  <2> QED BY <2>1, <2>2, Zenon
<1> QED BY <1>6, <1>7, <1>8, <1>9

LEMMA MergeNoLeaseShape ==
    /\ Merge!NoLease \in MergeLeases /\ Merge!NoLease.lock = FALSE
         /\ Merge!NoLease.handoff = Merge!Absent /\ Merge!NoLease.tomb = FALSE
    /\ Merge!NoLease.reserved = Merge!Absent /\ Merge!NoLease.owner = Merge!Absent
         /\ Merge!NoLease.owned = Merge!Absent
    /\ Merge!NoLease.corpus = 0 /\ Merge!NoLease \notin MergeReservations
<1>1. Merge!Boundary(0) \in MergeLeases
  <2>1. 0 \in 0 .. 8
    OBVIOUS
  <2> QED BY <2>1, MergeBoundaryShape, Zenon
<1>2. Merge!NoLease \in MergeLeases /\ Merge!NoLease.lock = FALSE
  BY <1>1 DEF MergeLeases, Merge!NoLease
<1>3. Merge!NoLease \notin MergeReservations
  BY <1>2, MergeReservationShape, Zenon
<1> QED BY <1>1, <1>2, <1>3, MergeEnds DEF MergeLeases, Merge!NoLease

\* A reservation that is built holds no corpus, and what is torn shows.
LEMMA MergeBuildingShape ==
    ASSUME NEW l, MergeBuilding(l)
    PROVE  /\ l \in MergeLeases /\ l.lock = TRUE /\ l.corpus = 0 /\ l.handoff = Merge!Absent
                /\ l.tomb = FALSE
           /\ l \notin MergeReservations => "torn" \in {l.reserved, l.owner, l.owned}
<1>0. "torn" \in MergeRecords /\ 0 \in 0 .. 8 /\ 3 \in 0 .. 8 /\ 5 \in 0 .. 8
  BY DEF MergeRecords
<1>1. CASE l \in MergeReservations
  BY <1>1, MergeReservationShape
<1>2. CASE l = [Merge!Boundary(0) EXCEPT !.reserved = "torn"]
  <2>1. Merge!Boundary(0) \in MergeLeases /\ Merge!Boundary(0).lock = TRUE
          /\ Merge!Boundary(0).corpus = 0
        /\ Merge!Boundary(0).handoff = Merge!Absent /\ Merge!Boundary(0).tomb = FALSE
    BY <1>0, MergeBoundaryShape, Zenon
  <2> QED BY <1>0, <1>2, <2>1 DEF MergeLeases
<1>3. CASE l = [Merge!Boundary(3) EXCEPT !.owner = "torn"]
  <2>1. Merge!Boundary(3) \in MergeLeases /\ Merge!Boundary(3).lock = TRUE
          /\ Merge!Boundary(3).corpus = 0
        /\ Merge!Boundary(3).handoff = Merge!Absent /\ Merge!Boundary(3).tomb = FALSE
    BY <1>0, MergeBoundaryShape, Zenon
  <2> QED BY <1>0, <1>3, <2>1 DEF MergeLeases
<1>4. CASE l = [Merge!Boundary(5) EXCEPT !.owned = "torn"]
  <2>1. Merge!Boundary(5) \in MergeLeases /\ Merge!Boundary(5).lock = TRUE
          /\ Merge!Boundary(5).corpus = 0
        /\ Merge!Boundary(5).handoff = Merge!Absent /\ Merge!Boundary(5).tomb = FALSE
    BY <1>0, MergeBoundaryShape, Zenon
  <2> QED BY <1>0, <1>4, <2>1 DEF MergeLeases
<1> QED BY <1>1, <1>2, <1>3, <1>4 DEF MergeBuilding

\* Removal takes one thing after the other, and what it leaves can go on.
LEMMA MergeRemovedShrinks ==
    ASSUME NEW l \in MergeLeases, MergeShrunk(l)
    PROVE  Merge!Removed(l) \in MergeLeases /\ MergeShrunk(Merge!Removed(l))
             /\ Merge!Removed(l).tomb = l.tomb
<1>0. Merge!Absent \in MergeRecords /\ Merge!Absent \in MergePlaces /\ "staging" \in MergePlaces
  BY DEF MergeRecords, MergePlaces
<1>1. CASE l.place = "final"
  <2>1. Merge!Removed(l) = [l EXCEPT !.place = "staging"]
    BY <1>1 DEF Merge!Removed, Merge!Absent
  <2>2. l.lock = TRUE /\ l.handoff = Merge!Absent /\ MergeComplete(l) /\ l.reserved = "canonical"
    BY <1>1 DEF MergeShrunk, MergeLeases, Merge!Absent
  <2> DEFINE k == [l EXCEPT !.place = "staging"]
  <2>0. k = [l EXCEPT !.place = "staging"]
    OBVIOUS
  <2> HIDE DEF k
  <2>3. /\ k \in MergeLeases /\ k.lock = TRUE /\ k.handoff = Merge!Absent /\ k.place = "staging"
        /\ k.owner = "canonical" /\ k.owned = "canonical" /\ k.reserved = "canonical"
        /\ k.tomb = l.tomb
    BY <2>0, <1>0, <2>2 DEF MergeLeases, MergeComplete
  <2> QED BY <2>0, <2>1, <2>3 DEF MergeShrunk
<1>2. CASE l.place = "staging" /\ l.corpus > 0
  <2>1. Merge!Removed(l) = [l EXCEPT !.corpus = l.corpus - 1]
    BY <1>2 DEF Merge!Removed, Merge!Absent
  <2>2. /\ l.lock = TRUE /\ l.handoff = Merge!Absent /\ l.owner = "canonical"
             /\ l.owned = "canonical"
        /\ l.reserved = "canonical" /\ l.corpus - 1 \in 0 .. 2
    BY <1>2 DEF MergeShrunk, MergeLeases, MergeComplete, Merge!Absent
  <2> DEFINE k == [l EXCEPT !.corpus = l.corpus - 1]
  <2>0. k = [l EXCEPT !.corpus = l.corpus - 1]
    OBVIOUS
  <2> HIDE DEF k
  <2>3. /\ k \in MergeLeases /\ k.lock = TRUE /\ k.handoff = Merge!Absent /\ k.place = "staging"
        /\ k.owner = "canonical" /\ k.owned = "canonical" /\ k.reserved = "canonical"
        /\ k.tomb = l.tomb
    BY <2>0, <1>2, <2>2 DEF MergeLeases
  <2> QED BY <2>0, <2>1, <2>3 DEF MergeShrunk
<1>3. CASE l.place = "staging" /\ l.corpus = 0 /\ l.owner # Merge!Absent
  <2>1. Merge!Removed(l) = [l EXCEPT !.owner = Merge!Absent]
    BY <1>3 DEF Merge!Removed, Merge!Absent
  <2>2. /\ l.lock = TRUE /\ l.handoff = Merge!Absent /\ l.owned = "canonical"
             /\ l.reserved = "canonical"
    BY <1>3 DEF MergeShrunk, MergeLeases, MergeComplete, Merge!Absent
  <2> DEFINE k == [l EXCEPT !.owner = Merge!Absent]
  <2>0. k = [l EXCEPT !.owner = Merge!Absent]
    OBVIOUS
  <2> HIDE DEF k
  <2>3. /\ k \in MergeLeases /\ k.lock = TRUE /\ k.handoff = Merge!Absent /\ k.place = "staging"
        /\ k.owner = Merge!Absent /\ k.owned = "canonical" /\ k.reserved = "canonical"
        /\ k.corpus = 0 /\ k.tomb = l.tomb
    BY <2>0, <1>0, <1>3, <2>2 DEF MergeLeases
  <2> QED BY <2>0, <2>1, <2>3 DEF MergeShrunk
<1>4. CASE l.place = "staging" /\ l.corpus = 0 /\ l.owner = Merge!Absent
  <2>1. Merge!Removed(l) = [l EXCEPT !.place = Merge!Absent]
    BY <1>4 DEF Merge!Removed, Merge!Absent
  <2>2. /\ l.lock = TRUE /\ l.handoff = Merge!Absent /\ l.owned = "canonical"
             /\ l.reserved = "canonical"
    BY <1>4 DEF MergeShrunk, MergeLeases, MergeComplete, Merge!Absent
  <2> DEFINE k == [l EXCEPT !.place = Merge!Absent]
  <2>0. k = [l EXCEPT !.place = Merge!Absent]
    OBVIOUS
  <2> HIDE DEF k
  <2>3. /\ k \in MergeLeases /\ k.lock = TRUE /\ k.handoff = Merge!Absent
             /\ k.place = Merge!Absent
        /\ k.owner = Merge!Absent /\ k.owned = "canonical" /\ k.reserved = "canonical"
        /\ k.corpus = 0 /\ k.tomb = l.tomb
    BY <2>0, <1>0, <1>4, <2>2 DEF MergeLeases
  <2> QED BY <2>0, <2>1, <2>3 DEF MergeShrunk
<1>5. CASE l.place = Merge!Absent /\ l.reserved # Merge!Absent
  <2>1. Merge!Removed(l) = [l EXCEPT !.reserved = Merge!Absent]
    BY <1>5 DEF Merge!Removed, Merge!Absent
  <2>2. /\ l.lock = TRUE /\ l.handoff = Merge!Absent /\ l.owned = "canonical"
             /\ l.owner = Merge!Absent
        /\ l.corpus = 0
    BY <1>5 DEF MergeShrunk, MergeLeases, MergeComplete, Merge!Absent
  <2> DEFINE k == [l EXCEPT !.reserved = Merge!Absent]
  <2>0. k = [l EXCEPT !.reserved = Merge!Absent]
    OBVIOUS
  <2> HIDE DEF k
  <2>3. /\ k \in MergeLeases /\ k.lock = TRUE /\ k.handoff = Merge!Absent
             /\ k.place = Merge!Absent
        /\ k.owner = Merge!Absent /\ k.owned = "canonical" /\ k.reserved = Merge!Absent
        /\ k.corpus = 0 /\ k.tomb = l.tomb
    BY <2>0, <1>0, <1>5, <2>2 DEF MergeLeases
  <2> QED BY <2>0, <2>1, <2>3 DEF MergeShrunk
<1>6. CASE l.place = Merge!Absent /\ l.reserved = Merge!Absent
  <2>1. Merge!Removed(l) = [l EXCEPT !.owned = Merge!Absent]
    BY <1>6 DEF Merge!Removed, Merge!Absent
  <2>2. /\ l.lock = TRUE /\ l.handoff = Merge!Absent /\ l.owner = Merge!Absent /\ l.corpus = 0
    BY <1>6 DEF MergeShrunk, MergeLeases, MergeComplete, Merge!Absent
  <2> DEFINE k == [l EXCEPT !.owned = Merge!Absent]
  <2>0. k = [l EXCEPT !.owned = Merge!Absent]
    OBVIOUS
  <2> HIDE DEF k
  <2>3. /\ k \in MergeLeases /\ k.lock = TRUE /\ k.handoff = Merge!Absent
             /\ k.place = Merge!Absent
        /\ k.owner = Merge!Absent /\ k.owned = Merge!Absent /\ k.reserved = Merge!Absent
        /\ k.corpus = 0 /\ k.tomb = l.tomb
    BY <2>0, <1>0, <1>6, <2>2 DEF MergeLeases
  <2> QED BY <2>0, <2>1, <2>3 DEF MergeShrunk
<1>7. l.corpus > 0 \/ l.corpus = 0
  BY DEF MergeLeases
<1> QED BY <1>1, <1>2, <1>3, <1>4, <1>5, <1>6, <1>7 DEF MergeLeases, MergePlaces

LEMMA MergeEndsReserved == Merge!Boundary(0) \in MergeReservations
    /\ Merge!Boundary(8) \in MergeReservations
BY DEF MergeReservations

LEMMA MergeHandoffShows ==
    ASSUME NEW l \in MergeLeases
    PROVE  /\ MergeConv(l) => l.tomb = TRUE \/ (l.corpus = 2
                /\ l.handoff \in {"pending", "canonical"})
           /\ l = MergeHanded => l.corpus = 2 /\ l.handoff = "canonical"
                /\ l.reserved = Merge!Absent
<1>1. "pending" \in MergeRecords /\ "canonical" \in MergeRecords
  BY DEF MergeRecords
<1>2. l = MergeOffered("pending") => l.corpus = 2 /\ l.handoff = "pending"
  BY <1>1, MergeEnds, Zenon
<1>3. l = MergeOffered("canonical") => l.corpus = 2 /\ l.handoff = "canonical"
  BY <1>1, MergeEnds, Zenon
<1>4. l = MergeHanded => l.corpus = 2 /\ l.handoff = "canonical" /\ l.reserved = Merge!Absent
  BY MergeEnds, Zenon
<1> QED BY <1>2, <1>3, <1>4 DEF MergeConv

\* What the lease of the generation that was started last may be.
LEMMA MergeHeldLease ==
    ASSUME NEW l \in MergeLeases, MergeHeld(l)
    PROVE  /\ MergeRawLease(l) => MergeShrunk(l) /\ l.tomb = FALSE
           /\ MergeConv(l) =>
                 \/ MergeShrunk(l) /\ l.tomb = TRUE
                 \/ MergeWriting(l) /\ l.corpus = 2 /\ l.handoff \in {"pending", "canonical"}
           /\ l.handoff # "torn" => l \in MergeReservations \/ MergeRawLease(l) \/ l = MergeHanded
                \/ MergeConv(l)
           /\ l.reserved # "torn" /\ l.owner # "torn" /\ l.owned # "torn" /\ l.lock = TRUE
           /\ l = MergeHanded => ~ MergeConv(l) /\ ~ MergeRawLease(l)
                /\ l \notin MergeReservations /\ l.handoff = "canonical"
           /\ MergeConv(l) => l \notin MergeReservations /\ ~ MergeRawLease(l)
<1>0. "pending" \in MergeRecords /\ "canonical" \in MergeRecords
  BY DEF MergeRecords
<1>1. CASE l \in MergeReservations
  <2>1. /\ l.lock = TRUE /\ l.corpus = 0 /\ l.handoff = Merge!Absent /\ l.tomb = FALSE
        /\ l.reserved # "torn" /\ l.owner # "torn" /\ l.owned # "torn"
        /\ l.place = Merge!Absent => l.owned = Merge!Absent
        /\ l.owned = "canonical" => l.owner = "canonical" /\ l.reserved = "canonical"
    BY <1>1, MergeReservationShape, Zenon
  <2>2. ~ MergeConv(l) /\ l # MergeHanded
    <3>1. l.corpus # 2
      BY <2>1
    <3> QED BY <2>1, <3>1, MergeHandoffShows, Zenon
  <2>3. MergeRawLease(l) => MergeShrunk(l)
    BY <2>1 DEF MergeRawLease, MergeShrunk, Merge!Absent, MergeLeases, MergePlaces
  <2> QED BY <1>1, <2>1, <2>2, <2>3
<1>2. CASE MergeWriting(l)
  <2>1. /\ l.lock = TRUE /\ l.place = "final" /\ l.owner = "canonical" /\ l.owned = "canonical"
        /\ l.reserved = "canonical" /\ l.tomb = FALSE /\ l.corpus \in 0 .. 2
             /\ l.handoff \in MergeRecords
        /\ l.corpus < 2 => l.handoff = Merge!Absent
    BY <1>2 DEF MergeWriting, MergeComplete, MergeLeases
  <2>2. l # MergeHanded
    BY <2>1, MergeEnds DEF Merge!Absent
  <2>3. MergeConv(l) <=> l.corpus = 2 /\ l.handoff \in {"pending", "canonical"}
    BY <1>0, <2>1, MergeEnds DEF MergeConv
  <2>4. MergeRawLease(l) <=> l.handoff = Merge!Absent /\ l.corpus > 0
    BY <2>1 DEF MergeRawLease, Merge!Absent
  <2>5. l.corpus = 0 => l \in MergeReservations
    <3>1. ASSUME l.corpus = 0 PROVE l = Merge!Boundary(8)
      <4>1. l.handoff = Merge!Absent
        BY <2>1, <3>1
      <4> QED BY <2>1, <3>1, <4>1, MergeEnds, Zenon
    <3>2. Merge!Boundary(8) \in MergeReservations
      BY DEF MergeReservations
    <3> QED BY <3>1, <3>2
  <2>6. MergeRawLease(l) => MergeShrunk(l)
    BY <2>1, <2>4 DEF MergeShrunk, MergeComplete
  <2>7. l \in MergeReservations => l.corpus = 0 /\ l.handoff = Merge!Absent
    BY MergeReservationShape
  <2>8. l.handoff \in {Merge!Absent, "torn", "pending", "canonical"}
          /\ (l.corpus = 0 \/ l.corpus > 0)
        /\ (l.corpus = 2 \/ l.corpus < 2)
    BY <2>1 DEF MergeRecords
  <2> QED BY <1>2, <2>1, <2>2, <2>3, <2>4, <2>5, <2>6, <2>7, <2>8 DEF Merge!Absent
<1>3. CASE MergeShrunk(l)
  <2>1. /\ l.lock = TRUE /\ l.handoff = Merge!Absent /\ l.corpus \in 0 .. 2
    BY <1>3 DEF MergeShrunk, MergeLeases
  <2>2. l # MergeHanded /\ (MergeConv(l) <=> l.tomb = TRUE)
    BY <1>0, <2>1, MergeEnds DEF MergeConv, Merge!Absent
  <2>3. l \in MergeReservations \/ MergeRawLease(l) \/ l.tomb = TRUE
    <3>0. Merge!Boundary(0) \in MergeReservations /\ Merge!Boundary(8) \in MergeReservations
      BY DEF MergeReservations
    <3>1. CASE MergeComplete(l) /\ l.reserved = "canonical"
      <4>1. l.corpus = 0 /\ l.tomb = FALSE => l = Merge!Boundary(8)
        BY <2>1, <3>1, MergeEnds DEF MergeComplete
      <4>2. l.corpus > 0 /\ l.tomb = FALSE => MergeRawLease(l)
        BY <2>1, <3>1 DEF MergeComplete, MergeRawLease, Merge!Absent
      <4> QED BY <2>1, <3>0, <4>1, <4>2 DEF MergeLeases
    <3>2. CASE l.place = "staging"
      BY <1>3, <2>1, <3>2 DEF MergeShrunk, MergeRawLease, MergeComplete, Merge!Absent, MergeLeases
    <3>3. CASE l.place = Merge!Absent
      <4>1. l.owned = Merge!Absent /\ l.tomb = FALSE => l = Merge!Boundary(0)
        BY <1>3, <2>1, <3>3, MergeEnds DEF MergeShrunk, MergeComplete, Merge!Absent
      <4>2. l.owned # Merge!Absent /\ l.tomb = FALSE => MergeRawLease(l)
        BY <1>3, <2>1, <3>3 DEF MergeShrunk, MergeComplete, MergeRawLease, Merge!Absent
      <4> QED BY <3>0, <4>1, <4>2 DEF MergeLeases
    <3> QED BY <1>3, <3>1, <3>2, <3>3 DEF MergeShrunk
  <2>4. l.reserved # "torn" /\ l.owner # "torn" /\ l.owned # "torn"
    BY <1>3 DEF MergeShrunk, MergeComplete, Merge!Absent
  <2>5. MergeRawLease(l) => l.tomb = FALSE
    BY DEF MergeRawLease
  <2>6. l \in MergeReservations => l.tomb = FALSE
    BY MergeReservationShape
  <2> QED BY <1>3, <2>1, <2>2, <2>3, <2>4, <2>5, <2>6
<1>4. CASE l = MergeHanded
  <2>1. /\ l.lock = TRUE /\ l.reserved = Merge!Absent /\ l.place = "final"
        /\ l.owner = "canonical" /\ l.owned = "canonical" /\ l.corpus = 2
        /\ l.handoff = "canonical" /\ l.tomb = FALSE
    BY <1>4, MergeEnds, Zenon
  <2>2. ~ MergeConv(l)
    BY <1>0, <2>1, MergeEnds DEF MergeConv, Merge!Absent
  <2>3. ~ MergeRawLease(l)
    BY <2>1 DEF MergeRawLease, Merge!Absent
  <2>4. ASSUME l \in MergeReservations PROVE FALSE
    <3>1. l.corpus = 0
      BY <2>4, MergeReservationShape, Zenon
    <3> QED BY <2>1, <3>1
  <2> QED BY <1>4, <2>1, <2>2, <2>3, <2>4 DEF Merge!Absent
<1> QED BY <1>1, <1>2, <1>3, <1>4 DEF MergeHeld

LEMMA MergeKinds ==
    ASSUME MergeTypes, NEW g \in Merge!Ordinals
    PROVE  /\ m_lease[g] \in MergeLeases /\ m_start[g] \in MergeRecords
           /\ Merge!Raw(g) <=> m_start[g] # Merge!Absent /\ MergeRawLease(m_lease[g])
           /\ Merge!Converging(g) <=> MergeConv(m_lease[g])
           /\ Merge!Prepared(g) <=> m_lease[g] = MergeHanded
           /\ Merge!Reservation(g) <=> m_lease[g] \in MergeReservations
           /\ Merge!At(g, 0) => Merge!Reservation(g)
           /\ \A b \in 0 .. 8 : Merge!At(g, b) => m_lease[g] \in MergeReservations
<1>1. m_lease[g] \in MergeLeases /\ m_start[g] \in MergeRecords
  BY DEF MergeTypes
<1>2. m_lease[g].tomb \in BOOLEAN
  BY <1>1 DEF MergeLeases
<1>3. Merge!Raw(g) <=> m_start[g] # Merge!Absent /\ MergeRawLease(m_lease[g])
  BY <1>2 DEF Merge!Raw, MergeRawLease
<1>4. Merge!Converging(g) <=> MergeConv(m_lease[g])
  BY <1>2 DEF Merge!Converging, MergeConv, MergeOffered
<1>5. Merge!Prepared(g) <=> m_lease[g] = MergeHanded
  BY DEF Merge!Prepared, MergeHanded
<1>6. /\ Merge!Reservation(g) <=> m_lease[g] \in MergeReservations
      /\ \A b \in 0 .. 8 : Merge!At(g, b) => m_lease[g] \in MergeReservations
  BY DEF Merge!Reservation, MergeReservations, Merge!At
<1>7. Merge!At(g, 0) => Merge!Reservation(g)
  BY DEF Merge!Reservation
<1> QED BY <1>1, <1>3, <1>4, <1>5, <1>6, <1>7

\* The generations that are started are the first ones.
LEMMA MergeCounting ==
    ASSUME Merge!MergeAssumption, NEW n \in 0 .. Generations, MergeChain(n)
    PROVE  Merge!Started = 0 .. (n - 1) /\ Cardinality(Merge!Started) = n /\ Merge!Latest = n - 1
<1>1. Merge!Started = 0 .. (n - 1)
  BY DEF Merge!MergeAssumption, MergeChain, Merge!Started, Merge!Ordinals
<1>2. Cardinality(0 .. (n - 1)) = n
  <2>1. 0 \in Int /\ n - 1 \in Int
    BY DEF Merge!MergeAssumption
  <2>2. Cardinality(0 .. (n - 1)) = IF 0 > n - 1 THEN 0 ELSE (n - 1) - 0 + 1
    BY <2>1, FS_Interval
  <2> QED BY <2>2 DEF Merge!MergeAssumption
<1> QED BY <1>1, <1>2 DEF Merge!Latest, Merge!Cardinality, Cardinality

LEMMA MergeTheLast ==
    ASSUME Merge!MergeAssumption, MergeTypes, NEW n \in 0 .. Generations, MergeChain(n),
             MergeLast(n)
    PROVE  /\ n > 0 =>
                 /\ n - 1 \in Merge!Ordinals /\ m_lease[n - 1] \in MergeLeases
                      /\ MergeHeld(m_lease[n - 1])
                 /\ m_start[n - 1] # Merge!Absent
                 /\ m_start[n - 1] # "canonical" => m_lease[n - 1] = Merge!Boundary(8)
           /\ \A g \in Merge!Ordinals : (g < n - 1 => m_lease[g] = Merge!Boundary(0)) /\ (g > n
                => m_lease[g] = Merge!NoLease)
           /\ n \in Merge!Ordinals => m_lease[n] = Merge!NoLease \/ MergeBuilding(m_lease[n])
<1>1. ASSUME n > 0
      PROVE  /\ n - 1 \in Merge!Ordinals /\ m_lease[n - 1] \in MergeLeases
                  /\ MergeHeld(m_lease[n - 1])
             /\ m_start[n - 1] # Merge!Absent
             /\ m_start[n - 1] # "canonical" => m_lease[n - 1] = Merge!Boundary(8)
  <2>1. n - 1 \in Merge!Ordinals
    BY <1>1 DEF Merge!MergeAssumption, Merge!Ordinals
  <2>2. m_lease[n - 1] \in MergeLeases /\ m_start[n - 1] # Merge!Absent
    BY <1>1, <2>1 DEF MergeTypes, MergeChain, Merge!Ordinals
  <2>3. Merge!Boundary(8) \in MergeReservations
    BY DEF MergeReservations
  <2>4. MergeHeld(m_lease[n - 1]) /\ (m_start[n - 1] # "canonical"
          => m_lease[n - 1] = Merge!Boundary(8))
    BY <1>1, <2>3 DEF MergeLast, Merge!At, MergeHeld
  <2> QED BY <2>1, <2>2, <2>4
<1>2. /\ \A g \in Merge!Ordinals : (g < n - 1 => m_lease[g] = Merge!Boundary(0)) /\ (g > n
           => m_lease[g] = Merge!NoLease)
      /\ n \in Merge!Ordinals => m_lease[n] = Merge!NoLease \/ MergeBuilding(m_lease[n])
  BY DEF MergeChain, Merge!Closed, Merge!At, Merge!Ordinals, Merge!MergeAssumption
<1> QED BY <1>1, <1>2

\* A handoff, or what is left of one, is in the last lease only.
LEMMA MergeOnlyLast ==
    ASSUME Merge!MergeAssumption, MergeTypes, NEW n \in 0 .. Generations, MergeChain(n),
             MergeLast(n), NEW g \in Merge!Ordinals,
           m_lease[g].handoff # Merge!Absent \/ MergeConv(m_lease[g]) \/ m_lease[g] = MergeHanded
    PROVE  n > 0 /\ g = n - 1 /\ m_start[g] = "canonical"
<1>0. "pending" \in MergeRecords /\ "canonical" \in MergeRecords /\ 0 \in 0 .. 8 /\ 8 \in 0 .. 8
  BY DEF MergeRecords
<1>1. ASSUME NEW l \in MergeLeases, l.handoff = Merge!Absent, l.tomb = FALSE
      PROVE  ~ MergeConv(l) /\ l # MergeHanded
  BY <1>0, <1>1, MergeEnds DEF MergeConv, Merge!Absent
<1>2. ASSUME m_lease[g] = Merge!NoLease \/ MergeBuilding(m_lease[g])
      PROVE  FALSE
  <2>1. m_lease[g] \in MergeLeases /\ m_lease[g].handoff = Merge!Absent /\ m_lease[g].tomb = FALSE
    BY <1>2, MergeNoLeaseShape, MergeBuildingShape, Zenon
  <2> QED BY <1>1, <2>1
<1>3. ASSUME NEW b \in 0 .. 8, m_lease[g] = Merge!Boundary(b)
      PROVE  FALSE
  <2>1. m_lease[g] \in MergeLeases /\ m_lease[g].handoff = Merge!Absent /\ m_lease[g].tomb = FALSE
    BY <1>3, MergeBoundaryShape, Zenon
  <2> QED BY <1>1, <2>1
<1>4. g < n - 1 \/ g = n - 1 \/ g = n \/ g > n
  BY DEF Merge!Ordinals, Merge!MergeAssumption
<1>5. g = n - 1 => n > 0
  BY DEF Merge!Ordinals, Merge!MergeAssumption
<1> QED BY <1>0, <1>2, <1>3, <1>4, <1>5, MergeTheLast

-----------------------------------------------------------------------------
\* A namespace none of whose records is torn is admitted.
LEMMA MergeNotTornAdmitted ==
    ASSUME Merge!MergeAssumption, MergeTypes, NEW n \in 0 .. Generations, MergeChain(n),
             MergeLast(n), ~ Merge!AnyTorn
    PROVE  Merge!Admitted
<1>1. Merge!Started = 0 .. (n - 1) /\ Merge!Latest = n - 1
  BY MergeCounting
<1>2. Merge!Started = {g \in Merge!Ordinals : g <= Merge!Latest}
  BY <1>1 DEF Merge!Ordinals, Merge!MergeAssumption
<1>3. ASSUME NEW g \in Merge!Started
      PROVE  /\ m_start[g] \in {"pending", "canonical"}
             /\ g < Merge!Latest => Merge!Closed(g)
             /\ \/ Merge!Reservation(g) \/ Merge!Raw(g) \/ Merge!Prepared(g)
                  \/ Merge!Converging(g)
             /\ m_start[g] = "pending" => Merge!At(g, 8)
  <2>1. g \in Merge!Ordinals /\ m_start[g] # Merge!Absent /\ g < n /\ g >= 0
    BY <1>1 DEF Merge!Started, Merge!Ordinals
  <2>2. m_start[g] \in {"pending", "canonical"}
    BY <2>1, MergeKinds DEF Merge!AnyTorn, MergeRecords
  <2>3. g < Merge!Latest => Merge!Closed(g)
    BY <1>1, <2>1 DEF MergeChain, Merge!MergeAssumption
  <2>4. CASE g < n - 1
    BY <1>1, <2>1, <2>2, <2>3, <2>4, MergeKinds DEF Merge!Closed
  <2>5. CASE g = n - 1
    <3>1. MergeHeld(m_lease[g]) /\ m_lease[g].handoff # "torn"
      BY <2>1, <2>5, MergeTheLast DEF Merge!AnyTorn
    <3>2. \/ Merge!Reservation(g) \/ Merge!Raw(g) \/ Merge!Prepared(g) \/ Merge!Converging(g)
      BY <2>1, <3>1, MergeKinds, MergeHeldLease
    <3>3. m_start[g] = "pending" => Merge!At(g, 8)
      BY <2>1, <2>5 DEF MergeLast
    <3> QED BY <2>2, <2>3, <3>2, <3>3
  <2> QED BY <2>1, <2>4, <2>5 DEF Merge!MergeAssumption, Merge!Ordinals
<1>4. ASSUME NEW g \in Merge!Ordinals \ Merge!Started, m_lease[g].lock
      PROVE  Merge!Reservation(g) /\ g = Merge!Latest + 1
               /\ \A h \in Merge!Started : Merge!Closed(h)
  <2>1. g = n \/ g > n
    BY <1>1 DEF Merge!Started, Merge!Ordinals, Merge!MergeAssumption
  <2>2. m_lease[g] # Merge!NoLease
    BY <1>4, MergeNoLeaseShape
  <2>3. g = n
    BY <2>1, <2>2, MergeTheLast
  <2>4. MergeBuilding(m_lease[g]) /\ (n > 0 => Merge!Closed(n - 1))
    BY <2>2, <2>3 DEF MergeChain
  <2>5. m_lease[g] \in MergeReservations
    BY <2>4, MergeBuildingShape DEF Merge!AnyTorn
  <2>6. ASSUME NEW h \in Merge!Started PROVE Merge!Closed(h)
    BY <1>1, <2>4 DEF MergeChain, Merge!Ordinals, Merge!MergeAssumption
  <2> QED BY <1>1, <2>3, <2>5, <2>6, MergeKinds
<1>5. m_commit # "torn"
  BY DEF Merge!AnyTorn
<1>6. m_commit # Merge!Absent => Merge!Ready # {}
  BY MergeTheLast DEF MergeLast, Merge!Ready
<1> QED BY <1>2, <1>3, <1>4, <1>5, <1>6 DEF Merge!Admitted

-----------------------------------------------------------------------------
\* A step that changes the lease of the generation that was started last, or
\* of the one after it.
LEMMA MergeSetLast ==
    ASSUME Merge!MergeAssumption, MergeTypes, NEW n \in 0 .. Generations, MergeChain(n),
             MergeOnLast(n), m_commit = Merge!Absent,
           NEW l \in MergeLeases, MergeHeld(l), m_lease' = [m_lease EXCEPT ![m_gen] = l],
             m_start' = m_start, m_commit' = m_commit
    PROVE  /\ MergeChain(n)' /\ MergeLast(n)' /\ m_lease' \in [Merge!Ordinals -> MergeLeases]
           /\ n > 0 /\ m_gen = n - 1 /\ m_gen \in Merge!Ordinals /\ m_lease'[m_gen] = l
           /\ m_start'[m_gen] = "canonical" /\ (n \in Merge!Ordinals
                => m_lease'[n] = Merge!NoLease)
<1>1. n > 0 /\ m_gen = n - 1 /\ m_gen \in Merge!Ordinals /\ m_start[m_gen] = "canonical"
      /\ (n \in Merge!Ordinals => m_lease[n] = Merge!NoLease)
  BY DEF MergeOnLast, Merge!MergeAssumption, Merge!Ordinals
<1>2. /\ m_lease' \in [Merge!Ordinals -> MergeLeases] /\ m_lease'[m_gen] = l
      /\ \A g \in Merge!Ordinals : g # m_gen => m_lease'[g] = m_lease[g]
  BY <1>1 DEF MergeTypes
<1>3. MergeChain(n)'
  BY <1>1, <1>2 DEF MergeChain, Merge!Closed, Merge!At, Merge!MergeAssumption, Merge!Ordinals
<1>4. MergeLast(n)'
  BY <1>1, <1>2 DEF MergeLast
<1> QED BY <1>1, <1>2, <1>3, <1>4 DEF Merge!MergeAssumption, Merge!Ordinals

LEMMA MergeSetNext ==
    ASSUME Merge!MergeAssumption, MergeTypes, NEW n \in 0 .. Generations, MergeChain(n),
             MergeLast(n), MergeOnNext(n),
           NEW l, MergeBuilding(l), m_lease' = [m_lease EXCEPT ![m_gen] = l], m_start' = m_start,
             m_commit' = m_commit
    PROVE  /\ MergeChain(n)' /\ MergeLast(n)' /\ m_lease' \in [Merge!Ordinals -> MergeLeases]
           /\ n \in Merge!Ordinals /\ m_gen = n /\ m_lease'[n] = l /\ (n > 0
                => Merge!Closed(n - 1)')
<1>1. n \in Merge!Ordinals /\ m_gen = n /\ (n > 0 => Merge!Closed(n - 1)) /\ l \in MergeLeases
  BY MergeBuildingShape DEF MergeOnNext
<1>2. /\ m_lease' \in [Merge!Ordinals -> MergeLeases] /\ m_lease'[n] = l
      /\ \A g \in Merge!Ordinals : g # n => m_lease'[g] = m_lease[g]
  BY <1>1 DEF MergeTypes
<1>3. n > 0 => n - 1 \in Merge!Ordinals /\ n - 1 # n
  BY DEF Merge!MergeAssumption, Merge!Ordinals
<1>4. n > 0 => Merge!Closed(n - 1)'
  BY <1>1, <1>2, <1>3 DEF Merge!Closed, Merge!At
<1>5. MergeChain(n)'
  BY <1>1, <1>2, <1>4 DEF MergeChain, Merge!Closed, Merge!At, Merge!MergeAssumption,
     Merge!Ordinals
<1>6. MergeLast(n)'
  BY <1>2, <1>3 DEF MergeLast, Merge!At, Merge!Prepared
<1> QED BY <1>1, <1>2, <1>4, <1>5, <1>6

LEMMA MergeSameDisk ==
    ASSUME NEW n \in 0 .. Generations, MergeChain(n), MergeLast(n), m_lease' = m_lease,
             m_start' = m_start, m_commit' = m_commit
    PROVE  MergeChain(n)' /\ MergeLast(n)'
BY DEF MergeChain, MergeLast, Merge!Closed, Merge!At, Merge!Prepared

-----------------------------------------------------------------------------
\* Every step of the process keeps the invariant, and so does a crash.
LEMMA MergeOpenKeeps == ASSUME Merge!MergeAssumption, MergeInv, Merge!Open PROVE MergeInv'
<1>1. PICK n \in 0 .. Generations : MergeChain(n) /\ MergeLast(n) /\ MergeStage(n)
        /\ MergeAccounted(n)
  BY DEF MergeInv
<1>2. m_lease' = m_lease /\ m_start' = m_start /\ m_commit' = m_commit /\ m_crashes' = m_crashes
        /\ MergeTypes
  BY DEF Merge!Open, Merge!disk, Merge!Goto, MergeInv
<1>3. MergeChain(n)' /\ MergeLast(n)'
  BY <1>1, <1>2, MergeSameDisk
<1>4. n <= m_crashes /\ MergeAccounted(n)'
  BY <1>1, <1>2 DEF MergeAccounted, MergeFresh, Merge!Open, MergeTypes, Merge!MergeAssumption
<1>5. Merge!Goto("refused", Merge!NoGen) => Merge!AnyTorn
  <2>1. m_pc = "reopen" => \A g \in Merge!Ordinals : ~ Merge!Converging(g)
    <3> SUFFICES ASSUME m_pc = "reopen", NEW g \in Merge!Ordinals, Merge!Converging(g) PROVE FALSE
      OBVIOUS
    <3>1. MergeConv(m_lease[g])
      BY <1>2, MergeKinds
    <3>2. n > 0 /\ g = n - 1
      BY <1>1, <1>2, <3>1, MergeOnlyLast
    <3>3. MergeHeld(m_lease[g]) /\ m_lease[g] \in MergeLeases
      BY <1>1, <1>2, <3>2, MergeTheLast
    <3>4. Merge!At(g, 0) \/ Merge!Prepared(g)
      BY <1>1, <3>2 DEF MergeStage
    <3>5. m_lease[g] \in MergeReservations \/ m_lease[g] = MergeHanded
      BY <1>2, <3>4, MergeKinds
    <3> QED BY <3>1, <3>3, <3>5, MergeHeldLease
  <2>2. Merge!Goto("refused", Merge!NoGen) => ~ Merge!Admitted
          \/ (m_pc = "reopen" /\ \E g \in Merge!Ordinals : Merge!Converging(g))
    BY DEF Merge!Open, Merge!Goto
  <2> QED BY <1>1, <1>2, <2>1, <2>2, MergeNotTornAdmitted
<1>6. ASSUME NEW g \in Merge!Ordinals, Merge!Converging(g), Merge!Goto("converge", g)
      PROVE  MergeTypes' /\ MergeStage(n)'
  <2>1. MergeConv(m_lease[g])
    BY <1>2, <1>6, MergeKinds
  <2>2. n > 0 /\ g = n - 1 /\ m_start[g] = "canonical"
    BY <1>1, <1>2, <2>1, MergeOnlyLast
  <2>3. MergeHeld(m_lease[g]) /\ m_lease[g] \in MergeLeases
    BY <1>1, <1>2, <2>2, MergeTheLast
  <2>4. \/ MergeShrunk(m_lease[g]) /\ m_lease[g].tomb = TRUE
        \/ MergeWriting(m_lease[g]) /\ m_lease[g].corpus = 2
             /\ m_lease[g].handoff \in {"pending", "canonical"}
    BY <2>1, <2>3, MergeHeldLease
  <2>5. n \in Merge!Ordinals => m_lease[n] = Merge!NoLease
    <3>1. m_lease[g] # Merge!Boundary(0)
      BY <2>1, <2>3, MergeHeldLease, MergeEndsReserved
    <3> QED BY <1>1, <2>2, <3>1 DEF MergeChain, Merge!Closed, Merge!At
  <2>6. m_commit = Merge!Absent
    BY <1>1, <1>2, <2>1, <2>2, <2>3, MergeHeldLease, MergeKinds DEF MergeLast
  <2>7. m_pc' = "converge" /\ m_gen' = g
    BY <1>6 DEF Merge!Goto
  <2>8. MergeOnLast(n)'
    BY <1>2, <2>2, <2>5, <2>7 DEF MergeOnLast
  <2>9. MergeStage(n)'
    BY <1>2, <2>4, <2>6, <2>7, <2>8 DEF MergeStage, MergeShrunk, MergeWriting, MergeComplete
  <2>10. MergeTypes'
    BY <1>2, <1>6, <2>7 DEF MergeTypes, Merge!Ordinals, Merge!MergeAssumption
  <2> QED BY <2>9, <2>10
<1>7. ASSUME Merge!Admitted, \A g \in Merge!Ordinals : ~ Merge!Converging(g), Merge!Ready = {},
        Merge!Goto("idle", Merge!NoGen)
      PROVE  MergeTypes' /\ MergeStage(n)'
  <2>1. m_pc' = "idle" /\ m_gen' = Generations
    BY <1>7 DEF Merge!Goto, Merge!NoGen
  <2>2. n > 0 => n - 1 \in Merge!Ordinals /\ n - 1 \in Merge!Started
    BY <1>1, <1>2, MergeTheLast DEF Merge!Started
  <2>3. n > 0 => Merge!Reservation(n - 1) \/ Merge!Raw(n - 1)
    BY <1>7, <2>2 DEF Merge!Admitted, Merge!Ready
  <2>4. m_commit = Merge!Absent
    BY <1>1, <1>7, <2>2 DEF MergeLast, Merge!Ready
  <2>5. ~ Merge!AnyTorn
    <3> SUFFICES ASSUME NEW g \in Merge!Ordinals,
                        "torn" \in {m_start[g], m_lease[g].reserved, m_lease[g].owner, m_lease[g].owned,
                                    m_lease[g].handoff}
                 PROVE  FALSE
      BY <2>4 DEF Merge!AnyTorn, Merge!Absent
    <3>1. m_start[g] # "torn"
      BY <1>7 DEF Merge!Admitted, Merge!Started, Merge!Absent
    <3>2. ASSUME m_lease[g] \in MergeReservations PROVE FALSE
      BY <3>1, <3>2, MergeReservationShape DEF Merge!Absent
    <3>3. ASSUME m_lease[g] = Merge!NoLease PROVE FALSE
      BY <3>1, <3>3, MergeNoLeaseShape DEF Merge!Absent
    <3>4. CASE g < n - 1
      <4>1. Merge!Boundary(0) \in MergeReservations
        BY DEF MergeReservations
      <4> QED BY <1>1, <1>2, <3>2, <3>4, <4>1, MergeTheLast
    <3>5. CASE g = n - 1
      <4>1. MergeHeld(m_lease[g]) /\ m_lease[g] \in MergeLeases
        BY <1>1, <1>2, <2>2, <3>5, MergeTheLast DEF Merge!Ordinals, Merge!MergeAssumption
      <4>2. m_lease[g].handoff = "torn"
        BY <3>1, <4>1, MergeHeldLease
      <4>3. MergeRawLease(m_lease[g])
        BY <1>2, <2>2, <2>3, <3>2, <3>5, MergeKinds DEF Merge!Ordinals, Merge!MergeAssumption
      <4> QED BY <4>1, <4>2, <4>3, MergeHeldLease DEF MergeShrunk, Merge!Absent
    <3>6. CASE g = n
      <4>1. m_lease[g].lock = TRUE => Merge!Reservation(g)
        <5>1. g \notin Merge!Started
          BY <1>1, <3>6 DEF MergeChain, Merge!Started
        <5> QED BY <1>7, <5>1 DEF Merge!Admitted
      <4>2. MergeBuilding(m_lease[g])
        BY <1>1, <1>2, <3>3, <3>6, MergeTheLast
      <4> QED BY <1>2, <3>2, <4>1, <4>2, MergeBuildingShape, MergeKinds
    <3>7. CASE g > n
      BY <1>1, <1>2, <3>3, <3>7, MergeTheLast
    <3> QED BY <3>4, <3>5, <3>6, <3>7 DEF Merge!Ordinals, Merge!MergeAssumption
  <2>6. MergeStage(n)'
    BY <1>2, <2>1, <2>3, <2>4, <2>5 DEF MergeStage, Merge!AnyTorn, Merge!Reservation, Merge!At,
       Merge!Raw
  <2> QED BY <1>2, <2>1, <2>6 DEF MergeTypes, Merge!MergeAssumption
<1>8. ASSUME NEW g \in Merge!Ready, Merge!Goto("commit", g)
      PROVE  MergeTypes' /\ MergeStage(n)'
  <2>1. g \in Merge!Ordinals /\ m_lease[g] = MergeHanded /\ Merge!Prepared(g)
    BY <1>2, <1>8, MergeKinds DEF Merge!Ready
  <2>2. n > 0 /\ g = n - 1 /\ m_start[g] = "canonical"
    BY <1>1, <1>2, <2>1, MergeOnlyLast
  <2>3. MergeHeld(m_lease[g]) /\ m_lease[g] \in MergeLeases
    BY <1>1, <1>2, <2>2, MergeTheLast
  <2>4. m_lease[g] # Merge!Boundary(0)
    BY <2>1, <2>3, MergeHeldLease, MergeEndsReserved
  <2>5. n \in Merge!Ordinals => m_lease[n] = Merge!NoLease
    BY <1>1, <2>2, <2>4 DEF MergeChain, Merge!Closed, Merge!At
  <2>6. m_pc' = "commit" /\ m_gen' = g
    BY <1>8 DEF Merge!Goto
  <2>7. MergeOnLast(n)' /\ Merge!Prepared(m_gen)'
    BY <1>2, <2>1, <2>2, <2>5, <2>6 DEF MergeOnLast, Merge!Prepared
  <2>8. MergeStage(n)'
    BY <2>6, <2>7 DEF MergeStage
  <2> QED BY <1>2, <2>1, <2>6, <2>8 DEF MergeTypes, Merge!Ordinals, Merge!MergeAssumption
<1>9. ASSUME Merge!Goto("refused", Merge!NoGen)
      PROVE  MergeTypes' /\ MergeStage(n)'
  <2>1. m_pc' = "refused" /\ m_gen' = Generations
    BY <1>9 DEF Merge!Goto, Merge!NoGen
  <2>2. Merge!AnyTorn'
    BY <1>2, <1>5, <1>9 DEF Merge!AnyTorn
  <2>3. MergeStage(n)'
    BY <2>1, <2>2 DEF MergeStage
  <2> QED BY <1>2, <2>1, <2>3 DEF MergeTypes, Merge!MergeAssumption
<1>10. MergeTypes' /\ MergeStage(n)'
  BY <1>6, <1>7, <1>8, <1>9 DEF Merge!Open
<1> QED BY <1>3, <1>4, <1>10 DEF MergeInv

LEMMA MergeConvergeKeeps ==
    ASSUME Merge!MergeAssumption, MergeInv, Merge!ArmRollback \/ Merge!RollBackHandoff
             \/ Merge!RemoveTombstone \/ Merge!RevokeReserved
    PROVE  MergeInv'
<1>1. PICK n \in 0 .. Generations : MergeChain(n) /\ MergeLast(n) /\ MergeStage(n)
        /\ MergeAccounted(n)
  BY DEF MergeInv
<1>2. MergeTypes /\ m_pc = "converge" /\ m_start' = m_start /\ m_commit' = m_commit
        /\ m_crashes' = m_crashes
  BY DEF Merge!ArmRollback, Merge!RollBackHandoff, Merge!RemoveTombstone, Merge!RevokeReserved,
     Merge!Set, Merge!Stay, Merge!Goto, MergeInv
<1>3. MergeOnLast(n) /\ m_commit = Merge!Absent
  BY <1>1, <1>2 DEF MergeStage
<1> DEFINE l == m_lease[m_gen]
<1>4. \/ MergeShrunk(l) /\ l.tomb = TRUE
      \/ MergeWriting(l) /\ l.corpus = 2 /\ l.handoff \in {"pending", "canonical"}
  BY <1>1, <1>2 DEF MergeStage
<1>5. m_gen \in Merge!Ordinals /\ l \in MergeLeases /\ l.handoff \in MergeRecords
        /\ l.tomb \in BOOLEAN
  BY <1>2, <1>3 DEF MergeOnLast, Merge!MergeAssumption, Merge!Ordinals, MergeTypes, MergeLeases
<1>6. MergeAccounted(n)'
  <2>1. n <= m_crashes
    BY <1>1, <1>2 DEF MergeAccounted, MergeFresh
  <2> QED BY <1>2, <2>1 DEF MergeAccounted, MergeTypes, Merge!MergeAssumption
<1>7. ASSUME NEW k \in MergeLeases, MergeShrunk(k), k.tomb = TRUE,
        m_lease' = [m_lease EXCEPT ![m_gen] = k],
             UNCHANGED <<m_pc, m_gen>>
      PROVE  MergeInv'
  <2>1. MergeHeld(k)
    BY <1>7 DEF MergeHeld
  <2>2. /\ MergeChain(n)' /\ MergeLast(n)' /\ m_lease' \in [Merge!Ordinals -> MergeLeases]
             /\ m_lease'[m_gen] = k
        /\ n > 0 /\ m_gen = n - 1 /\ m_start'[m_gen] = "canonical"
             /\ (n \in Merge!Ordinals => m_lease'[n] = Merge!NoLease)
    BY <1>1, <1>2, <1>3, <1>7, <2>1, MergeSetLast
  <2>3. MergeStage(n)'
    BY <1>2, <1>3, <1>7, <2>2 DEF MergeStage, MergeOnLast
  <2> QED BY <1>2, <1>6, <1>7, <2>2, <2>3 DEF MergeInv, MergeTypes
<1>8. ASSUME NEW k \in MergeLeases, MergeHeld(k), k = Merge!Boundary(0) \/ k = MergeHanded,
             m_lease' = [m_lease EXCEPT ![m_gen] = k], Merge!Goto("reopen", Merge!NoGen)
      PROVE  MergeInv'
  <2>1. /\ MergeChain(n)' /\ MergeLast(n)' /\ m_lease' \in [Merge!Ordinals -> MergeLeases]
             /\ m_lease'[m_gen] = k
        /\ n > 0 /\ m_gen = n - 1 /\ m_start'[m_gen] = "canonical"
    BY <1>1, <1>2, <1>3, <1>8, MergeSetLast
  <2>2. m_pc' = "reopen" /\ m_gen' = Generations
    BY <1>8 DEF Merge!Goto, Merge!NoGen
  <2>3. m_lease'[n - 1] = k /\ m_start'[n - 1] = "canonical"
    BY <2>1
  <2>4. Merge!At(n - 1, 0)' \/ Merge!Prepared(n - 1)'
    BY <1>8, <2>3 DEF Merge!At, Merge!Prepared, MergeHanded
  <2>5. MergeStage(n)'
    BY <2>1, <2>2, <2>3, <2>4 DEF MergeStage
  <2> QED BY <1>2, <1>6, <2>1, <2>2, <2>5 DEF MergeInv, MergeTypes, Merge!MergeAssumption
<1>9. CASE Merge!ArmRollback
  <2> DEFINE k == [l EXCEPT !.handoff = Merge!Absent, !.tomb = TRUE]
  <2>1. m_lease' = [m_lease EXCEPT ![m_gen] = k] /\ UNCHANGED <<m_pc, m_gen>>
          /\ l.handoff = "pending"
    BY <1>9 DEF Merge!ArmRollback, Merge!Set, Merge!Stay
  <2>2. MergeWriting(l)
    BY <1>4, <2>1 DEF MergeShrunk, Merge!Absent
  <2>3. k = [l EXCEPT !.handoff = Merge!Absent, !.tomb = TRUE] /\ Merge!Absent \in MergeRecords
    BY DEF MergeRecords
  <2> HIDE DEF k, l
  <2>4. /\ k \in MergeLeases /\ k.lock = l.lock /\ k.place = l.place /\ k.owner = l.owner
        /\ k.owned = l.owned /\ k.reserved = l.reserved /\ k.handoff = Merge!Absent
             /\ k.tomb = TRUE
    BY <1>5, <2>3 DEF MergeLeases
  <2>5. MergeShrunk(k)
    BY <2>2, <2>4 DEF MergeShrunk, MergeWriting, MergeComplete
  <2> QED BY <1>7, <2>1, <2>4, <2>5
<1>10. CASE Merge!RollBackHandoff
  <2>1. m_lease' = [m_lease EXCEPT ![m_gen] = Merge!Removed(l)] /\ UNCHANGED <<m_pc, m_gen>>
          /\ l.tomb = TRUE
    BY <1>5, <1>10 DEF Merge!RollBackHandoff, Merge!Set, Merge!Stay
  <2>2. MergeShrunk(l)
    BY <1>4, <2>1 DEF MergeWriting
  <2> HIDE DEF l
  <2> QED BY <1>5, <1>7, <2>1, <2>2, MergeRemovedShrinks
<1>11. CASE Merge!RemoveTombstone
  <2> DEFINE k == [l EXCEPT !.tomb = FALSE]
  <2>1. /\ m_lease' = [m_lease EXCEPT ![m_gen] = k] /\ Merge!Goto("reopen", Merge!NoGen)
             /\ l.tomb = TRUE
        /\ l.owned = Merge!Absent
    BY <1>5, <1>11 DEF Merge!RemoveTombstone, Merge!Set
  <2>2. MergeShrunk(l)
    BY <1>4, <2>1 DEF MergeWriting
  <2>3. k = [l EXCEPT !.tomb = FALSE]
    OBVIOUS
  <2> HIDE DEF k, l
  <2>4. /\ l.lock = TRUE /\ l.place = Merge!Absent /\ l.owner = Merge!Absent /\ l.corpus = 0
        /\ l.reserved = Merge!Absent /\ l.handoff = Merge!Absent
    BY <2>1, <2>2 DEF MergeShrunk, MergeComplete, Merge!Absent
  <2>5. /\ k \in MergeLeases /\ k.lock = TRUE /\ k.place = Merge!Absent /\ k.owner = Merge!Absent
             /\ k.corpus = 0
        /\ k.reserved = Merge!Absent /\ k.owned = Merge!Absent /\ k.handoff = Merge!Absent
             /\ k.tomb = FALSE
    BY <1>5, <2>1, <2>3, <2>4 DEF MergeLeases
  <2>6. k = Merge!Boundary(0)
    BY <2>5, MergeEnds, Zenon
  <2> QED BY <1>8, <2>1, <2>5, <2>6, MergeEndsReserved DEF MergeHeld
<1>12. CASE Merge!RevokeReserved
  <2> DEFINE k == [l EXCEPT !.reserved = Merge!Absent]
  <2>1. /\ m_lease' = [m_lease EXCEPT ![m_gen] = k] /\ Merge!Goto("reopen", Merge!NoGen)
             /\ l.handoff = "canonical"
    BY <1>5, <1>12 DEF Merge!RevokeReserved, Merge!Set
  <2>2. MergeWriting(l) /\ l.corpus = 2
    BY <1>4, <2>1 DEF MergeShrunk, Merge!Absent
  <2>3. k = [l EXCEPT !.reserved = Merge!Absent] /\ Merge!Absent \in MergeRecords
    BY DEF MergeRecords
  <2> HIDE DEF k, l
  <2>4. /\ k \in MergeLeases /\ k.lock = TRUE /\ k.place = "final" /\ k.owner = "canonical"
        /\ k.owned = "canonical" /\ k.corpus = 2 /\ k.reserved = Merge!Absent
        /\ k.handoff = "canonical" /\ k.tomb = FALSE
    BY <1>5, <2>1, <2>2, <2>3 DEF MergeLeases, MergeWriting, MergeComplete
  <2>5. k = MergeHanded
    BY <2>4, MergeEnds, Zenon
  <2> QED BY <1>8, <2>1, <2>4, <2>5 DEF MergeHeld
<1> QED BY <1>9, <1>10, <1>11, <1>12

LEMMA MergePrepareKeeps == ASSUME Merge!MergeAssumption, MergeInv, Merge!Prepare PROVE MergeInv'
<1>1. PICK n \in 0 .. Generations : MergeChain(n) /\ MergeLast(n) /\ MergeStage(n)
        /\ MergeAccounted(n)
  BY DEF MergeInv
<1>2. /\ MergeTypes /\ m_pc = "idle" /\ m_lease' = m_lease /\ m_start' = m_start
           /\ m_commit' = m_commit
      /\ m_crashes' = m_crashes
  BY DEF Merge!Prepare, Merge!disk, Merge!Goto, MergeInv
<1>3. MergeChain(n)' /\ MergeLast(n)'
  BY <1>1, <1>2, MergeSameDisk
<1>4. MergeAccounted(n)'
  <2>1. n <= m_crashes
    BY <1>1, <1>2 DEF MergeAccounted, MergeFresh
  <2> QED BY <1>2, <2>1 DEF MergeAccounted, MergeTypes, Merge!MergeAssumption
<1>5. Merge!Started = 0 .. (n - 1) /\ Merge!Latest = n - 1
  BY <1>1, MergeCounting
<1>6. ~ Merge!AnyTorn /\ m_commit = Merge!Absent /\ (n > 0 => Merge!Reservation(n - 1)
        \/ Merge!Raw(n - 1))
  BY <1>1, <1>2 DEF MergeStage
<1>7. ASSUME Merge!Started # {}, ~ Merge!Closed(Merge!Latest),
        Merge!Goto("reconcile", Merge!Latest)
      PROVE  MergeTypes' /\ MergeStage(n)'
  <2>1. n > 0
    BY <1>5, <1>7 DEF Merge!MergeAssumption
  <2>2. m_pc' = "reconcile" /\ m_gen' = n - 1 /\ ~ Merge!Closed(n - 1)
    BY <1>5, <1>7 DEF Merge!Goto
  <2>3. MergeStage(n)'
    BY <1>2, <1>6, <2>1, <2>2 DEF MergeStage, Merge!Closed, Merge!At, Merge!Reservation, Merge!Raw
  <2> QED BY <1>2, <2>1, <2>2, <2>3 DEF MergeTypes, Merge!MergeAssumption
<1>8. ASSUME \A g \in Merge!Started : g = Merge!Latest => Merge!Closed(g),
             IF Merge!Latest + 1 < Generations THEN Merge!Goto("reserve", Merge!Latest + 1)
                 ELSE Merge!Goto("exhausted", Merge!NoGen)
      PROVE  MergeTypes' /\ MergeStage(n)'
  <2>1. n > 0 => Merge!Closed(n - 1)
    BY <1>5, <1>8 DEF Merge!MergeAssumption
  <2>2. CASE n < Generations
    <3>1. m_pc' = "reserve" /\ m_gen' = n /\ n \in Merge!Ordinals
      BY <1>5, <1>8, <2>2 DEF Merge!Goto, Merge!MergeAssumption, Merge!Ordinals
    <3>2. m_lease[n] = Merge!NoLease \/ m_lease[n] \in MergeReservations
      <4>1. m_lease[n] = Merge!NoLease \/ MergeBuilding(m_lease[n])
        BY <1>1, <1>2, <3>1, MergeTheLast
      <4> QED BY <1>6, <3>1, <4>1, MergeBuildingShape DEF Merge!AnyTorn
    <3>3. MergeStage(n)'
      BY <1>2, <1>6, <2>1, <3>1, <3>2 DEF MergeStage, MergeOnNext, Merge!Closed, Merge!At
    <3> QED BY <1>2, <3>1, <3>3 DEF MergeTypes, Merge!MergeAssumption, Merge!Ordinals
  <2>3. CASE ~ n < Generations
    <3>1. m_pc' = "exhausted" /\ m_gen' = Generations /\ n = Generations
      BY <1>5, <1>8, <2>3 DEF Merge!Goto, Merge!MergeAssumption, Merge!NoGen
    <3>2. MergeStage(n)'
      BY <1>2, <1>6, <3>1 DEF MergeStage
    <3> QED BY <1>2, <3>1, <3>2 DEF MergeTypes, Merge!MergeAssumption
  <2> QED BY <2>2, <2>3
<1>9. MergeTypes' /\ MergeStage(n)'
  BY <1>7, <1>8 DEF Merge!Prepare
<1> QED BY <1>3, <1>4, <1>9 DEF MergeInv

LEMMA MergeReconcileKeeps ==
    ASSUME Merge!MergeAssumption, MergeInv, Merge!Reconcile
    PROVE  MergeInv'
<1>1. PICK n \in 0 .. Generations : MergeChain(n) /\ MergeLast(n) /\ MergeStage(n)
        /\ MergeAccounted(n)
  BY DEF MergeInv
<1>2. /\ MergeTypes /\ m_pc = "reconcile" /\ m_lease' = m_lease /\ m_commit' = m_commit
           /\ m_crashes' = m_crashes
      /\ m_start' = [m_start EXCEPT ![m_gen] = "canonical"]
  BY DEF Merge!Reconcile, Merge!Goto, MergeInv
<1>3. /\ n > 0 /\ m_gen = n - 1 /\ ~ Merge!Closed(m_gen)
           /\ (Merge!Reservation(m_gen) \/ Merge!Raw(m_gen))
      /\ m_commit = Merge!Absent /\ m_gen \in Merge!Ordinals
  BY <1>1, <1>2 DEF MergeStage, Merge!MergeAssumption, Merge!Ordinals
<1>4. /\ m_start' \in [Merge!Ordinals -> MergeRecords] /\ m_start'[m_gen] = "canonical"
      /\ \A g \in Merge!Ordinals : g # m_gen => m_start'[g] = m_start[g]
  BY <1>2, <1>3 DEF MergeTypes, MergeRecords
<1>5. MergeHeld(m_lease[m_gen]) /\ m_lease[m_gen] \in MergeLeases /\ m_start[m_gen] # Merge!Absent
  BY <1>1, <1>2, <1>3, MergeTheLast
<1>6. n \in Merge!Ordinals => m_lease[n] = Merge!NoLease
  BY <1>1, <1>3 DEF MergeChain
<1>7. MergeChain(n)'
  BY <1>1, <1>2, <1>3, <1>4, <1>5, <1>6 DEF MergeChain, Merge!Closed, Merge!At,
     Merge!MergeAssumption, Merge!Ordinals, Merge!Absent
<1>8. MergeLast(n)'
  BY <1>2, <1>3, <1>4, <1>5 DEF MergeLast
<1>9. MergeAccounted(n)'
  <2>1. n <= m_crashes
    BY <1>1, <1>2 DEF MergeAccounted, MergeFresh
  <2> QED BY <1>2, <2>1 DEF MergeAccounted, MergeTypes, Merge!MergeAssumption
<1>10. CASE Merge!Raw(m_gen)
  <2>1. m_pc' = "remove" /\ m_gen' = m_gen
    BY <1>10 DEF Merge!Reconcile, Merge!Goto
  <2>2. MergeShrunk(m_lease[m_gen]) /\ m_lease[m_gen].tomb = FALSE
    BY <1>2, <1>3, <1>5, <1>10, MergeHeldLease, MergeKinds
  <2>3. MergeOnLast(n)'
    BY <1>2, <1>3, <1>4, <1>6, <2>1 DEF MergeOnLast
  <2>4. MergeStage(n)'
    BY <1>2, <1>3, <2>1, <2>2, <2>3 DEF MergeStage, MergeShrunk, MergeComplete
  <2> QED BY <1>2, <1>4, <1>7, <1>8, <1>9, <2>1, <2>4 DEF MergeInv, MergeTypes
<1>11. CASE ~ Merge!Raw(m_gen)
  <2>1. m_pc' = "descend" /\ m_gen' = m_gen
    BY <1>11 DEF Merge!Reconcile, Merge!Goto
  <2>2. m_lease[m_gen] \in MergeReservations
    BY <1>2, <1>3, <1>11, MergeKinds
  <2>3. MergeOnLast(n)'
    BY <1>2, <1>3, <1>4, <1>6, <2>1 DEF MergeOnLast
  <2>4. MergeStage(n)'
    BY <1>2, <1>3, <2>1, <2>2, <2>3 DEF MergeStage
  <2> QED BY <1>2, <1>4, <1>7, <1>8, <1>9, <2>1, <2>4 DEF MergeInv, MergeTypes
<1> QED BY <1>10, <1>11

LEMMA MergeRolledKeeps == ASSUME Merge!MergeAssumption, MergeInv, Merge!Rolled PROVE MergeInv'
<1>1. PICK n \in 0 .. Generations : MergeChain(n) /\ MergeLast(n) /\ MergeStage(n)
        /\ MergeAccounted(n)
  BY DEF MergeInv
<1>2. /\ MergeTypes /\ m_pc \in {"remove", "descend"} /\ Merge!At(m_gen, 0)
           /\ m_crashes' = m_crashes
      /\ m_lease' = m_lease /\ m_start' = m_start /\ m_commit' = m_commit
  BY DEF Merge!Rolled, Merge!disk, Merge!Goto, MergeInv
<1>3. MergeChain(n)' /\ MergeLast(n)' /\ m_commit = Merge!Absent
  BY <1>1, <1>2, MergeSameDisk DEF MergeStage
<1>4. MergeAccounted(n)'
  <2>1. n <= m_crashes
    BY <1>1, <1>2 DEF MergeAccounted, MergeFresh
  <2> QED BY <1>2, <2>1 DEF MergeAccounted, MergeTypes, Merge!MergeAssumption
<1>5. MergeOnLast(n) \/ MergeOnNext(n)
  BY <1>1, <1>2 DEF MergeStage
<1>6. m_lease[m_gen] \in MergeReservations
  BY <1>2, MergeEndsReserved DEF Merge!At
<1>7. CASE m_start[m_gen] = Merge!Absent
  <2>1. MergeOnNext(n)
    BY <1>5, <1>7 DEF MergeOnLast, Merge!Absent
  <2>2. m_pc' = "build" /\ m_gen' = m_gen /\ m_gen = n /\ n \in Merge!Ordinals
    BY <1>7, <2>1 DEF Merge!Rolled, Merge!Goto, MergeOnNext
  <2>3. MergeOnNext(n)'
    BY <1>2, <2>1, <2>2 DEF MergeOnNext, Merge!Closed, Merge!At
  <2>4. MergeBuilding(m_lease[n])
    BY <1>6, <2>2 DEF MergeBuilding
  <2>5. MergeStage(n)'
    BY <1>2, <1>3, <2>2, <2>3, <2>4 DEF MergeStage
  <2> QED BY <1>2, <1>3, <1>4, <2>2, <2>5 DEF MergeInv, MergeTypes
<1>8. CASE m_start[m_gen] # Merge!Absent
  <2>1. MergeOnLast(n)
    BY <1>1, <1>5, <1>8 DEF MergeOnNext, MergeChain, Merge!Ordinals
  <2>2. n > 0 /\ m_gen = n - 1 /\ Merge!Closed(n - 1)
          /\ (n \in Merge!Ordinals => m_lease[n] = Merge!NoLease)
    BY <1>2, <2>1 DEF MergeOnLast, Merge!Closed
  <2>3. CASE n < Generations
    <3>1. m_pc' = "reserve" /\ m_gen' = n /\ n \in Merge!Ordinals
      BY <1>8, <2>2, <2>3 DEF Merge!Rolled, Merge!Goto, Merge!MergeAssumption, Merge!Ordinals
    <3>2. MergeOnNext(n)'
      BY <1>2, <2>2, <3>1 DEF MergeOnNext, Merge!Closed, Merge!At
    <3>3. MergeStage(n)'
      BY <1>2, <1>3, <2>2, <3>1, <3>2 DEF MergeStage
    <3> QED BY <1>2, <1>3, <1>4, <3>1, <3>3 DEF MergeInv, MergeTypes, Merge!Ordinals,
       Merge!MergeAssumption
  <2>4. CASE ~ n < Generations
    <3>1. m_pc' = "exhausted" /\ m_gen' = Generations /\ n = Generations
      BY <1>8, <2>2, <2>4 DEF Merge!Rolled, Merge!Goto, Merge!MergeAssumption, Merge!NoGen
    <3>2. MergeStage(n)'
      BY <1>2, <1>3, <3>1 DEF MergeStage
    <3> QED BY <1>2, <1>3, <1>4, <3>1, <3>2 DEF MergeInv, MergeTypes, Merge!MergeAssumption
  <2> QED BY <2>3, <2>4
<1> QED BY <1>7, <1>8

LEMMA MergeRemoveKeeps == ASSUME Merge!MergeAssumption, MergeInv, Merge!Remove PROVE MergeInv'
<1>1. PICK n \in 0 .. Generations : MergeChain(n) /\ MergeLast(n) /\ MergeStage(n)
        /\ MergeAccounted(n)
  BY DEF MergeInv
<1>2. /\ MergeTypes /\ m_pc = "remove"
           /\ m_lease' = [m_lease EXCEPT ![m_gen] = Merge!Removed(m_lease[m_gen])]
      /\ m_start' = m_start /\ m_commit' = m_commit /\ m_pc' = m_pc /\ m_gen' = m_gen
           /\ m_crashes' = m_crashes
  BY DEF Merge!Remove, Merge!Set, Merge!Stay, MergeInv
<1>3. /\ MergeOnLast(n) /\ MergeShrunk(m_lease[m_gen]) /\ m_lease[m_gen].tomb = FALSE
           /\ m_commit = Merge!Absent
  BY <1>1, <1>2 DEF MergeStage
<1>4. m_gen \in Merge!Ordinals /\ m_lease[m_gen] \in MergeLeases
  BY <1>2, <1>3 DEF MergeOnLast, Merge!MergeAssumption, Merge!Ordinals, MergeTypes
<1> DEFINE k == Merge!Removed(m_lease[m_gen])
<1>5. k \in MergeLeases /\ MergeShrunk(k) /\ k.tomb = FALSE
  BY <1>3, <1>4, MergeRemovedShrinks
<1>6. m_lease' = [m_lease EXCEPT ![m_gen] = k]
  BY <1>2
<1> HIDE DEF k
<1>7. MergeHeld(k)
  BY <1>5 DEF MergeHeld
<1>8. /\ MergeChain(n)' /\ MergeLast(n)' /\ m_lease' \in [Merge!Ordinals -> MergeLeases]
           /\ m_lease'[m_gen] = k
      /\ n > 0 /\ m_gen = n - 1 /\ m_start'[m_gen] = "canonical"
           /\ (n \in Merge!Ordinals => m_lease'[n] = Merge!NoLease)
  BY <1>1, <1>2, <1>3, <1>5, <1>6, <1>7, MergeSetLast
<1>9. MergeStage(n)'
  BY <1>2, <1>3, <1>5, <1>8 DEF MergeStage, MergeOnLast
<1>10. MergeAccounted(n)'
  BY <1>1, <1>2 DEF MergeAccounted, MergeFresh
<1> QED BY <1>2, <1>8, <1>9, <1>10 DEF MergeInv, MergeTypes

LEMMA MergeDescendKeeps == ASSUME Merge!MergeAssumption, MergeInv, Merge!Descend PROVE MergeInv'
<1>1. PICK n \in 0 .. Generations : MergeChain(n) /\ MergeLast(n) /\ MergeStage(n)
        /\ MergeAccounted(n)
  BY DEF MergeInv
<1>2. PICK b \in 1 .. 8 : m_lease' = [m_lease EXCEPT ![m_gen] = Merge!Boundary(b - 1)]
  BY DEF Merge!Descend, Merge!Set
<1>3. /\ MergeTypes /\ m_pc = "descend" /\ m_start' = m_start /\ m_commit' = m_commit
           /\ m_pc' = m_pc /\ m_gen' = m_gen
      /\ m_crashes' = m_crashes
  BY DEF Merge!Descend, Merge!Set, Merge!Stay, MergeInv
<1> DEFINE k == Merge!Boundary(b - 1)
<1>4. k \in MergeReservations /\ k \in MergeLeases
  <2>1. b - 1 \in 0 .. 8
    OBVIOUS
  <2> QED BY <2>1, MergeBoundaryShape, Zenon
<1>5. m_lease' = [m_lease EXCEPT ![m_gen] = k] /\ MergeHeld(k) /\ MergeBuilding(k)
  BY <1>2, <1>4 DEF MergeHeld, MergeBuilding
<1> HIDE DEF k
<1>6. (MergeOnLast(n) \/ MergeOnNext(n)) /\ m_commit = Merge!Absent
  BY <1>1, <1>3 DEF MergeStage
<1>7. MergeAccounted(n)'
  BY <1>1, <1>3 DEF MergeAccounted, MergeFresh
<1>8. CASE MergeOnLast(n)
  <2>1. /\ MergeChain(n)' /\ MergeLast(n)' /\ m_lease' \in [Merge!Ordinals -> MergeLeases]
             /\ m_lease'[m_gen] = k
        /\ n > 0 /\ m_gen = n - 1 /\ m_start'[m_gen] = "canonical"
             /\ (n \in Merge!Ordinals => m_lease'[n] = Merge!NoLease)
    BY <1>1, <1>3, <1>4, <1>5, <1>6, <1>8, MergeSetLast
  <2>2. MergeStage(n)'
    BY <1>3, <1>4, <1>6, <2>1 DEF MergeStage, MergeOnLast
  <2> QED BY <1>3, <1>7, <2>1, <2>2 DEF MergeInv, MergeTypes
<1>9. CASE MergeOnNext(n)
  <2>1. /\ MergeChain(n)' /\ MergeLast(n)' /\ m_lease' \in [Merge!Ordinals -> MergeLeases]
        /\ n \in Merge!Ordinals /\ m_gen = n /\ m_lease'[n] = k /\ (n > 0 => Merge!Closed(n - 1)')
    BY <1>1, <1>3, <1>5, <1>9, MergeSetNext
  <2>2. MergeStage(n)'
    BY <1>3, <1>4, <1>6, <2>1 DEF MergeStage, MergeOnNext
  <2> QED BY <1>3, <1>7, <2>1, <2>2 DEF MergeInv, MergeTypes
<1> QED BY <1>6, <1>8, <1>9

LEMMA MergeReserveKeeps == ASSUME Merge!MergeAssumption, MergeInv, Merge!Reserve PROVE MergeInv'
<1>1. PICK n \in 0 .. Generations : MergeChain(n) /\ MergeLast(n) /\ MergeStage(n)
        /\ MergeAccounted(n)
  BY DEF MergeInv
<1>2. MergeTypes /\ m_pc = "reserve" /\ m_crashes' = m_crashes /\ m_start' = m_start
        /\ m_commit' = m_commit
  BY DEF Merge!Reserve, Merge!Set, Merge!Goto, Merge!disk, MergeInv
<1>3. MergeOnNext(n) /\ (m_lease[n] = Merge!NoLease \/ m_lease[n] \in MergeReservations)
        /\ m_commit = Merge!Absent
  BY <1>1, <1>2 DEF MergeStage
<1>4. MergeAccounted(n)'
  <2>1. n <= m_crashes
    BY <1>1, <1>2 DEF MergeAccounted, MergeFresh
  <2> QED BY <1>2, <2>1 DEF MergeAccounted, MergeTypes, Merge!MergeAssumption
<1>5. CASE Merge!Set(Merge!Boundary(0)) /\ Merge!Goto("build", m_gen)
  <2>1. MergeBuilding(Merge!Boundary(0))
          /\ m_lease' = [m_lease EXCEPT ![m_gen] = Merge!Boundary(0)]
    BY <1>5, MergeEndsReserved DEF MergeBuilding, Merge!Set
  <2>2. /\ MergeChain(n)' /\ MergeLast(n)' /\ m_lease' \in [Merge!Ordinals -> MergeLeases]
        /\ n \in Merge!Ordinals /\ m_gen = n /\ m_lease'[n] = Merge!Boundary(0) /\ (n > 0
             => Merge!Closed(n - 1)')
    BY <1>1, <1>2, <1>3, <2>1, MergeSetNext
  <2>3. m_pc' = "build" /\ m_gen' = m_gen
    BY <1>5 DEF Merge!Goto
  <2>4. MergeStage(n)'
    BY <1>2, <1>3, <2>1, <2>2, <2>3 DEF MergeStage, MergeOnNext
  <2> QED BY <1>2, <1>4, <2>2, <2>3, <2>4 DEF MergeInv, MergeTypes
<1>6. CASE m_lease[m_gen].lock /\ Merge!Goto("descend", m_gen) /\ UNCHANGED Merge!disk
  <2>1. m_pc' = "descend" /\ m_gen' = m_gen /\ m_lease' = m_lease
    BY <1>6 DEF Merge!Goto, Merge!disk
  <2>2. m_lease[m_gen] \in MergeReservations
    BY <1>3, <1>6, MergeNoLeaseShape DEF MergeOnNext
  <2>3. MergeChain(n)' /\ MergeLast(n)'
    BY <1>1, <1>2, <2>1, MergeSameDisk
  <2>4. MergeOnNext(n)'
    BY <1>2, <1>3, <2>1 DEF MergeOnNext, Merge!Closed, Merge!At
  <2>5. MergeStage(n)'
    BY <1>2, <1>3, <2>1, <2>2, <2>4 DEF MergeStage
  <2> QED BY <1>2, <1>4, <2>1, <2>3, <2>5 DEF MergeInv, MergeTypes
<1> QED BY <1>5, <1>6 DEF Merge!Reserve

LEMMA MergeBuildKeeps == ASSUME Merge!MergeAssumption, MergeInv, Merge!Build PROVE MergeInv'
<1>1. PICK n \in 0 .. Generations : MergeChain(n) /\ MergeLast(n) /\ MergeStage(n)
        /\ MergeAccounted(n)
  BY DEF MergeInv
<1>2. MergeTypes /\ m_pc = "build" /\ m_crashes' = m_crashes /\ m_start' = m_start
        /\ m_commit' = m_commit
  BY DEF Merge!Build, Merge!Set, Merge!Goto, Merge!Stay, MergeInv
<1>3. MergeOnNext(n) /\ m_commit = Merge!Absent
  BY <1>1, <1>2 DEF MergeStage
<1>4. n <= m_crashes
  BY <1>1, <1>2 DEF MergeAccounted, MergeFresh
<1>5. ASSUME NEW k, MergeBuilding(k), m_lease' = [m_lease EXCEPT ![m_gen] = k],
        UNCHANGED <<m_pc, m_gen>>
      PROVE  MergeInv'
  <2>1. /\ MergeChain(n)' /\ MergeLast(n)' /\ m_lease' \in [Merge!Ordinals -> MergeLeases]
        /\ n \in Merge!Ordinals /\ m_gen = n /\ m_lease'[n] = k /\ (n > 0 => Merge!Closed(n - 1)')
    BY <1>1, <1>2, <1>3, <1>5, MergeSetNext
  <2>2. MergeStage(n)'
    BY <1>2, <1>3, <1>5, <2>1 DEF MergeStage, MergeOnNext
  <2>3. MergeAccounted(n)'
    BY <1>2, <1>4, <1>5 DEF MergeAccounted, MergeFresh
  <2> QED BY <1>2, <1>5, <2>1, <2>2, <2>3 DEF MergeInv, MergeTypes
<1>6. CASE Merge!At(m_gen, 0) /\ Merge!Set([m_lease[m_gen] EXCEPT !.reserved = "torn"])
        /\ Merge!Stay
  BY <1>5, <1>6 DEF Merge!At, Merge!Set, Merge!Stay, MergeBuilding
<1>7. CASE Merge!At(m_gen, 3) /\ Merge!Set([m_lease[m_gen] EXCEPT !.owner = "torn"]) /\ Merge!Stay
  BY <1>5, <1>7 DEF Merge!At, Merge!Set, Merge!Stay, MergeBuilding
<1>8. CASE Merge!At(m_gen, 5) /\ Merge!Set([m_lease[m_gen] EXCEPT !.owned = "torn"]) /\ Merge!Stay
  BY <1>5, <1>8 DEF Merge!At, Merge!Set, Merge!Stay, MergeBuilding
<1>9. ASSUME NEW b \in 0 .. 7, Merge!Set(Merge!Boundary(b + 1)), Merge!Stay
      PROVE  MergeInv'
  <2>1. MergeBuilding(Merge!Boundary(b + 1))
    <3>1. b + 1 \in 0 .. 8
      OBVIOUS
    <3> QED BY <3>1 DEF MergeBuilding, MergeReservations
  <2> QED BY <1>5, <1>9, <2>1 DEF Merge!Set, Merge!Stay
<1>10. CASE Merge!At(m_gen, 7) /\ Merge!Set(Merge!Boundary(8)) /\ Merge!Goto("start", m_gen)
  <2>1. MergeBuilding(Merge!Boundary(8))
          /\ m_lease' = [m_lease EXCEPT ![m_gen] = Merge!Boundary(8)]
    BY <1>10, MergeEndsReserved DEF MergeBuilding, Merge!Set
  <2>2. /\ MergeChain(n)' /\ MergeLast(n)' /\ m_lease' \in [Merge!Ordinals -> MergeLeases]
        /\ n \in Merge!Ordinals /\ m_gen = n /\ m_lease'[n] = Merge!Boundary(8) /\ (n > 0
             => Merge!Closed(n - 1)')
    BY <1>1, <1>2, <1>3, <2>1, MergeSetNext
  <2>3. m_pc' = "start" /\ m_gen' = m_gen
    BY <1>10 DEF Merge!Goto
  <2>4. Merge!At(m_gen, 8)' /\ MergeOnNext(n)'
    BY <2>2, <2>3 DEF Merge!At, MergeOnNext
  <2>5. MergeStage(n)'
    BY <1>2, <1>3, <2>3, <2>4 DEF MergeStage
  <2>6. MergeAccounted(n)'
    BY <1>2, <1>4 DEF MergeAccounted, MergeTypes, Merge!MergeAssumption
  <2> QED BY <1>2, <2>2, <2>3, <2>5, <2>6 DEF MergeInv, MergeTypes
<1>11. CASE Merge!Set(Merge!Boundary(1)) /\ Merge!Stay
  BY <1>9, <1>11
<1>12. CASE Merge!Set(Merge!Boundary(4)) /\ Merge!Stay
  BY <1>9, <1>12
<1>13. CASE Merge!Set(Merge!Boundary(6)) /\ Merge!Stay
  BY <1>9, <1>13
<1>14. CASE \E b \in {1, 2, 4, 6} : Merge!At(m_gen, b) /\ Merge!Set(Merge!Boundary(b + 1))
         /\ Merge!Stay
  BY <1>9, <1>14
<1> QED BY <1>6, <1>7, <1>8, <1>10, <1>11, <1>12, <1>13, <1>14 DEF Merge!Build

LEMMA MergePublishStartKeeps ==
    ASSUME Merge!MergeAssumption, MergeInv, Merge!PublishStart
    PROVE  MergeInv'
<1>1. PICK n \in 0 .. Generations : MergeChain(n) /\ MergeLast(n) /\ MergeStage(n)
        /\ MergeAccounted(n)
  BY DEF MergeInv
<1>2. /\ MergeTypes /\ m_pc = "start" /\ m_lease' = m_lease /\ m_commit' = m_commit
           /\ m_crashes' = m_crashes
      /\ m_start' = [m_start EXCEPT ![m_gen] = Merge!Filled(m_start[m_gen])] /\ m_gen' = m_gen
  BY DEF Merge!PublishStart, Merge!Goto, Merge!Stay, MergeInv
<1>3. /\ Merge!At(m_gen, 8) /\ m_commit = Merge!Absent
      /\ MergeOnNext(n) \/ (n > 0 /\ m_gen = n - 1 /\ m_start[m_gen] \in {"torn", "pending"})
  BY <1>1, <1>2 DEF MergeStage
<1>4. m_gen \in Merge!Ordinals
  BY <1>3 DEF MergeOnNext, Merge!MergeAssumption, Merge!Ordinals
<1>5. Merge!Filled(m_start[m_gen]) \in MergeRecords
  BY DEF Merge!Filled, MergeRecords
<1>6. /\ m_start' \in [Merge!Ordinals -> MergeRecords]
           /\ m_start'[m_gen] = Merge!Filled(m_start[m_gen])
      /\ \A g \in Merge!Ordinals : g # m_gen => m_start'[g] = m_start[g]
  BY <1>2, <1>4, <1>5 DEF MergeTypes
<1>7. CASE MergeOnNext(n)
  <2>1. m_gen = n /\ n \in Merge!Ordinals /\ m_start[n] = Merge!Absent /\ (n > 0
          => Merge!Closed(n - 1)) /\ n + 1 \in 0 .. Generations
    BY <1>1, <1>7 DEF MergeOnNext, MergeChain, Merge!Ordinals, Merge!MergeAssumption
  <2>2. m_start'[n] = "torn" /\ m_pc' = m_pc
    BY <1>2, <1>6, <2>1 DEF Merge!Filled, Merge!PublishStart, Merge!Stay, Merge!Absent
  <2>3. MergeChain(n + 1)'
    <3>1. \A g \in Merge!Ordinals : (m_start'[g] # Merge!Absent) <=> g < n + 1
      BY <1>1, <1>6, <2>1, <2>2 DEF MergeChain, Merge!Absent, Merge!Ordinals,
         Merge!MergeAssumption
    <3>2. \A g \in Merge!Ordinals : g + 1 < n + 1 => Merge!Closed(g)'
      <4>1. \A g \in Merge!Ordinals : g < n => Merge!Closed(g)
        BY <1>1, <2>1 DEF MergeChain, Merge!Ordinals, Merge!MergeAssumption
      <4> QED BY <1>2, <1>6, <2>1, <4>1 DEF Merge!Closed, Merge!At, Merge!Ordinals,
         Merge!MergeAssumption
    <3>3. \A g \in Merge!Ordinals : g > n => m_lease'[g] = Merge!NoLease
      BY <1>1, <1>2 DEF MergeChain
    <3> QED BY <2>1, <3>1, <3>2, <3>3 DEF MergeChain, Merge!Ordinals, Merge!MergeAssumption
  <2>4. MergeLast(n + 1)'
    <3>1. (n + 1) - 1 = n /\ n + 1 > 0
      BY DEF Merge!MergeAssumption
    <3> QED BY <1>2, <1>3, <2>1, <2>2, <3>1 DEF MergeLast, Merge!At
  <2>5. MergeStage(n + 1)'
    <3>1. (n + 1) - 1 = n /\ n + 1 > 0 /\ Merge!At(m_gen, 8)'
      BY <1>2, <1>3 DEF Merge!MergeAssumption, Merge!At
    <3> QED BY <1>2, <1>3, <2>1, <2>2, <3>1 DEF MergeStage
  <2>6. MergeAccounted(n + 1)'
    <3>1. n <= m_crashes
      BY <1>1, <1>2, <2>1 DEF MergeAccounted, MergeFresh, Merge!MergeAssumption
    <3> QED BY <1>2, <2>1, <2>2, <3>1 DEF MergeAccounted, MergeFresh, MergeTypes,
       Merge!MergeAssumption
  <2> QED BY <1>2, <1>6, <2>1, <2>2, <2>3, <2>4, <2>5, <2>6 DEF MergeInv, MergeTypes
<1>8. CASE n > 0 /\ m_gen = n - 1 /\ m_start[m_gen] \in {"torn", "pending"}
  <2>1. m_start'[m_gen] # Merge!Absent /\ (m_start'[m_gen] = "canonical"
          <=> m_start[m_gen] = "pending")
    BY <1>6, <1>8 DEF Merge!Filled, Merge!Absent
  <2>2. n \in Merge!Ordinals => m_lease[n] = Merge!NoLease
    BY <1>1, <1>8 DEF MergeChain, Merge!Closed
  <2>3. MergeChain(n)'
    BY <1>1, <1>2, <1>4, <1>6, <1>8, <2>1, <2>2 DEF MergeChain, Merge!Closed, Merge!At,
       Merge!Ordinals, Merge!MergeAssumption
  <2>4. m_lease[m_gen] \in MergeReservations
    BY <1>3, MergeEndsReserved DEF Merge!At
  <2>5. MergeLast(n)'
    BY <1>2, <1>3, <1>8, <2>4 DEF MergeLast, Merge!At, MergeHeld
  <2>6. MergeAccounted(n)' /\ MergeStage(n)'
    <3>1. CASE m_start[m_gen] = "pending"
      <4>1. m_pc' = "write"
        BY <3>1 DEF Merge!PublishStart, Merge!Goto
      <4>2. MergeWriting(m_lease[m_gen])
        <5>1. m_lease[m_gen] = Merge!Boundary(8) /\ m_lease[m_gen] \in MergeLeases
          BY <1>3, <2>4, MergeReservationShape DEF Merge!At
        <5>2. /\ m_lease[m_gen].lock = TRUE /\ m_lease[m_gen].reserved = "canonical"
                   /\ m_lease[m_gen].place = "final"
              /\ m_lease[m_gen].owner = "canonical" /\ m_lease[m_gen].owned = "canonical"
              /\ m_lease[m_gen].corpus = 0 /\ m_lease[m_gen].handoff = Merge!Absent
                   /\ m_lease[m_gen].tomb = FALSE
          BY <5>1, MergeEnds, Zenon
        <5> QED BY <5>2 DEF MergeWriting, MergeComplete
      <4>3. MergeOnLast(n)'
        BY <1>2, <1>8, <2>1, <2>2, <3>1 DEF MergeOnLast
      <4>4. MergeStage(n)'
        BY <1>2, <1>3, <4>1, <4>2, <4>3 DEF MergeStage, MergeWriting, MergeComplete
      <4>5. MergeAccounted(n)'
        BY <1>1, <1>2, <1>8, <4>1 DEF MergeAccounted, MergeFresh, MergeTypes,
           Merge!MergeAssumption
      <4> QED BY <4>4, <4>5
    <3>2. CASE m_start[m_gen] = "torn"
      <4>1. m_pc' = m_pc /\ m_start'[m_gen] = "pending"
        BY <1>6, <3>2 DEF Merge!PublishStart, Merge!Stay, Merge!Filled, Merge!Absent
      <4>2. Merge!At(m_gen, 8)'
        BY <1>2, <1>3 DEF Merge!At
      <4>3. MergeStage(n)'
        BY <1>2, <1>3, <1>8, <4>1, <4>2 DEF MergeStage
      <4>4. MergeAccounted(n)'
        BY <1>1, <1>2, <4>1 DEF MergeAccounted, MergeFresh
      <4> QED BY <4>3, <4>4
    <3> QED BY <1>8, <3>1, <3>2
  <2>7. MergeTypes'
    BY <1>2, <1>6 DEF MergeTypes, Merge!PublishStart, Merge!Goto, Merge!Stay
  <2> QED BY <2>3, <2>5, <2>6, <2>7 DEF MergeInv
<1> QED BY <1>3, <1>7, <1>8

LEMMA MergeWriteKeeps == ASSUME Merge!MergeAssumption, MergeInv, Merge!Write PROVE MergeInv'
<1>1. PICK n \in 0 .. Generations : MergeChain(n) /\ MergeLast(n) /\ MergeStage(n)
        /\ MergeAccounted(n)
  BY DEF MergeInv
<1>2. /\ MergeTypes /\ m_pc = "write" /\ m_start' = m_start /\ m_commit' = m_commit
           /\ m_crashes' = m_crashes
      /\ m_gen' = m_gen
  BY DEF Merge!Write, Merge!Set, Merge!Stay, Merge!Goto, MergeInv
<1>3. MergeOnLast(n) /\ MergeWriting(m_lease[m_gen]) /\ m_commit = Merge!Absent
  BY <1>1, <1>2 DEF MergeStage
<1> DEFINE l == m_lease[m_gen]
<1>4. m_gen \in Merge!Ordinals /\ l \in MergeLeases
  BY <1>2, <1>3 DEF MergeOnLast, Merge!MergeAssumption, Merge!Ordinals, MergeTypes
<1>5. ASSUME NEW k \in MergeLeases, MergeWriting(k), m_lease' = [m_lease EXCEPT ![m_gen] = k],
        m_pc' = m_pc
      PROVE  MergeInv'
  <2>1. MergeHeld(k)
    BY <1>5 DEF MergeHeld
  <2>2. /\ MergeChain(n)' /\ MergeLast(n)' /\ m_lease' \in [Merge!Ordinals -> MergeLeases]
             /\ m_lease'[m_gen] = k
        /\ n > 0 /\ m_gen = n - 1 /\ m_start'[m_gen] = "canonical"
             /\ (n \in Merge!Ordinals => m_lease'[n] = Merge!NoLease)
    BY <1>1, <1>2, <1>3, <1>5, <2>1, MergeSetLast
  <2>3. MergeStage(n)'
    BY <1>2, <1>3, <1>5, <2>2 DEF MergeStage, MergeOnLast
  <2>4. MergeAccounted(n)'
    BY <1>1, <1>2, <1>5 DEF MergeAccounted, MergeFresh
  <2> QED BY <1>2, <1>5, <2>2, <2>3, <2>4 DEF MergeInv, MergeTypes
<1>6. CASE l.corpus < 2 /\ Merge!Set([l EXCEPT !.corpus = l.corpus + 1]) /\ Merge!Stay
  <2> DEFINE k == [l EXCEPT !.corpus = l.corpus + 1]
  <2>1. m_lease' = [m_lease EXCEPT ![m_gen] = k] /\ m_pc' = m_pc
    BY <1>6 DEF Merge!Set, Merge!Stay
  <2>2. k = [l EXCEPT !.corpus = l.corpus + 1]
    OBVIOUS
  <2> HIDE DEF k, l
  <2>3. l.corpus \in 0 .. 2 /\ l.corpus + 1 \in 0 .. 2
    BY <1>4, <1>6 DEF MergeLeases
  <2>4. /\ k \in MergeLeases /\ k.lock = l.lock /\ k.reserved = l.reserved /\ k.place = l.place
        /\ k.owner = l.owner /\ k.owned = l.owned /\ k.handoff = l.handoff /\ k.tomb = l.tomb
    BY <1>4, <2>2, <2>3 DEF MergeLeases
  <2>5. MergeWriting(l)
    BY <1>3 DEF l
  <2>6. MergeWriting(k)
    BY <1>6, <2>4, <2>5 DEF MergeWriting, MergeComplete
  <2> QED BY <1>5, <2>1, <2>4, <2>6
<1>7. CASE l.corpus = 2 /\ l.handoff # "canonical"
        /\ Merge!Set([l EXCEPT !.handoff = Merge!Filled(l.handoff)]) /\ Merge!Stay
  <2> DEFINE f == Merge!Filled(l.handoff)
             k == [l EXCEPT !.handoff = f]
  <2>1. m_lease' = [m_lease EXCEPT ![m_gen] = k] /\ m_pc' = m_pc
    BY <1>7 DEF Merge!Set, Merge!Stay
  <2>2. f \in MergeRecords
    BY DEF Merge!Filled, MergeRecords
  <2>3. k = [l EXCEPT !.handoff = f]
    OBVIOUS
  <2>4. MergeWriting(l)
    BY <1>3
  <2> HIDE DEF k, l, f
  <2>5. /\ k \in MergeLeases /\ k.lock = l.lock /\ k.reserved = l.reserved /\ k.place = l.place
        /\ k.owner = l.owner /\ k.owned = l.owned /\ k.corpus = l.corpus /\ k.tomb = l.tomb
    BY <1>4, <2>2, <2>3 DEF MergeLeases
  <2>6. MergeWriting(k)
    BY <1>7, <2>4, <2>5 DEF MergeWriting, MergeComplete
  <2> QED BY <1>5, <2>1, <2>5, <2>6
<1>8. CASE l.handoff = "canonical" /\ Merge!Set([l EXCEPT !.reserved = Merge!Absent])
        /\ Merge!Goto("commit", m_gen)
  <2> DEFINE k == [l EXCEPT !.reserved = Merge!Absent]
  <2>1. m_lease' = [m_lease EXCEPT ![m_gen] = k] /\ m_pc' = "commit"
    BY <1>8 DEF Merge!Set, Merge!Goto
  <2>2. k = [l EXCEPT !.reserved = Merge!Absent] /\ Merge!Absent \in MergeRecords
    BY DEF MergeRecords
  <2>3. MergeWriting(l) /\ l.corpus \in 0 .. 2
    BY <1>3, <1>4 DEF MergeLeases
  <2> HIDE DEF k, l
  <2>4. l.corpus = 2
    BY <1>8, <2>3 DEF MergeWriting, Merge!Absent
  <2>5. /\ k \in MergeLeases /\ k.lock = TRUE /\ k.reserved = Merge!Absent /\ k.place = "final"
        /\ k.owner = "canonical" /\ k.owned = "canonical" /\ k.corpus = 2
        /\ k.handoff = "canonical" /\ k.tomb = FALSE
    BY <1>4, <1>8, <2>2, <2>3, <2>4 DEF MergeLeases, MergeWriting, MergeComplete
  <2>6. k = MergeHanded
    BY <2>5, MergeEnds, Zenon
  <2>7. MergeHeld(k)
    BY <2>6 DEF MergeHeld
  <2>8. /\ MergeChain(n)' /\ MergeLast(n)' /\ m_lease' \in [Merge!Ordinals -> MergeLeases]
             /\ m_lease'[m_gen] = k
        /\ n > 0 /\ m_gen = n - 1 /\ m_start'[m_gen] = "canonical"
             /\ (n \in Merge!Ordinals => m_lease'[n] = Merge!NoLease)
    BY <1>1, <1>2, <1>3, <2>1, <2>5, <2>7, MergeSetLast
  <2>9. MergeOnLast(n)' /\ Merge!Prepared(m_gen)'
    BY <1>2, <2>6, <2>8 DEF MergeOnLast, Merge!Prepared, MergeHanded
  <2>10. MergeStage(n)'
    BY <2>1, <2>9 DEF MergeStage
  <2>11. MergeAccounted(n)'
    BY <1>1, <1>2, <2>1 DEF MergeAccounted, MergeFresh
  <2> QED BY <1>2, <2>1, <2>8, <2>10, <2>11 DEF MergeInv, MergeTypes
<1> QED BY <1>6, <1>7, <1>8 DEF Merge!Write

LEMMA MergePublishCommitKeeps ==
    ASSUME Merge!MergeAssumption, MergeInv, Merge!PublishCommit
    PROVE  MergeInv'
<1>1. PICK n \in 0 .. Generations : MergeChain(n) /\ MergeLast(n) /\ MergeStage(n)
        /\ MergeAccounted(n)
  BY DEF MergeInv
<1>2. /\ MergeTypes /\ m_pc = "commit" /\ m_lease' = m_lease /\ m_start' = m_start
           /\ m_crashes' = m_crashes
      /\ m_gen' = m_gen /\ m_commit' = Merge!Filled(m_commit) /\ m_pc' \in {"commit", "committed"}
  BY DEF Merge!PublishCommit, Merge!Stay, Merge!Goto, MergeInv
<1>3. MergeOnLast(n) /\ Merge!Prepared(m_gen)
  BY <1>1, <1>2 DEF MergeStage
<1>4. n > 0 /\ Merge!Prepared(n - 1)
  BY <1>3 DEF MergeOnLast
<1>5. MergeChain(n)' /\ MergeLast(n)'
  BY <1>1, <1>2, <1>4 DEF MergeChain, MergeLast, Merge!Closed, Merge!At, Merge!Prepared
<1>6. MergeStage(n)'
  <2>1. MergeOnLast(n)' /\ Merge!Prepared(m_gen)'
    BY <1>2, <1>3 DEF MergeOnLast, Merge!Prepared
  <2> QED BY <1>2, <2>1 DEF MergeStage
<1>7. MergeAccounted(n)'
  BY <1>1, <1>2 DEF MergeAccounted, MergeFresh
<1>8. MergeTypes'
  <2>1. m_commit' \in MergeRecords
    BY <1>2 DEF Merge!Filled, MergeRecords
  <2> QED BY <1>2, <2>1 DEF MergeTypes
<1> QED BY <1>5, <1>6, <1>7, <1>8 DEF MergeInv

LEMMA MergeCrashKeeps == ASSUME Merge!MergeAssumption, MergeInv, Merge!Crash PROVE MergeInv'
<1>1. PICK n \in 0 .. Generations : MergeChain(n) /\ MergeLast(n) /\ MergeStage(n)
        /\ MergeAccounted(n)
  BY DEF MergeInv
<1>2. /\ MergeTypes /\ m_lease' = m_lease /\ m_start' = m_start /\ m_commit' = m_commit
           /\ m_pc' = "down"
      /\ m_gen' = Generations /\ m_crashes' = m_crashes + 1
  BY DEF Merge!Crash, Merge!disk, Merge!NoGen, MergeInv
<1>3. MergeChain(n)' /\ MergeLast(n)'
  BY <1>1, <1>2, MergeSameDisk
<1>4. MergeStage(n)'
  BY <1>2 DEF MergeStage
<1>5. MergeAccounted(n)'
  BY <1>1, <1>2 DEF MergeAccounted, MergeFresh, MergeTypes, Merge!MergeAssumption
<1>6. MergeTypes'
  BY <1>2 DEF MergeTypes, Merge!MergeAssumption
<1> QED BY <1>3, <1>4, <1>5, <1>6 DEF MergeInv

-----------------------------------------------------------------------------
LEMMA MergeInitInv == ASSUME Merge!MergeAssumption, Merge!Init PROVE MergeInv
<1>1. MergeTypes
  BY MergeNoLeaseShape DEF Merge!Init, MergeTypes, Merge!NoGen, MergeRecords,
     Merge!MergeAssumption
<1>2. MergeChain(0)
  BY DEF Merge!Init, MergeChain, Merge!MergeAssumption, Merge!Ordinals
<1>3. MergeLast(0) /\ MergeStage(0) /\ MergeAccounted(0)
  BY DEF Merge!Init, MergeLast, MergeStage, MergeAccounted, MergeFresh
<1> QED BY <1>1, <1>2, <1>3 DEF MergeInv, Merge!MergeAssumption

LEMMA MergeNextInv ==
    ASSUME Merge!MergeAssumption, MergeInv, [Merge!Next]_Merge!vars
    PROVE  MergeInv'
<1>1. CASE Merge!Next
  BY <1>1, MergeOpenKeeps, MergeConvergeKeeps, MergePrepareKeeps, MergeReconcileKeeps,
     MergeRolledKeeps, MergeRemoveKeeps,
     MergeDescendKeeps, MergeReserveKeeps, MergeBuildKeeps, MergePublishStartKeeps,
         MergeWriteKeeps, MergePublishCommitKeeps,
     MergeCrashKeeps DEF Merge!Next, Merge!Step
<1>2. CASE UNCHANGED Merge!vars
  <2>1. PICK n \in 0 .. Generations : MergeChain(n) /\ MergeLast(n) /\ MergeStage(n)
          /\ MergeAccounted(n)
    BY DEF MergeInv
  <2>2. /\ MergeTypes /\ m_lease' = m_lease /\ m_start' = m_start /\ m_commit' = m_commit
             /\ m_pc' = m_pc /\ m_gen' = m_gen
        /\ m_crashes' = m_crashes
    BY <1>2 DEF Merge!vars, Merge!disk, MergeInv
  <2>3. MergeChain(n)' /\ MergeLast(n)'
    BY <2>1, <2>2, MergeSameDisk
  <2>4. MergeStage(n)'
    BY <2>1, <2>2 DEF MergeStage, MergeOnLast, MergeOnNext, Merge!At, Merge!Prepared,
       Merge!Closed, Merge!Reservation, Merge!Raw, Merge!AnyTorn
  <2>5. MergeTypes' /\ MergeAccounted(n)'
    BY <2>1, <2>2 DEF MergeTypes, MergeAccounted, MergeFresh
  <2> QED BY <2>3, <2>4, <2>5 DEF MergeInv
<1> QED BY <1>1, <1>2

\* Whatever dies or loses power, the merge keeps the invariant
\* (begin_or_resume_distributed_sieve_merge_generation_v1,
\* classify_merge_prepared_publication_prefix_v1).
THEOREM MergeInvariant == ASSUME Merge!MergeAssumption PROVE Merge!Spec => []MergeInv
<1> QED BY MergeInitInv, MergeNextInv, PTL DEF Merge!Spec

\* Whatever a crash leaves of the namespace is opened by the next process,
\* unless a record of it is torn
\* (classify_merge_prepared_publication_prefix_v1).
THEOREM MergeAdmitted == ASSUME Merge!MergeAssumption PROVE Merge!Spec => []Merge!PrefixesAdmitted
<1>1. MergeInv => Merge!PrefixesAdmitted
  <2> SUFFICES ASSUME MergeInv PROVE Merge!PrefixesAdmitted
    OBVIOUS
  <2>1. PICK n \in 0 .. Generations : MergeChain(n) /\ MergeLast(n) /\ MergeStage(n)
    BY DEF MergeInv
  <2>2. Merge!AnyTorn \/ Merge!Admitted
    BY <2>1, MergeNotTornAdmitted DEF MergeInv
  <2>3. m_pc = "refused" => Merge!AnyTorn
    BY <2>1 DEF MergeStage
  <2> QED BY <2>2, <2>3 DEF Merge!PrefixesAdmitted
<1> QED BY <1>1, MergeInvariant, PTL

\* A merge is given up only after a crash for every generation
\* (max_merge_build_attempts).
THEOREM MergePaid == ASSUME Merge!MergeAssumption PROVE Merge!Spec => []Merge!ExhaustedByCrashes
<1>1. MergeInv => Merge!ExhaustedByCrashes
  <2> SUFFICES ASSUME MergeInv, m_pc = "exhausted" PROVE m_crashes >= Generations
    BY DEF Merge!ExhaustedByCrashes
  <2>1. PICK n \in 0 .. Generations : MergeStage(n) /\ MergeAccounted(n)
    BY DEF MergeInv
  <2>2. n = Generations /\ n <= m_crashes
    BY <2>1 DEF MergeStage, MergeAccounted, MergeFresh
  <2> QED BY <2>2 DEF MergeInv, MergeTypes, Merge!MergeAssumption
<1> QED BY <1>1, MergeInvariant, PTL

-----------------------------------------------------------------------------
\* The ledger: what is closed is burned, what holds a handoff is prepared.
MergeClosing == {g \in Merge!Ordinals : Merge!Closed(g)}
MergeHolding == {g \in Merge!Ordinals : m_lease[g].handoff = "canonical"}
MergeBurned == Cardinality(MergeClosing)
MergeKept == IF MergeHolding = {} THEN Merge!NoGen ELSE CHOOSE g \in MergeHolding : TRUE
MergeCommitted == m_commit = "canonical"

\* The steps of the ledger, in the variables of the merge.
MergeBurn == MergeKept = Merge!NoGen
    /\ MergeBurned < Generations /\ MergeBurned' = MergeBurned + 1 /\ MergeKept' = MergeKept
         /\ MergeCommitted' = MergeCommitted
MergeKeep == MergeKept = Merge!NoGen
    /\ MergeBurned < Generations /\ MergeKept' = MergeBurned /\ MergeBurned' = MergeBurned
         /\ MergeCommitted' = MergeCommitted
MergeCommits == MergeKept # Merge!NoGen /\ MergeCommitted' = TRUE /\ MergeBurned' = MergeBurned
    /\ MergeKept' = MergeKept
MergeSame == MergeBurned' = MergeBurned /\ MergeKept' = MergeKept
    /\ MergeCommitted' = MergeCommitted

LEMMA LedgerForm ==
    /\ MergeBurn \/ MergeKeep \/ MergeCommits \/ MergeSame
         => [Merge!Ledger!Next]_(Merge!Ledger!vars)
    /\ MergeBurned = 0 /\ MergeKept = Merge!NoGen /\ MergeCommitted = FALSE => Merge!Ledger!Init
BY DEF Merge!Cardinality, Cardinality, MergeBurn, MergeKeep, MergeCommits, MergeSame,
   Merge!Ledger!Next, Merge!Ledger!vars, Merge!Ledger!Burn, Merge!Ledger!Prepare,
   Merge!Ledger!Commit,
   Merge!Ledger!Init, Merge!Ledger!NoGen, Merge!NoGen, MergeBurned, MergeKept, MergeClosing,
       MergeHolding, MergeCommitted

LEMMA LedgerValues ==
    ASSUME Merge!MergeAssumption, MergeTypes, NEW n \in 0 .. Generations, MergeChain(n),
             MergeLast(n)
    PROVE  /\ n > 0 /\ ~ Merge!Closed(n - 1) => MergeBurned = n - 1 /\ MergeClosing = 0 .. (n - 2)
           /\ (n > 0 => Merge!Closed(n - 1)) => MergeClosing = 0 .. (n - 1)
           /\ MergeHolding \subseteq {n - 1}
<1>1. \A g \in Merge!Ordinals : Merge!Closed(g) => g < n
  BY DEF MergeChain, Merge!Closed, Merge!Absent
<1>2. ASSUME n > 0 => Merge!Closed(n - 1) PROVE MergeClosing = 0 .. (n - 1)
  BY <1>1, <1>2 DEF MergeChain, MergeClosing, Merge!MergeAssumption, Merge!Ordinals
<1>3. ASSUME n > 0, ~ Merge!Closed(n - 1) PROVE MergeBurned = n - 1 /\ MergeClosing = 0 .. (n - 2)
  <2>1. MergeClosing = 0 .. (n - 2)
    BY <1>1, <1>3 DEF MergeChain, MergeClosing, Merge!MergeAssumption, Merge!Ordinals
  <2>2. Cardinality(0 .. (n - 2)) = n - 1
    <3>1. 0 \in Int /\ n - 2 \in Int
      BY DEF Merge!MergeAssumption
    <3>2. Cardinality(0 .. (n - 2)) = IF 0 > n - 2 THEN 0 ELSE (n - 2) - 0 + 1
      BY <3>1, FS_Interval
    <3> QED BY <1>3, <3>2 DEF Merge!MergeAssumption
  <2> QED BY <2>1, <2>2 DEF MergeBurned
<1>4. MergeHolding \subseteq {n - 1}
  BY MergeOnlyLast DEF MergeHolding, Merge!Absent
<1> QED BY <1>2, <1>3, <1>4

\* A step on the lease of the last generation burns it, prepares it or neither.
LEMMA LedgerLast ==
    ASSUME Merge!MergeAssumption, MergeTypes, NEW n \in 0 .. Generations, MergeChain(n),
             MergeLast(n), MergeOnLast(n),
           NEW l \in MergeLeases, m_lease' = [m_lease EXCEPT ![m_gen] = l], m_start' = m_start,
             m_commit' = m_commit,
           m_lease[m_gen] # Merge!Boundary(0),
           m_lease[m_gen].handoff = "canonical" => l.handoff = "canonical"
    PROVE  MergeBurn \/ MergeKeep \/ MergeSame
<1>1. n > 0 /\ m_gen = n - 1 /\ m_gen \in Merge!Ordinals /\ m_start[m_gen] = "canonical"
        /\ ~ Merge!Closed(n - 1)
  BY DEF MergeOnLast, Merge!MergeAssumption, Merge!Ordinals, Merge!Closed, Merge!At
<1>2. /\ m_lease'[m_gen] = l
      /\ \A g \in Merge!Ordinals : g # m_gen => m_lease'[g] = m_lease[g]
  BY <1>1 DEF MergeTypes
<1>3. MergeCommitted' = MergeCommitted
  BY DEF MergeCommitted
<1>4. MergeBurned = n - 1 /\ MergeClosing = 0 .. (n - 2) /\ MergeHolding \subseteq {n - 1}
  BY <1>1, LedgerValues
<1>5. MergeHolding = (IF m_lease[m_gen].handoff = "canonical" THEN {m_gen} ELSE {})
  BY <1>1, <1>4 DEF MergeHolding
<1>6. MergeHolding' = (IF l.handoff = "canonical" THEN {m_gen} ELSE {})
  BY <1>1, <1>2, <1>4 DEF MergeHolding
<1>7. l # Merge!Boundary(0) => MergeClosing' = MergeClosing
  BY <1>1, <1>2 DEF MergeClosing, Merge!Closed, Merge!At
<1>8. CASE l = Merge!Boundary(0)
  <2>1. l.handoff # "canonical"
    BY <1>8, MergeEndsReserved, MergeReservationShape DEF Merge!Absent
  <2>2. MergeHolding = {} /\ MergeHolding' = {}
    BY <1>5, <1>6, <2>1
  <2>3. MergeKept = Merge!NoGen /\ MergeKept' = MergeKept
    BY <2>2 DEF MergeKept
  <2>4. MergeClosing' = 0 .. (n - 1)
    <3>1. \A g \in Merge!Ordinals : Merge!Closed(g)' <=> (Merge!Closed(g) \/ g = m_gen)
      BY <1>1, <1>2, <1>8 DEF Merge!Closed, Merge!At
    <3>2. MergeClosing' = MergeClosing \cup {m_gen}
      BY <1>1, <3>1 DEF MergeClosing
    <3> QED BY <1>1, <1>4, <3>2 DEF Merge!MergeAssumption
  <2>5. Cardinality(0 .. (n - 1)) = n
    <3>1. 0 \in Int /\ n - 1 \in Int
      BY DEF Merge!MergeAssumption
    <3>2. Cardinality(0 .. (n - 1)) = IF 0 > n - 1 THEN 0 ELSE (n - 1) - 0 + 1
      BY <3>1, FS_Interval
    <3> QED BY <1>1, <3>2 DEF Merge!MergeAssumption
  <2>6. MergeBurned' = n
    BY <2>4, <2>5 DEF MergeBurned
  <2> QED BY <1>1, <1>3, <1>4, <2>3, <2>6 DEF MergeBurn, Merge!MergeAssumption
<1>9. CASE l # Merge!Boundary(0) /\ l.handoff = "canonical"
        /\ m_lease[m_gen].handoff # "canonical"
  <2>1. MergeKept = Merge!NoGen
    BY <1>5, <1>9 DEF MergeKept
  <2>2. MergeKept' = m_gen
    BY <1>6, <1>9 DEF MergeKept
  <2>3. MergeBurned' = MergeBurned
    BY <1>7, <1>9 DEF MergeBurned
  <2> QED BY <1>1, <1>3, <1>4, <2>1, <2>2, <2>3 DEF MergeKeep, Merge!MergeAssumption
<1>10. CASE l # Merge!Boundary(0) /\ (l.handoff = "canonical"
         <=> m_lease[m_gen].handoff = "canonical")
  <2>1. MergeHolding' = MergeHolding
    BY <1>5, <1>6, <1>10
  <2>2. MergeKept' = MergeKept /\ MergeBurned' = MergeBurned
    BY <1>7, <1>10, <2>1 DEF MergeKept, MergeBurned
  <2> QED BY <1>3, <2>2 DEF MergeSame
<1> QED BY <1>8, <1>9, <1>10

\* A step on the lease of the next one does not show.
LEMMA LedgerFuture ==
    ASSUME Merge!MergeAssumption, MergeTypes, NEW n \in 0 .. Generations, MergeChain(n),
             MergeLast(n), MergeOnNext(n),
           NEW l, MergeBuilding(l), m_lease' = [m_lease EXCEPT ![m_gen] = l], m_start' = m_start,
             m_commit' = m_commit
    PROVE  MergeSame
<1>1. m_gen = n /\ n \in Merge!Ordinals /\ m_start[n] = Merge!Absent
  BY DEF MergeOnNext, MergeChain, Merge!Ordinals
<1>2. /\ m_lease'[n] = l /\ l.handoff = Merge!Absent
      /\ \A g \in Merge!Ordinals : g # n => m_lease'[g] = m_lease[g]
  BY <1>1, MergeBuildingShape DEF MergeTypes
<1>3. m_lease[n].handoff = Merge!Absent
  BY <1>1, MergeOnlyLast DEF Merge!Ordinals, Merge!MergeAssumption
<1>4. MergeClosing' = MergeClosing
  BY <1>1, <1>2 DEF MergeClosing, Merge!Closed, Merge!At, Merge!Absent
<1>5. MergeHolding' = MergeHolding
  BY <1>1, <1>2, <1>3 DEF MergeHolding, Merge!Absent
<1> QED BY <1>4, <1>5 DEF MergeSame, MergeBurned, MergeKept, MergeCommitted

\* Neither does a start, or a step that leaves the disk alone.
LEMMA LedgerStart ==
    ASSUME MergeTypes, m_lease' = m_lease, m_commit' = m_commit,
           \A g \in Merge!Ordinals : m_start'[g] # m_start[g] => ~ Merge!At(g, 0)
    PROVE  MergeSame
<1>1. MergeClosing' = MergeClosing
  BY DEF MergeClosing, Merge!Closed, Merge!At
<1>2. MergeHolding' = MergeHolding
  BY DEF MergeHolding
<1> QED BY <1>1, <1>2 DEF MergeSame, MergeBurned, MergeKept, MergeCommitted

\* Every step of the merge is one of the ledger, or none.
LEMMA LedgerStep ==
    ASSUME Merge!MergeAssumption, MergeInv, [Merge!Next]_Merge!vars
    PROVE  MergeBurn \/ MergeKeep \/ MergeCommits \/ MergeSame
<1>0. MergeTypes
  BY DEF MergeInv
<1>1. PICK n \in 0 .. Generations : MergeChain(n) /\ MergeLast(n) /\ MergeStage(n)
        /\ MergeAccounted(n)
  BY DEF MergeInv
<1>2. CASE UNCHANGED Merge!disk
  BY <1>0, <1>2, LedgerStart DEF Merge!disk
<1>3. CASE Merge!ArmRollback \/ Merge!RollBackHandoff \/ Merge!RemoveTombstone
        \/ Merge!RevokeReserved
  <2> DEFINE l == m_lease[m_gen]
  <2>1. m_pc = "converge" /\ m_start' = m_start /\ m_commit' = m_commit
    BY <1>3 DEF Merge!ArmRollback, Merge!RollBackHandoff, Merge!RemoveTombstone,
       Merge!RevokeReserved, Merge!Set
  <2>2. /\ MergeOnLast(n)
        /\ \/ MergeShrunk(l) /\ l.tomb = TRUE
           \/ MergeWriting(l) /\ l.corpus = 2 /\ l.handoff \in {"pending", "canonical"}
    BY <1>1, <2>1 DEF MergeStage
  <2>3. m_gen \in Merge!Ordinals /\ l \in MergeLeases /\ l.tomb \in BOOLEAN
    BY <1>0, <2>2 DEF MergeOnLast, Merge!MergeAssumption, Merge!Ordinals, MergeTypes, MergeLeases
  <2>4. l # Merge!Boundary(0)
    <3>1. Merge!Boundary(0).tomb = FALSE /\ Merge!Boundary(0).handoff = Merge!Absent
      BY MergeEndsReserved, MergeReservationShape, Zenon
    <3> QED BY <2>2, <3>1 DEF Merge!Absent
  <2>5. ASSUME NEW k \in MergeLeases, m_lease' = [m_lease EXCEPT ![m_gen] = k],
               l.handoff = "canonical" => k.handoff = "canonical"
        PROVE  MergeBurn \/ MergeKeep \/ MergeSame
    BY <1>0, <1>1, <2>1, <2>2, <2>4, <2>5, LedgerLast
  <2>6. CASE Merge!ArmRollback
    <3> DEFINE k == [l EXCEPT !.handoff = Merge!Absent, !.tomb = TRUE]
    <3>1. m_lease' = [m_lease EXCEPT ![m_gen] = k] /\ l.handoff = "pending"
      BY <2>6 DEF Merge!ArmRollback, Merge!Set
    <3>2. k = [l EXCEPT !.handoff = Merge!Absent, !.tomb = TRUE] /\ Merge!Absent \in MergeRecords
      BY DEF MergeRecords
    <3> HIDE DEF k, l
    <3>3. k \in MergeLeases
      BY <2>3, <3>2 DEF MergeLeases
    <3> QED BY <2>5, <3>1, <3>3
  <2>7. CASE Merge!RollBackHandoff
    <3>1. m_lease' = [m_lease EXCEPT ![m_gen] = Merge!Removed(l)] /\ l.tomb = TRUE
      BY <2>3, <2>7 DEF Merge!RollBackHandoff, Merge!Set
    <3>2. MergeShrunk(l)
      BY <2>2, <3>1 DEF MergeWriting
    <3>3. l.handoff = Merge!Absent
      BY <3>2 DEF MergeShrunk
    <3>4. Merge!Removed(l) \in MergeLeases
      BY <2>3, <3>2, MergeRemovedShrinks
    <3> QED BY <2>5, <3>1, <3>3, <3>4 DEF Merge!Absent
  <2>8. CASE Merge!RemoveTombstone
    <3> DEFINE k == [l EXCEPT !.tomb = FALSE]
    <3>1. m_lease' = [m_lease EXCEPT ![m_gen] = k]
      BY <2>8 DEF Merge!RemoveTombstone, Merge!Set
    <3>2. k = [l EXCEPT !.tomb = FALSE]
      OBVIOUS
    <3> HIDE DEF k, l
    <3>3. k \in MergeLeases /\ k.handoff = l.handoff
      BY <2>3, <3>2 DEF MergeLeases
    <3> QED BY <2>5, <3>1, <3>3
  <2>9. CASE Merge!RevokeReserved
    <3> DEFINE k == [l EXCEPT !.reserved = Merge!Absent]
    <3>1. m_lease' = [m_lease EXCEPT ![m_gen] = k]
      BY <2>9 DEF Merge!RevokeReserved, Merge!Set
    <3>2. k = [l EXCEPT !.reserved = Merge!Absent] /\ Merge!Absent \in MergeRecords
      BY DEF MergeRecords
    <3> HIDE DEF k, l
    <3>3. k \in MergeLeases /\ k.handoff = l.handoff
      BY <2>3, <3>2 DEF MergeLeases
    <3> QED BY <2>5, <3>1, <3>3
  <2> QED BY <1>3, <2>6, <2>7, <2>8, <2>9
<1>4. CASE Merge!Reconcile
  <2>1. m_pc = "reconcile" /\ m_lease' = m_lease /\ m_commit' = m_commit
          /\ m_start' = [m_start EXCEPT ![m_gen] = "canonical"]
    BY <1>4 DEF Merge!Reconcile
  <2>2. n > 0 /\ m_gen = n - 1 /\ ~ Merge!Closed(m_gen)
    BY <1>1, <2>1 DEF MergeStage
  <2>3. m_start[m_gen] # "canonical" => ~ Merge!At(m_gen, 0)
    <3>1. Merge!Boundary(8).place = "final" /\ Merge!Boundary(0).place = Merge!Absent
      <4>1. 0 \in 0 .. 8 /\ 8 \in 0 .. 8 /\ Merge!Directory(8) = "final"
              /\ Merge!Directory(0) = Merge!Absent
        BY DEF Merge!Directory
      <4> QED BY <4>1, MergeBoundaryShape, Zenon
    <3> QED BY <1>1, <2>2, <3>1 DEF MergeLast, Merge!At, Merge!Absent
  <2>4. \A g \in Merge!Ordinals : m_start'[g] # m_start[g] => ~ Merge!At(g, 0)
    BY <1>0, <2>1, <2>2, <2>3 DEF MergeTypes, Merge!Closed
  <2> QED BY <1>0, <2>1, <2>4, LedgerStart
<1>5. CASE Merge!Remove
  <2>1. m_pc = "remove" /\ m_lease' = [m_lease EXCEPT ![m_gen] = Merge!Removed(m_lease[m_gen])]
          /\ m_start' = m_start
        /\ m_commit' = m_commit /\ m_lease[m_gen] # Merge!Boundary(0)
    BY <1>5 DEF Merge!Remove, Merge!Set, Merge!At
  <2>2. MergeOnLast(n) /\ MergeShrunk(m_lease[m_gen])
    BY <1>1, <2>1 DEF MergeStage
  <2>3. m_lease[m_gen] \in MergeLeases /\ m_lease[m_gen].handoff = Merge!Absent
    BY <1>0, <2>2 DEF MergeOnLast, Merge!MergeAssumption, Merge!Ordinals, MergeTypes, MergeShrunk
  <2>4. Merge!Removed(m_lease[m_gen]) \in MergeLeases
    BY <2>2, <2>3, MergeRemovedShrinks
  <2> QED BY <1>0, <1>1, <2>1, <2>2, <2>3, <2>4, LedgerLast DEF Merge!Absent
<1>6. CASE Merge!Descend
  <2>1. PICK b \in 1 .. 8 : Merge!At(m_gen, b)
          /\ m_lease' = [m_lease EXCEPT ![m_gen] = Merge!Boundary(b - 1)]
                            /\ m_start' = m_start /\ m_commit' = m_commit
    BY <1>6 DEF Merge!Descend, Merge!Set
  <2>2. Merge!Boundary(b - 1) \in MergeLeases /\ Merge!Boundary(b - 1) \in MergeReservations
          /\ b - 1 \in 0 .. 8 /\ b \in 0 .. 8
    <3>1. b - 1 \in 0 .. 8 /\ b \in 0 .. 8
      OBVIOUS
    <3> QED BY <3>1, MergeBoundaryShape, Zenon
  <2>3. (MergeOnLast(n) \/ MergeOnNext(n)) /\ m_lease[m_gen] \in MergeReservations
    BY <1>1, <1>6 DEF MergeStage, Merge!Descend
  <2>4. m_lease[m_gen] # Merge!Boundary(0)
    <3>1. 0 \in 0 .. 8 /\ Merge!Reserved(0) = Merge!Absent /\ Merge!Reserved(b) # Merge!Absent
      BY DEF Merge!Reserved, Merge!Absent
    <3>2. Merge!Boundary(0).reserved = Merge!Absent /\ Merge!Boundary(b).reserved # Merge!Absent
      BY <2>2, <3>1, MergeBoundaryShape, Zenon
    <3> QED BY <2>1, <3>2 DEF Merge!At
  <2>5. m_lease[m_gen].handoff # "canonical"
    BY <2>3, MergeReservationShape DEF Merge!Absent
  <2>6. CASE MergeOnLast(n)
    BY <1>0, <1>1, <2>1, <2>2, <2>4, <2>5, <2>6, LedgerLast
  <2>7. CASE MergeOnNext(n)
    <3>1. MergeBuilding(Merge!Boundary(b - 1))
      BY <2>2 DEF MergeBuilding
    <3> QED BY <1>0, <1>1, <2>1, <2>7, <3>1, LedgerFuture
  <2> QED BY <2>3, <2>6, <2>7
<1>7. CASE Merge!Reserve
  <2>1. MergeOnNext(n)
    BY <1>1, <1>7 DEF MergeStage, Merge!Reserve
  <2>2. CASE Merge!Set(Merge!Boundary(0))
    <3>1. MergeBuilding(Merge!Boundary(0))
      BY MergeEndsReserved DEF MergeBuilding
    <3> QED BY <1>0, <1>1, <2>1, <2>2, <3>1, LedgerFuture DEF Merge!Set
  <2> QED BY <1>2, <1>7, <2>2 DEF Merge!Reserve
<1>8. CASE Merge!Build
  <2>1. MergeOnNext(n)
    BY <1>1, <1>8 DEF MergeStage, Merge!Build
  <2>2. ASSUME NEW k, MergeBuilding(k), Merge!Set(k)
        PROVE  MergeSame
    BY <1>0, <1>1, <2>1, <2>2, LedgerFuture DEF Merge!Set
  <2>3. CASE Merge!At(m_gen, 0) /\ Merge!Set([m_lease[m_gen] EXCEPT !.reserved = "torn"])
    BY <2>2, <2>3 DEF Merge!At, MergeBuilding
  <2>4. CASE Merge!At(m_gen, 3) /\ Merge!Set([m_lease[m_gen] EXCEPT !.owner = "torn"])
    BY <2>2, <2>4 DEF Merge!At, MergeBuilding
  <2>5. CASE Merge!At(m_gen, 5) /\ Merge!Set([m_lease[m_gen] EXCEPT !.owned = "torn"])
    BY <2>2, <2>5 DEF Merge!At, MergeBuilding
  <2>6. CASE \E b \in 0 .. 8 : Merge!Set(Merge!Boundary(b))
    BY <2>2, <2>6 DEF MergeBuilding, MergeReservations
  <2>7. \A b \in {1, 2, 4, 6} : b + 1 \in 0 .. 8
    OBVIOUS
  <2> QED BY <1>8, <2>3, <2>4, <2>5, <2>6, <2>7 DEF Merge!Build
<1>9. CASE Merge!PublishStart
  <2>1. m_pc = "start" /\ m_lease' = m_lease /\ m_commit' = m_commit
        /\ m_start' = [m_start EXCEPT ![m_gen] = Merge!Filled(m_start[m_gen])]
    BY <1>9 DEF Merge!PublishStart
  <2>2. Merge!At(m_gen, 8)
    BY <1>1, <2>1 DEF MergeStage
  <2>3. ~ Merge!At(m_gen, 0)
    <3>1. Merge!Boundary(8).place = "final" /\ Merge!Boundary(0).place = Merge!Absent
      <4>1. 0 \in 0 .. 8 /\ 8 \in 0 .. 8 /\ Merge!Directory(8) = "final"
              /\ Merge!Directory(0) = Merge!Absent
        BY DEF Merge!Directory
      <4> QED BY <4>1, MergeBoundaryShape, Zenon
    <3> QED BY <2>2, <3>1 DEF Merge!At, Merge!Absent
  <2>4. \A g \in Merge!Ordinals : m_start'[g] # m_start[g] => ~ Merge!At(g, 0)
    BY <1>0, <2>1, <2>3 DEF MergeTypes
  <2> QED BY <1>0, <2>1, <2>4, LedgerStart
<1>10. CASE Merge!Write
  <2> DEFINE l == m_lease[m_gen]
  <2>1. MergeOnLast(n) /\ MergeWriting(l) /\ m_start' = m_start /\ m_commit' = m_commit
    BY <1>1, <1>10 DEF MergeStage, Merge!Write, Merge!Set
  <2>2. m_gen \in Merge!Ordinals /\ l \in MergeLeases
    BY <1>0, <2>1 DEF MergeOnLast, Merge!MergeAssumption, Merge!Ordinals, MergeTypes
  <2>3. l # Merge!Boundary(0)
    <3>1. Merge!Boundary(0).place = Merge!Absent
      <4>1. 0 \in 0 .. 8 /\ Merge!Directory(0) = Merge!Absent
        BY DEF Merge!Directory
      <4> QED BY <4>1, MergeBoundaryShape, Zenon
    <3> QED BY <2>1, <3>1 DEF MergeWriting, MergeComplete, Merge!Absent
  <2>4. ASSUME NEW k \in MergeLeases, m_lease' = [m_lease EXCEPT ![m_gen] = k],
               l.handoff = "canonical" => k.handoff = "canonical"
        PROVE  MergeBurn \/ MergeKeep \/ MergeSame
    BY <1>0, <1>1, <2>1, <2>3, <2>4, LedgerLast
  <2>5. CASE l.corpus < 2 /\ Merge!Set([l EXCEPT !.corpus = l.corpus + 1])
    <3> DEFINE k == [l EXCEPT !.corpus = l.corpus + 1]
    <3>1. m_lease' = [m_lease EXCEPT ![m_gen] = k] /\ k = [l EXCEPT !.corpus = l.corpus + 1]
      BY <2>5 DEF Merge!Set
    <3> HIDE DEF k, l
    <3>2. l.corpus + 1 \in 0 .. 2
      BY <2>2, <2>5 DEF MergeLeases
    <3>3. k \in MergeLeases /\ k.handoff = l.handoff
      BY <2>2, <3>1, <3>2 DEF MergeLeases
    <3> QED BY <2>4, <3>1, <3>3
  <2>6. CASE l.handoff # "canonical" /\ Merge!Set([l EXCEPT !.handoff = Merge!Filled(l.handoff)])
    <3> DEFINE f == Merge!Filled(l.handoff)
               k == [l EXCEPT !.handoff = f]
    <3>1. m_lease' = [m_lease EXCEPT ![m_gen] = k] /\ k = [l EXCEPT !.handoff = f]
      BY <2>6 DEF Merge!Set
    <3>2. f \in MergeRecords
      BY DEF Merge!Filled, MergeRecords
    <3> HIDE DEF k, l, f
    <3>3. k \in MergeLeases
      BY <2>2, <3>1, <3>2 DEF MergeLeases
    <3> QED BY <2>4, <2>6, <3>1, <3>3
  <2>7. CASE Merge!Set([l EXCEPT !.reserved = Merge!Absent])
    <3> DEFINE k == [l EXCEPT !.reserved = Merge!Absent]
    <3>1. m_lease' = [m_lease EXCEPT ![m_gen] = k] /\ k = [l EXCEPT !.reserved = Merge!Absent]
      BY <2>7 DEF Merge!Set
    <3>2. Merge!Absent \in MergeRecords
      BY DEF MergeRecords
    <3> HIDE DEF k, l
    <3>3. k \in MergeLeases /\ k.handoff = l.handoff
      BY <2>2, <3>1, <3>2 DEF MergeLeases
    <3> QED BY <2>4, <3>1, <3>3
  <2> QED BY <1>10, <2>5, <2>6, <2>7 DEF Merge!Write
<1>11. CASE Merge!PublishCommit
  <2>1. m_pc = "commit" /\ m_lease' = m_lease /\ m_start' = m_start
          /\ m_commit' = Merge!Filled(m_commit)
    BY <1>11 DEF Merge!PublishCommit
  <2>2. MergeBurned' = MergeBurned /\ MergeKept' = MergeKept
    BY <2>1 DEF MergeBurned, MergeKept, MergeClosing, MergeHolding, Merge!Closed, Merge!At
  <2>3. MergeOnLast(n) /\ m_lease[m_gen] = MergeHanded /\ m_gen \in Merge!Ordinals
    BY <1>1, <2>1 DEF MergeStage, MergeOnLast, Merge!MergeAssumption, Merge!Ordinals,
       Merge!Prepared, MergeHanded
  <2>4. m_lease[m_gen].handoff = "canonical"
    BY <1>0, <2>3, MergeHandoffShows DEF MergeTypes
  <2>5. MergeKept # Merge!NoGen
    <3>1. m_gen \in MergeHolding /\ MergeHolding \subseteq Merge!Ordinals
            /\ Merge!NoGen \notin Merge!Ordinals
      BY <2>3, <2>4 DEF MergeHolding, Merge!NoGen, Merge!Ordinals, Merge!MergeAssumption
    <3> QED BY <3>1 DEF MergeKept
  <2>6. CASE MergeCommitted' = TRUE
    BY <2>2, <2>5, <2>6 DEF MergeCommits
  <2>7. CASE MergeCommitted' # TRUE
    <3>1. m_commit # "canonical" /\ m_commit' # "canonical"
      BY <2>1, <2>7 DEF MergeCommitted, Merge!Filled, Merge!Absent
    <3>2. MergeCommitted' = MergeCommitted
      BY <3>1 DEF MergeCommitted
    <3> QED BY <2>2, <3>2 DEF MergeSame
  <2> QED BY <2>6, <2>7
<1>12. CASE Merge!Next
  <2>1. Merge!Open \/ Merge!Prepare \/ Merge!Rolled \/ Merge!Crash => UNCHANGED Merge!disk
    BY DEF Merge!Open, Merge!Prepare, Merge!Rolled, Merge!Crash
  <2> QED BY <1>2, <1>3, <1>4, <1>5, <1>6, <1>7, <1>8, <1>9, <1>10, <1>11, <1>12, <2>1 DEF
     Merge!Next, Merge!Step
<1>13. CASE UNCHANGED Merge!vars
  BY <1>2, <1>13 DEF Merge!vars
<1> QED BY <1>12, <1>13

LEMMA LedgerInit ==
    ASSUME Merge!MergeAssumption, Merge!Init
    PROVE  MergeBurned = 0 /\ MergeKept = Merge!NoGen /\ MergeCommitted = FALSE
<1>1. MergeClosing = {} /\ MergeHolding = {}
  BY MergeNoLeaseShape DEF Merge!Init, MergeClosing, Merge!Closed, MergeHolding, Merge!Absent
<1> QED BY <1>1, FS_EmptySet DEF Merge!Init, MergeBurned, MergeKept, MergeCommitted, Merge!Absent

\* The merge implements MergeLedger: generations in order, the prepared one
\* kept, the commit to it
\* (begin_or_resume_distributed_sieve_merge_generation_v1,
\* publish_wave_merge_commit_v1).
THEOREM MergeLedgerKept == ASSUME Merge!MergeAssumption PROVE Merge!Spec => Merge!KeepsLedger
<1>1. Merge!Init => Merge!Ledger!Init
  BY LedgerInit, LedgerForm
<1>2. MergeInv /\ [Merge!Next]_Merge!vars => [Merge!Ledger!Next]_(Merge!Ledger!vars)
  BY LedgerStep, LedgerForm
<1> QED BY <1>1, <1>2, MergeInvariant, PTL DEF Merge!Spec, Merge!KeepsLedger, Merge!Ledger!Spec

-----------------------------------------------------------------------------
\* The proofs about the journal and about the removal, of the variables they
\* have here.
JP == INSTANCE CampaignJournalProofs
    WITH leaf <- j_leaf, sure <- j_sure, who <- j_who, pc <- j_pc, slot <- j_slot,
         prefixSure <- j_prefixSure, startSure <- j_startSure,
         launched <- j_launched, told <- j_told

RP == INSTANCE WorkerCleanupProofs
    WITH root <- w_root, rootDisk <- w_rootDisk, store <- w_store, storeDisk <- w_storeDisk,
         stage <- w_stage, step <- w_step, used <- w_used, seen <- w_seen,
         troubles <- w_troubles

\* The proofs are about the journal and the removal as MCDurability has them.
LEMMA SameJournal ==
    /\ JP!Init <=> Journal!Init
    /\ JP!Next <=> Journal!Next
    /\ JP!vars = Journal!vars
    /\ JP!JournalAssumption <=> Journal!JournalAssumption
BY Zenon DEF Journal!Next, JP!Next, Journal!vars, JP!vars, Journal!Init, JP!Init,
   Journal!JournalAssumption, JP!JournalAssumption, Journal!CreateLock, JP!CreateLock,
   Journal!Sessions, JP!Sessions, Journal!Open, JP!Open, Journal!Step, JP!Step, Journal!Crash,
   JP!Crash, Journal!PowerCut, JP!PowerCut, Journal!Leaves, JP!Leaves, Journal!Has, JP!Has,
   Journal!Lock, JP!Lock, Journal!Admitted, JP!Admitted, Journal!Fresh, JP!Fresh,
   Journal!Close, JP!Close, Journal!Quietly, JP!Quietly, Journal!PublishHeader,
   JP!PublishHeader, Journal!ConfirmPrefix, JP!ConfirmPrefix, Journal!PublishStart,
   JP!PublishStart, Journal!Launch, JP!Launch, Journal!GiveUp, JP!GiveUp, Journal!Artifacts,
   JP!Artifacts, Journal!PublishArtifact, JP!PublishArtifact, Journal!Commit, JP!Commit,
   Journal!Settle, JP!Settle, Journal!TaintDangling, JP!TaintDangling, Journal!ConfirmStart,
   JP!ConfirmStart, Journal!PublishTaint, JP!PublishTaint, Journal!Reconcile, JP!Reconcile,
   Journal!ConfirmComplete, JP!ConfirmComplete, Journal!PublishGate, JP!PublishGate,
   Journal!ConfirmGate, JP!ConfirmGate, Journal!Fail, JP!Fail, Journal!End, JP!End,
   Journal!Unsure, JP!Unsure, Journal!Left, JP!Left, Journal!Header, JP!Header, Journal!Gate,
   JP!Gate, Journal!Broken, JP!Broken, Journal!Replayed, JP!Replayed, Journal!Consistent,
   JP!Consistent, Journal!Durable, JP!Durable, Journal!NotDurable, JP!NotDurable,
   Journal!Ready, JP!Ready, Journal!Synced, JP!Synced, Journal!Prefix, JP!Prefix,
   Journal!Start, JP!Start, Journal!Goto, JP!Goto, Journal!NextStep, JP!NextStep,
   Journal!Committed, JP!Committed, Journal!Dangling, JP!Dangling, Journal!Reconciled,
   JP!Reconciled, Journal!Complete, JP!Complete, Journal!Debris, JP!Debris, Journal!IsArtifact,
   JP!IsArtifact, Journal!Tainted, JP!Tainted

LEMMA SameRemoval ==
    /\ RP!Init <=> Removal!Init
    /\ RP!Next <=> Removal!Next
    /\ RP!vars = Removal!vars
    /\ RP!WorkerCleanupAssumption <=> Removal!WorkerCleanupAssumption
BY Zenon DEF Removal!Next, RP!Next, Removal!vars, RP!vars, Removal!Init, RP!Init,
   Removal!WorkerCleanupAssumption, RP!WorkerCleanupAssumption, Removal!Step, RP!Step,
   Removal!Trouble, RP!Trouble, Removal!disk, RP!disk, Removal!Ordinals, RP!Ordinals,
   Removal!Handoff, RP!Handoff, Removal!Open, RP!Open, Removal!Authorize, RP!Authorize,
   Removal!PublishAuthorization, RP!PublishAuthorization, Removal!Prepare, RP!Prepare,
   Removal!Convert, RP!Convert, Removal!ConvertIntent, RP!ConvertIntent,
   Removal!ReconcileIntent, RP!ReconcileIntent, Removal!SyncFound, RP!SyncFound,
   Removal!RemoveLeaf, RP!RemoveLeaf, Removal!RemoveDirectory, RP!RemoveDirectory,
   Removal!StageDeletion, RP!StageDeletion, Removal!Absent, RP!Absent, Removal!Complete,
   RP!Complete, Removal!PublishCompletion, RP!PublishCompletion, Removal!ConfirmCompletion,
   RP!ConfirmCompletion, Removal!Retain, RP!Retain, Removal!Fail, RP!Fail, Removal!Crash,
   RP!Crash, Removal!PowerCut, RP!PowerCut, Removal!Classified, RP!Classified, Removal!Now,
   RP!Now, Removal!Enter, RP!Enter, Removal!Goto, RP!Goto, Removal!Root, RP!Root,
   Removal!Filled, RP!Filled, Removal!Stay, RP!Stay, Removal!RootSynced, RP!RootSynced,
   Removal!SyncRoot, RP!SyncRoot, Removal!Begin, RP!Begin, Removal!NextStep, RP!NextStep,
   Removal!Leaves, RP!Leaves, Removal!StoreSynced, RP!StoreSynced, Removal!SyncStore,
   RP!SyncStore, Removal!Converted, RP!Converted, Removal!Applied, RP!Applied, Removal!Retry,
   RP!Retry, Removal!Valid, RP!Valid, Removal!Cold, RP!Cold, Removal!Frontier, RP!Frontier,
   Removal!Budget, RP!Budget, Removal!Legal, RP!Legal, Removal!NextOf, RP!NextOf,
   Removal!Table, RP!Table, Removal!Deleted, RP!Deleted

LEMMA SameVerdicts ==
    /\ JP!EveryPrefixAdmitted <=> Journal!EveryPrefixAdmitted
    /\ JP!SlotsSpentOnce <=> Journal!SlotsSpentOnce
    /\ RP!PrefixesAdmitted <=> Removal!PrefixesAdmitted
<1>1. /\ JP!EveryPrefixAdmitted <=> Journal!EveryPrefixAdmitted
      /\ JP!SlotsSpentOnce <=> Journal!SlotsSpentOnce
  BY Zenon DEF Journal!EveryPrefixAdmitted, JP!EveryPrefixAdmitted, Journal!SlotsSpentOnce,
   JP!SlotsSpentOnce, Journal!Broken, JP!Broken, Journal!Admitted, JP!Admitted, Journal!Lock,
   JP!Lock, Journal!Prefix, JP!Prefix, Journal!Start, JP!Start, Journal!Close, JP!Close,
   Journal!Leaves, JP!Leaves, Journal!IsArtifact, JP!IsArtifact, Journal!Replayed, JP!Replayed,
   Journal!Consistent, JP!Consistent, Journal!Header, JP!Header, Journal!Gate, JP!Gate,
   Journal!Artifacts, JP!Artifacts, Journal!Has, JP!Has
<1>2. RP!PrefixesAdmitted <=> Removal!PrefixesAdmitted
  BY Zenon DEF Removal!PrefixesAdmitted, RP!PrefixesAdmitted, Removal!TornRoot, RP!TornRoot,
   Removal!TornStore, RP!TornStore, Removal!Classified, RP!Classified, Removal!Ordinals,
   RP!Ordinals, Removal!NextStep, RP!NextStep, Removal!Frontier, RP!Frontier, Removal!Handoff,
   RP!Handoff, Removal!Legal, RP!Legal, Removal!NextOf, RP!NextOf, Removal!Table, RP!Table,
   Removal!Deleted, RP!Deleted
<1> QED BY <1>1, <1>2

\* Whatever is picked, each of the six makes its own steps or none.
LEMMA EachInit ==
    AnyInit => /\ Init /\ Cleanup!Init /\ Merge!Init /\ Removal!Init /\ Sieve!Init /\ Journal!Init
BY DEF AnyInit

LEMMA EachStep ==
    [AnyNext]_allvars =>
        /\ [Next]_vars /\ [Cleanup!Next]_(Cleanup!vars) /\ [Merge!Next]_(Merge!vars)
        /\ [Removal!Next]_(Removal!vars) /\ [Sieve!Next]_(Sieve!vars)
        /\ [Journal!Next]_(Journal!vars)
<1>1. /\ vars' = vars => UNCHANGED vars
      /\ cvars' = cvars => UNCHANGED Cleanup!vars
      /\ mvars' = mvars => UNCHANGED Merge!vars
      /\ wvars' = wvars => UNCHANGED Removal!vars
      /\ svars' = svars => UNCHANGED Sieve!vars
      /\ jvars' = jvars => UNCHANGED Journal!vars
  BY DEF cvars, mvars, wvars, svars, jvars, Cleanup!vars, Merge!vars, Merge!disk, Removal!vars,
     Removal!disk, Sieve!vars, Journal!vars
<1>2. AnyNext \/ UNCHANGED allvars =>
        /\ Next \/ vars' = vars
        /\ Cleanup!Next \/ cvars' = cvars
        /\ Merge!Next \/ mvars' = mvars
        /\ Removal!Next \/ wvars' = wvars
        /\ Sieve!Next \/ svars' = svars
        /\ Journal!Next \/ jvars' = jvars
  BY DEF AnyNext, InRecord, InCleanup, InMerge, InRemoval, InSieve, InJournal, allvars
<1> QED BY <1>1, <1>2

\* A behaviour of MCDurability is one of each of the six.
THEOREM EverySpec ==
    AnySpec => /\ Spec /\ Cleanup!Spec /\ Merge!Spec /\ Sieve!Spec /\ JP!Spec /\ RP!Spec
<1>1. AnySpec => AnyInit /\ [][AnyNext]_allvars
  BY PTL DEF AnySpec
<1>2. AnyInit => Init /\ Cleanup!Init /\ Merge!Init /\ Sieve!Init /\ JP!Init /\ RP!Init
  BY EachInit, SameJournal, SameRemoval
<1>3. [AnyNext]_allvars =>
        /\ [Next]_vars /\ [Cleanup!Next]_(Cleanup!vars) /\ [Merge!Next]_(Merge!vars)
        /\ [Sieve!Next]_(Sieve!vars) /\ [JP!Next]_(JP!vars) /\ [RP!Next]_(RP!vars)
  <2>1. [Journal!Next]_(Journal!vars) => [JP!Next]_(JP!vars)
    BY SameJournal DEF Journal!vars, JP!vars
  <2>2. [Removal!Next]_(Removal!vars) => [RP!Next]_(RP!vars)
    BY SameRemoval DEF Removal!vars, RP!vars, Removal!disk, RP!disk
  <2> QED BY EachStep, <2>1, <2>2
<1> QED BY <1>1, <1>2, <1>3, PTL DEF Spec, Cleanup!Spec, Merge!Spec, Sieve!Spec, JP!Spec, RP!Spec

\* The record is a write-once register, whatever else MCDurability picks
\* (publish_at).
THEOREM RecordKept == AnySpec => KeepsRegister
BY EverySpec, RecordIsRegister, PTL

\* The merge keeps its ledger
\* (begin_or_resume_distributed_sieve_merge_generation_v1).
THEOREM LedgerKept == AnySpec => MergeKeepsLedger
<1>1. Merge!Spec => Merge!KeepsLedger
  BY MergeLedgerKept, DurabilityAssumption
<1> QED BY <1>1, EverySpec, PTL DEF MergeKeepsLedger

\* However often it is interrupted, the sieve delivers the corpus of a run that
\* was not (Pipeline::sieve_and_collect).
THEOREM CorpusStaysExact == AnySpec => []CorpusExact
<1>1. Sieve!Spec => []Sieve!CorpusExact
  BY SieveExact, DurabilityAssumption
<1>2. Sieve!CorpusExact => CorpusExact
  BY DEF CorpusExact
<1> QED BY <1>1, <1>2, EverySpec, PTL

\* Whatever a crash or a power cut leaves of the deletion of a pair, of a
\* merge, of the removal of the workers, of a sieve or of a journal is taken up
\* by the next process (advance_transaction,
\* classify_merge_prepared_publication_prefix_v1,
\* classify_authorized_cleanup_prefix_v2,
\* OOCRelationWriter::validate_resume_prefix, open_platform_campaign_engine).
THEOREM PrefixesResumable == AnySpec => []EveryPrefixResumable
<1>1. Cleanup!Spec => []Cleanup!EveryDiskResumable
  BY CleanupResumable, DurabilityAssumption
<1>2. Merge!Spec => []Merge!PrefixesAdmitted
  BY MergeAdmitted, DurabilityAssumption
<1>3. Sieve!Spec => []Sieve!CheckpointRecoverable
  BY SieveRecoverable, DurabilityAssumption
<1>4. JP!JournalAssumption /\ RP!WorkerCleanupAssumption
  BY DurabilityAssumption, SameJournal, SameRemoval
<1>5. JP!Spec => []JP!EveryPrefixAdmitted
  BY <1>4, JP!EveryPrefixIsAdmitted
<1>6. RP!Spec => []RP!PrefixesAdmitted
  BY <1>4, RP!PrefixesStayAdmitted
<1>7. Cleanup!EveryDiskResumable /\ Merge!PrefixesAdmitted /\ Sieve!CheckpointRecoverable
      /\ JP!EveryPrefixAdmitted /\ RP!PrefixesAdmitted => EveryPrefixResumable
  BY SameVerdicts DEF EveryPrefixResumable
<1> QED BY <1>1, <1>2, <1>3, <1>5, <1>6, <1>7, EverySpec, PTL

\* No file is deleted, no directory touched and no completion begun on
\* authority that a power cut can take back (advance_transaction,
\* resume_authorized_private_handoff_cleanup_v2).
THEOREM AuthorityIsDurable == AnySpec => ActsOnDurableAuthority
<1>1. Cleanup!Spec => Cleanup!ActsOnDurableAuthority
  BY CleanupAuthority, DurabilityAssumption
<1>2. RP!WorkerCleanupAssumption
  BY DurabilityAssumption, SameRemoval
<1>3. RP!Spec => RP!ActsOnDurableAuthority
  BY <1>2, RP!RemovalIsAuthorized
<1>4. RP!ActsOnDurableAuthority => Removal!ActsOnDurableAuthority
  <2>1. [RP!OnAuthority]_(RP!vars) => [Removal!OnAuthority]_(Removal!vars)
    BY Zenon DEF Removal!Step, RP!Step, Removal!vars, RP!vars, Removal!OnAuthority, RP!OnAuthority,
   Removal!Open, RP!Open, Removal!Authorize, RP!Authorize, Removal!PublishAuthorization,
   RP!PublishAuthorization, Removal!Prepare, RP!Prepare, Removal!Convert, RP!Convert,
   Removal!ConvertIntent, RP!ConvertIntent, Removal!ReconcileIntent, RP!ReconcileIntent,
   Removal!SyncFound, RP!SyncFound, Removal!RemoveLeaf, RP!RemoveLeaf, Removal!RemoveDirectory,
   RP!RemoveDirectory, Removal!StageDeletion, RP!StageDeletion, Removal!Absent, RP!Absent,
   Removal!Complete, RP!Complete, Removal!PublishCompletion, RP!PublishCompletion,
   Removal!ConfirmCompletion, RP!ConfirmCompletion, Removal!Retain, RP!Retain, Removal!disk,
   RP!disk, Removal!Ordinals, RP!Ordinals, Removal!Classified, RP!Classified, Removal!Now,
   RP!Now, Removal!Enter, RP!Enter, Removal!Goto, RP!Goto, Removal!Root, RP!Root,
   Removal!Filled, RP!Filled, Removal!Stay, RP!Stay, Removal!RootSynced, RP!RootSynced,
   Removal!SyncRoot, RP!SyncRoot, Removal!Begin, RP!Begin, Removal!NextStep, RP!NextStep,
   Removal!Handoff, RP!Handoff, Removal!Leaves, RP!Leaves, Removal!StoreSynced, RP!StoreSynced,
   Removal!SyncStore, RP!SyncStore, Removal!Converted, RP!Converted, Removal!Applied,
   RP!Applied, Removal!Frontier, RP!Frontier, Removal!Budget, RP!Budget, Removal!Legal,
   RP!Legal, Removal!NextOf, RP!NextOf, Removal!Table, RP!Table, Removal!Deleted, RP!Deleted
  <2> QED BY <2>1, PTL DEF RP!ActsOnDurableAuthority, Removal!ActsOnDurableAuthority
<1> QED BY <1>1, <1>3, <1>4, EverySpec, PTL DEF ActsOnDurableAuthority

\* What a durable checkpoint has passed, what a campaign was told is durable
\* and what was reported as removed stays so (SieveCheckpoint::save, reconcile,
\* drive_with_operations).
THEOREM ProgressStays == AnySpec => ProgressKept
<1>1. Sieve!Spec => Sieve!ProgressKept
  BY SieveProgress, DurabilityAssumption
<1>2. JP!JournalAssumption /\ RP!WorkerCleanupAssumption
  BY DurabilityAssumption, SameJournal, SameRemoval
<1>3. JP!Spec => JP!ReportedIsKept
  BY <1>2, JP!ReportedStays
<1>4. RP!Spec => RP!RetainedIsRemoved
  BY <1>2, RP!RetainedStaysRemoved
<1>5. JP!ReportedIsKept => Journal!ReportedIsKept
  <2>1. [\A l \in j_told : j_leaf'[l] = j_leaf[l]]_(JP!vars)
          => [\A l \in j_told : j_leaf'[l] = j_leaf[l]]_(Journal!vars)
    BY Zenon DEF JP!vars, Journal!vars
  <2> QED BY <2>1, PTL DEF JP!ReportedIsKept, Journal!ReportedIsKept
<1>6. RP!RetainedIsRemoved => Removal!RetainedIsRemoved
  <2>1. [w_step = "retained" => \A r \in w_rootDisk' : r.dir \cup r.owned = {}]_(RP!vars)
          => [w_step = "retained" => \A r \in w_rootDisk' : r.dir \cup r.owned = {}]_(Removal!vars)
    BY Zenon DEF RP!vars, Removal!vars, RP!disk, Removal!disk
  <2> QED BY <2>1, PTL DEF RP!RetainedIsRemoved, Removal!RetainedIsRemoved
<1> QED BY <1>1, <1>3, <1>4, <1>5, <1>6, EverySpec, PTL DEF ProgressKept

\* A publisher that owns its directory is refused only for bytes that are not
\* its own, a resumed deletion only for what a stranger or a power cut put
\* there (publish_at, advance_transaction).
THEOREM RefusalsHaveCause == AnySpec => NoRefusalWithoutCause
<1>1. Cleanup!Spec => Cleanup!ResumeRefusedForCause
  BY CleanupRefusals, DurabilityAssumption
<1> QED BY <1>1, OwnerRefusedForCause, EverySpec, PTL DEF NoRefusalWithoutCause

\* A spent receipt left no file without an intent, a generation is spent on a
\* crash, a removal has stages left, and the child of a slot is started once
\* (begin_or_resume, max_merge_build_attempts, transition_budget_for).
THEOREM SpentForCause == AnySpec => []NothingSpentInVain
<1>1. Cleanup!Spec => []Cleanup!SpentIsAccountedFor
  BY CleanupAccounted, DurabilityAssumption
<1>2. Merge!Spec => []Merge!ExhaustedByCrashes
  BY MergePaid, DurabilityAssumption
<1>3. JP!JournalAssumption /\ RP!WorkerCleanupAssumption
  BY DurabilityAssumption, SameJournal, SameRemoval
<1>4. JP!Spec => []JP!SlotsSpentOnce
  BY <1>3, JP!SlotsAreSpentOnce
<1>5. RP!Spec => []RP!BudgetSuffices
  BY <1>3, RP!BudgetIsEnough
<1>6. Cleanup!SpentIsAccountedFor /\ Merge!ExhaustedByCrashes /\ JP!SlotsSpentOnce
      /\ RP!BudgetSuffices => NothingSpentInVain
  BY SameVerdicts DEF NothingSpentInVain, RP!BudgetSuffices, Removal!BudgetSuffices
<1> QED BY <1>1, <1>2, <1>4, <1>5, <1>6, EverySpec, PTL
=============================================================================

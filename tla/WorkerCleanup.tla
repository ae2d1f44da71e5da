---------------------------- MODULE WorkerCleanup ----------------------------
(***************************************************************************)
(* The removal of the workers' stores once a wave is committed to its merged*)
(* corpus.  Worker by worker, in the order of the manifest: a record in the *)
(* wave's root authorizes the removal, the handoff in the worker's private  *)
(* directory is converted into an intent, files, markers, directory and     *)
(* OWNED marker go one by one, and a second record says that they are gone. *)
(* Workers of empty chunks have no store and no record; they are left out.  *)
(*                                                                         *)
(* drive_with_operations runs the stages of one call and counts them.  A    *)
(* stage that fails before it has spent its authority can be called again;  *)
(* after that the wave is reopened from the disk.  One process at a time    *)
(* holds the wave lock.  A power cut leaves any state of a directory since  *)
(* its last sync; the changes of one directory reach the disk in order.     *)
(* Nobody else writes, so a record never stands beside its own pending name.*)
(***************************************************************************)
EXTENDS Naturals

CONSTANTS Workers,      \* how many chunks handed a store over
          MaxTroubles   \* bound on failures, crashes and power cuts together

WorkerCleanupAssumption == Workers \in Nat \ {0} /\ MaxTroubles \in Nat

VARIABLES root, rootDisk,    \* the wave's root, and what a power cut may leave of it
          store, storeDisk,  \* the leaves of the private directories, and so
          stage, step,       \* the stage of the call, and where in it the process is
          used,              \* the stages that the call has begun
          seen,              \* the root as the authorized admission saw it
          troubles

disk == <<root, rootDisk, store, storeDisk>>
vars == <<disk, stage, step, used, seen, troubles>>

Ordinals == 1..Workers

-----------------------------------------------------------------------------
\* A private directory.  The table gives the next step for every legal set of
\* leaves; any other set is a conflict (classify_authorized_cleanup_prefix_v2).
Handoff == {"owner", "index", "data", "handoff"}
Deleted == {"owner", "intent", "staged"}

Table ==
    {<<Handoff, "convert">>,
     <<Handoff \cup {"intent_pending"}, "reconcile">>,
     <<Handoff \cup {"intent"}, "remove_handoff">>,
     <<{"owner", "intent", "index", "data"}, "quarantine_index">>,
     <<{"owner", "intent", "q_index", "data"}, "quarantine_data">>,
     <<{"owner", "intent", "q_index", "q_data"}, "stage">>,
     <<{"owner", "intent", "q_index", "q_data", "staged_pending"}, "stage">>,
     <<Deleted \cup {"q_index", "q_data"}, "remove_data">>,
     <<Deleted \cup {"q_index"}, "remove_index">>,
     <<Deleted, "remove_intent">>,
     <<{"owner", "staged"}, "remove_owner">>,
     <<{"staged"}, "remove_staged">>,
     <<{}, "remove_directory">>}

Legal(p) == \E row \in Table : row[1] = p
NextOf(p) == (CHOOSE row \in Table : row[1] = p)[2]

\* Mutant: a store is taken to be gone with its directory.
NextStepUnowned(r, d, w) ==
    IF w \notin r.dir THEN "complete"
    ELSE IF w \in r.owned /\ Legal(d[w]) THEN NextOf(d[w]) ELSE "conflict"

\* The OWNED marker of a store stays as long as its directory.
NextStep(r, d, w) ==
    IF w \notin r.dir THEN IF w \in r.owned THEN "remove_owned" ELSE "complete"
    ELSE IF w \in r.owned /\ Legal(d[w]) THEN NextOf(d[w]) ELSE "conflict"

-----------------------------------------------------------------------------
\* The root, where a record is "none", "torn", "pending" or "canonical".  Its
\* frontier is the first worker whose completion is not canonical.
Frontier(r) ==
    CHOOSE w \in 1..(Workers + 1) :
        /\ \A v \in Ordinals : v < w => r.done[v] = "canonical"
        /\ w <= Workers => r.done[w] # "canonical"
Now == Frontier(root)

\* Nothing stands beyond the frontier; a completion stands on a canonical
\* authorization of a store that is gone; a store without a canonical
\* authorization is the handoff as it was committed.
Classified(r, d) ==
    \A w \in Ordinals :
        /\ r.auth[w] # "torn" /\ r.done[w] # "torn"
        /\ {r.auth[w], r.done[w]} # {"none"} => w <= Frontier(r)
        /\ r.done[w] # "none" => r.auth[w] = "canonical" /\ w \notin r.dir \cup r.owned
        /\ r.auth[w] \in {"none", "pending"} =>
              w \in r.dir \cap r.owned /\ d[w] = Handoff

Init ==
    /\ root = [auth |-> [w \in Ordinals |-> "none"], done |-> [w \in Ordinals |-> "none"],
               dir |-> Ordinals, owned |-> Ordinals]
    /\ rootDisk = {root}
    /\ store = [w \in Ordinals |-> Handoff]
    /\ storeDisk = {store}
    /\ stage = "none" /\ step = "down" /\ used = 0 /\ seen = root /\ troubles = 0

-----------------------------------------------------------------------------
\* Changes of the disk.
Root(r) == root' = r /\ rootDisk' = rootDisk \cup {r} /\ UNCHANGED <<store, storeDisk>>
SyncRoot == rootDisk' = {root} /\ UNCHANGED <<root, store, storeDisk>>
RootSynced == rootDisk = {root}

Leaves(p) ==
    /\ store' = [store EXCEPT ![Now] = p] /\ storeDisk' = storeDisk \cup {store'}
    /\ UNCHANGED <<root, rootDisk>>
SyncStore == storeDisk' = {store} /\ UNCHANGED <<root, rootDisk, store>>
StoreSynced == storeDisk = {store}

Stay == UNCHANGED <<stage, step, used, seen, troubles>>
Goto(s) == step' = s /\ UNCHANGED <<stage, used, seen, troubles>>

\* Mutant: the budget of a call leaves no room for a conversion that is retried.
BudgetOfOneRound == 3 * Workers + 2

\* transition_budget_for
Budget == 4 * Workers + 4

\* begin_transition: the call goes on with its next stage.
Begin(s) ==
    IF used < Budget THEN stage' = s /\ step' = "look" /\ used' = used + 1
    ELSE step' = "exhausted" /\ UNCHANGED <<stage, used>>
Enter(s) == Begin(s) /\ UNCHANGED <<seen, troubles>>

\* A call that could be retried is called again; one that could not is left
\* to whoever opens the wave next.
Retry(s) == stage' = s /\ step' = "look" /\ used' = 1 /\ UNCHANGED seen
Cold == stage' = "none" /\ step' = "down" /\ used' = 0 /\ seen' = root

\* The wave is opened and the cleanup started.
Open ==
    /\ step = "down"
    /\ IF Classified(root, store) THEN stage' = "authorize" /\ step' = "look" /\ used' = 1
       ELSE step' = "refused" /\ UNCHANGED <<stage, used>>
    /\ seen' = root /\ UNCHANGED <<disk, troubles>>

-----------------------------------------------------------------------------
\* Mutant: an authorization that is found is taken to be durable.
AuthorizeFound ==
    /\ stage \in {"authorize", "advance"} /\ step = "look"
    /\ \/ Now > Workers /\ Enter("terminal")
       \/ Now <= Workers /\ root.done[Now] = "pending" /\ Enter("reconcile")
       \/ Now <= Workers /\ root.done[Now] = "none"
          /\ IF root.auth[Now] = "canonical" THEN Enter("prepare") ELSE Goto("publish")
    /\ UNCHANGED disk

\* resume_authorization, advance_authorization: the frontier decides.
Authorize ==
    /\ stage \in {"authorize", "advance"} /\ step = "look"
    /\ \/ Now > Workers /\ Enter("terminal")
       \/ Now <= Workers /\ root.done[Now] = "pending" /\ Enter("reconcile")
       \/ Now <= Workers /\ root.done[Now] = "none" /\ Goto("publish")
    /\ UNCHANGED disk

Filled(r) == IF r = "none" THEN "torn" ELSE "pending"

\* publish_at: created and written, or found; synced, renamed, synced.  A
\* record that is found canonical is confirmed by a sync.
PublishAuthorization ==
    /\ stage \in {"authorize", "advance"} /\ step = "publish"
    /\ LET a == root.auth[Now] IN
       \/ a \in {"none", "torn"} /\ Root([root EXCEPT !.auth[Now] = Filled(a)]) /\ Stay
       \/ a \in {"pending", "canonical"} /\ ~RootSynced /\ SyncRoot /\ Stay
       \/ a = "pending" /\ RootSynced /\ Root([root EXCEPT !.auth[Now] = "canonical"]) /\ Stay
       \/ /\ a = "canonical" /\ RootSynced
          /\ Begin("prepare") /\ seen' = root /\ UNCHANGED <<disk, troubles>>

\* The private directory is observed, and what it holds decides how far the
\* removal was.  Without a legal prefix every call ends here.
Prepare ==
    /\ stage = "prepare" /\ step = "look"
    /\ LET next == NextStep(root, store, Now) IN
       \/ next = "convert" /\ Goto("intent")
       \/ next \in {"reconcile", "remove_handoff"} /\ Goto("reconcile_intent")
       \/ next = "conflict" /\ Goto("refused")
       \/ next \notin {"convert", "reconcile", "remove_handoff", "conflict"} /\ Goto("remove")
    /\ UNCHANGED disk

\* A capsule that could be retried; the pending name a failed call left torn is
\* refused every time.
Convert ==
    /\ stage = "convert" /\ step = "look"
    /\ IF "intent_torn" \in store[Now] THEN Goto("refused") ELSE Goto("intent")
    /\ UNCHANGED disk

\* In its own stage the conversion is followed by a new look at the root.
Converted == IF stage = "prepare" THEN Goto("remove") ELSE Enter("authorize")

\* convert_authorized_private_handoff_to_cleanup_intent_v2
ConvertIntent ==
    /\ step = "intent"
    /\ LET p == store[Now] IN
       \/ p = Handoff /\ Leaves(p \cup {"intent_torn"}) /\ Stay
       \/ "intent_torn" \in p /\ Leaves((p \ {"intent_torn"}) \cup {"intent_pending"}) /\ Stay
       \/ p # Handoff /\ "intent_torn" \notin p /\ ~StoreSynced /\ SyncStore /\ Stay
       \/ /\ "intent_pending" \in p /\ StoreSynced
          /\ Leaves((p \ {"intent_pending"}) \cup {"intent"}) /\ Stay
       \/ "intent" \in p /\ StoreSynced /\ Converted /\ UNCHANGED disk

\* Mutant: an intent that is already canonical is not expected.
ReconcilePending ==
    /\ step = "reconcile_intent"
    /\ LET p == store[Now] IN
       \/ ~StoreSynced /\ SyncStore /\ Stay
       \/ /\ "intent_pending" \in p /\ StoreSynced
          /\ Leaves((p \ {"intent_pending"}) \cup {"intent"}) /\ Goto("remove")
       \/ "intent" \in p /\ StoreSynced /\ Retry("authorize") /\ UNCHANGED <<disk, troubles>>

\* reconcile_authorized_private_handoff_cleanup_intent_v2: an intent that
\* somebody left is confirmed, or made canonical.
ReconcileIntent ==
    /\ step = "reconcile_intent"
    /\ LET p == store[Now] IN
       \/ ~StoreSynced /\ SyncStore /\ Stay
       \/ /\ "intent_pending" \in p /\ StoreSynced
          /\ Leaves((p \ {"intent_pending"}) \cup {"intent"}) /\ Stay
       \/ "intent" \in p /\ StoreSynced /\ Goto("remove") /\ UNCHANGED disk

-----------------------------------------------------------------------------
\* What a step of the removal makes of the leaves.
Applied(next, p) ==
    CASE next = "remove_handoff" -> p \ {"handoff"}
      [] next = "quarantine_index" -> (p \ {"index"}) \cup {"q_index"}
      [] next = "quarantine_data" -> (p \ {"data"}) \cup {"q_data"}
      [] next = "remove_data" -> p \ {"q_data"}
      [] next = "remove_index" -> p \ {"q_index"}
      [] next = "remove_intent" -> p \ {"intent"}
      [] next = "remove_owner" -> p \ {"owner"}
      [] next = "remove_staged" -> p \ {"staged"}

\* resume_authorized_private_handoff_cleanup_v2.  Whatever is found is synced
\* before the first step, and every step before the next one: the renewed
\* confirmations of intent and staged marker change nothing after that.
SyncFound ==
    /\ step = "remove"
    /\ IF Now \in root.dir THEN ~StoreSynced /\ SyncStore ELSE ~RootSynced /\ SyncRoot
    /\ Stay

RemoveLeaf ==
    /\ step = "remove" /\ StoreSynced
    /\ LET next == NextStep(root, store, Now) IN
       /\ next \notin {"stage", "remove_directory", "remove_owned", "complete"}
       /\ Leaves(Applied(next, store[Now]))
    /\ Stay

\* Mutant: the OWNED marker goes before the directory.
RemoveOwnedFirst ==
    /\ step = "remove"
    /\ \/ /\ Now \in root.dir /\ store[Now] = {} /\ StoreSynced /\ RootSynced
          /\ IF Now \in root.owned THEN Root([root EXCEPT !.owned = root.owned \ {Now}])
             ELSE Root([root EXCEPT !.dir = root.dir \ {Now}])
       \/ Now \notin root.dir /\ Now \in root.owned /\ RootSynced
          /\ Root([root EXCEPT !.owned = root.owned \ {Now}])
    /\ Stay

RemoveDirectory ==
    /\ step = "remove"
    /\ \/ /\ Now \in root.dir /\ store[Now] = {} /\ StoreSynced
          /\ Root([root EXCEPT !.dir = root.dir \ {Now}])
       \/ Now \notin root.dir /\ Now \in root.owned /\ RootSynced
          /\ Root([root EXCEPT !.owned = root.owned \ {Now}])
    /\ Stay

\* publish_at of the staged marker, which authorizes the deletion.
StageDeletion ==
    /\ step \in {"remove", "staging"}
    /\ LET p == store[Now] IN
       \/ /\ step = "remove" /\ StoreSynced /\ NextStep(root, store, Now) = "stage"
          /\ IF "staged_pending" \in p THEN Leaves((p \ {"staged_pending"}) \cup {"staged"}) /\ Stay
             ELSE Leaves(p \cup {"staged_torn"}) /\ Goto("staging")
       \/ /\ step = "staging"
          /\ Leaves((p \ {"staged_torn"}) \cup {"staged_pending"}) /\ Goto("remove")

\* Mutant: the completion is prepared before the absence is on the disk.
AbsentUnsynced ==
    /\ step = "remove" /\ NextStep(root, store, Now) = "complete"
    /\ Enter("complete") /\ UNCHANGED disk

\* The absence is durable: the evidence for the completion.
Absent ==
    /\ step = "remove" /\ RootSynced /\ NextStep(root, store, Now) = "complete"
    /\ Enter("complete") /\ UNCHANGED disk

-----------------------------------------------------------------------------
\* publish_completion, reconcile_completion
Complete ==
    /\ stage \in {"complete", "reconcile"} /\ step = "look"
    /\ Goto("publish") /\ UNCHANGED disk

PublishCompletion ==
    /\ stage \in {"complete", "reconcile"} /\ step = "publish"
    /\ LET d == root.done[Now] IN
       \/ d \in {"none", "torn"} /\ Root([root EXCEPT !.done[Now] = Filled(d)]) /\ Stay
       \/ d = "pending" /\ ~RootSynced /\ SyncRoot /\ Stay
       \/ /\ d = "pending" /\ RootSynced
          /\ Root([root EXCEPT !.done[Now] = "canonical"]) /\ Goto("confirm")

ConfirmCompletion == step = "confirm" /\ SyncRoot /\ Enter("advance")

Retain == stage = "terminal" /\ step = "look" /\ Goto("retained") /\ UNCHANGED disk

Step ==
    \/ Open \/ Authorize \/ PublishAuthorization
    \/ Prepare \/ Convert \/ ConvertIntent \/ ReconcileIntent
    \/ SyncFound \/ RemoveLeaf \/ RemoveDirectory \/ StageDeletion \/ Absent
    \/ Complete \/ PublishCompletion \/ ConfirmCompletion \/ Retain

-----------------------------------------------------------------------------
\* The admission of the root still holds.
Valid == root = seen

\* A call fails.  Before its authority is spent its input can be tried again;
\* a removal whose root has changed, and a publication of a record that was
\* begun, cannot.
Fail ==
    /\ \/ step = "look" /\ stage \in {"authorize", "advance", "complete", "convert"} /\ Retry(stage)
       \/ step = "look" /\ stage \in {"prepare", "reconcile"} /\ Retry("authorize")
       \/ /\ step = "intent" /\ "intent" \notin store[Now] /\ Retry("convert")
       \/ /\ step = "intent" /\ {"intent_pending", "intent"} \cap store[Now] # {}
          /\ IF stage = "prepare"
             THEN step' = "reconcile_intent" /\ UNCHANGED <<stage, used, seen>>
             ELSE Begin("authorize") /\ UNCHANGED seen
       \/ step = "reconcile_intent" /\ Retry("authorize")
       \/ step \in {"remove", "staging"} /\ Valid /\ Retry("authorize")
       \/ step \in {"remove", "staging"} /\ ~Valid /\ Cold
       \/ step \in {"publish", "confirm"} /\ Cold
    /\ UNCHANGED disk

\* The process that holds the wave lock dies.
Crash == step # "down" /\ Cold /\ UNCHANGED disk

PowerCut ==
    /\ \E r \in rootDisk : root' = r /\ rootDisk' = {r} /\ seen' = r
    /\ \E d \in storeDisk : store' = d /\ storeDisk' = {d}
    /\ stage' = "none" /\ step' = "down" /\ used' = 0

Trouble == troubles < MaxTroubles /\ troubles' = troubles + 1 /\ (Fail \/ Crash \/ PowerCut)

Next == Step \/ Trouble

Spec == Init /\ [][Next]_vars

FairSpec == Spec /\ WF_vars(Step)

-----------------------------------------------------------------------------
TornRoot(r) == \E w \in Ordinals : "torn" \in {r.auth[w], r.done[w]}
TornStore(d) == \E w \in Ordinals : {"intent_torn", "staged_torn"} \cap d[w] # {}

\* Whatever a power cut leaves of the root and of the private directories can
\* be opened and finished, unless a record or a marker is torn; and only that
\* stops a cleanup.
PrefixesAdmitted ==
    /\ \A r \in rootDisk, d \in storeDisk :
          \/ TornRoot(r) \/ TornStore(d)
          \/ /\ Classified(r, d)
             /\ \A w \in Ordinals : r.auth[w] = "canonical" => NextStep(r, d, w) # "conflict"
    /\ step = "refused" => TornRoot(root) \/ TornStore(store)

\* A private directory is touched only under an authorization, and a file of
\* it is deleted only under an intent and a staged marker, that no power cut
\* takes back; a completion is begun only when none brings the store back.
OnAuthority ==
    Step => \A w \in Ordinals :
          /\ store'[w] # store[w] => \A r \in rootDisk : r.auth[w] = "canonical"
          /\ \A n \in {"q_index", "q_data"} : n \in store[w] \ store'[w] =>
                \A d \in storeDisk : {"intent", "staged"} \subseteq d[w]
          /\ root.done[w] = "none" /\ root'.done[w] # "none" =>
                \A r \in rootDisk : w \notin r.dir \cup r.owned
ActsOnDurableAuthority == [][OnAuthority]_vars

\* No call runs out of its budget of stages, whatever it was started from.
BudgetSuffices == step # "exhausted"

\* Who is told that the workers are gone finds them gone after any power cut,
\* although nobody may have synced the last completion.
RetainedIsRemoved ==
    [][step = "retained" => \A r \in rootDisk' : r.dir \cup r.owned = {}]_vars

\* When nothing goes wrong any more the cleanup comes to its end.
CleanupEnds == <>[](step \in {"retained", "refused"})
==============================================================================

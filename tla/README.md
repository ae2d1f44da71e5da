# TLA+ verification of the GNFS factorizer

This directory holds TLA+ models of the concurrent, distributed and
crash-recoverable parts of the program, the TLC configurations that check
them on small instances, and TLAPS proofs of what matters most. Paths below
are relative to the repository root; `PROJECT.json` maps every definition to
the lines it stands for.

## 1. The system and its parts

The program factors integers with the General Number Field Sieve: select a
polynomial, sieve for relations (with threads, or with forked worker
processes), filter and merge the relations, solve a sparse system over GF(2),
take square roots, and try a gcd; smaller inputs go through SIQS.

| Part | Where | State it keeps | Operations | Hard behaviour | Correct when |
|---|---|---|---|---|---|
| Thread pool | `include/gnfs/util/thread_pool.hpp` | FIFO, `pending_`, an atomic size hint, `stop_` | construct, `submit`, `wait_all`, `parallel_for*`, destroy | unlocked peeks, two condition variables, teardown while tasks run and submit | no wake-up is lost, calls drain what they launched, the destructor leaves nothing |
| Ordered executors | `fixed_slot_executor.hpp`, `joined_worker_group.hpp`, `ordered_parallel_map.hpp` | launch gate, stop flag, per-slot errors, an index counter | one blocking call each | launches that fail half-way, cancellation, the choice of the error to report | the result and the error do not depend on the schedule |
| Forked sieve pool | `src/sieve/distributed_sieve.cpp` | chunks, one child, lease and relation file per chunk | one blocking call (two overloads) | watchdog against a late exit, `waitpid` failures, retry, clean-up under a live child | no live child loses its lease; all of the range or an error |
| Durable worker rounds | `src/sieve/distributed_sieve_worker_coordinator.cpp`, `..._wave_store.cpp`, `..._worker_*.cpp` | attempt records, leases, handoffs, terminal failures on disk; BaseLocks; children | open, one round; the worker's publication | any process dies between two steps, children outlive their master | one attempt chain per chunk, no rival of a live child, no handoff lost |
| Wave merge, commit, clean-up | `src/sieve/distributed_sieve_merge_*.cpp`, `..._cleanup_*.cpp` | merge outbox, commit and clean-up records | merge, commit, remove | restart in every step, one authority at a time | the merged corpus is committed once, inputs go only afterwards |
| Immutable publication | `src/util/durable_immutable_file.cpp`, `durable_immutable_record.cpp` | pending and final names | publish, observe | a crash between write, sync, rename and directory sync | a final name holds the whole record |
| Sieve checkpoints and resume | `src/api/pipeline.cpp`, `include/gnfs/sieve/sieve_checkpoint.hpp`, `relation/ooc_relation_store.hpp`, `relation/collector.hpp` | relation pair, checkpoint, cursor, round, target, duplicate set | create, recover, sieve, reduce, checkpoint, finalize, remove | kills, power cuts and failing calls between any two steps | the corpus is the one of an uninterrupted run |
| Out-of-core cleanup, leases | `include/gnfs/relation/ooc_cleanup_transaction.hpp`, `src/relation/ooc_*.cpp` | intents, quarantine, receipts | begin, resume, retire, adopt | a transaction continued by another process | only owned files go, and all of them |
| Filtering and reduction | `include/gnfs/relation/filter.hpp`, `clique_merger.hpp`, `reduction_engine.hpp`, `src/relation/structured_*.cpp` | sets of relations, weights | reduce | fixpoints over large data | the reference fixpoint |
| Cofactorization | `include/gnfs/cofactor/*` | result cache, seeds | batches | the cache is shared between threads | same results for every thread count |
| Linear algebra | `include/gnfs/linalg/*`, `src/linalg/*` | matrix, Krylov blocks, pivot checkpoint | solve | numeric; restart of the pivot scan | vectors in the kernel |
| Square root | `include/gnfs/sqrt/*` | per dependency | sqrt | numeric | a congruence of squares |
| SIQS and its proof campaign | `include/gnfs/siqs/*`, `src/siqs/*` | polynomials, two-large-prime graph; a journal of immutable leaves, artifacts, a lock | sieve; start, run, commit or taint a slot, reconcile, judge | processes one after the other over crashes and power cuts | each slot measured once; every prefix of the journal is accepted; nothing reported is lost |
| Child processes | `src/util/bounded_child_process_*.cpp` | pipes, deadline, output caps | run | timeout against exit, kill escalation | one outcome, no process left |
| API, CLI, events | `src/api/*`, `src/cli/main.cpp` | recursion over factors, event stream | factor | order of events | factors multiply to N |
| Workbench | `apps/macos/GNFSWorkbench` (Swift) | a runner of the CLI | run, cancel | a late callback of an old run | a record belongs to one run |

How they interact: the numeric phases hand batches of operations to the
ordered executors, two of which sit on the thread pool. The pipeline runs the
phases in order; its sieve phase either sieves locally, with an out-of-core
store and checkpoints, or calls the forked sieve pool, whose children write
stores of the same format under private leases. The durable worker rounds
drive the same kind of children through immutable records, and are the
foundation of a pool that survives its master; nothing calls them outside the
tests yet.

The hazards of these parts, each at the line where it bites and with the
properties that watch it, are the `hazards` of `PROJECT.json`.

## 2. Modules

### ThreadPool, MCThreadPool, ThreadPoolProofs

`ThreadPool` models `util::ThreadPool`. A critical section of `mutex_` is one
step; everything the code does outside it is a step of its own: the unlocked
load of `queue_size_` (`Peek`), `notify_one` after a `submit`
(`SubmitNotify`, `LaunchNotify`, `TaskNotify`), `done_cv_.notify_all`
(`NotifyDone`), the destructor's `notify_all` (`NotifyStop`). Sleeping on a
condition variable releases the mutex in the step that tested the predicate
(`Block`, `WaitAllTest`), and a sleeper may wake without a reason.
The owner constructs the pool thread by thread and may fail at any of them.
Clients submit, wait for everything, or run a `parallel_for` whose launch may
fail at any chunk. A running task may submit further ones, also while the
destructor waits.

`threadpool_safety` checks two workers, two clients, three tasks and a spin
budget of one, which is enough for two sleepers and two submitters to race,
for a chunked call to fail in its middle and for a nested submission.
`threadpool_liveness` uses one client and two tasks and assumes weak fairness
of every thread's own steps, since the operating system schedules runnable
threads and task bodies return. Nothing is assumed about when clients call or
the pool is destroyed.

`ThreadPoolProofs` proves for any finite sets of threads and tasks that the
counters are exact (`CountersExact`), that the notification of `wait_all` is
never lost (`DoneNotificationKept`) and that the pool is work-conserving
(`PoolWorkConserving`).

Its inductive invariant says where each task is (queued exactly once, in one
worker, or settled) and counts sleepers against notifications under way; the
properties are not inductive without it, because an unlocked peek may be stale.
Four more parts follow one participant each. `Followed` keeps what a call of
`wait_all` saw when it began: a task that was pending then is settled or still
counted, so the call cannot return over it (`WaitAllIsComplete`). `Teardown`
goes with the destructor through its steps: the stop flag stays, a worker leaves
only from an empty queue, and joined workers take nothing any more
(`DestructionDrains`). `AllCalls` is the books of each chunked call: which of
its tasks are submitted, waited for and settled, and which error its caller
holds (`ChunksDrained`, `FirstErrorIsFirst`).

### OrderedOutcome and the executors (MCExecutors, ExecutorsProofs)

`OrderedOutcome` is the promise the four executors share: operations run at
most once and not after the call has ended, success means that all of them
succeeded, and the error reported is one that happened, for the deterministic
executors the one of the lowest index. Each executor states this module with a
refinement mapping (`KeepsPromise`).

- `FixedSlotExecutor`: contiguous partitions, a launch gate under a mutex, and
  the two failure policies. Launching, arriving at the gate and the operations
  may fail.
- `JoinedWorkerGroup`: the gate made of two atomics, with the load, the
  compare-and-sleep and the notification as separate steps.

  In both, `workers` is the vector of `JoiningThread`s: a launch puts the new
  thread in, `Join` destroys one element after its thread has ended, and the
  return only sees that the vector is empty. It does not look at the threads: a
  thread the vector does not hold would be left behind.
- `OrderedParallelMap`: one task per index on a pool that keeps what
  `ThreadPool` shows; construction and submission may fail.
- `OrderedWorkStealingMap`: workers that claim indices from a counter, some of
  which may never be submitted. The futures of those that were are waited for
  one by one (`Drain`), on the error path too.
- `Chunking` and `ParallelForStealing`: the index arithmetic of the pool's two
  loops, in integers of bounded width, with a weak CAS that may fail without a
  reason.

`MCExecutors` puts the six side by side: the first state picks the one that is
called. Run `executors` takes three threads (two for the map), four or five
operations, every set of operations that fail, every range of sixteen values,
and two workers that steal from a cursor of eight values, in chunks of two, up
to the largest value; three threads are the fewest for which one waits, one
fails and one works, and five slots on three workers are an uneven partition. Fairness: each thread's own steps, and strong
fairness of the CAS, which may fail by itself but not for ever.

`ExecutorsProofs` proves the safety of all six for any number of threads,
operations and indices and any set of operations that fail: that each executor
implements `OrderedOutcome` (`EveryExecutorKeepsPromise`), that behind both gates
nothing begins before every thread exists and has arrived (`AllStartOrNone`),
that no thread or queued task of any of the four calls outlives it
(`WorkersEndFirst`) and that the loops hand out each index once (`IndicesOnce`). `PartitionsTile` says of `make_partitions` that the partitions
are disjoint, ordered and complete for any slot and worker count.

### DistributedSieve, MCDistributedSieve, DistributedSieveProofs

One call of the forked pool. `Prepare`, `Start`, `WaitNext`/`Terminate`/`Kill`/
`Reap`/`Collect`, `Retry` and `Merge` are the stages of
`run_distributed_sieve_impl`; the watchdog's poll, grace period and kill are
separate states (`watch`) because a child may end in any of them. Children act
on their own (`ChildStep`) and may hang; leases, forks, removals and `waitpid`
may fail. Pipe frames and relation files are reduced to whether the master finds them
valid. `Tick` is a clock in units of the timeout; `age` is history for one
property.

- `sieve_wave`: three chunks of which one is empty, a deadline, both overloads;
  neighbouring chunks find a common relation, so that the result depends on
  which chunk counts first. Two live children suffice for one to outlive the
  wait for the other.
- `sieve_provider_retry`, `sieve_deadline`: see findings.

`CallEnds` assumes that the master runs, time passes and SIGKILL takes effect;
no fairness for a child's own work or for failures.

Proved for any number of chunks, any split, any deadline and whatever the
sieves find: `TypeOK`, `LeaseNotPulled`, `WaveAccountedFor`, `RetryIsSafe`,
`SuccessHasEvidence`, `LeasesConverge` and `ResultExact`. The invariant behind
the first four is *custody*: a child that was not reaped holds the lease of its slot and
belongs to its last attempt, and its slot is marked unreaped; with it goes the
bookkeeping of the stages (how many attempts a slot can have had, where the
watchdog can be, which children are still ahead of the master).

### WorkerCoordinator, WaveLedger, MCWorkerCoordinator, WorkerCoordinatorProofs

`WorkerCoordinator` is a durable wave and the rounds that drive it. The disk
(attempt records, reservations, rolled-back leases, handoffs, terminal
failures), the children, and the master's round state are separate variables.
Every phase of `coordinate_missing_distributed_sieve_workers_v1` is an action
per chunk: observe and plan, retry a busy attempt, look for a late handoff,
reconcile, publish a terminal failure, observe again, claim, start, launch as
a batch, wait, observe, adopt. A publication is one durable transition. `Crash`
loses what the master holds in memory; children live on, and keep the wave lock they
inherited, so that a new master opens the wave only after they ended. Within
one process a child can also outlive its round, after an uncertain launch or
wait; its receipt is then leaked on purpose (`quarantined`) and its BaseLock
stays for the life of the process.

`WaveLedger` is what the wave promises: one bounded attempt chain per chunk, a
handoff that is never revoked, a chunk given up only when its chain is spent,
and a result only when every chunk is handed over. `KeepsLedger` is the
refinement; `WorkerCoordinatorProofs` proves it, and the safety properties, for
any number of chunks, any budget and any number of faults.

Run `worker_rounds`: four chunks, one empty, a budget of two attempts and
three faults; three working chunks let a fault hit one, a late child concern a
second and the third go its way, and two attempts are the fewest with a retry
and a spent budget. Fairness: the thread of the round runs and a child's work
on its chunk ends (the coordinator waits without a deadline).
`worker_prestart`: see findings.

### SieveResume, MCSieveResume

The life of one resume path over several processes. State: the pair
(`store`: rows, how many of them are durable, the final magic and whether that
is durable), the directory as processes see it (`names`) and as a power cut
would leave it at least (`kept`), and the memory of the running process
(`run`). `StartFresh`, `Recover` and `Refuse` are the three ends of the
start-up; `SieveBatch` and `Reduce` the adaptive loop; `Suspend`,
`WriteTemporary`, `Rename`, `Settle` and `SaveFails` the publication of a
checkpoint; `FlushMetadata`, `WriteMagic`, `FlushMagic`, `Compare`,
`RemoveCheckpoint`, `FlushRemoval`, `Finish` and `CleanRaw` the end of the
run; `Throw` and `Unwind` an exception; `Kill` and `PowerCut` the crashes. A
batch is one step because the checkpoint is written between batches. The
identity of the run is constant; inputs of another run are refused before
anything is touched, and are left out. The reference is an uninterrupted run
over the same data: `Alone[n]` is where it stands after n batches, and `Goal`
where it ends. Numeric decisions (enough relations, the
next target) are thresholds on the size of the corpus, which is a function of
the batches sieved.

### DurableRecord, WriteOnce

`DurableRecord` is `publish_at` of `durable_immutable_record.cpp`, on which
every durable fact of a wave rests: look at both names, create the pending
file, write, sync it, sync the directory, look again, confirm, rename without
replacing, sync the directory, read back. Each system call is a step. Two
callers that want different values run against each other, each may fail at
any call or die, and a power cut leaves one of the directories written since
the last directory sync (`disk`) and a prefix of each file that was not synced.
The caller is asked to own the directory; `exclusive` says whether it does, and
without it a call may be refused but the record may not be harmed.
`WriteOnce` is the promise: a register that is fixed once, and is reported
durable only with that value.

A sync that reports failure is taken not to have made anything durable, but to
have lost nothing either; a directory keeps all of its unsynced changes up to
some point or a mixture of the directories in between. Retries of interrupted
calls and the checks of owner and mode are left out.

### CleanupTransaction

`OOCCleanupTransaction` on one store, over generations of its pair: an intent,
both files renamed into quarantine, a second marker that authorizes the
deletion, data, index, intent and marker removed, each step made durable before
the next. The receipt of the writer begins it, anybody who finds an intent
finishes it. Every call may fail at any system call, a holder of a receipt may
die, the power may fail at any point, and somebody who ignores the lock may
put a file of his own under a free live name (at most one for each name, as it
is only put where nothing is). Left out: the union of private clean-up actions
that gates the transaction inside a lease, the publication of an intent without
advancing it.

### WaveMerge, MergeLedger

The merge of a wave: generations that are reserved, started, written, prepared
and committed. The only memory is the name space on the disk, classified at
every open (`Admitted`); whoever opens goes on, rolls a generation back, or
refuses the wave for good. The reservation of a private lease and its rollback
pass the boundaries P0 to P8 of the code one by one (`Build`, `Descend`); a
record is created, then filled, then renamed, so a crash may leave it torn.
Torn records are refused for good, which the design states
(docs/plans/2026-07-26-distributed-worker-durable-resume.md:1048 and 1442), so
`PrefixesAdmitted` excepts exactly them. Open converges one interrupted
handoff and then looks again, once, as the code does. A prepared generation's
RESERVED marker is revoked; a rollback renames the handoff to a tombstone,
which is atomic where the code supports it (macOS). `MergeLedger` is the
promise: generations in order, a prepared one is kept, the commit is to it.
Left out: the residue of work packages, two handoffs of one identity, the
workers' own handoffs inside the merge, digests and identities.

### WorkerCleanup, WorkerCleanupProofs

The removal of the workers' stores after the commit, by
`drive_with_operations` of the clean-up orchestrator and the authorities it
calls. State: the wave's root with its records and the private directories and
OWNED markers in it (`root`), the leaves of each private directory (`store`),
what a power cut may leave of both (`rootDisk`, `storeDisk`), and the call that
holds the wave lock (`stage`, `step`, `used`). `Authorize` and
`PublishAuthorization`, `Prepare`, `Convert`, `ConvertIntent` and
`ReconcileIntent`, `SyncFound` to `Absent`, `Complete` to `ConfirmCompletion`
are the stages for one worker; `NextOf` is the table of legal prefixes of
`classify_authorized_cleanup_prefix_v2`. `Fail` separates the failures after
which a call can be repeated from those after which the wave has to be opened
again (`Retry`, `Cold`), by what the failing stage had already spent.

A power cut leaves any state a directory had since its last sync, that is, the
changes of one directory reach the disk in their order; across directories
nothing is assumed. The assumption matters in one place: a new process does not
sync the completion an earlier one left unsynced before it creates the next
authorization beside it, so a file system that reorders could show the second
without the first, which every open refuses. The last completion may still be
unsynced when the caller is told that the workers are gone; `RetainedIsRemoved`
says that nothing but the record can be lost then. Torn records and markers are
refused for good, as in the merge, and `PrefixesAdmitted` excepts exactly them.
A record never stands beside its own pending name, since only the holder of the
lock writes; the branches of the code for that are left out, as are workers of
empty chunks, the release of the committed tail before the clean-up opens the
wave for itself, and platforms without the executors (they exist on macOS).

### CampaignJournal, CampaignJournalProofs

The journal of a SIQS measurement campaign: one child process per slot, in the
order of the plan, each slot at most once. The state is the directory of leaves
(`leaf`), which of them a power cut cannot change (`sure`), and the holder of
the lock with what it has confirmed (`prefixSure`, `startSure`; the members
`committed_prefix_confirmed_durable_` and `pending_start_confirmed_durable_`).
The holder is the controller of a fresh campaign, a session of the public
interface, a reconciliation or the terminal gate; each opens the journal
(`Open`: inspection, replay, artifacts against records), goes through the
publications of its call and lets go of the lock. `ConfirmPrefix`,
`ConfirmStart`, `Settle`, `Reconcile`, `ConfirmComplete` and `ConfirmGate` sync
what is there, the `Publish` actions and `Commit` create a leaf. `launched` counts
how often the child of a slot was started, and `told` are the leaves somebody
was told are durable.

A publication is one step with every outcome: durable; or failed with nothing,
a part or all of the bytes in place, none of it synced. What a partial sync
would have saved is among the outcomes of a power cut over an unsynced leaf. A
confirmation is one step over all its leaves: when only some were synced before
it fails, the others may be lost as before. The lock is a leaf too: it is
created by a session and synced with the first record beside it.
`EveryPrefixAdmitted` excepts a leaf that is itself broken (a record that is
not a whole frame, a standard output or sample without a byte), which every open
refuses on purpose; the broken leaf may also be the remains of an artifact of a
slot whose taint was already reported, in which case the report cannot be read
again although its leaves are intact. Left out: the digests that bind records
to the policy, the plan and the probe, the verdict of the gate, other programs
that write to the directory (whose fingerprints the code compares between its
steps), the store of Windows.

### MCDurability, DurabilityProofs

Puts the six protocols that leave durable state behind side by side: the
first state picks one. They share the properties they have in common, such as
that every prefix a crash leaves can be resumed. `DurabilityProofs` holds the
proofs of the record, the clean-up, the merge and the sieve and puts them
together with those of the removal and of the journal, which keep modules of
their own.

### BoundedChild, BoundedChildProofs

One call of `run_bounded_child_process` on POSIX: launch (by `posix_spawn`, or
by fork with a diagnostic pipe and a handshake), the loop that drains the
streams, observes the program without reaping it, sweeps its group and reaps
it, the deadline, cancellation, overflow and writer-leak stops with their grace
periods, and the verification that the group is gone. The program and the
process it may fork write, close streams, fork, leave the group, exit or are
killed at any moment; with `foreign`, another part of the process waits for
children too, which the header excludes (bounded_child_process.hpp:183) but the
code defends against. Abstractions: nonzero exits and signals are one
`bad_exit`; both streams are drained in one step and without the budget of
64 KiB per turn; a failing `poll`, EINTR, a failing allocation and the
processes that Darwin hides from signals are left out.

## 3. Runs

| Run | Properties | Distinct states, about |
|---|---|---|
| `threadpool_safety` (MCThreadPool, ThreadPoolSafety.cfg) | `Accounting`, `WorkConserving`, `DestroyDrains`, `ParallelForDrains`, `FirstErrorReported`, `WaitAllCovers` | 1,621,405 |
| `threadpool_liveness` (MCThreadPool, ThreadPoolLiveness.cfg) | `QueuedRuns`, `CallsReturn` | 83,545 |
| `executors` (MCExecutors, Executors.cfg) | `AllOrNone`, `NoWorkerOutlives`, `EachIndexOnce`, `KeepsPromise`, `CallReturns` | 76,025 |
| `sieve_wave` (MCDistributedSieve, DistributedSieve.cfg) | `LeaseNotPulled`, `SuccessHasEvidence`, `WaveAccountedFor`, `LeasesConverge`, `ResultExact`, `RetryIsSafe`, `CallEnds` | 373,095 |
| `sieve_provider_retry` (MCDistributedSieve, DistributedSieveProvider.cfg, violation expected) | `ProviderNeverRetried` | 19,581 |
| `sieve_deadline` (MCDistributedSieve, DistributedSieveDeadline.cfg, violation expected) | `AttemptWithinTimeout` | 12,623 |
| `worker_rounds` (MCWorkerCoordinator, WorkerCoordinator.cfg) | `ChildUndisturbed`, `HandoffKept`, `SuccessIsExact`, `RoundProgress`, `KeepsLedger`, `RoundEnds` | 61,968 |
| `worker_prestart` (MCWorkerCoordinator, WorkerCoordinatorPrestart.cfg, violation expected) | `PrestartRolledBack` | 39 |
| `sieve_restart` (MCSieveResume, SieveResumeRestart.cfg, violation expected) | `RestartWorks` | 10 |
| `sieve_commit` (MCSieveResume, SieveResumeCommit.cfg, violation expected) | `FailureKeepsCheckpoint` | 325 |
| `durability` (MCDurability, Durability.cfg) | `EveryPrefixResumable`, `CorpusExact`, `NothingSpentInVain`, `KeepsRegister`, `NoRefusalWithoutCause`, `ActsOnDurableAuthority`, `MergeKeepsLedger`, `ProgressKept`, `EveryCallEnds` | 96,325 |
| `bounded_child` (BoundedChild, BoundedChild.cfg) | `NothingLeftBehind`, `SuccessIsWhole`, `PublishedOutcomeWins`, `NoSignalAfterReap`, `CallReturns` | 666,422 |

What the runs of the recovery protocols and of the child process take:

- `durability`. Record: two publishers with different values and three files
  (so that a stale pending file, a new one and the canonical one exist at
  once; free ones are alike, so `FixedInode` lets a publisher create a fixed one
  of them), any failure, crash and power cut. Clean-up: two generations, so that
  the tail of one transaction can meet the pair of the next. Merge: three
  generations and four crashes, so that the budget can be spent and one crash
  is left over. Removal: three workers, so that one is done, one is at the
  frontier and one is untouched, and three failing calls, crashes or power cuts,
  so that what one leaves meets two more. Sieve: five batches with relations that repeat within a round,
  across rounds and across checkpoints, a checkpoint every two batches (the
  code: 25), rounds that end off the checkpoints, up to four processes and
  three failing calls, kills and power cuts at any point, both clean-up
  policies. Campaign: three slots, so that a slot has a committed prefix that
  is more than its predecessor, and any number of processes, failures, kills
  and power cuts. Fairness: a caller that is inside a call goes on; nothing is
  assumed about crashes, except that those of the merge and of the removal are
  counted.
- `bounded_child`. One descendant, one captured stream with one unit retained
  and two written, which is the least that overflows, leaks a writer, and has
  a descendant outlive the program. Fairness: the caller runs, the deadline
  passes, and a grace period that was started ends. Nothing is assumed of the
  program, and a killed process may stay visible for ever.

Deadlock is not checked in the runs whose calls end for good.

Every property of a passing run has a mutant in `PROJECT.json`: a plausible bug
in a mapped definition, defined just before it, under which the run's own
configuration finds the property violated.

## 4. Proofs

| Theorem | Establishes |
|---|---|
| `ThreadPoolProofs!CountersExact` (`Accounting`) | For any finite sets of workers, clients and tasks, pending_ and queue_size_ are exact in every reachable state (and the state is well typed). |
| `ThreadPoolProofs!DoneNotificationKept` | No schedule loses the notification that a thread asleep in wait_all depends on. |
| `ThreadPoolProofs!PoolWorkConserving` (`WorkConserving`) | No schedule strands a queued task while a worker sleeps: every queued task has a worker on its way to the queue or a notify_one still to be made. |
| `ThreadPoolProofs!WaitAllIsComplete` (`WaitAllCovers`) | Whatever other clients and nested tasks submit meanwhile, wait_all returns only when every task its caller had submitted has run to its end. |
| `ThreadPoolProofs!DestructionDrains` (`DestroyDrains`) | However many tasks are queued or running when stop_ is set, the destructor (or a constructor that failed) ends with every thread joined and every accepted task run. |
| `ThreadPoolProofs!ChunksDrained` (`ParallelForDrains`) | A parallel_for call of any client, whether its submission was interrupted or a callback threw, returns only when none of its chunks is queued or running. |
| `ThreadPoolProofs!FirstErrorIsFirst` (`FirstErrorReported`) | The exception parallel_for rethrows is the one of the first chunk, in submission order, that failed, for any interleaving of the workers. |
| `ExecutorsProofs!PartitionsTile` | For any slot and worker count the contiguous partitions of make_partitions are disjoint, in order, and cover every slot: each operation has one worker. |
| `ExecutorsProofs!EveryExecutorKeepsPromise` (`KeepsPromise`) | execute_fixed_slots, run_joined_worker_group, ordered_parallel_map and ordered_work_stealing_map implement OrderedOutcome for any number of operations and threads, any set of failing operations and any failure to get a thread: success only when all succeeded, otherwise an error that happened, the lowest where that is promised. |
| `ExecutorsProofs!AllStartOrNone` (`AllOrNone`) | Behind either launch gate, that of execute_fixed_slots and that of run_joined_worker_group, no operation begins before every thread of the call exists and has arrived, for any number of threads and at every interleaving of launches, arrivals and loads. |
| `ExecutorsProofs!WorkersEndFirst` (`NoWorkerOutlives`) | None of the four calls (execute_fixed_slots, run_joined_worker_group, ordered_parallel_map, ordered_work_stealing_map) ends, by a result or by an error, while a thread or a queued task of it is left: every one that was started is still in the vector of threads or futures that the return empties one by one. |
| `ExecutorsProofs!IndicesOnce` (`EachIndexOnce`) | The partitions, the shared counter, the static chunks and the CAS loop hand out every index once and leave none out, for any range up to the largest size_t, any grain and any number of threads. |
| `DistributedSieveProofs!SieveTypeCorrect` | Type correctness for any number of chunks; no chunk has a third attempt. |
| `DistributedSieveProofs!LeaseOutlivesWriters` (`LeaseNotPulled`) | For any number of chunks and any deadline, no live child ever loses its lease or shares it with another attempt. |
| `DistributedSieveProofs!ChildrenAccountedFor` (`WaveAccountedFor`) | Whenever the call ends, by a result or an error, every child has been reaped or is known to be unreaped with its lease in place. |
| `DistributedSieveProofs!RetriesAreSafe` (`RetryIsSafe`) | A retry starts only in a wave without live children and without a known provider failure, for a chunk that failed. |
| `DistributedSieveProofs!SuccessIsEarned` (`SuccessHasEvidence`) | For any number of chunks, a chunk counts as done only when its last attempt exited with 0, was reaped and left a store that agrees with its report, and its lease is gone. |
| `DistributedSieveProofs!ResultIsExact` (`ResultExact`) | For any number of chunks and whatever their sieves find, the call returns each relation of the chunks that succeeded once, in the copy of the first such chunk, and the seeded overload returns the relations of every chunk or none. |
| `DistributedSieveProofs!LeavesNoLease` (`LeasesConverge`) | A lease that is left when the call ends belongs to a failed chunk whose removal was refused or whose child was never reaped, whatever was retried in between. |
| `WorkerCoordinatorProofs!WaveTypeCorrect` | Type correctness for any manifest, budget and number of faults: no chunk ever has more attempts on record than the manifest allows. |
| `WorkerCoordinatorProofs!ChildrenUndisturbed` (`ChildUndisturbed`) | However masters crash and rounds fail, a child that may still publish is of the latest attempt of its chunk, keeps its lease, and its chunk is not given up. |
| `WorkerCoordinatorProofs!HandoffsKept` (`HandoffKept`) | No reconciliation, however stale the observation it began with, rolls back the lease of a published handoff. |
| `WorkerCoordinatorProofs!SuccessExact` (`SuccessIsExact`) | A round that succeeds holds, for every chunk, the one handoff that is on disk. |
| `WorkerCoordinatorProofs!RoundsProgress` (`RoundProgress`) | A round that met no fault, no child of an earlier round and no abandoned reservation ends the wave or puts one more attempt on record, for any manifest and budget: no livelock of rounds. |
| `WorkerCoordinatorProofs!WaveKeepsLedger` (`KeepsLedger`) | The durable wave with its rounds, crashes, lost launches and late children implements WaveLedger: one bounded chain of attempts per chunk, handoffs never revoked, a chunk given up only when its chain is spent, acceptance only when all is handed over. |
| `DurabilityProofs!RecordIsRegister` (`KeepsRegister`) | publish_at implements a write-once register for any number of publishers, values and files, over every crash and power cut: the record is fixed once, and "durable" is said only of what it is fixed to. |
| `DurabilityProofs!CanonicalNeverTorn` | Whatever a power cut leaves, the canonical name never leads to a file that is torn or not on the disk. |
| `DurabilityProofs!PrefixesResumable` (`EveryPrefixResumable`) | For any number of generations, crashes, workers, starts and slots: whatever a crash or a power cut leaves of a deletion, a merge, the removal of the workers, a sieve or a campaign's journal is taken up by the next process, unless a record is torn. |
| `DurabilityProofs!CorpusStaysExact` (`CorpusExact`) | For any yield, interval, rounds and targets, and any number of starts, failures and power cuts, the corpus that the sieve delivers is that of a run that nothing interrupted, at the same special-q. |
| `DurabilityProofs!LedgerKept` (`MergeKeepsLedger`) | The merge of a wave implements MergeLedger for any number of generations and crashes: generations in order, each at most once, the prepared one kept, the commit to it. |
| `DurabilityProofs!AuthorityIsDurable` (`ActsOnDurableAuthority`) | Neither the deletion of a pair nor the removal of the workers' stores deletes a file or begins a completion on authority that a power cut can take back. |
| `DurabilityProofs!ProgressStays` (`ProgressKept`) | What a durable checkpoint has passed, what a campaign was told is durable and what was reported as removed stays so over every crash and power cut. |
| `DurabilityProofs!RefusalsHaveCause` (`NoRefusalWithoutCause`) | A publisher that owns its directory is refused only when a name leads to a file that is not its record, over any number of its own interrupted calls; a resumed deletion only for what a stranger or a power cut put there. |
| `DurabilityProofs!SpentForCause` (`NothingSpentInVain`) | For any number of generations, crashes, workers and slots: a spent receipt left no file without an intent, a merge is given up only for its crashes, a removal never runs out of its budget of stages, and the child of a slot is started once. |
| `DurabilityProofs!CleanupAccounted` | A receipt of a deletion that is spent has left no file on any disk that an intent does not account for. |
| `DurabilityProofs!CleanupRefusals` | A resumed deletion is refused only for what a stranger put under a name of the transaction or for what a power cut tore. |
| `DurabilityProofs!MergePaid` | A merge is given up only when it has crashed as often as it may try generations. |
| `CampaignJournalProofs!EveryPrefixIsAdmitted` | For any number of slots, and whatever died or a power cut took, the next open accepts the journal of a campaign unless one of its leaves is itself broken. |
| `CampaignJournalProofs!SlotsAreSpentOnce` | The child of a slot is started once in the life of a campaign, over any number of processes, crashes and power cuts, and only upon a committed prefix and a start that are durable. |
| `CampaignJournalProofs!ReportedStays` | No step, crash or power cut changes a leaf of a campaign that was reported as durable. |
| `WorkerCleanupProofs!PrefixesStayAdmitted` | For any number of workers, failures, crashes and power cuts, whatever they leave of the removal of the workers' stores is accepted by the next open and has a step to go on with, unless a record or a marker is torn; nothing else makes a call refuse. |
| `WorkerCleanupProofs!RemovalIsAuthorized` | The removal's half of ActsOnDurableAuthority: a worker's store is touched only under an authorization, its files deleted only under an intent and a staged marker, and its completion begun only upon an absence, that no power cut takes back. |
| `WorkerCleanupProofs!BudgetIsEnough` | For any number of workers and whatever a call of the removal was started from, it needs at most three stages per worker and three more, within the budget of four per worker and four. |
| `WorkerCleanupProofs!RetainedStaysRemoved` | Who is told that the workers' stores are gone finds none of them after any power cut, although the last completion may not have been synced. |
| `BoundedChildProofs!NothingIsLeft` (`NothingLeftBehind`) | Whatever the program, its descendants, another waiter and the timers do, a call that returns without a clean-up failure leaves no process of its own running outside what the documented scope gives up. |
| `BoundedChildProofs!SuccessIsTrue` (`SuccessIsWhole`) | A call that reports success saw the program exit, lost no byte of a captured stream, and left no writer on it. |
| `BoundedChildProofs!OutcomeWins` (`PublishedOutcomeWins`) | A launch outcome that was published before the deadline or the cancellation was noticed decides the result, at every interleaving of the handshake. |
| `BoundedChildProofs!SignalsPrecedeReap` (`NoSignalAfterReap`) | The call sends no SIGKILL, whether it hits somebody or not, once it has itself reaped the program and so released its number. A number that another waiter has released is outside the statement: the kill after a failed launch does not ask. |

The proofs assume only the constants' assumptions stated in the modules
(`PoolAssumption`, `ExecutorsAssumption`, `SieveAssumption`, `WaveAssumption`,
`DurableRecordAssumption`, `BoundedChildAssumption`, and `DurabilityAssumption`,
which is the conjunction of `CleanupAssumption`, `MergeAssumption`,
`WorkerCleanupAssumption`, `SieveResumeAssumption` and `JournalAssumption`; TLC
evaluates them in every run).
Each proof follows one pattern: an inductive invariant made of named parts, a
lemma that `Init` establishes it, one lemma per action or per group of actions
that it is kept, and a last step by propositional temporal logic.

The invariant of `WorkerCoordinatorProofs` has two halves. `DiskInv` is about
what any process can see: the records agree with each other (`Coherent`: a
handoff is of the latest attempt, a chunk given up has spent its budget and has
no handoff, at most one chunk is given up, nothing later than the latest
attempt was rolled back), and the two properties themselves. `RoundInv` is about
what the master may still believe: from the first observation until an attempt
starts its `first` is current (`Reconciling`); when it gives a chunk up that
chunk has no child, no handoff and no attempt left (`Publishing`); once it has
claimed the BaseLocks of a chunk no child of it is left, and every chunk it
started is still at the attempt it wrote (`Claiming`); what it adopted is on
disk (`Adopting`). Neither half is inductive alone: that an attempt may be
rolled back rests on `first` being current and its BaseLock being free, and
that a free BaseLock means no child rests on the child being of the latest
attempt. `WaveKeepsLedger` is the refinement: under the invariant each step is
one step of `WaveLedger` or a stutter.

`ExecutorsProofs` has one invariant per executor (`FixedBooks`, `GroupInv`,
`MapInv`, `StealInv`, `ChunksInv`, `LoopInv`). What they have in common are books
over operations: an operation that has not been claimed has not run, one that
was claimed belongs to one live worker, and the verdict of the call is over
operations that ended. `Gate` adds that nobody is past the launch gate unless
all arrived; for the group the same is said of the count in `arrived_workers_`:
it is the number of threads past their arrival, and a state of `released`
means that this is every thread. `Owned` says that a thread which has not ended
is still in the vector of the call, whose emptiness is all the return looks at;
of the stealing map, that a submitted worker has ended or its future is among
those still to be got. The error of the lowest index is a least element of the set of
failed operations (`LeastElement`). Of each executor, `KeepsPromise` is a
refinement step by step under its invariant.

`DistributedSieveProofs` adds to custody the `Books` of a slot: a slot marked
successful has collected a result of its own last attempt (`Evidence`), the one
being collected was reaped and decoded (`Collecting`), and a lease that is left
is explained by a child that was not reaped or by a removal that failed
(`Explained`). The merge is two nested folds, of chunks and of their rows. The
prover has no induction over data, but it has the least element of a set of
numbers (`LeastElement`): that such a fold exists for every length (`FoldExists`)
and adds one element after the other (`FoldSteps`), and that what it has
collected so far is the first copy of each relation seen (`Firsts`), is shown by
looking at the first index at which it would not be so.

`RoundsProgress` of the worker rounds rests on `Quiet`: as long as no fault
hits a round its plan stays true, so that each chunk with work to do has a step
to take.

The record's part of `DurabilityProofs` follows what a call may rely on between
the system call that established a fact and the one that uses it, while another
caller runs: a pending file that was inspected stays whole and in place as long
as the canonical name is free (`PromoterInv`), a canonical name that was seen
stays bound, and one whose directory was synced is bound on every directory a
power cut may leave (`KnowsInv`). `RecordIsRegister` is the refinement of
`WriteOnce`, step by step.

The invariant of the clean-up, `CleanupInv`, says of every directory a power cut
may leave that it holds one generation, in an order the next call can take up
(`Sound`), says where a pair is whose receipt is held or spent (`HeldInv`,
`SpentInv`), and what each step of the call in progress has made durable before
(`CleanupStages`). Since a sync may fail after it has or has not reached the
disk, each step is read as a statement on all directories in `c_disk`, never on
the one in memory.

The invariant of the sieve, `SieveInv`, has the store and the two directories
in it: each checkpoint a restart may find, in memory or after a power cut,
counts only rows that are synced and that it agrees with (`Recoverable`), the
durable one is never newer than the visible one (`KeptOlder`), and from
`FlushMetadata` on the durable directory holds the terminal checkpoint
(`SieveStages`). `OnCourse` then says that every checkpoint, the memory of the
process and what was delivered are on the path of the run alone: they equal
`Alone[n]` for some n. That two runs that have ended on this path are at the same
place is an induction over n, done by the least n at which they would part.

The invariant of the merge is of the form: there is an n such that all
generations before n are closed, those after it untouched, and generation n is at
a stage the call in progress explains (`MergeChain`, `MergeLast`,
`MergeStage`), and n is paid for by crashes (`MergeAccounted`). The mapping to
`MergeLedger` counts the closed generations (`MergeClosing`) and finds the
prepared one (`MergeHolding`).

`EverySpec` shows that a behaviour of `MCDurability` is one of each of the six
protocols, whichever its first state picked; the combined properties
(`PrefixesResumable`, `AuthorityIsDurable`, `ProgressStays`, `CorpusStaysExact`,
`RefusalsHaveCause`, `SpentForCause`, `LedgerKept`, `RecordKept`) follow from the theorems about them. The proofs about
the journal and the removal are in `CampaignJournalProofs` and
`WorkerCleanupProofs`; `JP` and `RP` are instances of these two modules, and
`SameJournal`, `SameRemoval` and `SameVerdicts` say that these instances speak
of the same actions and properties as `MCDurability`.

`OwnerInv` is about the refusals. A caller of the record that owns the directory
finds at each step what its earlier steps left (`OwnerAt`), and no pending name
leads to the file of the canonical one (`Apart`); so no later look of a call
refuses what an earlier look accepted, and when it is refused, one of the names
leads to a file that is not its record (`OwnerRefusedForCause`,
`RefusalsHaveCause`).

The invariant of `CampaignJournalProofs` has two parts. `Core` says of the
directories that every leaf rests on leaves that are whole and durable (a start
on all slots before it, a close and an artifact on the start, a commit on the
artifacts, the record of the gate on the campaign), and that what was run or
reported is durable: neither the acceptance of every prefix nor `SlotsSpentOnce`
is inductive without it, since a power cut is only harmless to leaves nothing
rests on. `Stage` says what the holder of the lock has established before each
of its steps; `Grow`, `Write` and `Confirm` are the three ways a step may touch
the leaves.

The invariant of `WorkerCleanupProofs` is `Disks /\ Place`. `Disks` says of
every root and of every set of leaves a power cut may leave that the workers
before its frontier are removed and those after it untouched, that the leaves
are a prefix of the removal or torn, that any such root fits any such leaves
(a store that is not the handoff any more is authorized on every root, and one
whose directory is gone on some root is empty in every set of leaves), and that
the root in memory is the one in which most is gone. It is not enough to say
this of the root in memory, since a power cut picks root and leaves
independently. `Place` says what the holder of the lock has established before
each of its steps. The table of prefixes enters through a few lemmas (`Row`,
`RowKinds`, `RemovalGoesOn`), so that no step looks at its rows.

`BudgetInv` gives each point of a removal's call the stages it may still need:
three for a worker that is left, one for a conversion and two around them. What
was staged and what is allowed together never exceed 3W + 3, which is at most
the budget 4W + 4 of the code (`BudgetIsEnough`): a call of the removal is never
given up for its budget.

The invariant of `BoundedChildProofs` follows the stages of the call: until its
own wait the call has not released the program's number (`ReapInv`), from the sweep on the group
has to be seen to vanish or the clean-up has failed (`SweepInv`), a stream that
has ended is empty and has no writer and nothing captured is lost without an
error (`StreamInv`), and a launch is only given up for a stop that came before
its outcome (`StopInv`). `SignalsPrecedeReap` says of every attempt to signal
that it comes before that wait. It says nothing of a number that another waiter
has released: `kill_and_reap_descriptor_child`, after a launch that failed,
signals without asking whether somebody has reaped the child already, and the
model lets such a signal hit nobody. The invariant assumes nothing of the
program and holds for any number of descendants, streams, limits and units.

Only model-checked: all liveness properties (`QueuedRuns`, `CallsReturn`,
`CallReturns`, `CallEnds`, `RoundEnds`, `EveryCallEnds`), since TLAPS handles
neither fairness nor ENABLED here. Every other property of a passing run is the
property of a theorem, with the constants left open.

## 5. Findings

- **`ProviderNeverRetried`** (run `sieve_provider_retry`, src/sieve/distributed_sieve.cpp:602, documentation and code differ). decode_worker_result maps every status reaped after the deadline to `retryable`, exit status 2 included, so a child whose provider threw but which is reaped in the grace period or after SIGKILL is retried, and the call can succeed. src/include/gnfs/sieve/distributed_sieve.hpp:256 says: "A provider exception is never retried: the parent reaps the complete wave, cleans every removable lease, and throws DistributedSieveSeedProviderError."

- **`AttemptWithinTimeout`** (run `sieve_deadline`, src/sieve/distributed_sieve.cpp:662, documentation and code differ). The deadline clock of wait_and_decode starts when the master begins to wait for that child; stage 2 waits for the children one after the other, so a later child, launched in stage 1, runs for the deadlines of all earlier children before its own begins. src/include/gnfs/sieve/distributed_sieve.hpp:101 says: "Maximum wall-clock time for one worker attempt, in milliseconds."

- **`PrestartRolledBack`** (run `worker_prestart`, src/sieve/distributed_sieve_worker_coordinator.cpp:348, documentation and code differ). A crash or a failed call between reserve_worker_attempt_private_lease and publish_worker_attempt_started leaves a reserved lease without an attempt record. For the first attempt of a chunk every later round returns incomplete_attempt; for a later attempt reconcile_worker_attempt_started rejects the later BaseLock. recover_worker_attempt_private_lease (wave_store.cpp:20462), which performs the rollback, has no caller outside the tests, so the wave stays stuck although it has budget. src/docs/plans/2026-07-26-distributed-worker-durable-resume.md:948 says of LeaseReservedPrestart: "Perform exact preactive rollback; consume no attempt." and :3483 "Prestart crash costs no budget".

- **`RestartWorks`** (run `sieve_restart`, include/gnfs/relation/ooc_cleanup_transaction.hpp:4062, documentation and code differ). A process that dies before its first checkpoint (25 batches) leaves the pair .reldata/.relidx without a .sieve_ckpt. The next start takes the fresh path, whose exclusive creation refuses a name space that holds either file, and so does every later one until the files are deleted by hand; a completed run that retains its raw artifacts blocks the path in the same way. docs/env-flags/sieve.md:304-307 shows "# 首次启动 / 续跑同一 path" and "# 进程崩溃后使用同一路径重启" (first start or continuation on the same path; restart on the same path after a crash) with no such restriction, and src/api/pipeline.cpp:1891 says "If <base_path>.sieve_ckpt exists → resume, otherwise fresh start."

- **`FailureKeepsCheckpoint`** (run `sieve_commit`, src/api/pipeline.cpp:2959, defect). With legacy_raw_ooc_cleanup = RemoveArtifacts, a run that recovered an appendable prefix holds no cleanup receipt, so arm_ooc_cleanup returns false, and recovered_finalized_ooc is false too: it throws logic_error("fresh terminal raw OOC corpus lost cleanup ownership") although the corpus is not fresh, and it does so after remove_checked. The result is lost, the raw pair stays without a checkpoint and blocks the path. The comment at src/api/pipeline.cpp:2946 says "Final no-callback commit. A checked removal failure leaves the authoritative checkpoint and the preserve-policy raw corpus available", and the branch below it means to preserve a recovered corpus ("recovered terminal raw corpus remains preserved because its checkpoint did not carry deletion authority").

## 6. Bounds

Every bound is a constant: `SpinBudget` (iterations of a worker's spin loop),
`MaxAge` (where the ages of attempts saturate), `MaxFaults` (failing calls and
crashes of a behaviour), `MaxStarts` (processes on one path), `Generations`
(the manifest's budget of merges), `MaxCrashes` (crashes of a merge),
`Workers` (stores to be removed), `MaxTroubles` (failing calls, crashes and
power cuts of a removal),
`MaxWrites` (units a program writes to one stream). Kills and power cuts of
`SieveResume` are not counted, since every one of them uses up a process; those
of `DurableRecord`, `CleanupTransaction` and `CampaignJournal` are not bounded
at all. Integer
widths matter in `Chunking` and `ParallelForStealing` only, and are constants
there.

## 7. What is not modelled

`components` in `PROJECT.json` lists every part with its status and reason.
In short: numeric kernels (lattice sieve, polynomial selection, linear algebra,
square root, the SIQS sieve, GPU and SIMD code) keep no state that two actors share and
are covered by the executors they run on; encodings, digests and identity
checks are pure; most of the wave store's lines are codecs, descriptor and
identity checks around the transitions that are modelled. Inside the modelled
parts, left out are what each section above names, checks against files that
are replaced from outside, the structured reduction route and the distributed
dispatch of the sieve phase (which resume excludes), and the polynomial and
factor-base checkpoints. Nested `parallel_for` calls from inside the pool would
block (`wait_for_futures` does not help); no caller does it, and the model's
clients are threads outside the pool.

## 8. Plan

What is left, most important first:

1. `SieveResume!CleanRaw` as a client of `CleanupTransaction`: the resumed sieve
   removes a stale store with the protocol that is modelled on its own.
2. Pure algorithms against reference definitions: `filter.hpp`'s fixpoint,
   the parity union-find of the two-large-prime graph, the LRU result cache.
3. The components that are not modelled yet: the codecs' acceptance rules of the
   distributed sieve's protocol and the structured reduction.

New components join existing runs by a module like `MCExecutors` or
`MCDurability`, whose first state picks the component, where their bounds and
fairness agree.

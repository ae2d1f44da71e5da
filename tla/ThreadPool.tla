------------------------------ MODULE ThreadPool ------------------------------
(***************************************************************************)
(* util::ThreadPool (include/gnfs/util/thread_pool.hpp): a FIFO of tasks    *)
(* served by worker threads that spin on an atomic size hint before they    *)
(* sleep on a condition variable, and the calls its users make: submit,     *)
(* wait_all, parallel_for / parallel_for_index, construction and            *)
(* destruction.  A critical section of mutex_ is one step; what the code    *)
(* does after unlocking (notify_one, notify_all, the unlocked peek of       *)
(* queue_size_) is a step of its own, so that other threads come between.   *)
(***************************************************************************)
EXTENDS Integers, Sequences, FiniteSets

CONSTANTS
    Workers,      \* the threads the constructor may create
    Clients,      \* user threads that share one pool
    Tasks,        \* identities of the tasks that may be submitted
    SpinBudget,   \* kSpinBudget, the peeks a worker makes before it sleeps
    NoTask        \* "no task": not a member of Tasks

ASSUME PoolAssumption ==
    /\ IsFiniteSet(Workers) /\ Workers # {}
    /\ IsFiniteSet(Clients)
    /\ IsFiniteSet(Tasks)
    /\ Workers \cap Clients = {}
    /\ SpinBudget \in Nat
    /\ NoTask \notin Tasks \cup Workers \cup Clients

VARIABLES
    tasks_,       \* the FIFO of queued tasks
    pending_,     \* tasks accepted and not yet retired by a worker
    queue_size_,  \* the atomic mirror of Len(tasks_), read without the mutex
    stop_,        \* set by the destructor or by a failed constructor
    owner,        \* where the thread that owns the pool is
    wpc,          \* where each worker is in worker_loop
    spin,         \* each worker's spin counter
    cur,          \* the task a worker has popped, or NoTask
    cpc,          \* where each client is
    futures,      \* futures of a client's current call, in launch order
    got,          \* how many of them it has got
    firstError,   \* first_exception of wait_for_futures, or NoTask
    status,       \* of each task: what its future and its body have come to
    by            \* the thread that had the task accepted, or NoTask

poolVars   == <<tasks_, pending_, queue_size_, stop_>>
workerVars == <<wpc, spin, cur>>
callVars   == <<futures, got, firstError>>
clientVars == <<cpc, callVars>>
taskVars   == <<status, by>>
vars == <<poolVars, owner, workerVars, clientVars, taskVars>>

(***************************************************************************)
(* Worker: "none" not created, "top" head of the loop, "seen" the peek saw  *)
(* work, "miss" it did not or the pop came too late, "block" entering       *)
(* cv_.wait, "asleep" in it, "run" inside task(), "retire" before --pending_, *)
(* "notify" before done_cv_.notify_all, "exited" returned.                  *)
(***************************************************************************)
WorkerPc == {"none", "top", "seen", "miss", "block", "asleep", "run", "nested",
             "retire", "notify", "exited"}

(***************************************************************************)
(* Client: "idle" outside the pool, "wake" between unlock and notify_one of *)
(* submit, "waitall"/"waiting" entering and asleep in done_cv_.wait,        *)
(* "launch"/"launched" the launch loop of parallel_for before and after the *)
(* unlock of a submit, "drain" wait_for_futures, "unwind" the destructor of *)
(* FutureLaunchGuard after a launch error, "gone" the client is finished.   *)
(***************************************************************************)
ClientPc == {"idle", "wake", "waitall", "waiting", "launch", "launched",
             "drain", "unwind", "gone"}

OwnerPc == {"building", "failing", "live", "stopping", "joining", "destroyed"}

Status == {"new", "queued", "running", "ok", "error", "rejected"}
Settled == {"ok", "error"}           \* the future is ready

Created == {w \in Workers : wpc[w] # "none"}

-----------------------------------------------------------------------------
Init ==
    /\ tasks_ = <<>> /\ pending_ = 0 /\ queue_size_ = 0 /\ stop_ = FALSE
    /\ owner = "building"
    /\ wpc = [w \in Workers |-> "none"]
    /\ spin = [w \in Workers |-> 0]
    /\ cur = [w \in Workers |-> NoTask]
    /\ cpc = [c \in Clients |-> "idle"]
    /\ futures = [c \in Clients |-> <<>>]
    /\ got = [c \in Clients |-> 0]
    /\ firstError = [c \in Clients |-> NoTask]
    /\ status = [t \in Tasks |-> "new"]
    /\ by = [t \in Tasks |-> NoTask]

-----------------------------------------------------------------------------
\* Constructor and destructor, run by the owner.

\* workers_.emplace_back: the new thread enters worker_loop at once.
CreateWorker(w) ==
    /\ owner = "building" /\ wpc[w] = "none"
    /\ wpc' = [wpc EXCEPT ![w] = "top"]
    /\ owner' = IF Created \cup {w} = Workers THEN "live" ELSE "building"
    /\ UNCHANGED <<poolVars, spin, cur, clientVars, taskVars>>

\* Thread creation throws: the constructor stops the workers it has.
CreateFails ==
    /\ owner = "building"
    /\ stop_' = TRUE
    /\ owner' = "failing"
    /\ UNCHANGED <<tasks_, pending_, queue_size_, workerVars, clientVars, taskVars>>

\* The destructor may run once no other thread is inside the pool.
BeginDestroy ==
    /\ owner = "live"
    /\ \A c \in Clients : cpc[c] = "gone"
    /\ stop_' = TRUE
    /\ owner' = "stopping"
    /\ UNCHANGED <<tasks_, pending_, queue_size_, workerVars, clientVars, taskVars>>

\* Mutant: the teardown does not wake the workers that are asleep.
NotifyStopForgotten ==
    /\ owner \in {"failing", "stopping"}
    /\ owner' = "joining"
    /\ UNCHANGED <<poolVars, workerVars, clientVars, taskVars>>

\* cv_.notify_all() after the unlock of either teardown.
NotifyStop ==
    /\ owner \in {"failing", "stopping"}
    /\ owner' = "joining"
    /\ wpc' = [w \in Workers |-> IF wpc[w] = "asleep" THEN "block" ELSE wpc[w]]
    /\ UNCHANGED <<poolVars, spin, cur, clientVars, taskVars>>

\* The join loop has ended: every created worker has returned.
JoinAll ==
    /\ owner = "joining"
    /\ \A w \in Created : wpc[w] = "exited"
    /\ owner' = "destroyed"
    /\ UNCHANGED <<poolVars, workerVars, clientVars, taskVars>>

-----------------------------------------------------------------------------
\* submit, up to the unlock: the task is accepted for thread p.
Enqueue(p, t) ==
    /\ status[t] = "new"
    /\ ~stop_
    /\ tasks_' = Append(tasks_, t)
    /\ pending_' = pending_ + 1
    /\ queue_size_' = queue_size_ + 1
    /\ status' = [status EXCEPT ![t] = "queued"]
    /\ by' = [by EXCEPT ![t] = p]
    /\ UNCHANGED stop_

\* notify_one: wakes one sleeping worker if there is one.  A woken worker
\* evaluates the predicate again, so it is back at "block".
NotifyOne(pc) ==
    \/ \E w \in Workers : pc[w] = "asleep" /\ wpc' = [pc EXCEPT ![w] = "block"]
    \/ (\A w \in Workers : pc[w] # "asleep") /\ wpc' = pc

Submit(c, t) ==
    /\ owner = "live" /\ cpc[c] = "idle"
    /\ Enqueue(c, t)
    /\ cpc' = [cpc EXCEPT ![c] = "wake"]
    /\ UNCHANGED <<owner, workerVars, callVars>>

\* Mutant: submit relies on the spinning workers and skips notify_one.
SubmitNotifySkipped(c) ==
    /\ cpc[c] = "wake"
    /\ cpc' = [cpc EXCEPT ![c] = "idle"]
    /\ UNCHANGED <<poolVars, owner, workerVars, callVars, taskVars>>

SubmitNotify(c) ==
    /\ cpc[c] = "wake"
    /\ NotifyOne(wpc)
    /\ cpc' = [cpc EXCEPT ![c] = "idle"]
    /\ UNCHANGED <<poolVars, owner, spin, cur, callVars, taskVars>>

\* wait_all: the predicate is evaluated under the mutex, and falling asleep
\* on done_cv_ releases it in the same step.
WaitAllCall(c) ==
    /\ owner = "live" /\ cpc[c] = "idle"
    /\ cpc' = [cpc EXCEPT ![c] = "waitall"]
    /\ UNCHANGED <<poolVars, owner, workerVars, callVars, taskVars>>

WaitAllSpurious(c) ==
    /\ cpc[c] = "waiting"
    /\ cpc' = [cpc EXCEPT ![c] = "waitall"]
    /\ UNCHANGED <<poolVars, owner, workerVars, callVars, taskVars>>

\* Mutant: wait_all waits for an empty queue, not for pending_ == 0.
WaitAllTestQueue(c) ==
    /\ cpc[c] = "waitall"
    /\ cpc' = [cpc EXCEPT ![c] = IF tasks_ = <<>> THEN "idle" ELSE "waiting"]
    /\ UNCHANGED <<poolVars, owner, workerVars, callVars, taskVars>>

WaitAllTest(c) ==
    /\ cpc[c] = "waitall"
    /\ cpc' = [cpc EXCEPT ![c] = IF pending_ = 0 THEN "idle" ELSE "waiting"]
    /\ UNCHANGED <<poolVars, owner, workerVars, callVars, taskVars>>

\* parallel_for and parallel_for_index: one submit per non-empty chunk, at
\* most one chunk per worker, then wait_for_futures.  The ranges themselves are
\* in module Chunking.
BeginParallelFor(c) ==
    /\ owner = "live" /\ cpc[c] = "idle"
    /\ cpc' = [cpc EXCEPT ![c] = "launch"]
    /\ UNCHANGED <<poolVars, owner, workerVars, callVars, taskVars>>

LaunchChunk(c, t) ==
    /\ cpc[c] = "launch"
    /\ Len(futures[c]) < Cardinality(Workers)
    /\ Enqueue(c, t)
    /\ futures' = [futures EXCEPT ![c] = Append(@, t)]
    /\ cpc' = [cpc EXCEPT ![c] = "launched"]
    /\ UNCHANGED <<owner, workerVars, got, firstError>>

LaunchNotify(c) ==
    /\ cpc[c] = "launched"
    /\ NotifyOne(wpc)
    /\ cpc' = [cpc EXCEPT ![c] = "launch"]
    /\ UNCHANGED <<poolVars, owner, spin, cur, callVars, taskVars>>

\* The range is used up: launch_guard.release(), then wait_for_futures.
LaunchDone(c) ==
    /\ cpc[c] = "launch" /\ futures[c] # <<>>
    /\ cpc' = [cpc EXCEPT ![c] = "drain"]
    /\ UNCHANGED <<poolVars, owner, workerVars, callVars, taskVars>>

\* Mutant: no FutureLaunchGuard, a launch error leaves at once.
LaunchFailsUnguarded(c) ==
    /\ cpc[c] = "launch"
    /\ cpc' = [cpc EXCEPT ![c] = "idle"]
    /\ futures' = [futures EXCEPT ![c] = <<>>]
    /\ UNCHANGED <<poolVars, owner, workerVars, got, firstError, taskVars>>

\* A later submit throws before it accepts anything (allocation of the task).
LaunchFails(c) ==
    /\ cpc[c] = "launch"
    /\ cpc' = [cpc EXCEPT ![c] = "unwind"]
    /\ UNCHANGED <<poolVars, owner, workerVars, callVars, taskVars>>

\* Mutant: the last error replaces the first.
GetFutureLastError(c) ==
    /\ cpc[c] \in {"drain", "unwind"} /\ got[c] < Len(futures[c])
    /\ LET t == futures[c][got[c] + 1] IN
        /\ status[t] \in Settled
        /\ firstError' = IF cpc[c] = "drain" /\ status[t] = "error"
                         THEN [firstError EXCEPT ![c] = t] ELSE firstError
    /\ got' = [got EXCEPT ![c] = @ + 1]
    /\ UNCHANGED <<poolVars, owner, workerVars, cpc, futures, taskVars>>

\* future.get() of the next future, in launch order; the first error is kept
\* by wait_for_futures and dropped by the guard.
GetFuture(c) ==
    /\ cpc[c] \in {"drain", "unwind"} /\ got[c] < Len(futures[c])
    /\ LET t == futures[c][got[c] + 1] IN
        /\ status[t] \in Settled
        /\ firstError' =
             IF cpc[c] = "drain" /\ status[t] = "error" /\ firstError[c] = NoTask
             THEN [firstError EXCEPT ![c] = t] ELSE firstError
    /\ got' = [got EXCEPT ![c] = @ + 1]
    /\ UNCHANGED <<poolVars, owner, workerVars, cpc, futures, taskVars>>

\* The call returns, or rethrows firstError or the launch error; its locals
\* are destroyed.
EndParallelFor(c) ==
    /\ cpc[c] \in {"drain", "unwind"} /\ got[c] = Len(futures[c])
    /\ cpc' = [cpc EXCEPT ![c] = "idle"]
    /\ futures' = [futures EXCEPT ![c] = <<>>]
    /\ got' = [got EXCEPT ![c] = 0]
    /\ firstError' = [firstError EXCEPT ![c] = NoTask]
    /\ UNCHANGED <<poolVars, owner, workerVars, taskVars>>

Leave(c) ==
    /\ cpc[c] = "idle" /\ owner # "building"
    /\ cpc' = [cpc EXCEPT ![c] = "gone"]
    /\ UNCHANGED <<poolVars, owner, workerVars, callVars, taskVars>>

-----------------------------------------------------------------------------
\* worker_loop

\* The unlocked load of queue_size_.
Peek(w) ==
    /\ wpc[w] = "top"
    /\ wpc' = [wpc EXCEPT ![w] = IF queue_size_ > 0 THEN "seen" ELSE "miss"]
    /\ UNCHANGED <<poolVars, owner, spin, cur, clientVars, taskVars>>

\* Mutant: a pop that does not update the mirror of the queue's size.
PopKeepsSize(w) ==
    /\ tasks_' = Tail(tasks_)
    /\ cur' = [cur EXCEPT ![w] = Head(tasks_)]
    /\ status' = [status EXCEPT ![Head(tasks_)] = "running"]
    /\ wpc' = [wpc EXCEPT ![w] = "run"]
    /\ UNCHANGED <<queue_size_, pending_, stop_, by>>

\* task = front; pop; --queue_size_, in one critical section.
Pop(w) ==
    /\ tasks_' = Tail(tasks_)
    /\ queue_size_' = queue_size_ - 1
    /\ cur' = [cur EXCEPT ![w] = Head(tasks_)]
    /\ status' = [status EXCEPT ![Head(tasks_)] = "running"]
    /\ wpc' = [wpc EXCEPT ![w] = "run"]
    /\ UNCHANGED <<pending_, stop_, by>>

\* The fast path looks again under the mutex; another worker may have been
\* faster.
GrabSeen(w) ==
    /\ wpc[w] = "seen"
    /\ \/ tasks_ # <<>> /\ Pop(w)
       \/ /\ tasks_ = <<>>
          /\ wpc' = [wpc EXCEPT ![w] = "miss"]
          /\ UNCHANGED <<poolVars, cur, taskVars>>
    /\ UNCHANGED <<owner, spin, clientVars>>

Spin(w) ==
    /\ wpc[w] = "miss"
    /\ \/ /\ spin[w] < SpinBudget
          /\ spin' = [spin EXCEPT ![w] = @ + 1]
          /\ wpc' = [wpc EXCEPT ![w] = "top"]
       \/ /\ spin[w] >= SpinBudget
          /\ wpc' = [wpc EXCEPT ![w] = "block"]
          /\ UNCHANGED spin
    /\ UNCHANGED <<poolVars, owner, cur, clientVars, taskVars>>

\* Mutant: a stopped worker returns although tasks are queued.
BlockAbandonsQueue(w) ==
    /\ wpc[w] = "block"
    /\ \/ /\ tasks_ # <<>> /\ ~stop_
          /\ Pop(w)
       \/ /\ tasks_ = <<>> \/ stop_
          /\ wpc' = [wpc EXCEPT ![w] = IF stop_ THEN "exited" ELSE "asleep"]
          /\ UNCHANGED <<poolVars, cur, taskVars>>
    /\ UNCHANGED <<owner, spin, clientVars>>

\* Mutant: the worker goes to sleep without testing the queue.
BlockUntested(w) ==
    /\ wpc[w] = "block"
    /\ wpc' = [wpc EXCEPT ![w] = IF stop_ /\ tasks_ = <<>> THEN "exited" ELSE "asleep"]
    /\ UNCHANGED <<poolVars, owner, spin, cur, clientVars, taskVars>>

\* cv_.wait(lock, stop_ || !tasks_.empty()) and what follows it in the same
\* critical section: sleep, return, or pop.
Block(w) ==
    /\ wpc[w] = "block"
    /\ \/ /\ tasks_ # <<>>
          /\ Pop(w)
       \/ /\ tasks_ = <<>>
          /\ wpc' = [wpc EXCEPT ![w] = IF stop_ THEN "exited" ELSE "asleep"]
          /\ UNCHANGED <<poolVars, cur, taskVars>>
    /\ UNCHANGED <<owner, spin, clientVars>>

\* A condition variable may return without a notification.
SpuriousWake(w) ==
    /\ wpc[w] = "asleep"
    /\ wpc' = [wpc EXCEPT ![w] = "block"]
    /\ UNCHANGED <<poolVars, owner, spin, cur, clientVars, taskVars>>

\* A running task submits another one; on a stopped pool submit throws.
TaskSubmits(w, t) ==
    /\ wpc[w] = "run"
    /\ \/ /\ Enqueue(w, t)
          /\ wpc' = [wpc EXCEPT ![w] = "nested"]
       \/ /\ stop_ /\ status[t] = "new"
          /\ status' = [status EXCEPT ![t] = "rejected"]
          /\ UNCHANGED <<poolVars, by, wpc>>
    /\ UNCHANGED <<owner, spin, cur, clientVars>>

TaskNotify(w) ==
    /\ wpc[w] = "nested"
    /\ NotifyOne([wpc EXCEPT ![w] = "run"])
    /\ UNCHANGED <<poolVars, owner, spin, cur, clientVars, taskVars>>

\* packaged_task makes the future ready with a value or an exception.
FinishTask(w) ==
    /\ wpc[w] = "run"
    /\ \E s \in Settled : status' = [status EXCEPT ![cur[w]] = s]
    /\ wpc' = [wpc EXCEPT ![w] = "retire"]
    /\ UNCHANGED <<poolVars, owner, spin, cur, clientVars, by>>

\* should_notify = (--pending_ == 0), under the mutex.
Retire(w) ==
    /\ wpc[w] = "retire"
    /\ pending_' = pending_ - 1
    /\ wpc' = [wpc EXCEPT ![w] = IF pending_ = 1 THEN "notify" ELSE "top"]
    /\ cur' = [cur EXCEPT ![w] = NoTask]
    /\ spin' = [spin EXCEPT ![w] = 0]
    /\ UNCHANGED <<tasks_, queue_size_, stop_, owner, clientVars, taskVars>>

\* done_cv_.notify_all(): every thread asleep in wait_all tests again.
NotifyDone(w) ==
    /\ wpc[w] = "notify"
    /\ wpc' = [wpc EXCEPT ![w] = "top"]
    /\ cpc' = [c \in Clients |-> IF cpc[c] = "waiting" THEN "waitall" ELSE cpc[c]]
    /\ UNCHANGED <<poolVars, owner, spin, cur, callVars, taskVars>>

\* The program is over: the pool is gone and so are its users.
Finished ==
    /\ owner = "destroyed" /\ \A c \in Clients : cpc[c] = "gone"
    /\ UNCHANGED vars

-----------------------------------------------------------------------------
OwnerStep == \/ \E w \in Workers : CreateWorker(w)
             \/ CreateFails \/ BeginDestroy \/ NotifyStop \/ JoinAll

\* Steps a client takes inside a call it has made; it never stops in one.
InCall(c) ==
    \/ SubmitNotify(c) \/ WaitAllTest(c)
    \/ (\E t \in Tasks : LaunchChunk(c, t)) \/ LaunchNotify(c)
    \/ LaunchDone(c) \/ LaunchFails(c) \/ GetFuture(c) \/ EndParallelFor(c)

ClientStep(c) ==
    \/ \E t \in Tasks : Submit(c, t)
    \/ WaitAllCall(c) \/ BeginParallelFor(c) \/ Leave(c)
    \/ WaitAllSpurious(c) \/ InCall(c)

\* Steps of worker_loop that the thread takes by itself.
Loop(w) == \/ Peek(w) \/ GrabSeen(w) \/ Spin(w) \/ Block(w)
           \/ TaskNotify(w) \/ FinishTask(w) \/ Retire(w) \/ NotifyDone(w)

WorkerStep(w) == \/ Loop(w) \/ SpuriousWake(w)
                 \/ \E t \in Tasks : TaskSubmits(w, t)

Next == \/ OwnerStep
        \/ \E c \in Clients : ClientStep(c)
        \/ \E w \in Workers : WorkerStep(w)
        \/ Finished

Spec == Init /\ [][Next]_vars

(***************************************************************************)
(* Threads are scheduled fairly, task bodies return, and a teardown that    *)
(* has begun goes on.  Nothing makes a client call, a thread wake without   *)
(* cause, or the owner destroy the pool.                                    *)
(***************************************************************************)
FairSpec ==
    /\ Spec
    /\ \A w \in Workers : WF_vars(Loop(w))
    /\ \A c \in Clients : WF_vars(InCall(c))
    /\ WF_vars(NotifyStop) /\ WF_vars(JoinAll)

-----------------------------------------------------------------------------
\* The types of the state.
TypeOK ==
    /\ tasks_ \in Seq(Tasks)
    /\ pending_ \in Nat /\ queue_size_ \in Nat /\ stop_ \in BOOLEAN
    /\ owner \in OwnerPc
    /\ wpc \in [Workers -> WorkerPc]
    /\ spin \in [Workers -> 0..SpinBudget]
    /\ cur \in [Workers -> Tasks \cup {NoTask}]
    /\ cpc \in [Clients -> ClientPc]
    /\ futures \in [Clients -> Seq(Tasks)]
    /\ got \in [Clients -> Nat]
    /\ firstError \in [Clients -> Tasks \cup {NoTask}]
    /\ status \in [Tasks -> Status]
    /\ by \in [Tasks -> Workers \cup Clients \cup {NoTask}]

Busy == {w \in Workers : wpc[w] \in {"run", "nested", "retire"}}
Seekers == {w \in Workers : wpc[w] \in {"top", "seen", "miss", "block"}}
Notifiers == {c \in Clients : cpc[c] \in {"wake", "launched"}}
                \cup {w \in Workers : wpc[w] = "nested"}

\* pending_ counts the queued tasks and those inside a worker, and the
\* unlocked hint queue_size_ is exact whenever the mutex is free: the two
\* paths of worker_loop and submit keep three counters in step.
Accounting ==
    /\ queue_size_ = Len(tasks_)
    /\ pending_ = Len(tasks_) + Cardinality(Busy)

\* A worker sleeps only while every queued task has a worker that is on its
\* way to the queue or a notify_one still to be made: no interleaving of
\* spinning, popping, sleeping and notifying strands a task.
WorkConserving ==
    (\E w \in Workers : wpc[w] = "asleep")
        => Len(tasks_) <= Cardinality(Seekers) + Cardinality(Notifiers)

\* A thread asleep in wait_all with nothing pending has a notify_all coming:
\* decrementing pending_ under the mutex is what the comment in worker_loop
\* relies on.
NoLostDone ==
    (pending_ = 0 /\ \E c \in Clients : cpc[c] = "waiting")
        => \E w \in Workers : wpc[w] = "notify"

\* When the destructor (or a constructor that failed) has joined the workers,
\* every accepted task has run to its end and no thread is left in the pool.
DestroyDrains ==
    owner = "destroyed" =>
        /\ pending_ = 0
        /\ \A t \in Tasks : status[t] \notin {"queued", "running"}
        /\ \A w \in Workers : wpc[w] \in {"none", "exited"}

\* parallel_for never lets a chunk outlive it, on return, on a callback's
\* error and on a launch error: the chunks hold references to its locals.
ParallelForDrains ==
    [][\A c \in Clients :
          cpc[c] \in {"launch", "drain", "unwind"} /\ cpc'[c] = "idle"
             => \A i \in DOMAIN futures[c] : status[futures[c][i]] \in Settled]_vars

\* wait_for_futures reports the failed chunk that was launched first, in
\* whatever order the chunks fail.
FirstErrorReported ==
    [][\A c \in Clients :
          cpc[c] = "drain" /\ cpc'[c] = "idle" =>
             LET failed == {i \in DOMAIN futures[c] : status[futures[c][i]] = "error"}
             IN  IF failed = {} THEN firstError[c] = NoTask
                 ELSE \E i \in failed : /\ firstError[c] = futures[c][i]
                                       /\ \A j \in failed : i <= j]_vars

\* wait_all returns only after every task its caller had accepted has run.
WaitAllCovers ==
    [][\A c \in Clients :
          cpc[c] = "waitall" /\ cpc'[c] = "idle" =>
             \A t \in Tasks : by[t] = c => status[t] \in Settled]_vars

\* Every accepted task is eventually run, whether or not the pool is being
\* destroyed.
QueuedRuns == \A t \in Tasks : status[t] = "queued" ~> status[t] \in Settled

\* Every call of a client returns (the tasks that can be submitted are
\* finite, so wait_all is not postponed for ever by new ones), and a teardown
\* that has begun ends.
CallsReturn ==
    /\ \A c \in Clients : cpc[c] # "idle" ~> cpc[c] \in {"idle", "gone"}
    /\ owner \in {"failing", "stopping"} ~> owner = "destroyed"
===============================================================================

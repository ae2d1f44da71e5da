--------------------------- MODULE ThreadPoolProofs ---------------------------
(***************************************************************************)
(* Proofs about ThreadPool for any finite sets of workers, clients and      *)
(* tasks and any spin budget.  TypeOK and Accounting are inductive only     *)
(* together: retiring a task keeps pending_ a natural number because the    *)
(* retiring worker is itself counted in it.  Followed adds where every task *)
(* is; Teardown, what a stopped pool and a pool without workers are; and     *)
(* AllCalls, what a parallel_for call knows of its futures.                  *)
(***************************************************************************)
EXTENDS ThreadPool, FiniteSetTheorems, TLAPS

Counted == TypeOK /\ Accounting

\* The sets the counters are compared with are finite.
LEMMA ThreadSetsFinite ==
    /\ IsFiniteSet(Busy) /\ Cardinality(Busy) \in Nat
    /\ IsFiniteSet(Seekers) /\ Cardinality(Seekers) \in Nat
    /\ IsFiniteSet(Notifiers) /\ Cardinality(Notifiers) \in Nat
<1>1. IsFiniteSet(Workers) /\ IsFiniteSet(Clients)
  BY PoolAssumption
<1>2. /\ Busy \subseteq Workers /\ Seekers \subseteq Workers
      /\ {w \in Workers : wpc[w] = "nested"} \subseteq Workers
      /\ {c \in Clients : cpc[c] \in {"wake", "launched"}} \subseteq Clients
  BY DEF Busy, Seekers
<1>3. IsFiniteSet(Busy) /\ IsFiniteSet(Seekers)
  BY <1>1, <1>2, FS_Subset
<1>4. IsFiniteSet(Notifiers)
  BY <1>1, <1>2, FS_Subset, FS_Union DEF Notifiers
<1> QED
  BY <1>3, <1>4, FS_CardinalityType

\* The same in the next state.
LEMMA FiniteAfter ==
    /\ IsFiniteSet(Busy') /\ Cardinality(Busy') \in Nat
    /\ IsFiniteSet(Seekers') /\ Cardinality(Seekers') \in Nat
    /\ IsFiniteSet(Notifiers') /\ Cardinality(Notifiers') \in Nat
<1>1. IsFiniteSet(Workers) /\ IsFiniteSet(Clients)
  BY PoolAssumption
<1>2. /\ Busy' \subseteq Workers /\ Seekers' \subseteq Workers
      /\ {w \in Workers : wpc'[w] = "nested"} \subseteq Workers
      /\ {c \in Clients : cpc'[c] \in {"wake", "launched"}} \subseteq Clients
  BY DEF Busy, Seekers
<1>3. IsFiniteSet(Busy') /\ IsFiniteSet(Seekers')
  BY <1>1, <1>2, FS_Subset
<1>4. IsFiniteSet(Notifiers')
  BY <1>1, <1>2, FS_Subset, FS_Union DEF Notifiers
<1> QED
  BY <1>3, <1>4, FS_CardinalityType

\* The state before any thread exists is counted correctly.
LEMMA InitCounted == Init => Counted
<1> SUFFICES ASSUME Init PROVE Counted
  OBVIOUS
<1>0. 0 \in 0..SpinBudget /\ 0 \in Nat /\ <<>> \in Seq(Tasks)
  BY PoolAssumption
<1>1. TypeOK
  BY <1>0 DEF Init, TypeOK, OwnerPc, WorkerPc, ClientPc, Status
<1>2. Busy = {}
  BY DEF Init, Busy
<1>3. Accounting
  BY <1>2, FS_EmptySet DEF Init, Accounting
<1> QED
  BY <1>1, <1>3 DEF Counted

EnqueueEffect ==
    /\ tasks_' \in Seq(Tasks) /\ Len(tasks_') = Len(tasks_) + 1
    /\ pending_' = pending_ + 1 /\ queue_size_' = queue_size_ + 1
    /\ stop_' = stop_
    /\ status' \in [Tasks -> Status]
    /\ by' \in [Tasks -> Workers \cup Clients \cup {NoTask}]

\* Accepting a task adds one to all three counters.
LEMMA EnqueueTypes ==
    ASSUME TypeOK, NEW p \in Workers \cup Clients, NEW t \in Tasks, Enqueue(p, t)
    PROVE  EnqueueEffect
BY DEF TypeOK, Enqueue, Status, EnqueueEffect

\* An accepted task keeps the counters in step if no worker changes sides.
LEMMA EnqueueCounted ==
    ASSUME TypeOK, Accounting, EnqueueEffect, Busy' = Busy, TypeOK'
    PROVE  TypeOK' /\ Accounting'
<1>1. Len(tasks_) \in Nat /\ Cardinality(Busy) \in Nat
  BY ThreadSetsFinite DEF TypeOK
<1> QED
  BY <1>1 DEF Accounting, EnqueueEffect

\* notify_one moves at most one worker, from "asleep" to "block".
LEMMA NotifyOneTypes ==
    ASSUME NEW pc \in [Workers -> WorkerPc], NotifyOne(pc)
    PROVE  /\ wpc' \in [Workers -> WorkerPc]
           /\ \A w \in Workers : \/ wpc'[w] = pc[w]
                                 \/ pc[w] = "asleep" /\ wpc'[w] = "block"
BY DEF NotifyOne, WorkerPc

\* A pop takes one task from the queue into worker w.
LEMMA PopTypes ==
    ASSUME TypeOK, NEW w \in Workers, tasks_ # <<>>, queue_size_ = Len(tasks_), Pop(w)
    PROVE  /\ tasks_' \in Seq(Tasks) /\ Len(tasks_') = Len(tasks_) - 1
           /\ queue_size_' = queue_size_ - 1 /\ queue_size_' \in Nat
           /\ pending_' = pending_ /\ stop_' = stop_ /\ by' = by
           /\ cur' \in [Workers -> Tasks \cup {NoTask}]
           /\ status' \in [Tasks -> Status]
           /\ wpc' = [wpc EXCEPT ![w] = "run"]
           /\ wpc' \in [Workers -> WorkerPc]
<1>1. Head(tasks_) \in Tasks /\ Tail(tasks_) \in Seq(Tasks)
      /\ Len(Tail(tasks_)) = Len(tasks_) - 1 /\ Len(tasks_) \in Nat \ {0}
  BY DEF TypeOK
<1> QED
  BY <1>1 DEF TypeOK, Pop, Status, WorkerPc

\* A step that neither starts nor retires a task keeps the set of busy workers.
LEMMA BusyKept ==
    ASSUME \A w \in Workers : wpc'[w] \in {"run", "nested", "retire"}
                               <=> wpc[w] \in {"run", "nested", "retire"}
    PROVE  Busy' = Busy
BY DEF Busy

LEMMA OwnerCounted ==
    ASSUME Counted, OwnerStep PROVE Counted'
<1> USE DEF Counted
<1>1. ASSUME NEW w \in Workers, CreateWorker(w) PROVE Counted'
  <2>1. TypeOK'
    BY <1>1 DEF CreateWorker, TypeOK, WorkerPc, OwnerPc, poolVars, clientVars, callVars, taskVars
  <2>2. Busy' = Busy
    BY <1>1, BusyKept DEF CreateWorker, TypeOK
  <2> QED
    BY <1>1, <2>1, <2>2 DEF Accounting, CreateWorker, poolVars
<1>2. ASSUME CreateFails \/ BeginDestroy PROVE Counted'
  <2>1. TypeOK'
    BY <1>2 DEF CreateFails, BeginDestroy, TypeOK, OwnerPc, workerVars, clientVars, callVars, taskVars
  <2>2. Busy' = Busy
    BY <1>2 DEF CreateFails, BeginDestroy, Busy, workerVars
  <2> QED
    BY <1>2, <2>1, <2>2 DEF Accounting, CreateFails, BeginDestroy
<1>3. ASSUME NotifyStop PROVE Counted'
  <2>1. TypeOK'
    BY <1>3 DEF NotifyStop, TypeOK, WorkerPc, OwnerPc, poolVars, clientVars, callVars, taskVars
  <2>2. Busy' = Busy
    BY <1>3, BusyKept DEF NotifyStop, TypeOK
  <2> QED
    BY <1>3, <2>1, <2>2 DEF Accounting, NotifyStop, poolVars
<1>4. ASSUME JoinAll PROVE Counted'
  BY <1>4 DEF JoinAll, Accounting, TypeOK, OwnerPc, Busy, poolVars, workerVars, clientVars, callVars, taskVars
<1> QED
  BY <1>1, <1>2, <1>3, <1>4 DEF OwnerStep

\* What a client does inside or outside a call keeps the counters right.
LEMMA ClientCounted ==
    ASSUME Counted, NEW c \in Clients, ClientStep(c) PROVE Counted'
<1> USE DEF Counted
<1>1. ASSUME NEW t \in Tasks, Submit(c, t) \/ LaunchChunk(c, t) PROVE Counted'
  <2>1. Enqueue(c, t) /\ wpc' = wpc
    BY <1>1 DEF Submit, LaunchChunk, workerVars
  <2>a. EnqueueEffect
    BY <2>1, EnqueueTypes DEF EnqueueEffect
  <2>b. futures' \in [Clients -> Seq(Tasks)]
    <3>1. futures[c] \in Seq(Tasks) /\ Append(futures[c], t) \in Seq(Tasks)
      BY DEF TypeOK
    <3>2. futures \in [Clients -> Seq(Tasks)]
      BY DEF TypeOK
    <3>3. \/ futures' = futures
          \/ futures' = [futures EXCEPT ![c] = Append(futures[c], t)]
      BY <1>1 DEF Submit, LaunchChunk, callVars
    <3> QED
      BY <3>1, <3>2, <3>3
  <2>c. /\ owner' = owner /\ got' = got /\ firstError' = firstError
        /\ wpc' = wpc /\ spin' = spin /\ cur' = cur
    BY <1>1 DEF Submit, LaunchChunk, workerVars, callVars
  <2>d. cpc' \in [Clients -> ClientPc]
    BY <1>1 DEF Submit, LaunchChunk, TypeOK, ClientPc
  <2>2. TypeOK'
    BY <2>a, <2>b, <2>c, <2>d DEF TypeOK, EnqueueEffect
  <2>3. Busy' = Busy
    BY <2>1 DEF Busy
  <2> QED
    BY <2>a, <2>2, <2>3, EnqueueCounted
<1>2. ASSUME SubmitNotify(c) \/ LaunchNotify(c) PROVE Counted'
  <2>1. /\ wpc' \in [Workers -> WorkerPc]
        /\ \A w \in Workers : \/ wpc'[w] = wpc[w]
                              \/ wpc[w] = "asleep" /\ wpc'[w] = "block"
    BY <1>2, NotifyOneTypes DEF SubmitNotify, LaunchNotify, TypeOK
  <2>2. TypeOK'
    BY <1>2, <2>1
    DEF SubmitNotify, LaunchNotify, TypeOK, ClientPc, poolVars, callVars, taskVars
  <2>3. Busy' = Busy
    BY <2>1, BusyKept
  <2> QED
    BY <1>2, <2>2, <2>3 DEF SubmitNotify, LaunchNotify, Accounting, poolVars
<1>3. ASSUME \/ WaitAllCall(c) \/ WaitAllTest(c) \/ WaitAllSpurious(c) \/ Leave(c)
             \/ BeginParallelFor(c) \/ LaunchDone(c) \/ LaunchFails(c)
      PROVE  Counted'
  <2>1. /\ cpc' \in [Clients -> ClientPc]
        /\ UNCHANGED <<poolVars, owner, workerVars, callVars, taskVars>>
    BY <1>3 DEF WaitAllCall, WaitAllTest, WaitAllSpurious, Leave, BeginParallelFor,
                LaunchDone, LaunchFails, TypeOK, ClientPc
  <2> QED
    BY <2>1 DEF TypeOK, Accounting, Busy, poolVars, workerVars, callVars, taskVars
<1>4. ASSUME GetFuture(c) PROVE Counted'
  <2>1. got[c] \in 0..(Len(futures[c]) - 1) /\ futures[c] \in Seq(Tasks)
    BY <1>4 DEF GetFuture, TypeOK
  <2>2. futures[c][got[c] + 1] \in Tasks /\ got[c] + 1 \in Nat
    BY <2>1
  <2>3. TypeOK' /\ Busy' = Busy
    BY <1>4, <2>2 DEF GetFuture, TypeOK, Busy, poolVars, workerVars, taskVars
  <2> QED
    BY <1>4, <2>3 DEF GetFuture, Accounting, poolVars
<1>5. ASSUME EndParallelFor(c) PROVE Counted'
  BY <1>5 DEF EndParallelFor, TypeOK, ClientPc, Accounting, Busy, poolVars, workerVars, taskVars
<1> QED
  BY <1>1, <1>2, <1>3, <1>4, <1>5 DEF ClientStep, InCall

\* Every step of worker_loop keeps the counters right: a pop moves a task from
\* the queue into Busy, Retire takes its worker out of Busy.
LEMMA WorkerCounted ==
    ASSUME Counted, NEW w \in Workers, WorkerStep(w) PROVE Counted'
<1> USE DEF Counted
<1>1. ASSUME tasks_ # <<>>, wpc[w] \in {"seen", "block"}, Pop(w),
             UNCHANGED <<owner, spin, clientVars>>
      PROVE  Counted'
  <2>1. TypeOK'
    BY <1>1, PopTypes DEF Accounting, TypeOK, clientVars, callVars
  <2>2. Busy' = Busy \cup {w} /\ w \notin Busy
    BY <1>1, PopTypes DEF Busy, TypeOK, Accounting
  <2>3. Cardinality(Busy') = Cardinality(Busy) + 1
    BY <2>2, ThreadSetsFinite, FS_AddElement
  <2>4. Len(tasks_) \in Nat /\ Cardinality(Busy) \in Nat
    BY ThreadSetsFinite DEF TypeOK
  <2>5. /\ queue_size_' = queue_size_ - 1 /\ pending_' = pending_
        /\ Len(tasks_') = Len(tasks_) - 1
    BY <1>1, PopTypes DEF Accounting
  <2> QED
    BY <2>1, <2>3, <2>4, <2>5 DEF Accounting
<1>2. ASSUME UNCHANGED <<poolVars, owner, clientVars, by>>,
             spin' \in [Workers -> 0..SpinBudget], cur' = cur,
             status' \in [Tasks -> Status],
             wpc' \in [Workers -> WorkerPc],
             \A v \in Workers : wpc'[v] \in {"run", "nested", "retire"}
                                 <=> wpc[v] \in {"run", "nested", "retire"}
      PROVE  Counted'
  BY <1>2, BusyKept DEF TypeOK, Accounting, poolVars, clientVars, callVars
<1>3. CASE Peek(w) \/ SpuriousWake(w)
  BY <1>2, <1>3 DEF Peek, SpuriousWake, TypeOK, WorkerPc, taskVars
<1>4. CASE GrabSeen(w)
  BY <1>1, <1>2, <1>4 DEF GrabSeen, TypeOK, WorkerPc, taskVars
<1>5. CASE Block(w)
  BY <1>1, <1>2, <1>5 DEF Block, TypeOK, WorkerPc, taskVars
<1>6. CASE Spin(w)
  <2>a. SpinBudget \in Nat
    BY PoolAssumption
  <2>1. spin' \in [Workers -> 0..SpinBudget]
    <3>1. spin \in [Workers -> 0..SpinBudget]
      BY DEF TypeOK
    <3>2. \/ spin' = spin
          \/ spin[w] < SpinBudget /\ spin' = [spin EXCEPT ![w] = spin[w] + 1]
      BY <1>6 DEF Spin
    <3> QED
      BY <2>a, <3>1, <3>2
  <2> QED
    BY <1>2, <1>6, <2>1 DEF Spin, TypeOK, WorkerPc, taskVars
<1>7. ASSUME NEW t \in Tasks, TaskSubmits(w, t) PROVE Counted'
  <2>1. CASE Enqueue(w, t) /\ wpc' = [wpc EXCEPT ![w] = "nested"]
    <3>0. EnqueueEffect
      BY <2>1, EnqueueTypes
    <3>1. TypeOK'
      BY <1>7, <2>1, <3>0
      DEF TaskSubmits, TypeOK, WorkerPc, clientVars, callVars, EnqueueEffect
    <3>2. Busy' = Busy
      BY <1>7, <2>1, BusyKept DEF TaskSubmits, TypeOK
    <3> QED
      BY <3>0, <3>1, <3>2, EnqueueCounted
  <2>2. CASE UNCHANGED <<poolVars, by, wpc>> /\ status' = [status EXCEPT ![t] = "rejected"]
    BY <1>2, <1>7, <2>2 DEF TaskSubmits, TypeOK, Status
  <2> QED
    BY <1>7, <2>1, <2>2 DEF TaskSubmits
<1>8. CASE TaskNotify(w)
  <2>1. [wpc EXCEPT ![w] = "run"] \in [Workers -> WorkerPc]
    BY DEF TypeOK, WorkerPc
  <2>2. /\ wpc' \in [Workers -> WorkerPc]
        /\ \A v \in Workers : \/ wpc'[v] = [wpc EXCEPT ![w] = "run"][v]
                              \/ /\ [wpc EXCEPT ![w] = "run"][v] = "asleep"
                                 /\ wpc'[v] = "block"
    BY <1>8, <2>1, NotifyOneTypes DEF TaskNotify
  <2> QED
    BY <1>2, <1>8, <2>2 DEF TaskNotify, TypeOK, taskVars
<1>9. CASE FinishTask(w)
  <2>1. status' \in [Tasks -> Status]
    BY <1>9 DEF FinishTask, TypeOK, Status, Settled
  <2> QED
    BY <1>2, <1>9, <2>1 DEF FinishTask, TypeOK, WorkerPc
<1>10. CASE Retire(w)
  <2>1. Busy' = Busy \ {w} /\ w \in Busy
    BY <1>10 DEF Retire, Busy, TypeOK
  <2>2. Cardinality(Busy') = Cardinality(Busy) - 1 /\ Cardinality(Busy') \in Nat
    BY <2>1, ThreadSetsFinite, FS_RemoveElement, FS_CardinalityType
  <2>a. Len(tasks_) \in Nat /\ Cardinality(Busy) \in Nat
    BY ThreadSetsFinite DEF TypeOK
  <2>b. pending_' = Len(tasks_) + Cardinality(Busy')
    BY <1>10, <2>2, <2>a DEF Retire, Accounting
  <2>c. 0 \in 0..SpinBudget
    BY PoolAssumption
  <2>3. pending_' \in Nat /\ spin' \in [Workers -> 0..SpinBudget]
    BY <1>10, <2>2, <2>a, <2>b, <2>c DEF Retire, TypeOK
  <2>4. TypeOK'
    BY <1>10, <2>3 DEF Retire, TypeOK, WorkerPc, clientVars, callVars, taskVars
  <2> QED
    BY <1>10, <2>b, <2>4 DEF Retire, Accounting
<1>11. CASE NotifyDone(w)
  <2>1. TypeOK'
    BY <1>11 DEF NotifyDone, TypeOK, WorkerPc, ClientPc, poolVars, callVars, taskVars
  <2>2. Busy' = Busy
    BY <1>11, BusyKept DEF NotifyDone, TypeOK
  <2> QED
    BY <1>11, <2>1, <2>2 DEF NotifyDone, Accounting, poolVars
<1> QED
  BY <1>3, <1>4, <1>5, <1>6, <1>7, <1>8, <1>9, <1>10, <1>11 DEF WorkerStep, Loop

\* TypeOK and Accounting are preserved together by every step.
LEMMA NextCounted == Counted /\ [Next]_vars => Counted'
<1> SUFFICES ASSUME Counted, [Next]_vars PROVE Counted'
  OBVIOUS
<1>1. CASE UNCHANGED vars
  BY <1>1 DEF Counted, TypeOK, Accounting, Busy, vars, poolVars, workerVars,
              clientVars, callVars, taskVars
<1> QED
  BY <1>1, OwnerCounted, ClientCounted, WorkerCounted DEF Next, Finished

\* The pool's counters are always exact: pending_ is the number of tasks
\* queued or inside a worker, and queue_size_ the length of the queue.
THEOREM CountersExact == Spec => [](TypeOK /\ Accounting)
<1>1. Counted /\ [Next]_vars => Counted'
  BY NextCounted
<1>2. Init => Counted
  BY InitCounted
<1> QED
  BY <1>1, <1>2, PTL DEF Spec, Counted

-----------------------------------------------------------------------------
\* A step that keeps pending_, puts nobody to sleep in wait_all and takes no
\* worker from "notify" cannot lose the notification.
LEMMA NoLostDoneKept ==
    ASSUME NoLostDone, pending_' = pending_,
           \A c \in Clients : cpc'[c] = "waiting" => cpc[c] = "waiting",
           \A w \in Workers : wpc[w] = "notify" => wpc'[w] = "notify"
    PROVE  NoLostDone'
BY DEF NoLostDone

\* Only Retire brings pending_ to zero, and it then owes the notification;
\* only NotifyDone pays it, and leaves nobody waiting.
LEMMA NextNoLostDone == Counted /\ NoLostDone /\ [Next]_vars => NoLostDone'
<1> SUFFICES ASSUME TypeOK, Accounting, NoLostDone, [Next]_vars PROVE NoLostDone'
  BY DEF Counted
<1>1. CASE UNCHANGED vars
  BY <1>1 DEF NoLostDone, vars, poolVars, workerVars, clientVars
<1>2. CASE OwnerStep
  <2>1. /\ pending_' = pending_ /\ cpc' = cpc
        /\ \A w \in Workers : wpc[w] = "notify" => wpc'[w] = "notify"
    BY <1>2 DEF OwnerStep, CreateWorker, CreateFails, BeginDestroy, NotifyStop,
                JoinAll, TypeOK, poolVars, workerVars, clientVars
  <2> QED
    BY <2>1, NoLostDoneKept
<1>3. ASSUME NEW c \in Clients, ClientStep(c) PROVE NoLostDone'
  <2>1. ASSUME NEW t \in Tasks, Submit(c, t) \/ LaunchChunk(c, t) PROVE NoLostDone'
    BY <2>1 DEF Submit, LaunchChunk, Enqueue, NoLostDone, TypeOK
  <2>2. ASSUME SubmitNotify(c) \/ LaunchNotify(c) PROVE NoLostDone'
    <3>1. \A w \in Workers : wpc[w] = "notify" => wpc'[w] = "notify"
      BY <2>2, NotifyOneTypes DEF SubmitNotify, LaunchNotify, TypeOK
    <3> QED
      BY <2>2, <3>1, NoLostDoneKept DEF SubmitNotify, LaunchNotify, TypeOK, poolVars
  <2>3. ASSUME WaitAllTest(c) PROVE NoLostDone'
    <3>1. CASE pending_ = 0
      BY <2>3, <3>1, NoLostDoneKept DEF WaitAllTest, TypeOK, poolVars, workerVars
    <3>2. CASE pending_ # 0
      BY <2>3, <3>2 DEF WaitAllTest, NoLostDone, poolVars
    <3> QED
      BY <3>1, <3>2
  <2>4. ASSUME \/ WaitAllCall(c) \/ WaitAllSpurious(c) \/ Leave(c) \/ BeginParallelFor(c)
               \/ LaunchDone(c) \/ LaunchFails(c) \/ GetFuture(c) \/ EndParallelFor(c)
        PROVE  NoLostDone'
    BY <2>4, NoLostDoneKept
    DEF WaitAllCall, WaitAllSpurious, Leave, BeginParallelFor, LaunchDone, LaunchFails,
        GetFuture, EndParallelFor, TypeOK, poolVars, workerVars
  <2> QED
    BY <1>3, <2>1, <2>2, <2>3, <2>4 DEF ClientStep, InCall
<1>4. ASSUME NEW w \in Workers, WorkerStep(w) PROVE NoLostDone'
  <2>1. CASE Retire(w)
    BY <2>1 DEF Retire, NoLostDone, TypeOK, clientVars
  <2>2. CASE NotifyDone(w)
    BY <2>2 DEF NotifyDone, NoLostDone
  <2>3. CASE \/ Peek(w) \/ GrabSeen(w) \/ Spin(w) \/ Block(w) \/ FinishTask(w)
             \/ SpuriousWake(w)
    BY <2>3, NoLostDoneKept
    DEF Peek, GrabSeen, Spin, Block, Pop, FinishTask, SpuriousWake, TypeOK, poolVars, clientVars
  <2>4. CASE TaskNotify(w)
    <3>1. \A v \in Workers : wpc[v] = "notify" => wpc'[v] = "notify"
      BY <2>4 DEF TaskNotify, NotifyOne, TypeOK
    <3> QED
      BY <2>4, <3>1, NoLostDoneKept DEF TaskNotify, poolVars, clientVars
  <2>5. ASSUME NEW t \in Tasks, TaskSubmits(w, t) PROVE NoLostDone'
    <3>1. CASE Enqueue(w, t)
      BY <3>1 DEF Enqueue, NoLostDone, TypeOK
    <3>2. CASE UNCHANGED <<poolVars, by, wpc>>
      BY <2>5, <3>2, NoLostDoneKept DEF TaskSubmits, poolVars, clientVars
    <3> QED
      BY <2>5, <3>1, <3>2 DEF TaskSubmits
  <2> QED
    BY <1>4, <2>1, <2>2, <2>3, <2>4, <2>5 DEF WorkerStep, Loop
<1> QED
  BY <1>1, <1>2, <1>3, <1>4 DEF Next, Finished, vars

\* No interleaving loses the notification a thread in wait_all depends on.
THEOREM DoneNotificationKept == Spec => []NoLostDone
<1>1. Init => Counted /\ NoLostDone
  BY InitCounted DEF Init, NoLostDone
<1>2. Counted /\ NoLostDone /\ [Next]_vars => (Counted /\ NoLostDone)'
  BY NextCounted, NextNoLostDone
<1> QED
  BY <1>1, <1>2, PTL DEF Spec

-----------------------------------------------------------------------------
\* The queue does not outgrow those who will come for it when nobody stops
\* seeking or notifying and nothing is queued.
LEMMA WorkConservingKept ==
    ASSUME WorkConserving, TypeOK, tasks_' = tasks_,
           Seekers \subseteq Seekers', Notifiers \subseteq Notifiers',
           \A w \in Workers : wpc'[w] = "asleep" => wpc[w] = "asleep"
    PROVE  WorkConserving'
<1>1. /\ IsFiniteSet(Seekers') /\ Cardinality(Seekers') \in Nat
      /\ IsFiniteSet(Notifiers') /\ Cardinality(Notifiers') \in Nat
  BY ThreadSetsFinite, FiniteAfter
<1>2. /\ Cardinality(Seekers) <= Cardinality(Seekers')
      /\ Cardinality(Notifiers) <= Cardinality(Notifiers')
  BY <1>1, FS_Subset
<1>3. /\ Cardinality(Seekers) \in Nat /\ Cardinality(Notifiers) \in Nat
      /\ Len(tasks_) \in Nat
  BY ThreadSetsFinite DEF TypeOK
<1> QED
  BY <1>1, <1>2, <1>3 DEF WorkConserving

\* A task is accepted: its submitter owes a notify_one from now on.
LEMMA WorkConservingEnqueue ==
    ASSUME WorkConserving, TypeOK, EnqueueEffect, NEW x,
           x \notin Notifiers, Notifiers' = Notifiers \cup {x}, Seekers' = Seekers,
           \A w \in Workers : wpc'[w] = "asleep" => wpc[w] = "asleep"
    PROVE  WorkConserving'
<1>1. Cardinality(Notifiers') = Cardinality(Notifiers) + 1
  BY ThreadSetsFinite, FS_AddElement
<1>2. /\ Cardinality(Seekers) \in Nat /\ Cardinality(Notifiers) \in Nat
      /\ Len(tasks_) \in Nat
  BY ThreadSetsFinite DEF TypeOK
<1>3. Len(tasks_') = Len(tasks_) + 1
  BY DEF EnqueueEffect
<1>4. Cardinality(Seekers') = Cardinality(Seekers)
  OBVIOUS
<1> QED
  BY <1>1, <1>2, <1>3, <1>4 DEF WorkConserving

\* The notification is delivered: a sleeping worker becomes a seeker, or none
\* is asleep.
LEMMA WorkConservingNotify ==
    ASSUME WorkConserving, TypeOK, tasks_' = tasks_, NEW x,
           x \in Notifiers, Notifiers' = Notifiers \ {x},
           NEW pc \in [Workers -> WorkerPc], NotifyOne(pc),
           Seekers = {w \in Workers : pc[w] \in {"top", "seen", "miss", "block"}},
           \A w \in Workers : pc[w] = "asleep" <=> wpc[w] = "asleep"
    PROVE  WorkConserving'
<1>1. CASE \A w \in Workers : pc[w] # "asleep" /\ wpc' = pc
  BY <1>1 DEF WorkConserving
<1>2. ASSUME NEW v \in Workers, pc[v] = "asleep", wpc' = [pc EXCEPT ![v] = "block"]
      PROVE  WorkConserving'
  <2>1. Seekers' = Seekers \cup {v} /\ v \notin Seekers
    BY <1>2 DEF Seekers
  <2>2. Cardinality(Seekers') = Cardinality(Seekers) + 1
    BY <2>1, ThreadSetsFinite, FS_AddElement
  <2>3. Cardinality(Notifiers') = Cardinality(Notifiers) - 1
    BY ThreadSetsFinite, FS_RemoveElement
  <2>4. /\ Cardinality(Seekers) \in Nat /\ Cardinality(Notifiers) \in Nat
        /\ Len(tasks_) \in Nat /\ wpc[v] = "asleep"
    BY <1>2, ThreadSetsFinite DEF TypeOK
  <2> QED
    BY <2>2, <2>3, <2>4 DEF WorkConserving
<1> QED
  BY <1>1, <1>2 DEF NotifyOne

\* A pop takes one task and one seeker away.
LEMMA WorkConservingPop ==
    ASSUME WorkConserving, TypeOK, Accounting, NEW w \in Workers, tasks_ # <<>>,
           wpc[w] \in {"seen", "block"}, Pop(w), cpc' = cpc
    PROVE  WorkConserving'
<1>1. /\ Len(tasks_') = Len(tasks_) - 1
      /\ wpc' = [wpc EXCEPT ![w] = "run"]
  BY PopTypes DEF Accounting
<1>2. /\ Seekers' = Seekers \ {w} /\ w \in Seekers
      /\ Notifiers' = Notifiers
      /\ \A v \in Workers : wpc'[v] = "asleep" => wpc[v] = "asleep"
  BY <1>1 DEF Seekers, Notifiers, TypeOK
<1>3. Cardinality(Seekers') = Cardinality(Seekers) - 1
  BY <1>2, ThreadSetsFinite, FS_RemoveElement
<1>4. /\ Cardinality(Seekers) \in Nat /\ Cardinality(Notifiers) \in Nat
      /\ Len(tasks_) \in Nat /\ Cardinality(Notifiers') = Cardinality(Notifiers)
  BY <1>2, ThreadSetsFinite DEF TypeOK
<1> QED
  BY <1>1, <1>2, <1>3, <1>4 DEF WorkConserving

\* With nothing queued there is nothing to strand.
LEMMA WorkConservingEmpty ==
    ASSUME tasks_' = <<>> PROVE WorkConserving'
<1>1. /\ Cardinality(Seekers') \in Nat /\ Cardinality(Notifiers') \in Nat
      /\ Len(tasks_') = 0
  BY FiniteAfter
<1> QED
  BY <1>1 DEF WorkConserving

\* Every step keeps a seeker or a notification for each queued task as long as
\* some worker sleeps.
LEMMA NextWorkConserving ==
    Counted /\ WorkConserving /\ [Next]_vars => WorkConserving'
<1> SUFFICES ASSUME TypeOK, Accounting, WorkConserving, [Next]_vars PROVE WorkConserving'
  BY DEF Counted
<1>0. Workers \cap Clients = {}
  BY PoolAssumption
<1>1. CASE UNCHANGED vars
  <2>1. tasks_' = tasks_ /\ wpc' = wpc /\ cpc' = cpc
    BY <1>1 DEF vars, poolVars, workerVars, clientVars
  <2> QED
    BY <2>1, WorkConservingKept DEF Seekers, Notifiers
<1>2. CASE OwnerStep
  <2>1. tasks_' = tasks_ /\ cpc' = cpc
    BY <1>2 DEF OwnerStep, CreateWorker, CreateFails, BeginDestroy, NotifyStop,
                JoinAll, poolVars, clientVars
  <2>2. /\ Seekers \subseteq Seekers' /\ Notifiers \subseteq Notifiers'
        /\ \A w \in Workers : wpc'[w] = "asleep" => wpc[w] = "asleep"
    BY <1>2, <2>1 DEF OwnerStep, CreateWorker, CreateFails, BeginDestroy, NotifyStop,
                JoinAll, TypeOK, workerVars, Seekers, Notifiers
  <2> QED
    BY <2>1, <2>2, WorkConservingKept
<1>3. ASSUME NEW c \in Clients, ClientStep(c) PROVE WorkConserving'
  <2>1. ASSUME NEW t \in Tasks, Submit(c, t) \/ LaunchChunk(c, t) PROVE WorkConserving'
    <3>1. EnqueueEffect /\ wpc' = wpc
      BY <2>1, EnqueueTypes DEF Submit, LaunchChunk, workerVars
    <3>2. c \notin Notifiers /\ Notifiers' = Notifiers \cup {c}
      BY <1>0, <2>1, <3>1 DEF Submit, LaunchChunk, Notifiers, TypeOK
    <3> QED
      BY <3>1, <3>2, WorkConservingEnqueue DEF Seekers
  <2>2. ASSUME SubmitNotify(c) \/ LaunchNotify(c) PROVE WorkConserving'
    <3>1. /\ NotifyOne(wpc) /\ tasks_' = tasks_ /\ wpc \in [Workers -> WorkerPc]
          /\ cpc[c] \in {"wake", "launched"}
          /\ \/ cpc' = [cpc EXCEPT ![c] = "idle"]
             \/ cpc' = [cpc EXCEPT ![c] = "launch"]
      BY <2>2 DEF SubmitNotify, LaunchNotify, poolVars, TypeOK
    <3>2. \A w \in Workers : wpc'[w] = "nested" <=> wpc[w] = "nested"
      BY <3>1, NotifyOneTypes
    <3>3. c \in Notifiers /\ Notifiers' = Notifiers \ {c}
      BY <1>0, <3>1, <3>2 DEF Notifiers, TypeOK
    <3> QED
      BY <3>1, <3>3, WorkConservingNotify DEF Seekers
  <2>3. ASSUME \/ WaitAllTest(c) \/ WaitAllCall(c) \/ WaitAllSpurious(c) \/ Leave(c)
               \/ BeginParallelFor(c) \/ LaunchDone(c) \/ LaunchFails(c)
               \/ GetFuture(c) \/ EndParallelFor(c)
        PROVE  WorkConserving'
    <3>1. tasks_' = tasks_ /\ wpc' = wpc
      BY <2>3 DEF WaitAllTest, WaitAllCall, WaitAllSpurious, Leave, BeginParallelFor,
                  LaunchDone, LaunchFails, GetFuture, EndParallelFor, poolVars, workerVars
    <3>2. Notifiers \subseteq Notifiers'
      BY <2>3, <3>1 DEF WaitAllTest, WaitAllCall, WaitAllSpurious, Leave, BeginParallelFor,
                  LaunchDone, LaunchFails, GetFuture, EndParallelFor, Notifiers, TypeOK
    <3> QED
      BY <3>1, <3>2, WorkConservingKept DEF Seekers
  <2> QED
    BY <1>3, <2>1, <2>2, <2>3 DEF ClientStep, InCall
<1>4. ASSUME NEW w \in Workers, WorkerStep(w) PROVE WorkConserving'
  <2>1. CASE (GrabSeen(w) \/ Block(w)) /\ tasks_ # <<>>
    BY <2>1, WorkConservingPop DEF GrabSeen, Block, clientVars
  <2>2. CASE (GrabSeen(w) \/ Block(w)) /\ tasks_ = <<>>
    BY <2>2, WorkConservingEmpty DEF GrabSeen, Block, poolVars
  <2>3. CASE \/ Peek(w) \/ Spin(w) \/ SpuriousWake(w) \/ FinishTask(w) \/ Retire(w)
             \/ NotifyDone(w)
    <3>1. tasks_' = tasks_
      BY <2>3 DEF Peek, Spin, SpuriousWake, FinishTask, Retire, NotifyDone, poolVars
    <3>2. /\ Seekers \subseteq Seekers'
          /\ \A v \in Workers : wpc'[v] = "asleep" => wpc[v] = "asleep"
      BY <2>3 DEF Peek, Spin, SpuriousWake, FinishTask, Retire, NotifyDone, Seekers, TypeOK
    <3>3. Notifiers \subseteq Notifiers'
      BY <2>3 DEF Peek, Spin, SpuriousWake, FinishTask, Retire, NotifyDone, Notifiers,
                  TypeOK, clientVars
    <3> QED
      BY <3>1, <3>2, <3>3, WorkConservingKept
  <2>4. CASE TaskNotify(w)
    <3> DEFINE pc == [wpc EXCEPT ![w] = "run"]
    <3>1. /\ NotifyOne(pc) /\ tasks_' = tasks_ /\ cpc' = cpc
          /\ pc \in [Workers -> WorkerPc]
      BY <2>4 DEF TaskNotify, TypeOK, WorkerPc, poolVars, clientVars
    <3>2. /\ wpc[w] = "nested" /\ pc[w] = "run"
          /\ \A v \in Workers : v # w => pc[v] = wpc[v]
      BY <2>4 DEF TaskNotify, TypeOK
    <3> HIDE DEF pc
    <3>3. \A v \in Workers : wpc'[v] = "nested" <=> pc[v] = "nested"
      BY <3>1, NotifyOneTypes
    <3>4. w \in Notifiers /\ Notifiers' = Notifiers \ {w}
      BY <1>0, <3>1, <3>2, <3>3 DEF Notifiers
    <3>5. /\ Seekers = {v \in Workers : pc[v] \in {"top", "seen", "miss", "block"}}
          /\ \A v \in Workers : pc[v] = "asleep" <=> wpc[v] = "asleep"
      BY <3>2 DEF Seekers
    <3> QED
      BY <3>1, <3>4, <3>5, WorkConservingNotify
  <2>5. ASSUME NEW t \in Tasks, TaskSubmits(w, t) PROVE WorkConserving'
    <3>1. CASE Enqueue(w, t) /\ wpc' = [wpc EXCEPT ![w] = "nested"]
      <4>1. EnqueueEffect
        BY <3>1, EnqueueTypes
      <4>2. w \notin Notifiers /\ Notifiers' = Notifiers \cup {w}
        BY <1>0, <2>5, <3>1 DEF TaskSubmits, Notifiers, TypeOK, clientVars
      <4>3. /\ Seekers' = Seekers
            /\ \A v \in Workers : wpc'[v] = "asleep" => wpc[v] = "asleep"
        BY <2>5, <3>1 DEF TaskSubmits, Seekers, TypeOK
      <4> QED
        BY <4>1, <4>2, <4>3, WorkConservingEnqueue
    <3>2. CASE UNCHANGED <<poolVars, by, wpc>>
      <4>1. tasks_' = tasks_ /\ wpc' = wpc /\ cpc' = cpc
        BY <2>5, <3>2 DEF TaskSubmits, poolVars, clientVars
      <4> QED
        BY <4>1, WorkConservingKept DEF Seekers, Notifiers
    <3> QED
      BY <2>5, <3>1, <3>2 DEF TaskSubmits
  <2> QED
    BY <1>4, <2>1, <2>2, <2>3, <2>4, <2>5 DEF WorkerStep, Loop
<1> QED
  BY <1>1, <1>2, <1>3, <1>4 DEF Next, Finished

\* The pool is work-conserving: no schedule leaves a queued task without a
\* worker on its way to it, or a notification to be made, while one sleeps.
THEOREM PoolWorkConserving == Spec => []WorkConserving
<1>1. Init => Counted /\ WorkConserving
  BY InitCounted DEF Init, WorkConserving
<1>2. Counted /\ WorkConserving /\ [Next]_vars => (Counted /\ WorkConserving)'
  BY NextCounted, NextWorkConserving
<1> QED
  BY <1>1, <1>2, PTL DEF Spec
-----------------------------------------------------------------------------
(* The life of a task.  A queued task is in the queue, once; a running one  *)
(* is in the hands of one worker; and a task that was accepted is queued,   *)
(* running or settled.                                                      *)

Carries(w) == wpc[w] \in {"run", "nested"}

Queued ==
    /\ \A i \in 1..Len(tasks_) : status[tasks_[i]] = "queued"
    /\ \A i, j \in 1..Len(tasks_) : tasks_[i] = tasks_[j] => i = j
    /\ \A t \in Tasks : status[t] = "queued" => \E i \in 1..Len(tasks_) : tasks_[i] = t

Carried ==
    /\ \A w \in Workers : Carries(w) => cur[w] \in Tasks /\ status[cur[w]] = "running"
    /\ \A v, w \in Workers : Carries(v) /\ Carries(w) /\ cur[v] = cur[w] => v = w
    /\ \A t \in Tasks : status[t] = "running" => \E w \in Workers : Carries(w) /\ cur[w] = t

Accepted == {"queued", "running"} \cup Settled

Tracked ==
    /\ Queued /\ Carried
    /\ \A t \in Tasks : by[t] # NoTask => status[t] \in Accepted

\* The ways a step can touch the life of a task: not at all, or by accepting,
\* refusing, starting or finishing one.
TasksAlone ==
    /\ UNCHANGED <<tasks_, status, by>>
    /\ \A w \in Workers : Carries(w)' <=> Carries(w)
    /\ \A w \in Workers : Carries(w) => cur'[w] = cur[w]
TaskAccepted == \E p \in Workers \cup Clients, t \in Tasks :
    /\ Enqueue(p, t)
    /\ UNCHANGED cur /\ \A w \in Workers : Carries(w)' <=> Carries(w)
TaskRefused == \E t \in Tasks :
    /\ status[t] = "new" /\ status' = [status EXCEPT ![t] = "rejected"]
    /\ UNCHANGED <<tasks_, by, cur, wpc>>
TaskStarted == \E w \in Workers :
    /\ ~Carries(w) /\ tasks_ # <<>> /\ Pop(w)
TaskFinished == \E w \in Workers, s \in Settled :
    /\ wpc[w] = "run" /\ wpc' = [wpc EXCEPT ![w] = "retire"]
    /\ status' = [status EXCEPT ![cur[w]] = s]
    /\ UNCHANGED <<tasks_, by, cur>>
TaskStep == TasksAlone \/ TaskAccepted \/ TaskRefused \/ TaskStarted \/ TaskFinished

\* A step that leaves the task variables and every worker alone.
LEMMA WorkersAlone ==
    ASSUME UNCHANGED <<tasks_, status, by, cur, wpc>> PROVE TasksAlone
BY DEF TasksAlone, Carries

\* notify_one and the other wake-ups touch no worker that carries a task.
LEMMA CarriersAlone ==
    ASSUME UNCHANGED <<tasks_, status, by, cur>>,
           \A w \in Workers : wpc'[w] \in {"run", "nested"} <=> wpc[w] \in {"run", "nested"}
    PROVE  TasksAlone
BY DEF TasksAlone, Carries

LEMMA OwnerTasks == TypeOK /\ OwnerStep => TasksAlone
<1> SUFFICES ASSUME TypeOK, OwnerStep PROVE TasksAlone
  OBVIOUS
<1>1. UNCHANGED <<tasks_, status, by, cur>>
  BY DEF OwnerStep, CreateWorker, CreateFails, BeginDestroy, NotifyStop, JoinAll, poolVars,
         workerVars, taskVars
<1>2. \A w \in Workers : wpc'[w] \in {"run", "nested"} <=> wpc[w] \in {"run", "nested"}
  BY DEF OwnerStep, CreateWorker, CreateFails, BeginDestroy, NotifyStop, JoinAll, TypeOK, workerVars
<1> QED
  BY <1>1, <1>2, CarriersAlone

LEMMA ClientTasks ==
    ASSUME TypeOK, NEW c \in Clients, ClientStep(c) PROVE TasksAlone \/ TaskAccepted
<1>1. ASSUME NEW t \in Tasks, Submit(c, t) \/ LaunchChunk(c, t) PROVE TaskAccepted
  <2>1. Enqueue(c, t) /\ UNCHANGED <<cur, wpc>>
    BY <1>1 DEF Submit, LaunchChunk, workerVars
  <2>2. \A w \in Workers : Carries(w)' <=> Carries(w)
    BY <2>1 DEF Carries
  <2> QED
    BY <2>1, <2>2 DEF TaskAccepted
<1>2. ASSUME SubmitNotify(c) \/ LaunchNotify(c) PROVE TasksAlone
  <2>1. \A w \in Workers : wpc'[w] = wpc[w] \/ (wpc[w] = "asleep" /\ wpc'[w] = "block")
    BY <1>2, NotifyOneTypes DEF SubmitNotify, LaunchNotify, TypeOK
  <2> QED
    BY <1>2, <2>1, CarriersAlone DEF SubmitNotify, LaunchNotify, poolVars, taskVars
<1>3. ASSUME \/ WaitAllCall(c) \/ WaitAllTest(c) \/ WaitAllSpurious(c) \/ Leave(c)
             \/ BeginParallelFor(c) \/ LaunchDone(c) \/ LaunchFails(c) \/ GetFuture(c)
             \/ EndParallelFor(c)
      PROVE  TasksAlone
  BY <1>3, WorkersAlone
  DEF WaitAllCall, WaitAllTest, WaitAllSpurious, Leave, BeginParallelFor, LaunchDone, LaunchFails,
      GetFuture, EndParallelFor, poolVars, workerVars, taskVars
<1> QED
  BY <1>1, <1>2, <1>3 DEF ClientStep, InCall

LEMMA WorkerTasks ==
    ASSUME TypeOK, NEW w \in Workers, WorkerStep(w) PROVE TaskStep
<1>1. CASE Peek(w) \/ Spin(w) \/ SpuriousWake(w) \/ NotifyDone(w)
  BY <1>1, CarriersAlone
  DEF TaskStep, Peek, Spin, SpuriousWake, NotifyDone, TypeOK, poolVars, taskVars
<1>2. CASE GrabSeen(w) \/ Block(w)
  <2>1. CASE tasks_ # <<>> /\ Pop(w)
    BY <1>2, <2>1 DEF TaskStep, TaskStarted, GrabSeen, Block, Carries
  <2>2. CASE tasks_ = <<>>
    BY <1>2, <2>2, CarriersAlone DEF TaskStep, GrabSeen, Block, TypeOK, poolVars, taskVars
  <2> QED
    BY <1>2, <2>1, <2>2 DEF GrabSeen, Block
<1>3. ASSUME NEW t \in Tasks, TaskSubmits(w, t) PROVE TaskStep
  <2>1. CASE Enqueue(w, t) /\ wpc' = [wpc EXCEPT ![w] = "nested"]
    <3>1. \A v \in Workers : Carries(v)' <=> Carries(v)
      BY <1>3, <2>1 DEF TaskSubmits, TypeOK, Carries
    <3> QED
      BY <1>3, <2>1, <3>1 DEF TaskSubmits, TaskStep, TaskAccepted
  <2>2. CASE /\ status[t] = "new" /\ status' = [status EXCEPT ![t] = "rejected"]
             /\ UNCHANGED <<poolVars, by, wpc>>
    BY <1>3, <2>2 DEF TaskSubmits, TaskStep, TaskRefused, poolVars
  <2> QED
    BY <1>3, <2>1, <2>2 DEF TaskSubmits
<1>4. CASE TaskNotify(w)
  <2>1. [wpc EXCEPT ![w] = "run"] \in [Workers -> WorkerPc]
    BY DEF TypeOK, WorkerPc
  <2>2. \A v \in Workers : \/ wpc'[v] = [wpc EXCEPT ![w] = "run"][v]
                           \/ [wpc EXCEPT ![w] = "run"][v] = "asleep" /\ wpc'[v] = "block"
    BY <1>4, <2>1, NotifyOneTypes DEF TaskNotify
  <2>3. \A v \in Workers : wpc'[v] \in {"run", "nested"} <=> wpc[v] \in {"run", "nested"}
    BY <1>4, <2>2 DEF TaskNotify, TypeOK
  <2> QED
    BY <1>4, <2>3, CarriersAlone DEF TaskStep, TaskNotify, poolVars, taskVars
<1>5. CASE FinishTask(w)
  BY <1>5 DEF FinishTask, TaskStep, TaskFinished, poolVars
<1>6. CASE Retire(w)
  <2>1. \A v \in Workers : Carries(v)' <=> Carries(v)
    BY <1>6 DEF Retire, TypeOK, Carries
  <2>2. \A v \in Workers : Carries(v) => cur'[v] = cur[v]
    BY <1>6 DEF Retire, TypeOK, Carries
  <2> QED
    BY <1>6, <2>1, <2>2 DEF Retire, TaskStep, TasksAlone, taskVars
<1> QED
  BY <1>1, <1>2, <1>3, <1>4, <1>5, <1>6 DEF WorkerStep, Loop

LEMMA NextTasks == TypeOK /\ [Next]_vars => TaskStep
<1>1. UNCHANGED vars => TasksAlone
  BY WorkersAlone DEF vars, poolVars, workerVars, taskVars
<1> QED
  BY <1>1, OwnerTasks, ClientTasks, WorkerTasks DEF Next, Finished, TaskStep

\* Each of those ways keeps track of every task.
LEMMA TrackedKept == TypeOK /\ Tracked /\ TaskStep => Tracked'
<1> SUFFICES ASSUME TypeOK, Tracked, TaskStep PROVE Tracked'
  OBVIOUS
<1>1. tasks_ \in Seq(Tasks) /\ status \in [Tasks -> Status] /\ by \in [Tasks -> Workers \cup Clients \cup {NoTask}]
      /\ wpc \in [Workers -> WorkerPc] /\ cur \in [Workers -> Tasks \cup {NoTask}]
      /\ Len(tasks_) \in Nat /\ \A i \in 1..Len(tasks_) : tasks_[i] \in Tasks
  BY DEF TypeOK
<1>2. CASE TasksAlone
  <2>1. Queued'
    BY <1>2 DEF Tracked, Queued, TasksAlone
  <2>2. Carried'
    BY <1>2 DEF Tracked, Carried, TasksAlone
  <2> QED
    BY <1>2, <2>1, <2>2 DEF Tracked, TasksAlone
<1>3. CASE TaskAccepted
  <2>1. PICK p \in Workers \cup Clients, t \in Tasks :
          Enqueue(p, t) /\ UNCHANGED cur /\ \A w \in Workers : Carries(w)' <=> Carries(w)
    BY <1>3 DEF TaskAccepted
  <2>2. /\ status[t] = "new" /\ status' = [status EXCEPT ![t] = "queued"]
        /\ tasks_' = Append(tasks_, t) /\ by' = [by EXCEPT ![t] = p]
    BY <2>1 DEF Enqueue
  <2>3. /\ status'[t] = "queued" /\ \A u \in Tasks : u # t => status'[u] = status[u]
        /\ by'[t] = p /\ \A u \in Tasks : u # t => by'[u] = by[u]
    BY <1>1, <2>2
  <2>4. /\ Len(tasks_') = Len(tasks_) + 1 /\ tasks_'[Len(tasks_) + 1] = t
        /\ \A i \in 1..Len(tasks_) : tasks_'[i] = tasks_[i]
    BY <1>1, <2>2
  <2>5. Queued'
    <3>1. \A i \in 1..Len(tasks_) : tasks_[i] # t
      BY <2>2 DEF Tracked, Queued
    <3>2. \A i \in 1..Len(tasks_') : status'[tasks_'[i]] = "queued"
      BY <1>1, <2>3, <2>4, <3>1 DEF Tracked, Queued
    <3>3. \A i, j \in 1..Len(tasks_') : tasks_'[i] = tasks_'[j] => i = j
      BY <1>1, <2>4, <3>1 DEF Tracked, Queued
    <3>4. \A u \in Tasks : status'[u] = "queued" => \E i \in 1..Len(tasks_') : tasks_'[i] = u
      <4> SUFFICES ASSUME NEW u \in Tasks, status'[u] = "queued"
                   PROVE  \E i \in 1..Len(tasks_') : tasks_'[i] = u
        OBVIOUS
      <4>1. CASE u = t
        <5>1. Len(tasks_) + 1 \in 1..Len(tasks_')
          BY <1>1, <2>4
        <5> QED
          BY <4>1, <5>1, <2>4
      <4>2. CASE u # t
        <5>1. PICK i \in 1..Len(tasks_) : tasks_[i] = u
          BY <2>3, <4>2 DEF Tracked, Queued
        <5>2. i \in 1..Len(tasks_') /\ tasks_'[i] = u
          BY <1>1, <2>4, <5>1
        <5> QED
          BY <5>2
      <4> QED
        BY <4>1, <4>2
    <3> QED
      BY <3>2, <3>3, <3>4 DEF Queued
  <2>6. Carried'
    <3>1. \A u \in Tasks : status'[u] = "running" <=> status[u] = "running"
      BY <2>2, <2>3
    <3> QED
      BY <2>1, <3>1 DEF Tracked, Carried
  <2>7. \A u \in Tasks : by'[u] # NoTask => status'[u] \in Accepted
    BY <2>3 DEF Tracked, Accepted
  <2> QED
    BY <2>5, <2>6, <2>7 DEF Tracked
<1>4. CASE TaskRefused
  <2>1. PICK t \in Tasks : /\ status[t] = "new" /\ status' = [status EXCEPT ![t] = "rejected"]
                           /\ UNCHANGED <<tasks_, by, cur, wpc>>
    BY <1>4 DEF TaskRefused
  <2>2. status'[t] = "rejected" /\ \A u \in Tasks : u # t => status'[u] = status[u]
    BY <1>1, <2>1
  <2>3. \A u \in Tasks : /\ status'[u] = "queued" <=> status[u] = "queued"
                         /\ status'[u] = "running" <=> status[u] = "running"
    BY <2>1, <2>2
  <2>4. Queued'
    BY <1>1, <2>1, <2>3 DEF Tracked, Queued
  <2>5. Carried'
    BY <2>1, <2>3 DEF Tracked, Carried, Carries
  <2>6. \A u \in Tasks : by'[u] # NoTask => status'[u] \in Accepted
    BY <2>1, <2>2 DEF Tracked, Accepted, Settled
  <2> QED
    BY <2>4, <2>5, <2>6 DEF Tracked
<1>5. CASE TaskStarted
  <2>1. PICK w \in Workers : ~Carries(w) /\ tasks_ # <<>> /\ Pop(w)
    BY <1>5 DEF TaskStarted
  <2> DEFINE t == tasks_[1]
  <2>2. /\ Len(tasks_) >= 1 /\ t \in Tasks /\ t = Head(tasks_)
        /\ Len(Tail(tasks_)) = Len(tasks_) - 1
        /\ \A i \in 1..(Len(tasks_) - 1) : Tail(tasks_)[i] = tasks_[i + 1]
    BY <1>1, <2>1
  <2> HIDE DEF t
  <2>3. /\ tasks_' = Tail(tasks_) /\ cur' = [cur EXCEPT ![w] = t]
        /\ status' = [status EXCEPT ![t] = "running"] /\ wpc' = [wpc EXCEPT ![w] = "run"] /\ by' = by
    BY <2>1, <2>2 DEF Pop
  <2>4. /\ status'[t] = "running" /\ \A u \in Tasks : u # t => status'[u] = status[u]
        /\ cur'[w] = t /\ \A v \in Workers : v # w => cur'[v] = cur[v]
        /\ Carries(w)' /\ \A v \in Workers : v # w => (Carries(v)' <=> Carries(v))
    BY <1>1, <2>2, <2>3 DEF Carries
  <2>5. status[t] = "queued" /\ \A i \in 1..Len(tasks_) : tasks_[i] = t => i = 1
    BY <1>1, <2>2 DEF Tracked, Queued, t
  <2>6. Queued'
    <3>1. \A i \in 1..(Len(tasks_) - 1) : /\ tasks_'[i] = tasks_[i + 1] /\ i + 1 \in 1..Len(tasks_)
                                          /\ tasks_[i + 1] # t /\ tasks_[i + 1] \in Tasks
      BY <1>1, <2>2, <2>3, <2>5
    <3>2. Len(tasks_') = Len(tasks_) - 1
      BY <2>2, <2>3
    <3>3. \A i \in 1..Len(tasks_') : status'[tasks_'[i]] = "queued"
      BY <2>4, <3>1, <3>2 DEF Tracked, Queued
    <3>4. \A i, j \in 1..Len(tasks_') : tasks_'[i] = tasks_'[j] => i = j
      <4> SUFFICES ASSUME NEW i \in 1..Len(tasks_'), NEW j \in 1..Len(tasks_'), tasks_'[i] = tasks_'[j]
                   PROVE  i = j
        OBVIOUS
      <4>1. tasks_[i + 1] = tasks_[j + 1] /\ i + 1 \in 1..Len(tasks_) /\ j + 1 \in 1..Len(tasks_)
        BY <3>1, <3>2
      <4>2. i + 1 = j + 1
        BY <4>1 DEF Tracked, Queued
      <4> QED
        BY <4>2, <1>1
    <3>5. \A u \in Tasks : status'[u] = "queued" => \E i \in 1..Len(tasks_') : tasks_'[i] = u
      <4> SUFFICES ASSUME NEW u \in Tasks, status'[u] = "queued"
                   PROVE  \E i \in 1..Len(tasks_') : tasks_'[i] = u
        OBVIOUS
      <4>1. u # t /\ status[u] = "queued"
        BY <2>4
      <4>2. PICK j \in 1..Len(tasks_) : tasks_[j] = u
        BY <4>1 DEF Tracked, Queued
      <4>3. j # 1
        BY <4>1, <4>2 DEF t
      <4>4. j - 1 \in 1..(Len(tasks_) - 1) /\ (j - 1) + 1 = j
        BY <1>1, <4>2, <4>3
      <4>5. tasks_'[j - 1] = u
        BY <3>1, <4>2, <4>4
      <4> QED
        BY <3>2, <4>4, <4>5
    <3> QED
      BY <3>3, <3>4, <3>5 DEF Queued
  <2>7. Carried'
    <3>1. \A v \in Workers : Carries(v) => cur[v] # t
      BY <2>5 DEF Tracked, Carried
    <3>2. \A v \in Workers : Carries(v)' => cur'[v] \in Tasks /\ status'[cur'[v]] = "running"
      BY <2>2, <2>4, <3>1 DEF Tracked, Carried
    <3>3. \A u, v \in Workers : Carries(u)' /\ Carries(v)' /\ cur'[u] = cur'[v] => u = v
      BY <2>4, <3>1 DEF Tracked, Carried
    <3>4. \A u \in Tasks : status'[u] = "running" => \E v \in Workers : Carries(v)' /\ cur'[v] = u
      <4> SUFFICES ASSUME NEW u \in Tasks, status'[u] = "running"
                   PROVE  \E v \in Workers : Carries(v)' /\ cur'[v] = u
        OBVIOUS
      <4>1. CASE u = t
        BY <2>4, <4>1
      <4>2. CASE u # t
        <5>1. PICK v \in Workers : Carries(v) /\ cur[v] = u
          BY <2>4, <4>2 DEF Tracked, Carried
        <5>2. v # w
          BY <2>1, <5>1
        <5> QED
          BY <2>4, <5>1, <5>2
      <4> QED
        BY <4>1, <4>2
    <3> QED
      BY <3>2, <3>3, <3>4 DEF Carried
  <2>8. \A u \in Tasks : by'[u] # NoTask => status'[u] \in Accepted
    BY <2>3, <2>4 DEF Tracked, Accepted
  <2> QED
    BY <2>6, <2>7, <2>8 DEF Tracked
<1>6. CASE TaskFinished
  <2>1. PICK w \in Workers, s \in Settled :
          /\ wpc[w] = "run" /\ wpc' = [wpc EXCEPT ![w] = "retire"]
          /\ status' = [status EXCEPT ![cur[w]] = s] /\ UNCHANGED <<tasks_, by, cur>>
    BY <1>6 DEF TaskFinished
  <2>2. cur[w] \in Tasks /\ status[cur[w]] = "running" /\ Carries(w)
    BY <2>1 DEF Tracked, Carried, Carries
  <2>3. /\ status'[cur[w]] = s /\ \A u \in Tasks : u # cur[w] => status'[u] = status[u]
        /\ ~Carries(w)' /\ \A v \in Workers : v # w => (Carries(v)' <=> Carries(v))
    BY <1>1, <2>1, <2>2 DEF Carries
  <2>4. Queued'
    <3>1. \A u \in Tasks : status'[u] = "queued" <=> status[u] = "queued"
      BY <2>2, <2>3 DEF Settled
    <3> QED
      BY <1>1, <2>1, <3>1 DEF Tracked, Queued
  <2>5. Carried'
    <3>1. \A v \in Workers : Carries(v)' => v # w /\ Carries(v) /\ cur[v] # cur[w]
      BY <2>2, <2>3 DEF Tracked, Carried
    <3>2. \A v \in Workers : Carries(v)' => cur'[v] \in Tasks /\ status'[cur'[v]] = "running"
      BY <2>1, <2>3, <3>1 DEF Tracked, Carried
    <3>3. \A u, v \in Workers : Carries(u)' /\ Carries(v)' /\ cur'[u] = cur'[v] => u = v
      BY <2>1, <3>1 DEF Tracked, Carried
    <3>4. \A u \in Tasks : status'[u] = "running" => \E v \in Workers : Carries(v)' /\ cur'[v] = u
      <4> SUFFICES ASSUME NEW u \in Tasks, status'[u] = "running"
                   PROVE  \E v \in Workers : Carries(v)' /\ cur'[v] = u
        OBVIOUS
      <4>1. u # cur[w] /\ status[u] = "running"
        BY <2>3 DEF Settled
      <4>2. PICK v \in Workers : Carries(v) /\ cur[v] = u
        BY <4>1 DEF Tracked, Carried
      <4>3. v # w
        BY <4>1, <4>2
      <4> QED
        BY <2>1, <2>3, <4>2, <4>3
    <3> QED
      BY <3>2, <3>3, <3>4 DEF Carried
  <2>6. \A u \in Tasks : by'[u] # NoTask => status'[u] \in Accepted
    BY <2>1, <2>3 DEF Tracked, Accepted
  <2> QED
    BY <2>4, <2>5, <2>6 DEF Tracked
<1> QED
  BY <1>2, <1>3, <1>4, <1>5, <1>6 DEF TaskStep

\* A future that is ready stays as it is.
LEMMA SettledStays ==
    ASSUME TypeOK, Tracked, TaskStep, NEW t \in Tasks, status[t] \in Settled
    PROVE  status'[t] = status[t]
<1>1. CASE TasksAlone
  BY <1>1 DEF TasksAlone
<1>2. CASE TaskAccepted \/ TaskRefused
  BY <1>2 DEF TaskAccepted, TaskRefused, Enqueue, TypeOK, Settled
<1>3. CASE TaskStarted
  <2>1. PICK w \in Workers : tasks_ # <<>> /\ Pop(w)
    BY <1>3 DEF TaskStarted
  <2>2. Head(tasks_) = tasks_[1] /\ 1 \in 1..Len(tasks_)
    BY <2>1 DEF TypeOK
  <2>3. status[Head(tasks_)] = "queued"
    BY <2>2 DEF Tracked, Queued
  <2> QED
    BY <2>1, <2>3 DEF Pop, TypeOK, Settled
<1>4. CASE TaskFinished
  <2>1. PICK w \in Workers, s \in Settled : wpc[w] = "run" /\ status' = [status EXCEPT ![cur[w]] = s]
    BY <1>4 DEF TaskFinished
  <2>2. status[cur[w]] = "running"
    BY <2>1 DEF Tracked, Carried, Carries
  <2> QED
    BY <2>1, <2>2 DEF TypeOK, Settled
<1> QED
  BY <1>1, <1>2, <1>3, <1>4 DEF TaskStep

LEMMA InitTracked == Init => Tracked
BY DEF Init, Tracked, Queued, Carried, Carries

Followed == Counted /\ Tracked

LEMMA FollowedAlways == Spec => []Followed
<1>1. Init => Followed
  BY InitCounted, InitTracked DEF Followed
<1>2. Followed /\ [Next]_vars => Followed'
  BY NextCounted, NextTasks, TrackedKept DEF Followed, Counted
<1> QED
  BY <1>1, <1>2, PTL DEF Spec

\* With nothing pending, no task is queued and none is running.
LEMMA NothingPending ==
    ASSUME Followed, pending_ = 0
    PROVE  \A t \in Tasks : status[t] \notin {"queued", "running"}
<1>1. Len(tasks_) \in Nat /\ Cardinality(Busy) \in Nat /\ IsFiniteSet(Busy)
  BY ThreadSetsFinite DEF Followed, Counted, TypeOK
<1>2. Len(tasks_) = 0 /\ Cardinality(Busy) = 0
  BY <1>1 DEF Followed, Counted, Accounting
<1>3. Busy = {}
  BY <1>1, <1>2, FS_EmptySet
<1>4. \A w \in Workers : ~Carries(w)
  BY <1>3 DEF Busy, Carries
<1> QED
  BY <1>2, <1>4 DEF Followed, Tracked, Queued, Carried

\* wait_all returns only when all its caller had accepted has run.
THEOREM WaitAllIsComplete == Spec => WaitAllCovers
<1> DEFINE A == \A c \in Clients : cpc[c] = "waitall" /\ cpc'[c] = "idle" =>
                  \A t \in Tasks : by[t] = c => status[t] \in Settled
<1>1. Followed /\ [Next]_vars => [A]_vars
  <2> SUFFICES ASSUME Followed, Next, NEW c \in Clients, cpc[c] = "waitall", cpc'[c] = "idle",
                      NEW t \in Tasks, by[t] = c
               PROVE  status[t] \in Settled
    OBVIOUS
  <2>1. WaitAllTest(c)
    <3>1. TypeOK
      BY DEF Followed, Counted
    <3>2. ~OwnerStep /\ ~Finished
      BY DEF OwnerStep, CreateWorker, CreateFails, BeginDestroy, NotifyStop, JoinAll, Finished,
             clientVars, vars
    <3>3. \A w \in Workers : ~WorkerStep(w)
      BY <3>1 DEF WorkerStep, Loop, Peek, GrabSeen, Spin, Block, TaskNotify, FinishTask, Retire,
             NotifyDone, SpuriousWake, TaskSubmits, clientVars, TypeOK
    <3>4. PICK d \in Clients : ClientStep(d)
      BY <3>2, <3>3 DEF Next
    <3>5. d = c
      BY <3>1, <3>4 DEF ClientStep, InCall, Submit, SubmitNotify, WaitAllCall, WaitAllTest, WaitAllSpurious,
         Leave, BeginParallelFor, LaunchChunk, LaunchNotify, LaunchDone, LaunchFails, GetFuture,
         EndParallelFor, TypeOK
    <3> QED
      BY <3>4, <3>5 DEF ClientStep, InCall, Submit, SubmitNotify, WaitAllCall, WaitAllSpurious,
         Leave, BeginParallelFor, LaunchChunk, LaunchNotify, LaunchDone, LaunchFails, GetFuture,
         EndParallelFor
  <2>2. pending_ = 0
    BY <2>1 DEF WaitAllTest, Followed, Counted, TypeOK
  <2>3. status[t] \notin {"queued", "running"}
    BY <2>2, NothingPending
  <2>4. c # NoTask
    BY PoolAssumption
  <2> QED
    BY <2>3, <2>4 DEF Followed, Tracked, Accepted
<1>2. Spec => [][A]_vars
  BY <1>1, FollowedAlways, PTL DEF Spec
<1> QED
  BY <1>2 DEF WaitAllCovers
-----------------------------------------------------------------------------
(* The teardown.  A worker returns only from a stopped pool with an empty    *)
(* queue, and a stopped pool accepts nothing; a pool without workers has     *)
(* never had a caller.                                                      *)

Stopped == owner \in {"failing", "stopping", "joining", "destroyed"} => stop_
LeftEmpty == (\E w \in Workers : wpc[w] = "exited") => stop_ /\ tasks_ = <<>>
Staffed == Created = {} =>
    owner # "live" /\ tasks_ = <<>> /\ \A c \in Clients : cpc[c] \in {"idle", "gone"}
Joined == owner = "destroyed" => \A w \in Workers : wpc[w] \in {"none", "exited"}
Teardown == Stopped /\ LeftEmpty /\ Staffed /\ Joined

LEMMA InitTeardown == Init => Teardown
BY DEF Init, Teardown, Stopped, LeftEmpty, Staffed, Joined

\* A worker that is created stays created.
LEMMA CreatedGrows ==
    ASSUME \A w \in Workers : wpc[w] # "none" => wpc'[w] # "none", Created' = {}
    PROVE  Created = {}
BY DEF Created

\* A step of a thread that neither starts nor ends, at a pool that keeps its
\* owner and its queue.
LEMMA TeardownKept ==
    ASSUME Teardown, UNCHANGED <<owner, stop_, tasks_>>,
           \A w \in Workers : /\ wpc[w] # "none" => wpc'[w] # "none"
                              /\ wpc'[w] = "exited" => wpc[w] = "exited"
                              /\ wpc[w] \in {"none", "exited"} => wpc'[w] = wpc[w],
           \A c \in Clients : cpc[c] \in {"idle", "gone"} =>
                cpc'[c] \in {"idle", "gone"} \/ owner = "live"
    PROVE  Teardown'
<1>1. Stopped' /\ LeftEmpty' /\ Joined'
  BY DEF Teardown, Stopped, LeftEmpty, Joined
<1>2. Staffed'
  BY CreatedGrows DEF Teardown, Staffed
<1> QED
  BY <1>1, <1>2 DEF Teardown

\* An accepted task: the pool is not stopped and has a worker.
LEMMA TeardownEnqueue ==
    ASSUME TypeOK, Teardown, NEW p, NEW t, Enqueue(p, t), owner' = owner, Created # {},
           \A w \in Workers : /\ wpc[w] # "none" => wpc'[w] # "none"
                              /\ wpc'[w] = "exited" => wpc[w] = "exited"
                              /\ wpc[w] \in {"none", "exited"} => wpc'[w] = wpc[w]
    PROVE  Teardown'
<1>1. ~stop_ /\ stop_' = stop_
  BY DEF Enqueue
<1>2. Stopped' /\ Joined'
  BY <1>1 DEF Teardown, Stopped, Joined
<1>3. LeftEmpty'
  BY <1>1 DEF Teardown, LeftEmpty
<1>4. Staffed'
  BY CreatedGrows DEF Staffed
<1> QED
  BY <1>2, <1>3, <1>4 DEF Teardown

LEMMA OwnerTeardown == TypeOK /\ Teardown /\ OwnerStep => Teardown'
<1> SUFFICES ASSUME TypeOK, Teardown, OwnerStep PROVE Teardown'
  OBVIOUS
<1>1. ASSUME NEW w \in Workers, CreateWorker(w) PROVE Teardown'
  <2>1. /\ wpc'[w] = "top" /\ \A v \in Workers : v # w => wpc'[v] = wpc[v]
        /\ UNCHANGED <<stop_, tasks_, cpc>> /\ owner' \in {"live", "building"}
    BY <1>1 DEF CreateWorker, TypeOK, poolVars, clientVars
  <2>2. Created' # {}
    BY <2>1 DEF Created
  <2> QED
    BY <2>1, <2>2 DEF Teardown, Stopped, LeftEmpty, Staffed, Joined
<1>2. ASSUME CreateFails \/ BeginDestroy PROVE Teardown'
  <2>1. /\ stop_' = TRUE /\ UNCHANGED <<tasks_, wpc, cpc>> /\ owner' \in {"failing", "stopping"}
    BY <1>2 DEF CreateFails, BeginDestroy, workerVars, clientVars
  <2> QED
    BY <2>1 DEF Teardown, Stopped, LeftEmpty, Staffed, Joined, Created
<1>3. ASSUME NotifyStop PROVE Teardown'
  <2>1. /\ UNCHANGED <<stop_, tasks_, cpc>> /\ owner' = "joining" /\ owner \in {"failing", "stopping"}
        /\ \A w \in Workers : wpc'[w] = IF wpc[w] = "asleep" THEN "block" ELSE wpc[w]
    BY <1>3 DEF NotifyStop, poolVars, clientVars
  <2>2. Staffed'
    BY <2>1, CreatedGrows DEF Teardown, Staffed
  <2> QED
    BY <2>1, <2>2 DEF Teardown, Stopped, LeftEmpty, Joined
<1>4. ASSUME JoinAll PROVE Teardown'
  <2>1. /\ UNCHANGED <<stop_, tasks_, cpc, wpc>> /\ owner' = "destroyed" /\ owner = "joining"
        /\ \A w \in Created : wpc[w] = "exited"
    BY <1>4 DEF JoinAll, poolVars, workerVars, clientVars
  <2> QED
    BY <2>1 DEF Teardown, Stopped, LeftEmpty, Staffed, Joined, Created
<1> QED
  BY <1>1, <1>2, <1>3, <1>4 DEF OwnerStep

LEMMA ClientTeardown ==
    ASSUME TypeOK, Teardown, NEW c \in Clients, ClientStep(c) PROVE Teardown'
<1>1. ASSUME NEW t \in Tasks, Submit(c, t) \/ LaunchChunk(c, t) PROVE Teardown'
  <2>1. Enqueue(c, t) /\ UNCHANGED <<owner, wpc>>
    BY <1>1 DEF Submit, LaunchChunk, workerVars
  <2>2. Created # {}
    BY <1>1 DEF Submit, LaunchChunk, Teardown, Staffed
  <2> QED
    BY <2>1, <2>2, TeardownEnqueue
<1>2. ASSUME SubmitNotify(c) \/ LaunchNotify(c) PROVE Teardown'
  <2>1. \A w \in Workers : wpc'[w] = wpc[w] \/ (wpc[w] = "asleep" /\ wpc'[w] = "block")
    BY <1>2, NotifyOneTypes DEF SubmitNotify, LaunchNotify, TypeOK
  <2>2. UNCHANGED <<owner, stop_, tasks_>>
    BY <1>2 DEF SubmitNotify, LaunchNotify, poolVars
  <2>3. \A d \in Clients : cpc[d] \in {"idle", "gone"} => cpc'[d] \in {"idle", "gone"}
    BY <1>2 DEF SubmitNotify, LaunchNotify, TypeOK
  <2> QED
    BY <2>1, <2>2, <2>3, TeardownKept
<1>3. ASSUME \/ WaitAllCall(c) \/ WaitAllTest(c) \/ WaitAllSpurious(c) \/ Leave(c)
             \/ BeginParallelFor(c) \/ LaunchDone(c) \/ LaunchFails(c) \/ GetFuture(c)
             \/ EndParallelFor(c)
      PROVE  Teardown'
  <2>1. UNCHANGED <<owner, stop_, tasks_, wpc>>
    BY <1>3 DEF WaitAllCall, WaitAllTest, WaitAllSpurious, Leave, BeginParallelFor, LaunchDone,
      LaunchFails, GetFuture, EndParallelFor, poolVars, workerVars
  <2>2. \A d \in Clients : cpc[d] \in {"idle", "gone"} =>
             cpc'[d] \in {"idle", "gone"} \/ owner = "live"
    BY <1>3 DEF WaitAllCall, WaitAllTest, WaitAllSpurious, Leave, BeginParallelFor, LaunchDone,
      LaunchFails, GetFuture, EndParallelFor, TypeOK
  <2> QED
    BY <2>1, <2>2, TeardownKept
<1> QED
  BY <1>1, <1>2, <1>3 DEF ClientStep, InCall

LEMMA WorkerTeardown ==
    ASSUME TypeOK, Teardown, NEW w \in Workers, WorkerStep(w) PROVE Teardown'
<1>1. wpc[w] \notin {"none", "exited"} /\ Created # {}
  BY DEF WorkerStep, Loop, Peek, GrabSeen, Spin, Block, TaskNotify, FinishTask, Retire,
         NotifyDone, SpuriousWake, TaskSubmits, Created
<1>2. CASE \/ Peek(w) \/ Spin(w) \/ SpuriousWake(w) \/ FinishTask(w) \/ Retire(w) \/ NotifyDone(w)
  <2>1. UNCHANGED <<owner, stop_, tasks_>>
    BY <1>2 DEF Peek, Spin, SpuriousWake, FinishTask, Retire, NotifyDone, poolVars
  <2>2. \A v \in Workers : /\ wpc[v] # "none" => wpc'[v] # "none"
                           /\ wpc'[v] = "exited" => wpc[v] = "exited"
                           /\ wpc[v] \in {"none", "exited"} => wpc'[v] = wpc[v]
    BY <1>1, <1>2 DEF Peek, Spin, SpuriousWake, FinishTask, Retire, NotifyDone, TypeOK
  <2>3. \A d \in Clients : cpc[d] \in {"idle", "gone"} => cpc'[d] \in {"idle", "gone"}
    BY <1>2 DEF Peek, Spin, SpuriousWake, FinishTask, Retire, NotifyDone, TypeOK, clientVars
  <2> QED
    BY <2>1, <2>2, <2>3, TeardownKept
<1>3. CASE (GrabSeen(w) \/ Block(w)) /\ tasks_ # <<>>
  <2>1. Pop(w) /\ UNCHANGED <<owner, cpc>>
    BY <1>3 DEF GrabSeen, Block, clientVars
  <2>2. /\ wpc'[w] = "run" /\ \A v \in Workers : v # w => wpc'[v] = wpc[v]
        /\ stop_' = stop_
    BY <2>1 DEF Pop, TypeOK
  <2>3. LeftEmpty' /\ Stopped'
    BY <1>3, <2>1, <2>2 DEF Teardown, LeftEmpty, Stopped
  <2>4. Staffed' /\ Joined'
    BY <1>1, <2>1, <2>2 DEF Teardown, Staffed, Joined, Created
  <2> QED
    BY <2>3, <2>4 DEF Teardown
<1>4. CASE (GrabSeen(w) \/ Block(w)) /\ tasks_ = <<>>
  <2>1. /\ UNCHANGED <<owner, cpc, stop_, tasks_>>
        /\ \A v \in Workers : v # w => wpc'[v] = wpc[v]
        /\ wpc'[w] \in {"miss", "asleep"} \/ (stop_ /\ wpc'[w] = "exited")
    BY <1>4 DEF GrabSeen, Block, TypeOK, clientVars, poolVars
  <2>2. LeftEmpty' /\ Stopped'
    BY <1>4, <2>1 DEF Teardown, LeftEmpty, Stopped
  <2>3. Staffed' /\ Joined'
    BY <1>1, <2>1 DEF Teardown, Staffed, Joined, Created
  <2> QED
    BY <2>2, <2>3 DEF Teardown
<1>5. ASSUME NEW t \in Tasks, TaskSubmits(w, t) PROVE Teardown'
  <2>1. \A v \in Workers : /\ wpc[v] # "none" => wpc'[v] # "none"
                           /\ wpc'[v] = "exited" => wpc[v] = "exited"
                           /\ wpc[v] \in {"none", "exited"} => wpc'[v] = wpc[v]
    BY <1>1, <1>5 DEF TaskSubmits, TypeOK
  <2>2. UNCHANGED <<owner, cpc>>
    BY <1>5 DEF TaskSubmits, clientVars
  <2>3. CASE Enqueue(w, t)
    BY <1>1, <2>1, <2>2, <2>3, TeardownEnqueue
  <2>4. CASE UNCHANGED poolVars
    BY <2>1, <2>2, <2>4, TeardownKept DEF poolVars
  <2> QED
    BY <1>5, <2>3, <2>4 DEF TaskSubmits
<1>6. CASE TaskNotify(w)
  <2>1. [wpc EXCEPT ![w] = "run"] \in [Workers -> WorkerPc]
    BY DEF TypeOK, WorkerPc
  <2>2. \A v \in Workers : \/ wpc'[v] = [wpc EXCEPT ![w] = "run"][v]
                           \/ [wpc EXCEPT ![w] = "run"][v] = "asleep" /\ wpc'[v] = "block"
    BY <1>6, <2>1, NotifyOneTypes DEF TaskNotify
  <2>3. \A v \in Workers : /\ wpc[v] # "none" => wpc'[v] # "none"
                           /\ wpc'[v] = "exited" => wpc[v] = "exited"
                           /\ wpc[v] \in {"none", "exited"} => wpc'[v] = wpc[v]
    BY <1>1, <2>2 DEF TypeOK
  <2> QED
    BY <1>6, <2>3, TeardownKept DEF TaskNotify, poolVars, clientVars
<1> QED
  BY <1>2, <1>3, <1>4, <1>5, <1>6 DEF WorkerStep, Loop

\* When the pool is gone, so is everything it had accepted.
THEOREM DestructionDrains == Spec => []DestroyDrains
<1>1. TypeOK /\ Teardown /\ [Next]_vars => Teardown'
  <2>1. UNCHANGED vars /\ Teardown => Teardown'
    BY DEF Teardown, Stopped, LeftEmpty, Staffed, Joined, Created, vars, poolVars, workerVars, clientVars
  <2> QED
    BY <2>1, OwnerTeardown, ClientTeardown, WorkerTeardown DEF Next, Finished
<1>2. Followed /\ Teardown => DestroyDrains
  <2> SUFFICES ASSUME Followed, Teardown, owner = "destroyed" PROVE DestroyDrains
    BY DEF DestroyDrains
  <2>1. \A w \in Workers : wpc[w] \in {"none", "exited"}
    BY DEF Teardown, Joined
  <2>2. tasks_ = <<>>
    BY <2>1 DEF Teardown, LeftEmpty, Staffed, Created
  <2>3. Busy = {}
    BY <2>1 DEF Busy
  <2>4. pending_ = 0
    BY <2>2, <2>3, FS_EmptySet DEF Followed, Counted, Accounting
  <2> QED
    BY <2>1, <2>4, NothingPending DEF DestroyDrains
<1>3. Followed => TypeOK
  BY DEF Followed, Counted
<1> QED
  BY <1>1, <1>2, <1>3, FollowedAlways, InitTeardown, PTL DEF Spec
-----------------------------------------------------------------------------
(* A parallel_for call: the futures it has got are settled, and while it     *)
(* drains them firstError is the first of those that failed.                 *)

FirstFailure(c) ==
    /\ firstError[c] = NoTask => \A i \in 1..got[c] : status[futures[c][i]] # "error"
    /\ firstError[c] # NoTask =>
         \E i \in 1..got[c] : /\ firstError[c] = futures[c][i] /\ status[futures[c][i]] = "error"
                              /\ \A j \in 1..(i - 1) : status[futures[c][j]] # "error"

CallBooks(c) ==
    /\ got[c] <= Len(futures[c])
    /\ cpc[c] \notin {"drain", "unwind"} => got[c] = 0 /\ firstError[c] = NoTask
    /\ \A i \in 1..got[c] : status[futures[c][i]] \in Settled
    /\ cpc[c] = "drain" => FirstFailure(c)

AllCalls == \A c \in Clients : CallBooks(c)

LEMMA InitCalls == Init => AllCalls
BY DEF Init, AllCalls, CallBooks

LEMMA FutureTypes ==
    ASSUME TypeOK, NEW c \in Clients, CallBooks(c)
    PROVE  /\ got[c] \in Nat /\ Len(futures[c]) \in Nat
           /\ \A i \in 1..Len(futures[c]) : futures[c][i] \in Tasks /\ futures[c][i] # NoTask
           /\ \A i \in 1..got[c] : i \in 1..Len(futures[c]) /\ futures[c][i] \in Tasks
<1>1. got[c] \in Nat /\ futures[c] \in Seq(Tasks) /\ Len(futures[c]) \in Nat
  BY DEF TypeOK
<1> QED
  BY <1>1, PoolAssumption DEF CallBooks

\* Whatever settles elsewhere, a call that only moves from one phase to
\* another, and not into a drain or out of one, keeps its books.
LEMMA CallKept ==
    ASSUME TypeOK, NEW c \in Clients, CallBooks(c),
           \A t \in Tasks : status[t] \in Settled => status'[t] = status[t],
           got'[c] = got[c], firstError'[c] = firstError[c], Len(futures'[c]) \in Nat, Len(futures'[c]) >= Len(futures[c]),
           \A i \in 1..got[c] : futures'[c][i] = futures[c][i],
           \/ cpc'[c] = cpc[c]
           \/ cpc[c] \notin {"drain", "unwind"}
    PROVE  CallBooks(c)'
<1> DEFINE s(i) == status[futures[c][i]]
           sNext(i) == status'[futures'[c][i]]
<1>1. /\ got[c] \in Nat /\ got[c] <= Len(futures[c]) /\ Len(futures[c]) \in Nat
      /\ Len(futures'[c]) >= Len(futures[c])
  BY FutureTypes DEF CallBooks
<1>2. \A i \in 1..got[c] : s(i) \in Settled /\ sNext(i) = s(i)
  BY FutureTypes DEF CallBooks
<1>3. \A i \in 1..got[c] : \A j \in 1..(i - 1) : j \in 1..got[c]
  BY <1>1
<1> HIDE DEF s, sNext
<1>4. FirstFailure(c) <=>
        /\ firstError[c] = NoTask => \A i \in 1..got[c] : s(i) # "error"
        /\ firstError[c] # NoTask =>
             \E i \in 1..got[c] : /\ firstError[c] = futures[c][i] /\ s(i) = "error"
                                  /\ \A j \in 1..(i - 1) : s(j) # "error"
  BY DEF FirstFailure, s
<1>5. FirstFailure(c)' <=>
        /\ firstError[c] = NoTask => \A i \in 1..got[c] : sNext(i) # "error"
        /\ firstError[c] # NoTask =>
             \E i \in 1..got[c] : /\ firstError[c] = futures'[c][i] /\ sNext(i) = "error"
                                  /\ \A j \in 1..(i - 1) : sNext(j) # "error"
  BY DEF FirstFailure, sNext
<1>6. FirstFailure(c) => FirstFailure(c)'
  BY <1>2, <1>3, <1>4, <1>5
<1>7. cpc[c] \notin {"drain", "unwind"} => FirstFailure(c)'
  <2> SUFFICES ASSUME cpc[c] \notin {"drain", "unwind"} PROVE FirstFailure(c)'
    OBVIOUS
  <2>1. got[c] = 0 /\ firstError[c] = NoTask
    BY DEF CallBooks
  <2> QED
    BY <1>5, <2>1
<1>8. \A i \in 1..got'[c] : status'[futures'[c][i]] \in Settled
  BY <1>2 DEF sNext
<1>9. got'[c] <= Len(futures'[c])
  BY <1>1
<1> QED
  BY <1>6, <1>7, <1>8, <1>9 DEF CallBooks

\* future.get() in launch order: the first error found is the first launched.
LEMMA CallGets ==
    ASSUME TypeOK, NEW c \in Clients, CallBooks(c), GetFuture(c)
    PROVE  CallBooks(c)'
<1> DEFINE n == got[c] + 1
           t == futures[c][n]
           e == firstError[c]
<1>1. /\ got[c] \in Nat /\ Len(futures[c]) \in Nat /\ got[c] < Len(futures[c])
      /\ n \in 1..Len(futures[c]) /\ t \in Tasks /\ t # NoTask
      /\ cpc[c] \in {"drain", "unwind"} /\ status[t] \in Settled
  BY FutureTypes DEF GetFuture
<1>2. /\ UNCHANGED <<cpc, futures, status>> /\ got'[c] = n
      /\ firstError'[c] = IF cpc[c] = "drain" /\ status[t] = "error" /\ e = NoTask THEN t ELSE e
  BY DEF GetFuture, TypeOK, taskVars
<1>3. \A i \in 1..n : i \in 1..got[c] \/ i = n
  BY <1>1
<1> HIDE DEF n, t, e
<1>4. got'[c] <= Len(futures'[c])
  BY <1>1, <1>2 DEF n
<1>5. \A i \in 1..got'[c] : status'[futures'[c][i]] \in Settled
  BY <1>1, <1>2, <1>3 DEF CallBooks, t
<1>6. ASSUME cpc[c] = "drain" PROVE FirstFailure(c)'
  <2>1. FirstFailure(c)
    BY <1>6 DEF CallBooks
  <2>2. \A i \in 1..got[c] : i \in 1..n /\ \A j \in 1..(i - 1) : j \in 1..got[c]
    BY <1>1 DEF n
  <2>3. n \in 1..n /\ \A j \in 1..(n - 1) : j \in 1..got[c]
    BY <1>1 DEF n
  <2>4. CASE status[t] = "error" /\ e = NoTask
    <3>1. \A i \in 1..got[c] : status[futures[c][i]] # "error"
      BY <2>1, <2>4 DEF FirstFailure, e
    <3>2. firstError'[c] = t /\ t # NoTask /\ t = futures[c][n]
      BY <1>1, <1>2, <1>6, <2>4 DEF t
    <3> QED
      BY <1>2, <2>3, <2>4, <3>1, <3>2 DEF FirstFailure
  <2>5. CASE e # NoTask
    <3>1. PICK i \in 1..got[c] : /\ e = futures[c][i] /\ status[futures[c][i]] = "error"
                                 /\ \A j \in 1..(i - 1) : status[futures[c][j]] # "error"
      BY <2>1, <2>5 DEF FirstFailure, e
    <3>2. firstError'[c] = e /\ i \in 1..n
      BY <1>2, <2>2, <2>5
    <3> QED
      BY <1>2, <2>5, <3>1, <3>2 DEF FirstFailure
  <2>6. CASE e = NoTask /\ status[t] # "error"
    <3>1. \A i \in 1..n : status[futures[c][i]] # "error"
      BY <1>3, <2>1, <2>6 DEF FirstFailure, e, t
    <3>2. firstError'[c] = NoTask
      BY <1>2, <2>6
    <3> QED
      BY <1>2, <3>1, <3>2 DEF FirstFailure
  <2> QED
    BY <2>4, <2>5, <2>6
<1> QED
  BY <1>1, <1>2, <1>4, <1>5, <1>6 DEF CallBooks

LEMMA ClientCalls ==
    ASSUME TypeOK, TypeOK', AllCalls, NEW c \in Clients, ClientStep(c),
           \A t \in Tasks : status[t] \in Settled => status'[t] = status[t]
    PROVE  AllCalls'
<1>0. \A d \in Clients : Len(futures'[d]) \in Nat /\ Len(futures[d]) \in Nat
  BY DEF TypeOK
<1>1. ASSUME NEW t \in Tasks, LaunchChunk(c, t) PROVE AllCalls'
  <2>1. /\ \A d \in Clients : d # c => futures'[d] = futures[d] /\ cpc'[d] = cpc[d]
        /\ futures'[c] = Append(futures[c], t) /\ UNCHANGED <<got, firstError>>
        /\ cpc[c] = "launch" /\ futures[c] \in Seq(Tasks)
    BY <1>1 DEF LaunchChunk, TypeOK
  <2>2. Len(futures'[c]) >= Len(futures[c])
    BY <2>1
  <2>3. got[c] = 0
    BY <2>1 DEF AllCalls, CallBooks
  <2>4. CallBooks(c)'
    BY <1>0, <2>1, <2>2, <2>3, CallKept DEF AllCalls
  <2>5. ASSUME NEW d \in Clients, d # c PROVE CallBooks(d)'
    <3>1. Len(futures'[d]) >= Len(futures[d])
      BY <1>0, <2>1, <2>5
    <3> QED
      BY <1>0, <2>1, <2>5, <3>1, CallKept DEF AllCalls
  <2> QED
    BY <2>4, <2>5 DEF AllCalls
<1>2. ASSUME \/ \E t \in Tasks : Submit(c, t)
             \/ SubmitNotify(c) \/ LaunchNotify(c)
             \/ WaitAllCall(c) \/ WaitAllTest(c) \/ WaitAllSpurious(c) \/ Leave(c)
             \/ BeginParallelFor(c) \/ LaunchDone(c) \/ LaunchFails(c)
      PROVE  AllCalls'
  <2>1. UNCHANGED <<futures, got, firstError>>
    BY <1>2 DEF Submit, SubmitNotify, LaunchNotify, WaitAllCall, WaitAllTest, WaitAllSpurious, Leave,
       BeginParallelFor, LaunchDone, LaunchFails, callVars
  <2>2. cpc[c] \notin {"drain", "unwind"} /\ \A d \in Clients : d # c => cpc'[d] = cpc[d]
    BY <1>2 DEF Submit, SubmitNotify, LaunchNotify, WaitAllCall, WaitAllTest, WaitAllSpurious, Leave,
       BeginParallelFor, LaunchDone, LaunchFails, TypeOK
  <2>3. ASSUME NEW d \in Clients PROVE CallBooks(d)'
    <3>1. Len(futures'[d]) >= Len(futures[d])
      BY <1>0, <2>1
    <3> QED
      BY <1>0, <2>1, <2>2, <3>1, CallKept DEF AllCalls
  <2> QED
    BY <2>3 DEF AllCalls
<1>3. ASSUME GetFuture(c) \/ EndParallelFor(c) PROVE AllCalls'
  <2>1. CallBooks(c)'
    <3>1. CASE GetFuture(c)
      BY <3>1, CallGets DEF AllCalls
    <3>2. CASE EndParallelFor(c)
      <4>1. cpc'[c] = "idle" /\ futures'[c] = <<>> /\ got'[c] = 0 /\ firstError'[c] = NoTask
        BY <3>2 DEF EndParallelFor, TypeOK
      <4> QED
        BY <4>1 DEF CallBooks
    <3> QED
      BY <1>3, <3>1, <3>2
  <2>2. \A d \in Clients : d # c => futures'[d] = futures[d] /\ got'[d] = got[d]
                                    /\ firstError'[d] = firstError[d] /\ cpc'[d] = cpc[d]
    BY <1>3 DEF GetFuture, EndParallelFor, TypeOK
  <2>3. ASSUME NEW d \in Clients, d # c PROVE CallBooks(d)'
    <3>1. Len(futures'[d]) >= Len(futures[d])
      BY <1>0, <2>2, <2>3
    <3> QED
      BY <1>0, <2>2, <2>3, <3>1, CallKept DEF AllCalls
  <2> QED
    BY <2>1, <2>3 DEF AllCalls
<1> QED
  BY <1>1, <1>2, <1>3 DEF ClientStep, InCall

\* Threads that are not in the call settle its futures and wake it, no more.
LEMMA OtherCalls ==
    ASSUME TypeOK, TypeOK', AllCalls, UNCHANGED callVars,
           \A t \in Tasks : status[t] \in Settled => status'[t] = status[t],
           \A c \in Clients : cpc'[c] = cpc[c] \/ (cpc[c] = "waiting" /\ cpc'[c] = "waitall")
    PROVE  AllCalls'
<1>1. ASSUME NEW d \in Clients PROVE CallBooks(d)'
  <2>1. Len(futures'[d]) \in Nat /\ Len(futures'[d]) >= Len(futures[d])
    BY DEF TypeOK, callVars
  <2>2. cpc'[d] = cpc[d] \/ cpc[d] \notin {"drain", "unwind"}
    OBVIOUS
  <2> QED
    BY <2>1, <2>2, CallKept DEF AllCalls, callVars
<1> QED
  BY <1>1 DEF AllCalls

LEMMA WorkerCpc ==
    ASSUME TypeOK, \/ OwnerStep \/ Finished \/ UNCHANGED vars
                   \/ \E w \in Workers : WorkerStep(w)
    PROVE  /\ UNCHANGED callVars
           /\ \A c \in Clients : cpc'[c] = cpc[c] \/ (cpc[c] = "waiting" /\ cpc'[c] = "waitall")
<1>1. ASSUME NEW w \in Workers, NotifyDone(w)
      PROVE  \A c \in Clients : cpc'[c] = cpc[c] \/ (cpc[c] = "waiting" /\ cpc'[c] = "waitall")
  BY <1>1 DEF NotifyDone, TypeOK
<1>2. OwnerStep \/ Finished \/ UNCHANGED vars => cpc' = cpc
  BY DEF OwnerStep, CreateWorker, CreateFails, BeginDestroy, NotifyStop, JoinAll, Finished, vars, clientVars
<1>3. \A w \in Workers : WorkerStep(w) => cpc' = cpc \/ NotifyDone(w)
  BY DEF WorkerStep, Loop, Peek, GrabSeen, Spin, Block, TaskNotify, FinishTask, Retire,
         SpuriousWake, TaskSubmits, clientVars
<1>4. UNCHANGED callVars
  BY DEF OwnerStep, CreateWorker, CreateFails, BeginDestroy, NotifyStop, JoinAll, Finished, vars, clientVars,
         WorkerStep, Loop, Peek, GrabSeen, Spin, Block, TaskNotify, FinishTask, Retire, NotifyDone,
         SpuriousWake, TaskSubmits
<1> QED
  BY <1>1, <1>2, <1>3, <1>4

LEMMA NextCalls == Followed /\ AllCalls /\ [Next]_vars => AllCalls'
<1> SUFFICES ASSUME Followed, AllCalls, [Next]_vars PROVE AllCalls'
  OBVIOUS
<1>1. TypeOK /\ Tracked /\ TypeOK' /\ TaskStep
  BY NextCounted, NextTasks DEF Followed, Counted
<1>2. \A t \in Tasks : status[t] \in Settled => status'[t] = status[t]
  BY <1>1, SettledStays
<1>3. CASE \E c \in Clients : ClientStep(c)
  BY <1>1, <1>2, <1>3, ClientCalls
<1>4. CASE OwnerStep \/ Finished \/ UNCHANGED vars \/ \E w \in Workers : WorkerStep(w)
  BY <1>1, <1>2, <1>4, WorkerCpc, OtherCalls
<1> QED
  BY <1>3, <1>4 DEF Next

LEMMA CallsAlways == Spec => [](Followed /\ AllCalls)
BY NextCalls, InitCalls, FollowedAlways, PTL DEF Spec

\* The only way out of a parallel_for is the end of the call, with every
\* future got.
LEMMA OnlyEndReturns ==
    ASSUME TypeOK, Next, NEW c \in Clients, cpc[c] \in {"launch", "drain", "unwind"}, cpc'[c] = "idle"
    PROVE  EndParallelFor(c)
<1>1. PICK d \in Clients : ClientStep(d)
  BY WorkerCpc DEF Next
<1>2. d = c
  BY <1>1 DEF ClientStep, InCall, Submit, SubmitNotify, WaitAllCall, WaitAllTest, WaitAllSpurious,
     Leave, BeginParallelFor, LaunchChunk, LaunchNotify, LaunchDone, LaunchFails, GetFuture,
     EndParallelFor, TypeOK
<1> QED
  BY <1>1, <1>2 DEF ClientStep, InCall, Submit, SubmitNotify, WaitAllCall, WaitAllTest, WaitAllSpurious,
     Leave, BeginParallelFor, LaunchChunk, LaunchNotify, LaunchDone, LaunchFails, GetFuture, TypeOK

\* No chunk outlives the call that launched it, on any of the three ways out.
THEOREM ChunksDrained == Spec => ParallelForDrains
<1> DEFINE A == \A c \in Clients :
          cpc[c] \in {"launch", "drain", "unwind"} /\ cpc'[c] = "idle"
             => \A i \in DOMAIN futures[c] : status[futures[c][i]] \in Settled
<1>1. Followed /\ AllCalls /\ [Next]_vars => [A]_vars
  <2> SUFFICES ASSUME Followed, AllCalls, Next, NEW c \in Clients,
                      cpc[c] \in {"launch", "drain", "unwind"}, cpc'[c] = "idle",
                      NEW i \in DOMAIN futures[c]
               PROVE  status[futures[c][i]] \in Settled
    OBVIOUS
  <2>1. TypeOK
    BY DEF Followed, Counted
  <2>2. got[c] = Len(futures[c])
    BY <2>1, OnlyEndReturns DEF EndParallelFor
  <2>3. i \in 1..Len(futures[c])
    BY <2>1 DEF TypeOK
  <2> QED
    BY <2>2, <2>3 DEF AllCalls, CallBooks
<1>2. Spec => [][A]_vars
  BY <1>1, CallsAlways, PTL DEF Spec
<1> QED
  BY <1>2 DEF ParallelForDrains

\* parallel_for rethrows the error of the failed chunk it launched first.
THEOREM FirstErrorIsFirst == Spec => FirstErrorReported
<1> DEFINE A == \A c \in Clients :
          cpc[c] = "drain" /\ cpc'[c] = "idle" =>
             LET failed == {i \in DOMAIN futures[c] : status[futures[c][i]] = "error"}
             IN  IF failed = {} THEN firstError[c] = NoTask
                 ELSE \E i \in failed : /\ firstError[c] = futures[c][i]
                                       /\ \A j \in failed : i <= j
<1>1. Followed /\ AllCalls /\ [Next]_vars => [A]_vars
  <2> SUFFICES ASSUME Followed, AllCalls, Next, NEW c \in Clients, cpc[c] = "drain", cpc'[c] = "idle"
               PROVE  LET failed == {i \in DOMAIN futures[c] : status[futures[c][i]] = "error"}
                      IN  IF failed = {} THEN firstError[c] = NoTask
                          ELSE \E i \in failed : /\ firstError[c] = futures[c][i]
                                                /\ \A j \in failed : i <= j
    OBVIOUS
  <2> DEFINE failed == {i \in DOMAIN futures[c] : status[futures[c][i]] = "error"}
  <2>1. TypeOK /\ CallBooks(c)
    BY DEF Followed, Counted, AllCalls
  <2>2. got[c] = Len(futures[c]) /\ Len(futures[c]) \in Nat /\ DOMAIN futures[c] = 1..Len(futures[c])
    BY <2>1, OnlyEndReturns DEF EndParallelFor, TypeOK
  <2>3. FirstFailure(c)
    BY <2>1 DEF CallBooks
  <2>4. CASE firstError[c] = NoTask
    <3>1. failed = {}
      BY <2>2, <2>3, <2>4 DEF FirstFailure
    <3> QED
      BY <2>4, <3>1
  <2>5. CASE firstError[c] # NoTask
    <3>1. PICK i \in 1..got[c] : /\ firstError[c] = futures[c][i] /\ status[futures[c][i]] = "error"
                                 /\ \A j \in 1..(i - 1) : status[futures[c][j]] # "error"
      BY <2>3, <2>5 DEF FirstFailure
    <3>2. i \in failed
      BY <2>2, <3>1
    <3>3. \A j \in failed : i <= j
      <4> SUFFICES ASSUME NEW j \in failed, ~(i <= j) PROVE FALSE
        OBVIOUS
      <4>1. j \in 1..(i - 1)
        BY <2>2, <3>1
      <4> QED
        BY <3>1, <4>1
    <3> QED
      BY <3>1, <3>2, <3>3
  <2> QED
    BY <2>4, <2>5
<1>2. Spec => [][A]_vars
  BY <1>1, CallsAlways, PTL DEF Spec
<1> QED
  BY <1>2, PTL DEF FirstErrorReported
=============================================================================

----------------------------- MODULE ThreadPool -----------------------------
(***************************************************************************)
(* ThreadPool: a bounded queue of tasks between the threads that submit    *)
(* them (Enqueue waits for space, TryEnqueue does not) and the worker      *)
(* threads of the pool, and the destructor that drains it.                 *)
(*                                                                         *)
(* A critical section is one action; every notification but the            *)
(* destructor's is sent after the mutex is released and is a step of its   *)
(* own.  A condition variable is the set of threads whose pc is "wait";    *)
(* notify_one wakes any one of them, or nobody.                            *)
(*                                                                         *)
(* An operator named ...Mutant is a faulty variant of the one below it; it *)
(* is no part of the specification and only shows that a property can fail.*)
(***************************************************************************)
EXTENDS Naturals, Sequences, FiniteSets

CONSTANTS
  Clients,     \* threads that submit tasks
  Workers,     \* the pool's threads
  Limits,      \* limits the pool may be constructed with
  MaxTasks     \* bound: submissions in a behaviour

ASSUME PoolAssumption ==
  /\ IsFiniteSet(Clients)
  /\ IsFiniteSet(Workers) /\ Workers # {}
  /\ Limits \subseteq Nat \ {0}
  /\ MaxTasks \in Nat

VARIABLES
  max_pending, \* max_pending_tasks_: set by the constructor, never changed
  tasks,     \* tasks_
  stopping,  \* stopping_
  cpc,       \* where each client is in Enqueue or TryEnqueue
  ctask,     \* the task it submits
  wpc,       \* where each worker is in WorkerLoop
  wtask,     \* the task it has taken
  dpc,       \* where the destructor is
  calls,     \* submissions so far, and the name of the next task
  accepted,  \* history: tasks put in the queue
  taken,     \* history: tasks taken from it
  finished   \* history: how often each task was run to its end

client == <<cpc, ctask>>
pool == <<wpc, wtask>>
history == <<accepted, taken, finished>>
vars == <<max_pending, tasks, stopping, cpc, ctask, wpc, wtask, dpc, calls,
          accepted, taken, finished>>

Tasks == 1 .. MaxTasks

Init ==
  /\ max_pending \in Limits
  /\ tasks = <<>>
  /\ stopping = FALSE
  /\ cpc = [c \in Clients |-> "idle"]
  /\ ctask = [c \in Clients |-> 0]
  /\ wpc = [w \in Workers |-> "loop"]
  /\ wtask = [w \in Workers |-> 0]
  /\ dpc = "idle"
  /\ calls = 0
  /\ accepted = <<>> /\ taken = <<>>
  /\ finished = [t \in Tasks |-> 0]

-----------------------------------------------------------------------------
(* Enqueue and TryEnqueue *)

\* The destructor's caller has handed out no new calls once it runs; calls
\* already under way race with it.
Call(c, label) ==
  /\ cpc[c] = "idle" /\ dpc = "idle"
  /\ calls < MaxTasks
  /\ calls' = calls + 1
  /\ ctask' = [ctask EXCEPT ![c] = calls + 1]
  /\ cpc' = [cpc EXCEPT ![c] = label]
  /\ UNCHANGED <<max_pending, tasks, stopping, pool, dpc, history>>

EnqueueCall(c) == Call(c, "lock")
TryEnqueueCall(c) == Call(c, "try")

HasSpace == Len(tasks) < max_pending

Leave(c) == cpc' = [cpc EXCEPT ![c] = "idle"]

EnqueueWait(c) ==
  /\ cpc[c] = "lock"
  /\ ~stopping /\ ~HasSpace
  /\ cpc' = [cpc EXCEPT ![c] = "wait"]
  /\ UNCHANGED <<max_pending, tasks, stopping, ctask, pool, dpc, calls,
                 history>>

\* Enqueue throws, TryEnqueue returns false.
Refuse(c) ==
  /\ \/ cpc[c] = "lock" /\ stopping
     \/ cpc[c] = "try" /\ (stopping \/ ~HasSpace)
  /\ Leave(c)
  /\ UNCHANGED <<max_pending, tasks, stopping, ctask, pool, dpc, calls,
                 history>>

AcceptMutant(c) ==
  /\ cpc[c] \in {"lock", "try"}
  /\ HasSpace
  /\ tasks' = Append(tasks, ctask[c])
  /\ accepted' = Append(accepted, ctask[c])
  /\ cpc' = [cpc EXCEPT ![c] = "notify"]
  /\ UNCHANGED <<max_pending, stopping, ctask, pool, dpc, calls, taken,
                 finished>>

Accept(c) ==
  /\ cpc[c] \in {"lock", "try"}
  /\ ~stopping /\ HasSpace
  /\ tasks' = Append(tasks, ctask[c])
  /\ accepted' = Append(accepted, ctask[c])
  /\ cpc' = [cpc EXCEPT ![c] = "notify"]
  /\ UNCHANGED <<max_pending, stopping, ctask, pool, dpc, calls, taken,
                 finished>>

\* task_available_.notify_one(), after the unlock.
NotifyTask(c) ==
  /\ cpc[c] = "notify"
  /\ Leave(c)
  /\ \/ \E w \in Workers :
          wpc[w] = "wait" /\ wpc' = [wpc EXCEPT ![w] = "loop"]
     \/ (\A w \in Workers : wpc[w] # "wait") /\ UNCHANGED wpc
  /\ UNCHANGED <<max_pending, tasks, stopping, ctask, wtask, dpc, calls,
                 history>>

SpuriousClient(c) ==
  /\ cpc[c] = "wait"
  /\ cpc' = [cpc EXCEPT ![c] = "lock"]
  /\ UNCHANGED <<max_pending, tasks, stopping, ctask, pool, dpc, calls,
                 history>>

-----------------------------------------------------------------------------
(* WorkerLoop *)

WorkerWait(w) ==
  /\ wpc[w] = "loop"
  /\ ~stopping /\ tasks = <<>>
  /\ wpc' = [wpc EXCEPT ![w] = "wait"]
  /\ UNCHANGED <<max_pending, tasks, stopping, client, wtask, dpc, calls,
                 history>>

WorkerExitMutant(w) ==
  /\ wpc[w] = "loop"
  /\ stopping
  /\ wpc' = [wpc EXCEPT ![w] = "done"]
  /\ UNCHANGED <<max_pending, tasks, stopping, client, wtask, dpc, calls,
                 history>>

WorkerExit(w) ==
  /\ wpc[w] = "loop"
  /\ stopping /\ tasks = <<>>
  /\ wpc' = [wpc EXCEPT ![w] = "done"]
  /\ UNCHANGED <<max_pending, tasks, stopping, client, wtask, dpc, calls,
                 history>>

\* The task at the wrong end is taken.
TakeLastMutant(w) ==
  /\ wpc[w] = "loop"
  /\ tasks # <<>>
  /\ wtask' = [wtask EXCEPT ![w] = tasks[Len(tasks)]]
  /\ tasks' = SubSeq(tasks, 1, Len(tasks) - 1)
  /\ taken' = Append(taken, tasks[Len(tasks)])
  /\ wpc' = [wpc EXCEPT ![w] = "notify"]
  /\ UNCHANGED <<max_pending, stopping, client, dpc, calls, accepted,
                 finished>>

WorkerTake(w) ==
  /\ wpc[w] = "loop"
  /\ tasks # <<>>
  /\ wtask' = [wtask EXCEPT ![w] = Head(tasks)]
  /\ tasks' = Tail(tasks)
  /\ taken' = Append(taken, Head(tasks))
  /\ wpc' = [wpc EXCEPT ![w] = "notify"]
  /\ UNCHANGED <<max_pending, stopping, client, dpc, calls, accepted,
                 finished>>

NoSpaceNotifyMutant(w) ==
  /\ wpc[w] = "notify"
  /\ wpc' = [wpc EXCEPT ![w] = "run"]
  /\ UNCHANGED <<max_pending, tasks, stopping, client, wtask, dpc, calls,
                 history>>

\* space_available_.notify_one(), after the unlock.
NotifySpace(w) ==
  /\ wpc[w] = "notify"
  /\ wpc' = [wpc EXCEPT ![w] = "run"]
  /\ \/ \E c \in Clients :
          cpc[c] = "wait" /\ cpc' = [cpc EXCEPT ![c] = "lock"]
     \/ (\A c \in Clients : cpc[c] # "wait") /\ UNCHANGED cpc
  /\ UNCHANGED <<max_pending, tasks, stopping, ctask, wtask, dpc, calls,
                 history>>

WorkerRun(w) ==
  /\ wpc[w] = "run"
  /\ finished' = [finished EXCEPT ![wtask[w]] = @ + 1]
  /\ wpc' = [wpc EXCEPT ![w] = "loop"]
  /\ UNCHANGED <<max_pending, tasks, stopping, client, wtask, dpc, calls,
                 accepted, taken>>

SpuriousWorker(w) ==
  /\ wpc[w] = "wait"
  /\ wpc' = [wpc EXCEPT ![w] = "loop"]
  /\ UNCHANGED <<max_pending, tasks, stopping, client, wtask, dpc, calls,
                 history>>

-----------------------------------------------------------------------------
(* ~ThreadPool *)

Destroy ==
  /\ dpc = "idle"
  /\ stopping' = TRUE
  /\ dpc' = "notify_workers"
  /\ UNCHANGED <<max_pending, tasks, client, pool, calls, history>>

DestroyNotifyWorkers ==
  /\ dpc = "notify_workers"
  /\ wpc' = [w \in Workers |-> IF wpc[w] = "wait" THEN "loop" ELSE wpc[w]]
  /\ dpc' = "notify_clients"
  /\ UNCHANGED <<max_pending, tasks, stopping, client, wtask, calls, history>>

DestroyMutant ==
  /\ dpc = "notify_clients"
  /\ dpc' = "join"
  /\ UNCHANGED <<max_pending, tasks, stopping, client, pool, calls, history>>

DestroyNotifyClients ==
  /\ dpc = "notify_clients"
  /\ cpc' = [c \in Clients |-> IF cpc[c] = "wait" THEN "lock" ELSE cpc[c]]
  /\ dpc' = "join"
  /\ UNCHANGED <<max_pending, tasks, stopping, ctask, pool, calls, history>>

DestroyJoin ==
  /\ dpc = "join"
  /\ \A w \in Workers : wpc[w] = "done"
  /\ dpc' = "done"
  /\ UNCHANGED <<max_pending, tasks, stopping, client, pool, calls, history>>

-----------------------------------------------------------------------------
ClientStep(c) == EnqueueWait(c) \/ Refuse(c) \/ Accept(c) \/ NotifyTask(c)

WorkerStep(w) ==
  WorkerWait(w) \/ WorkerExit(w) \/ WorkerTake(w) \/ NotifySpace(w)
    \/ WorkerRun(w)

DestroyStep == DestroyNotifyWorkers \/ DestroyNotifyClients \/ DestroyJoin

Next ==
  \/ \E c \in Clients : \/ EnqueueCall(c) \/ TryEnqueueCall(c)
                        \/ ClientStep(c) \/ SpuriousClient(c)
  \/ \E w \in Workers : WorkerStep(w) \/ SpuriousWorker(w)
  \/ Destroy \/ DestroyStep

\* Every thread inside the pool's code is scheduled when it can run, and a
\* task returns.
Fairness ==
  /\ \A c \in Clients : WF_vars(ClientStep(c))
  /\ \A w \in Workers : WF_vars(WorkerStep(w))
  /\ WF_vars(DestroyStep)

SafetySpec == Init /\ [][Next]_vars
Spec == SafetySpec /\ Fairness
-----------------------------------------------------------------------------
(* Properties *)

\* Every variable has its type.
TypeOK ==
  /\ max_pending \in Limits
  /\ tasks \in Seq(Tasks)
  /\ stopping \in BOOLEAN
  /\ cpc \in [Clients -> {"idle", "lock", "try", "wait", "notify"}]
  /\ ctask \in [Clients -> 0 .. MaxTasks]
  /\ wpc \in [Workers -> {"loop", "wait", "notify", "run", "done"}]
  /\ wtask \in [Workers -> 0 .. MaxTasks]
  /\ dpc \in {"idle", "notify_workers", "notify_clients", "join", "done"}
  /\ calls \in 0 .. MaxTasks
  /\ accepted \in Seq(Tasks) /\ taken \in Seq(Tasks)
  /\ finished \in [Tasks -> Nat]

\* Workers take the accepted tasks in order, each by exactly one worker, and
\* the tasks not yet taken never exceed the limit, whichever of Enqueue and
\* TryEnqueue let them in.
TakenInOrder ==
  /\ taken \o tasks = accepted
  /\ Len(tasks) <= max_pending

\* No accepted task is run twice, and when the destructor returns each has
\* been run: also those accepted while it was starting.
RunOnce ==
  \A t \in Tasks :
    /\ finished[t] <= 1
    /\ finished[t] = 1 => \E i \in DOMAIN accepted : accepted[i] = t
    /\ dpc = "done" /\ (\E i \in DOMAIN accepted : accepted[i] = t) =>
         finished[t] = 1

At(pcs, label) == {x \in DOMAIN pcs : pcs[x] = label}

\* A worker has a task from the moment it takes it.
Busy(w) == wpc[w] \in {"notify", "run"}

Queue == INSTANCE TaskQueue WITH
  limit <- max_pending,
  threads <- Cardinality(Workers),
  waiting <- tasks,
  running <- {wtask[w] : w \in {v \in Workers : Busy(v)}},
  phase <- IF dpc = "done" THEN "ended" ELSE IF stopping THEN "closing" ELSE "open"

\* Whatever clients, workers and the destructor do at the same time, the pool is
\* a bounded queue in front of as many threads as it was given: no task runs on
\* two of them, none overtakes another in the queue, and the destructor returns
\* with nothing left in either.
ImplementsQueue == Queue!Spec

\* No worker sleeps over a task: while one sleeps, for every queued task
\* there is a notification still to be sent or a worker about to look.
NoIdleWorker ==
  At(wpc, "wait") # {} =>
    /\ Len(tasks) <= Cardinality(At(cpc, "notify")) + Cardinality(At(wpc, "loop"))
    /\ stopping => dpc = "notify_workers"

\* No Enqueue sleeps over a free place: while one sleeps, for every free
\* place there is a notification still to be sent or an Enqueue about to look.
NoIdleEnqueue ==
  At(cpc, "wait") # {} =>
    IF stopping THEN dpc \in {"notify_workers", "notify_clients"}
    ELSE max_pending - Len(tasks) <=
           Cardinality(At(wpc, "notify")) + Cardinality(At(cpc, "lock"))

\* The notifications, each of one thread and sent after the unlock, are never
\* one too few, on either condition variable.
NoIdleThread == NoIdleWorker /\ NoIdleEnqueue

\* Every task Enqueue or TryEnqueue accepted is eventually run, also those still
\* queued when the destructor starts.
TasksRun ==
  \A t \in Tasks :
    (\E i \in DOMAIN accepted : accepted[i] = t) ~> finished[t] = 1

\* Every Enqueue and TryEnqueue returns or throws: also an Enqueue that waits
\* for space while the pool is destroyed.
CallsReturn == \A c \in Clients : cpc[c] # "idle" ~> cpc[c] = "idle"

\* The destructor returns: no worker it joins is left asleep.
DestructorReturns == dpc # "idle" ~> dpc = "done"

\* Nobody is stuck in the pool: submitters that sleep for space, workers that
\* sleep for tasks and the destructor that joins them never all wait.
AllReturn == CallsReturn /\ DestructorReturns
=============================================================================

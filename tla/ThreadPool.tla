----------------------------- MODULE ThreadPool -----------------------------
(***************************************************************************)
(* server/thread_pool.hpp: the pool that runs one connection handler per   *)
(* task.  queue_mutex protects `tasks' and `stop'; a critical section is   *)
(* one step, because nothing else touches the two.  condition.wait checks  *)
(* its predicate and joins the wait set in the section it holds the mutex  *)
(* in, and a woken worker has to take the mutex again before it re-checks: *)
(* it is then a worker at "acquire" like one that just finished a task.    *)
(*                                                                         *)
(* The one thread that enqueues is the accept loop (server.cpp:34); the    *)
(* same thread later runs the destructor.  It is the "owner" below.        *)
(***************************************************************************)
EXTENDS Naturals, Sequences, FiniteSets

CONSTANTS
  Workers,      \* the threads started by the constructor
  Tasks,        \* the connections the accept loop may hand over
  NoTask        \* what a worker that runs nothing holds

ASSUME WorkersAssumption == IsFiniteSet(Workers) /\ Workers # {}
ASSUME NoTaskAssumption  == NoTask \notin Tasks

VARIABLES
  tasks,        \* the queue of tasks
  stop,         \* the destructor's flag
  workerpc,     \* what each worker does
  task,         \* the task each worker moved out of the queue
  owner,        \* where the accept thread is in enqueue or the destructor
  enqueued,     \* history: every task handed over, in order
  finished      \* history: the tasks that returned

vars == <<tasks, stop, workerpc, task, owner, enqueued, finished>>

Waiting   == {w \in Workers : workerpc[w] = "waiting"}
Acquiring == {w \in Workers : workerpc[w] = "acquire"}
Running   == {w \in Workers : workerpc[w] = "running"}
Enqueued  == {enqueued[i] : i \in DOMAIN enqueued}
Queued    == {tasks[i] : i \in DOMAIN tasks}
Held      == {task[w] : w \in Running}

Init ==
  /\ tasks = <<>>
  /\ stop = FALSE
  /\ workerpc = [w \in Workers |-> "acquire"]
  /\ task = [w \in Workers |-> NoTask]
  /\ owner = "open"
  /\ enqueued = <<>>
  /\ finished = {}

-----------------------------------------------------------------------------
\* The workers

\* The predicate of condition.wait is false: sleep, releasing the mutex.
Sleep(w) ==
  /\ workerpc[w] = "acquire"
  /\ ~stop /\ tasks = <<>>
  /\ workerpc' = [workerpc EXCEPT ![w] = "waiting"]
  /\ UNCHANGED <<tasks, stop, task, owner, enqueued, finished>>

\* A condition variable may wake a thread that nobody notified.
SpuriousWakeup(w) ==
  /\ workerpc[w] = "waiting"
  /\ workerpc' = [workerpc EXCEPT ![w] = "acquire"]
  /\ UNCHANGED <<tasks, stop, task, owner, enqueued, finished>>

\* Mistake: a worker leaves a stopped pool whatever is still queued.
ExitOnStop(w) ==
  /\ workerpc[w] = "acquire"
  /\ stop
  /\ workerpc' = [workerpc EXCEPT ![w] = "exited"]
  /\ UNCHANGED <<tasks, stop, task, owner, enqueued, finished>>

Exit(w) ==
  /\ workerpc[w] = "acquire"
  /\ stop /\ tasks = <<>>
  /\ workerpc' = [workerpc EXCEPT ![w] = "exited"]
  /\ UNCHANGED <<tasks, stop, task, owner, enqueued, finished>>

\* Mistake: the task that is moved out of the queue is not popped.
TakeWithoutPop(w) ==
  /\ workerpc[w] = "acquire"
  /\ tasks # <<>>
  /\ task' = [task EXCEPT ![w] = Head(tasks)]
  /\ workerpc' = [workerpc EXCEPT ![w] = "running"]
  /\ UNCHANGED <<tasks, stop, owner, enqueued, finished>>

Take(w) ==
  /\ workerpc[w] = "acquire"
  /\ tasks # <<>>
  /\ task' = [task EXCEPT ![w] = Head(tasks)]
  /\ tasks' = Tail(tasks)
  /\ workerpc' = [workerpc EXCEPT ![w] = "running"]
  /\ UNCHANGED <<stop, owner, enqueued, finished>>

\* Mistake: the task outlives the iteration that ran it.
TaskReturnsKept(w) ==
  /\ workerpc[w] = "running"
  /\ finished' = finished \cup {task[w]}
  /\ workerpc' = [workerpc EXCEPT ![w] = "acquire"]
  /\ UNCHANGED <<tasks, stop, task, owner, enqueued>>

\* task() returns: the client of the connection disconnected.  The loop's
\* local `task' is destroyed with the iteration.
TaskReturns(w) ==
  /\ workerpc[w] = "running"
  /\ finished' = finished \cup {task[w]}
  /\ task' = [task EXCEPT ![w] = NoTask]
  /\ workerpc' = [workerpc EXCEPT ![w] = "acquire"]
  /\ UNCHANGED <<tasks, stop, owner, enqueued>>

-----------------------------------------------------------------------------
\* The owner

\* The critical section of enqueue; the notification follows the unlock.  The
\* pool takes whatever it is given, the same task twice if need be.
Enqueue(t) ==
  /\ owner = "open"
  /\ tasks' = Append(tasks, t)
  /\ enqueued' = Append(enqueued, t)
  /\ owner' = "notify"
  /\ UNCHANGED <<stop, workerpc, task, finished>>

\* Mistake: the notification is forgotten.
NotifyNobody ==
  /\ owner = "notify"
  /\ owner' = "open"
  /\ UNCHANGED <<tasks, stop, workerpc, task, enqueued, finished>>

\* notify_one wakes one sleeper, whichever, or nobody when nobody sleeps.
NotifyOne ==
  /\ owner = "notify"
  /\ owner' = "open"
  /\ \/ /\ Waiting = {}
        /\ UNCHANGED workerpc
     \/ \E w \in Waiting : workerpc' = [workerpc EXCEPT ![w] = "acquire"]
  /\ UNCHANGED <<tasks, stop, task, enqueued, finished>>

Stop ==
  /\ owner = "open"
  /\ stop' = TRUE
  /\ owner' = "notify_all"
  /\ UNCHANGED <<tasks, workerpc, task, enqueued, finished>>

\* Mistake: the destructor calls notify_one.
NotifyOneAtStop ==
  /\ owner = "notify_all"
  /\ owner' = "join"
  /\ \/ Waiting = {} /\ UNCHANGED workerpc
     \/ \E w \in Waiting : workerpc' = [workerpc EXCEPT ![w] = "acquire"]
  /\ UNCHANGED <<tasks, stop, task, enqueued, finished>>

NotifyAll ==
  /\ owner = "notify_all"
  /\ owner' = "join"
  /\ workerpc' = [w \in Workers |->
                    IF w \in Waiting THEN "acquire" ELSE workerpc[w]]
  /\ UNCHANGED <<tasks, stop, task, enqueued, finished>>

\* The joins return, in whatever order, when every worker has returned.
Join ==
  /\ owner = "join"
  /\ \A w \in Workers : workerpc[w] = "exited"
  /\ owner' = "destroyed"
  /\ UNCHANGED <<tasks, stop, workerpc, task, enqueued, finished>>

Terminated ==
  /\ owner = "destroyed"
  /\ UNCHANGED vars

-----------------------------------------------------------------------------
WorkerStep(w) == Sleep(w) \/ Exit(w) \/ Take(w)
OwnerStep     == NotifyOne \/ NotifyAll \/ Join

\* The pool by itself, with an owner that hands over no task twice: the
\* caller's part, which ServerLifecycle has to show of the accept loop.
Next ==
  \/ \E w \in Workers : WorkerStep(w) \/ SpuriousWakeup(w) \/ TaskReturns(w)
  \/ \E t \in Tasks \ Enqueued : Enqueue(t)
  \/ OwnerStep
  \/ Stop
  \/ Terminated

Spec == Init /\ [][Next]_vars

\* The scheduler runs every thread that can run; a client may stay for ever,
\* the accept loop need not end, and nobody is woken without a reason.
SchedulerFairness ==
  /\ \A w \in Workers : WF_vars(WorkerStep(w))
  /\ WF_vars(OwnerStep)

FairSpec == Spec /\ SchedulerFairness

\* What a property may ask for besides: every client leaves in the end.
ClientsLeave == \A w \in Workers : WF_vars(TaskReturns(w))

-----------------------------------------------------------------------------
TypeOK ==
  /\ tasks \in Seq(Tasks)
  /\ stop \in BOOLEAN
  /\ workerpc \in [Workers -> {"acquire", "waiting", "running", "exited"}]
  /\ task \in [Workers -> Tasks \cup {NoTask}]
  /\ owner \in {"open", "notify", "notify_all", "join", "destroyed"}
  /\ enqueued \in Seq(Tasks)
  /\ finished \in SUBSET Tasks
  /\ \A w \in Workers : task[w] \in Tasks <=> workerpc[w] = "running"

\* Every connection handed over is in exactly one place: in the queue (once),
\* held by exactly one worker, or finished.  The accept loop gives each socket
\* away; a task run twice or dropped is a client served twice or never.
EachTaskOnce ==
  /\ Enqueued = Queued \cup Held \cup finished
  /\ Queued \cap Held = {} /\ Queued \cap finished = {} /\ Held \cap finished = {}
  /\ \A i, j \in DOMAIN tasks : tasks[i] = tasks[j] => i = j
  /\ \A v, w \in Running : task[v] = task[w] => v = w

\* No wake-up is lost although notify_one runs after the unlock: while some
\* worker sleeps, there are as many queued tasks as workers on their way to
\* the queue, or one more when the notification for it is still to come.
NoLostWakeup ==
  Waiting # {} =>
    Len(tasks) <= Cardinality(Acquiring) + IF owner = "notify" THEN 1 ELSE 0

\* A worker leaves only a stopped pool whose queue is empty, and the
\* destructor returns only when all have left: no connection that was
\* accepted is abandoned by the shutdown.
DrainedAtExit ==
  /\ \A w \in Workers : workerpc[w] = "exited" => stop /\ tasks = <<>>
  /\ owner = "destroyed" => /\ \A w \in Workers : workerpc[w] = "exited"
                            /\ finished = Enqueued

\* As long as a worker is free, a queued connection does not stay queued for
\* ever, whatever the clients already being served do.
WorkConserving ==
  tasks # <<>> ~> (tasks = <<>> \/ Running = Workers)

\* When clients leave in the end, every connection handed over is served.
EveryTaskRuns ==
  ClientsLeave => \A t \in Tasks : t \in Enqueued ~> t \in finished

\* The pool is the abstract one: first come, first served, exactly once, at
\* most one task per worker, and gone only when everything was served.
Abstract == INSTANCE TaskPool WITH
  Capacity  <- Cardinality(Workers),
  submitted <- enqueued,
  begun     <- Len(enqueued) - Len(tasks),
  phase     <- IF owner = "destroyed" THEN "gone"
               ELSE IF stop THEN "closing" ELSE "open"

RefinesTaskPool == Abstract!Spec
=============================================================================

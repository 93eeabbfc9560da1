------------------------- MODULE ServerLifecycleProofs ------------------------
(***************************************************************************)
(* Theorems about ThreadPool, for any finite set of workers and any set of *)
(* connections, and about ServerLifecycle, for any members declared in an  *)
(* order that MembersAssumption allows.  Those about the pool rest on one  *)
(* inductive invariant: types, the place of every task, the queue as the   *)
(* part of the history that was not started, and what the destructor's     *)
(* position says of `stop' and of the workers.  The accept loop is shown   *)
(* to be an owner the pool's specification allows, so that every theorem   *)
(* about the pool holds in the server.                                     *)
(***************************************************************************)
EXTENDS ServerLifecycle, TLAPS, FiniteSetTheorems

\* How many of the tasks handed over have left the queue.
Left == Len(enqueued) - Len(tasks)

\* The queue is the end of the history, and nothing was handed over twice.
QueueIsSuffix ==
  /\ Len(tasks) <= Len(enqueued)
  /\ \A i \in 1..Len(tasks) : tasks[i] = enqueued[Left + i]
  /\ \A i, j \in 1..Len(enqueued) : enqueued[i] = enqueued[j] => i = j

\* The destructor sets `stop' first, and its joins wait for all the workers.
OwnerPosition ==
  /\ stop <=> owner \in {"notify_all", "join", "destroyed"}
  /\ owner = "destroyed" => \A w \in Workers : workerpc[w] = "exited"
  /\ \A w \in Workers : workerpc[w] = "exited" => stop /\ tasks = <<>>

\* The first tasks of the history are those a worker holds or has finished.
StartedAreHeldOrFinished ==
  {enqueued[i] : i \in 1..Left} = Held \cup finished

IInv ==
  /\ TypeOK
  /\ QueueIsSuffix
  /\ OwnerPosition
  /\ StartedAreHeldOrFinished
  /\ Held \cap finished = {}
  /\ \A v, w \in Running : task[v] = task[w] => v = w

-----------------------------------------------------------------------------
\* The pool starts with values of the right types.
LEMMA InitTypes == Init => TypeOK
<1> SUFFICES ASSUME Init
             PROVE  TypeOK
  OBVIOUS
<1>1. tasks \in Seq(Tasks) /\ enqueued \in Seq(Tasks)
  BY DEF Init
<1>2. stop \in BOOLEAN /\ owner = "open" /\ finished \in SUBSET Tasks
  BY DEF Init
<1>3. \A w \in Workers : task[w] \notin Tasks /\ workerpc[w] = "acquire"
  BY NoTaskAssumption DEF Init
<1>4. /\ workerpc \in [Workers -> {"acquire", "waiting", "running", "exited"}]
      /\ task \in [Workers -> Tasks \cup {NoTask}]
  BY DEF Init
<1>5. QED
  BY <1>1, <1>2, <1>3, <1>4 DEF TypeOK

\* No step of a worker or of the owner takes a variable out of its type.
LEMMA TypeStep == TypeOK /\ [Next]_vars => TypeOK'
<1> SUFFICES ASSUME TypeOK, [Next]_vars
             PROVE  TypeOK'
  OBVIOUS
<1> USE NoTaskAssumption DEF TypeOK
<1>1. ASSUME NEW w \in Workers, Sleep(w)
      PROVE  TypeOK'
  BY <1>1 DEF Sleep
<1>2. ASSUME NEW w \in Workers, Exit(w)
      PROVE  TypeOK'
  BY <1>2 DEF Exit
<1>3. ASSUME NEW w \in Workers, Take(w)
      PROVE  TypeOK'
  BY <1>3 DEF Take
<1>4. ASSUME NEW w \in Workers, SpuriousWakeup(w)
      PROVE  TypeOK'
  BY <1>4 DEF SpuriousWakeup
<1>5. ASSUME NEW w \in Workers, TaskReturns(w)
      PROVE  TypeOK'
  BY <1>5 DEF TaskReturns
<1>6. ASSUME NEW t \in Tasks, Enqueue(t)
      PROVE  TypeOK'
  BY <1>6 DEF Enqueue
<1>7. CASE NotifyOne
  BY <1>7 DEF NotifyOne, Waiting
<1>8. CASE NotifyAll
  BY <1>8 DEF NotifyAll, Waiting
<1>9. CASE Join
  BY <1>9 DEF Join
<1>10. CASE Stop
  BY <1>10 DEF Stop
<1>11. CASE Terminated \/ UNCHANGED vars
  BY <1>11 DEF Terminated, vars
<1>12. QED
  BY <1>1, <1>2, <1>3, <1>4, <1>5, <1>6, <1>7, <1>8, <1>9, <1>10, <1>11
  DEF Next, WorkerStep, OwnerStep

\* In every reachable state the variables have their types, and a worker
\* holds a task exactly while it runs one.
THEOREM TypeCorrect == Spec => []TypeOK
<1>1. QED
  BY InitTypes, TypeStep, PTL DEF Spec

-----------------------------------------------------------------------------
\* The step that matters: a worker takes the first task of the queue, which is
\* the first of the history that was not started and so is nobody else's.
LEMMA TakeStep ==
  ASSUME IInv, NEW w \in Workers, Take(w), TypeOK'
  PROVE  IInv'
<1> DEFINE h == Head(tasks)
<1>1. /\ tasks \in Seq(Tasks) /\ tasks # <<>> /\ enqueued \in Seq(Tasks)
      /\ Len(tasks) \in Nat \ {0} /\ Len(enqueued) \in Nat
      /\ tasks' = Tail(tasks) /\ enqueued' = enqueued
  BY DEF IInv, TypeOK, Take
<1>2. /\ Len(tasks') = Len(tasks) - 1
      /\ \A i \in 1..Len(tasks') : tasks'[i] = tasks[i + 1]
      /\ h = tasks[1] /\ h \in Tasks
  BY <1>1
<1>3. Left' = Left + 1 /\ Left \in Nat /\ h = enqueued[Left + 1]
  BY <1>1, <1>2 DEF Left, IInv, QueueIsSuffix
<1>4. QueueIsSuffix'
  BY <1>1, <1>2, <1>3 DEF Left, IInv, QueueIsSuffix
<1>5. Running' = Running \cup {w} /\ w \notin Running
  BY DEF Running, Take, IInv, TypeOK
<1>6. task'[w] = h /\ \A v \in Running : task'[v] = task[v]
  BY <1>5 DEF Take, IInv, TypeOK, Running
<1>7. Held' = Held \cup {h}
  BY <1>5, <1>6 DEF Held
<1>8. {enqueued[i] : i \in 1..Left'} = {enqueued[i] : i \in 1..Left} \cup {h}
  BY <1>3
<1>9. h \notin {enqueued[i] : i \in 1..Left}
  <2> SUFFICES ASSUME NEW i \in 1..Left, h = enqueued[i]
               PROVE  FALSE
    OBVIOUS
  <2>1. Left + 1 <= Len(enqueued)
    BY <1>1 DEF Left
  <2>2. i = Left + 1
    BY <1>1, <1>3, <2>1 DEF IInv, QueueIsSuffix
  <2>3. QED
    BY <1>3, <2>2
<1>10. finished' = finished /\ h \notin Held \cup finished
  BY <1>9 DEF IInv, StartedAreHeldOrFinished, Take
<1>11. StartedAreHeldOrFinished'
  BY <1>1, <1>7, <1>8, <1>10, ZenonT(60) DEF IInv, StartedAreHeldOrFinished
<1>12. (Held \cap finished = {})'
  BY <1>7, <1>10 DEF IInv
<1>13. (\A v, u \in Running : task[v] = task[u] => v = u)'
  BY <1>5, <1>6, <1>10 DEF Held, IInv
<1>14. OwnerPosition'
  BY DEF Take, IInv, OwnerPosition, TypeOK
<1>15. QED
  BY <1>4, <1>11, <1>12, <1>13, <1>14 DEF IInv

\* A connection that ends moves from the held tasks to the finished ones.
LEMMA TaskReturnsStep ==
  ASSUME IInv, NEW w \in Workers, TaskReturns(w), TypeOK'
  PROVE  IInv'
<1>1. QueueIsSuffix' /\ Left' = Left /\ enqueued' = enqueued
  BY DEF IInv, QueueIsSuffix, TaskReturns, Left
<1>2. /\ Running' = Running \ {w} /\ w \in Running
      /\ \A v \in Running \ {w} : task'[v] = task[v]
  BY DEF Running, TaskReturns, IInv, TypeOK
<1>3. Held' = Held \ {task[w]} /\ task[w] \in Held
  BY <1>2 DEF Held, IInv
<1>4. finished' = finished \cup {task[w]}
  BY DEF TaskReturns
<1>5. StartedAreHeldOrFinished' /\ (Held \cap finished = {})'
  BY <1>1, <1>3, <1>4 DEF IInv, StartedAreHeldOrFinished
<1>6. (\A v, u \in Running : task[v] = task[u] => v = u)'
  BY <1>2 DEF IInv
<1>7. OwnerPosition'
  BY DEF TaskReturns, IInv, OwnerPosition, TypeOK
<1>8. QED
  BY <1>1, <1>5, <1>6, <1>7 DEF IInv

\* A new connection goes to the end of the queue and of the history alike.
LEMMA EnqueueStep ==
  ASSUME IInv, NEW t \in Tasks \ Enqueued, Enqueue(t), TypeOK'
  PROVE  IInv'
<1>1. /\ tasks \in Seq(Tasks) /\ enqueued \in Seq(Tasks)
      /\ Len(tasks) \in Nat /\ Len(enqueued) \in Nat
      /\ tasks' = Append(tasks, t) /\ enqueued' = Append(enqueued, t)
  BY DEF IInv, TypeOK, Enqueue
<1>2. /\ Len(tasks') = Len(tasks) + 1 /\ Len(enqueued') = Len(enqueued) + 1
      /\ \A i \in 1..Len(tasks) : tasks'[i] = tasks[i]
      /\ \A i \in 1..Len(enqueued) : enqueued'[i] = enqueued[i]
      /\ tasks'[Len(tasks) + 1] = t /\ enqueued'[Len(enqueued) + 1] = t
  BY <1>1
<1>3. Left' = Left /\ Left \in Nat /\ Left <= Len(enqueued)
  BY <1>1, <1>2 DEF Left, IInv, QueueIsSuffix
<1>4. \A i \in 1..Len(enqueued) : enqueued[i] # t
  BY <1>1 DEF Enqueued
<1>5. QueueIsSuffix'
  <2>1. Len(tasks') <= Len(enqueued')
    BY <1>1, <1>2 DEF IInv, QueueIsSuffix
  <2>2. \A i \in 1..Len(tasks') : tasks'[i] = enqueued'[Left' + i]
    <3> SUFFICES ASSUME NEW i \in 1..Len(tasks')
                 PROVE  tasks'[i] = enqueued'[Left' + i]
      OBVIOUS
    <3>1. CASE i \in 1..Len(tasks)
      BY <3>1, <1>1, <1>2, <1>3 DEF Left, IInv, QueueIsSuffix
    <3>2. CASE i = Len(tasks) + 1
      BY <3>2, <1>1, <1>2, <1>3 DEF Left
    <3>3. i \in 1..Len(tasks) \/ i = Len(tasks) + 1
      BY <1>1, <1>2
    <3>4. QED
      BY <3>1, <3>2, <3>3
  <2>3. \A i, j \in 1..Len(enqueued') : enqueued'[i] = enqueued'[j] => i = j
    BY <1>1, <1>2, <1>4 DEF IInv, QueueIsSuffix
  <2>4. QED
    BY <2>1, <2>2, <2>3 DEF QueueIsSuffix
<1>6. /\ Running' = Running /\ Held' = Held /\ finished' = finished
      /\ task' = task
  BY DEF Enqueue, Running, Held
<1>7. StartedAreHeldOrFinished'
  <2>1. {enqueued'[i] : i \in 1..Left'} = {enqueued[i] : i \in 1..Left}
    BY <1>1, <1>2, <1>3
  <2>2. QED
    BY <2>1, <1>6 DEF IInv, StartedAreHeldOrFinished
<1>8. OwnerPosition'
  BY DEF Enqueue, IInv, OwnerPosition, TypeOK
<1>9. QED
  BY <1>5, <1>6, <1>7, <1>8 DEF IInv

\* Steps that only move workers between waiting, acquiring and having left, or
\* the owner along, keep every task where it is.
LEMMA ControlStep ==
  ASSUME IInv, TypeOK', OwnerPosition',
         UNCHANGED <<tasks, task, enqueued, finished>>,
         Running' = Running
  PROVE  IInv'
<1>1. QueueIsSuffix' /\ Left' = Left
  BY DEF IInv, QueueIsSuffix, Left
<1>2. Held' = Held
  BY DEF Held
<1>3. StartedAreHeldOrFinished' /\ (Held \cap finished = {})'
  BY <1>1, <1>2 DEF IInv, StartedAreHeldOrFinished
<1>4. (\A v, w \in Running : task[v] = task[w] => v = w)'
  BY DEF IInv
<1>5. QED
  BY <1>1, <1>3, <1>4 DEF IInv

\* Every step of a thread keeps the inductive invariant.
LEMMA InvariantStep == IInv /\ [Next]_vars => IInv'
<1> SUFFICES ASSUME IInv, [Next]_vars
             PROVE  IInv'
  OBVIOUS
<1>0. TypeOK /\ TypeOK'
  BY TypeStep DEF IInv
<1>1. ASSUME NEW w \in Workers, Sleep(w)
      PROVE  IInv'
  <2>1. Running' = Running /\ OwnerPosition'
    BY <1>0, <1>1 DEF Sleep, Running, OwnerPosition, IInv, TypeOK
  <2>2. QED
    BY <1>0, <1>1, <2>1, ControlStep DEF Sleep
<1>2. ASSUME NEW w \in Workers, Exit(w)
      PROVE  IInv'
  <2>1. Running' = Running /\ OwnerPosition'
    BY <1>0, <1>2 DEF Exit, Running, OwnerPosition, IInv, TypeOK
  <2>2. QED
    BY <1>0, <1>2, <2>1, ControlStep DEF Exit
<1>3. ASSUME NEW w \in Workers, SpuriousWakeup(w)
      PROVE  IInv'
  <2>1. Running' = Running /\ OwnerPosition'
    BY <1>0, <1>3 DEF SpuriousWakeup, Running, OwnerPosition, IInv, TypeOK
  <2>2. QED
    BY <1>0, <1>3, <2>1, ControlStep DEF SpuriousWakeup
<1>4. ASSUME NEW w \in Workers, Take(w)
      PROVE  IInv'
  BY <1>0, <1>4, TakeStep
<1>5. ASSUME NEW w \in Workers, TaskReturns(w)
      PROVE  IInv'
  BY <1>0, <1>5, TaskReturnsStep
<1>6. ASSUME NEW t \in Tasks \ Enqueued, Enqueue(t)
      PROVE  IInv'
  BY <1>0, <1>6, EnqueueStep
<1>7. CASE NotifyOne
  <2>1. Running' = Running /\ OwnerPosition'
    BY <1>0, <1>7 DEF NotifyOne, Waiting, Running, OwnerPosition, IInv, TypeOK
  <2>2. QED
    BY <1>0, <1>7, <2>1, ControlStep DEF NotifyOne
<1>8. CASE NotifyAll
  <2>1. Running' = Running /\ OwnerPosition'
    BY <1>0, <1>8 DEF NotifyAll, Waiting, Running, OwnerPosition, IInv, TypeOK
  <2>2. QED
    BY <1>0, <1>8, <2>1, ControlStep DEF NotifyAll
<1>9. CASE Stop
  <2>1. Running' = Running /\ OwnerPosition'
    BY <1>0, <1>9 DEF Stop, Running, OwnerPosition, IInv, TypeOK
  <2>2. QED
    BY <1>0, <1>9, <2>1, ControlStep DEF Stop
<1>10. CASE Join
  <2>1. Running' = Running /\ OwnerPosition'
    BY <1>0, <1>10 DEF Join, Running, OwnerPosition, IInv, TypeOK
  <2>2. QED
    BY <1>0, <1>10, <2>1, ControlStep DEF Join
<1>11. CASE Terminated \/ UNCHANGED vars
  <2>1. UNCHANGED vars
    BY <1>11 DEF Terminated
  <2>2. Running' = Running /\ OwnerPosition'
    BY <2>1 DEF vars, Running, OwnerPosition, IInv
  <2>3. QED
    BY <1>0, <2>1, <2>2, ControlStep DEF vars
<1>12. QED
  BY <1>1, <1>2, <1>3, <1>4, <1>5, <1>6, <1>7, <1>8, <1>9, <1>10, <1>11
  DEF Next, WorkerStep, OwnerStep

\* The empty pool satisfies it.
LEMMA InitInvariant == Init => IInv
<1> SUFFICES ASSUME Init
             PROVE  IInv
  OBVIOUS
<1>1. TypeOK
  BY InitTypes
<1>2. Running = {} /\ Held = {} /\ Left = 0
  BY DEF Init, Running, Held, Left
<1>3. QueueIsSuffix /\ OwnerPosition
  BY DEF Init, QueueIsSuffix, OwnerPosition
<1>4. {enqueued[i] : i \in 1..Left} = {} /\ finished = {}
  BY <1>2 DEF Init
<1>5. QED
  BY <1>1, <1>2, <1>3, <1>4 DEF IInv, StartedAreHeldOrFinished

\* The inductive invariant holds in every state of the pool.
THEOREM Invariant == Spec => []IInv
<1>1. QED
  BY InitInvariant, InvariantStep, PTL DEF Spec

\* The first `Left' tasks that were handed over are with the workers or done,
\* the others are the queue.
LEMMA InvariantPlaces == IInv => EachTaskOnce
<1> SUFFICES ASSUME IInv
             PROVE  EachTaskOnce
  OBVIOUS
<1>1. /\ tasks \in Seq(Tasks) /\ enqueued \in Seq(Tasks)
      /\ Len(tasks) \in Nat /\ Len(enqueued) \in Nat
      /\ DOMAIN tasks = 1..Len(tasks) /\ DOMAIN enqueued = 1..Len(enqueued)
      /\ Left \in 0..Len(enqueued) /\ Len(enqueued) = Left + Len(tasks)
  BY DEF IInv, TypeOK, QueueIsSuffix, Left
<1>2. \A i \in 1..Len(tasks) :
        tasks[i] = enqueued[Left + i] /\ Left + i \in 1..Len(enqueued)
  BY <1>1 DEF IInv, QueueIsSuffix
<1>3. \A i \in 1..Len(enqueued) :
        enqueued[i] \in Queued \cup {enqueued[k] : k \in 1..Left}
  <2> SUFFICES ASSUME NEW i \in 1..Len(enqueued), i \notin 1..Left
               PROVE  enqueued[i] \in Queued
    OBVIOUS
  <2>1. i - Left \in 1..Len(tasks) /\ Left + (i - Left) = i
    BY <1>1
  <2>2. QED
    BY <1>1, <1>2, <2>1 DEF Queued
<1>4. Enqueued = Queued \cup {enqueued[k] : k \in 1..Left}
  <2>1. Enqueued \subseteq Queued \cup {enqueued[k] : k \in 1..Left}
    BY <1>1, <1>3 DEF Enqueued
  <2>2. Queued \subseteq Enqueued
    BY <1>1, <1>2 DEF Enqueued, Queued
  <2>3. {enqueued[k] : k \in 1..Left} \subseteq Enqueued
    BY <1>1 DEF Enqueued
  <2>4. QED
    BY <2>1, <2>2, <2>3
<1>5. Queued \cap {enqueued[k] : k \in 1..Left} = {}
  <2> SUFFICES ASSUME NEW i \in 1..Len(tasks), NEW k \in 1..Left,
                      tasks[i] = enqueued[k]
               PROVE  FALSE
    BY <1>1 DEF Queued
  <2>1. Left + i = k
    BY <1>1, <1>2 DEF IInv, QueueIsSuffix
  <2>2. QED
    BY <1>1, <2>1
<1>6. \A i, j \in DOMAIN tasks : tasks[i] = tasks[j] => i = j
  <2> SUFFICES ASSUME NEW i \in 1..Len(tasks), NEW j \in 1..Len(tasks),
                      tasks[i] = tasks[j]
               PROVE  i = j
    BY <1>1
  <2>1. Left + i = Left + j
    BY <1>1, <1>2 DEF IInv, QueueIsSuffix
  <2>2. QED
    BY <1>1, <2>1
<1>7. QED
  BY <1>4, <1>5, <1>6 DEF EachTaskOnce, IInv, StartedAreHeldOrFinished

\* No connection is lost or served twice: each one handed over is in the queue
\* once, with one worker, or finished.
THEOREM EveryTaskHasOnePlace == Spec => []EachTaskOnce
<1>1. QED
  BY Invariant, InvariantPlaces, PTL

\* The destructor returns only when the queue is empty, all workers have left
\* and every connection that was ever handed over has been served.
THEOREM ShutdownDrains == Spec => []DrainedAtExit
<1>1. IInv => DrainedAtExit
  <2> SUFFICES ASSUME IInv
               PROVE  DrainedAtExit
    OBVIOUS
  <2>1. ASSUME owner = "destroyed"
        PROVE  finished = Enqueued
    <3>1. \A w \in Workers : workerpc[w] = "exited"
      BY <2>1 DEF IInv, OwnerPosition
    <3>2. Running = {} /\ Held = {}
      BY <3>1 DEF Running, Held
    <3>3. tasks = <<>>
      BY <3>1, WorkersAssumption DEF IInv, OwnerPosition
    <3>4. Queued = {}
      BY <3>3 DEF Queued
    <3>5. QED
      BY <3>2, <3>4, InvariantPlaces DEF EachTaskOnce
  <2>2. QED
    BY <2>1 DEF IInv, OwnerPosition, DrainedAtExit
<1>2. QED
  BY <1>1, Invariant, PTL

-----------------------------------------------------------------------------
\* A worker that comes to acquire the mutex adds one to those who acquire it.
LEMMA Arrives ==
  ASSUME TypeOK, NEW w \in Workers, workerpc[w] # "acquire",
         workerpc' = [workerpc EXCEPT ![w] = "acquire"]
  PROVE  Cardinality(Acquiring') = Cardinality(Acquiring) + 1
<1>1. Acquiring' = Acquiring \cup {w} /\ w \notin Acquiring
  BY DEF Acquiring, TypeOK
<1>2. Acquiring \in SUBSET Workers /\ IsFiniteSet(Acquiring)
  BY WorkersAssumption, FS_Subset DEF Acquiring
<1>3. QED
  BY <1>1, <1>2, FS_AddElement

\* Every step keeps the promise that a queued task has somebody to take it.
LEMMA WakeupStep == TypeOK /\ NoLostWakeup /\ [Next]_vars => NoLostWakeup'
<1> SUFFICES ASSUME TypeOK, NoLostWakeup, [Next]_vars
             PROVE  NoLostWakeup'
  OBVIOUS
<1> USE DEF NoLostWakeup
<1>0. /\ TypeOK'
      /\ IsFiniteSet(Acquiring) /\ Cardinality(Acquiring) \in Nat
      /\ Cardinality(Acquiring') \in Nat
      /\ Len(tasks) \in Nat /\ Len(tasks') \in Nat
  <2>1. TypeOK'
    BY TypeStep
  <2>2. Acquiring' \in SUBSET Workers /\ Acquiring \in SUBSET Workers
    BY DEF Acquiring
  <2>3. IsFiniteSet(Acquiring') /\ IsFiniteSet(Acquiring)
    BY <2>2, WorkersAssumption, FS_Subset
  <2>4. Len(tasks) \in Nat /\ Len(tasks') \in Nat
    BY <2>1 DEF TypeOK
  <2>5. QED
    BY <2>1, <2>3, <2>4, FS_CardinalityType
<1>1. ASSUME tasks' = <<>>
      PROVE  NoLostWakeup'
  <2>1. Len(tasks') = 0
    BY <1>1
  <2>2. QED
    BY <1>0, <2>1
<1>2. ASSUME NEW w \in Workers, Sleep(w) \/ Exit(w)
      PROVE  NoLostWakeup'
  BY <1>1, <1>2 DEF Sleep, Exit
<1>3. ASSUME NEW w \in Workers, Take(w)
      PROVE  NoLostWakeup'
  <2>1. Len(tasks') = Len(tasks) - 1
    BY <1>0, <1>3 DEF Take, TypeOK
  <2>2. Acquiring' = Acquiring \ {w} /\ w \in Acquiring /\ Waiting' = Waiting
    BY <1>3 DEF Take, TypeOK, Acquiring, Waiting
  <2>3. Cardinality(Acquiring') = Cardinality(Acquiring) - 1
    BY <1>0, <2>2, FS_RemoveElement
  <2>4. owner' = owner
    BY <1>3 DEF Take
  <2>5. QED
    BY <1>0, <2>1, <2>2, <2>3, <2>4
<1>4. ASSUME NEW w \in Workers, SpuriousWakeup(w) \/ TaskReturns(w)
      PROVE  NoLostWakeup'
  <2>1. Cardinality(Acquiring') = Cardinality(Acquiring) + 1
    BY <1>4, Arrives DEF SpuriousWakeup, TaskReturns
  <2>2. Waiting' \subseteq Waiting /\ tasks' = tasks /\ owner' = owner
    BY <1>4 DEF SpuriousWakeup, TaskReturns, Waiting, TypeOK
  <2>3. QED
    BY <1>0, <2>1, <2>2
<1>5. ASSUME NEW t \in Tasks, Enqueue(t)
      PROVE  NoLostWakeup'
  <2>1. Len(tasks') = Len(tasks) + 1
    BY <1>5 DEF Enqueue, TypeOK
  <2>2. /\ Acquiring' = Acquiring /\ Waiting' = Waiting
        /\ owner = "open" /\ owner' = "notify"
    BY <1>5 DEF Enqueue, Acquiring, Waiting
  <2>3. QED
    BY <1>0, <2>1, <2>2
<1>6. CASE NotifyOne
  <2>1. tasks' = tasks /\ owner = "notify" /\ owner' = "open"
    BY <1>6 DEF NotifyOne
  <2>2. CASE Waiting = {} /\ UNCHANGED workerpc
    <3>1. Waiting' = {}
      BY <2>2 DEF Waiting
    <3>2. QED
      BY <3>1
  <2>3. ASSUME NEW w \in Waiting,
               workerpc' = [workerpc EXCEPT ![w] = "acquire"]
        PROVE  NoLostWakeup'
    <3>1. w \in Workers /\ workerpc[w] # "acquire"
      BY DEF Waiting
    <3>2. Cardinality(Acquiring') = Cardinality(Acquiring) + 1
      BY <2>3, <3>1, Arrives
    <3>3. Len(tasks) <= Cardinality(Acquiring) + 1
      BY <1>0, <2>1
    <3>4. QED
      BY <1>0, <2>1, <3>2, <3>3
  <2>4. QED
    BY <1>6, <2>2, <2>3 DEF NotifyOne
<1>7. CASE NotifyAll
  <2>1. Waiting' = {}
    BY <1>7 DEF NotifyAll, Waiting
  <2>2. QED
    BY <2>1
<1>8. CASE Stop \/ Join \/ Terminated \/ UNCHANGED vars
  <2>1. Acquiring' = Acquiring /\ Waiting' = Waiting /\ tasks' = tasks
    BY <1>8 DEF Stop, Join, Terminated, vars, Acquiring, Waiting
  <2>2. owner = "notify" => owner' = "notify"
    BY <1>8 DEF Stop, Join, Terminated, vars
  <2>3. QED
    BY <1>0, <2>1, <2>2
<1>9. QED
  BY <1>2, <1>3, <1>4, <1>5, <1>6, <1>7, <1>8 DEF Next, WorkerStep, OwnerStep

\* No notification is lost between the unlock and notify_one: while a worker
\* sleeps, the queued tasks are matched by workers on their way to the queue.
THEOREM NoWakeupLost == Spec => []NoLostWakeup
<1>1. Init => NoLostWakeup
  <2>1. Init => Waiting = {}
    BY DEF Init, Waiting
  <2>2. QED
    BY <2>1 DEF NoLostWakeup
<1>2. QED
  BY <1>1, TypeCorrect, WakeupStep, PTL DEF Spec

-----------------------------------------------------------------------------
\* The abstract pool

\* A worker that runs nothing leaves room for one more: the tasks held are the
\* image of the running workers, which are not all the workers.
LEMMA RoomForOneMore ==
  ASSUME NEW w \in Workers, w \notin Running
  PROVE  Cardinality(Held) < Cardinality(Workers)
<1> DEFINE f == [v \in Running |-> task[v]]
<1>1. Running \in SUBSET (Workers \ {w})
  BY DEF Running
<1>2. /\ IsFiniteSet(Workers \ {w})
      /\ Cardinality(Workers \ {w}) = Cardinality(Workers) - 1
      /\ Cardinality(Workers) \in Nat
  BY WorkersAssumption, FS_RemoveElement, FS_CardinalityType
<1>3. /\ IsFiniteSet(Running)
      /\ Cardinality(Running) <= Cardinality(Workers) - 1
  BY <1>1, <1>2, FS_Subset
<1>4. f \in Surjection(Running, Held)
  BY DEF Surjection, Held
<1>5. IsFiniteSet(Held) /\ Cardinality(Held) <= Cardinality(Running)
  BY <1>3, <1>4, FS_Surjection
<1>6. Cardinality(Held) \in Nat /\ Cardinality(Running) \in Nat
  BY <1>3, <1>5, FS_CardinalityType
<1>7. QED
  BY <1>2, <1>3, <1>5, <1>6

\* The abstract module counts with its own copy of FiniteSets.
LEMMA SameCardinality == \A S : Abstract!Cardinality(S) = Cardinality(S)
  BY DEF Abstract!Cardinality, Cardinality

\* The tasks that TaskPool counts as running are those the threads hold.
LEMMA BegunAbstractly == IInv => Abstract!Begun \ finished = Held
  BY DEF IInv, StartedAreHeldOrFinished, Abstract!Begun, Left

\* Every step of the pool is a step of the abstract pool or none.
LEMMA RefinementStep ==
  ASSUME IInv, IInv', [Next]_vars
  PROVE  [Abstract!Next]_(Abstract!vars)
<1> DEFINE phase == IF owner = "destroyed" THEN "gone"
                    ELSE IF stop THEN "closing" ELSE "open"
<1>0. /\ Len(tasks) \in Nat /\ Len(enqueued) \in Nat
      /\ Len(tasks) <= Len(enqueued)
  BY DEF IInv, TypeOK, QueueIsSuffix
<1>1. ASSUME UNCHANGED <<tasks, enqueued, finished, stop>>,
             owner # "destroyed", owner' # "destroyed"
      PROVE  UNCHANGED Abstract!vars
  BY <1>1 DEF Abstract!vars
<1>2. ASSUME NEW w \in Workers, Sleep(w) \/ SpuriousWakeup(w)
      PROVE  UNCHANGED Abstract!vars
  BY <1>2 DEF Sleep, SpuriousWakeup, Abstract!vars
<1>3. ASSUME NEW w \in Workers, Exit(w)
      PROVE  UNCHANGED Abstract!vars
  BY <1>3 DEF Exit, Abstract!vars
<1>4. ASSUME NEW w \in Workers, Take(w)
      PROVE  Abstract!Begin
  <2>1. phase # "gone"
    BY <1>4 DEF Take, IInv, OwnerPosition
  <2>2. Len(tasks) > 0 /\ Len(tasks') = Len(tasks) - 1 /\ enqueued' = enqueued
    BY <1>0, <1>4 DEF Take, IInv, TypeOK
  <2>3. Abstract!Cardinality(Abstract!Begun \ finished) < Cardinality(Workers)
    BY <1>4, BegunAbstractly, RoomForOneMore, SameCardinality DEF Take, Running
  <2>4. phase' = phase /\ finished' = finished
    BY <1>4 DEF Take
  <2>5. QED
    BY <1>0, <2>1, <2>2, <2>3, <2>4 DEF Abstract!Begin
<1>5. ASSUME NEW w \in Workers, TaskReturns(w)
      PROVE  \E t \in Tasks : Abstract!Finish(t)
  <2>1. task[w] \in Tasks /\ task[w] \in Held
    BY <1>5 DEF TaskReturns, IInv, TypeOK, Held, Running
  <2>2. /\ finished' = finished \cup {task[w]}
        /\ UNCHANGED <<tasks, enqueued, stop, owner>>
    BY <1>5 DEF TaskReturns
  <2>3. QED
    BY <2>1, <2>2, BegunAbstractly DEF Abstract!Finish
<1>6. ASSUME NEW t \in Tasks \ Enqueued, Enqueue(t)
      PROVE  Abstract!Submit(t)
  <2>1. owner = "open" /\ owner' = "notify" /\ stop' = stop /\ ~stop
    BY <1>6 DEF Enqueue, IInv, OwnerPosition
  <2>2. /\ enqueued' = Append(enqueued, t) /\ Len(tasks') = Len(tasks) + 1
        /\ Len(enqueued') = Len(enqueued) + 1
    BY <1>6 DEF Enqueue, IInv, TypeOK
  <2>3. t \notin Abstract!Submitted
    BY <1>6 DEF Enqueued, Abstract!Submitted
  <2>4. QED
    BY <1>0, <1>6, <2>1, <2>2, <2>3 DEF Enqueue, Abstract!Submit
<1>7. CASE NotifyOne
  BY <1>1, <1>7 DEF NotifyOne
<1>8. CASE NotifyAll
  BY <1>1, <1>8 DEF NotifyAll
<1>9. ASSUME Stop
      PROVE  Abstract!Close
  BY <1>9 DEF Stop, IInv, OwnerPosition, Abstract!Close
<1>10. ASSUME Join
       PROVE  Abstract!Vanish
  <2>1. stop /\ owner = "join" /\ owner' = "destroyed"
    BY <1>10 DEF Join, IInv, OwnerPosition
  <2>2. Running = {} /\ Held = {}
    BY <1>10 DEF Join, Running, Held
  <2>3. tasks = <<>>
    BY <1>10, WorkersAssumption DEF Join, IInv, OwnerPosition
  <2>4. finished = Abstract!Submitted
    <3>1. Queued = {}
      BY <2>3 DEF Queued
    <3>2. QED
      BY <2>2, <3>1, InvariantPlaces
      DEF EachTaskOnce, Enqueued, Abstract!Submitted
  <2>5. QED
    BY <1>10, <2>1, <2>4 DEF Join, Abstract!Vanish
<1>11. CASE Terminated \/ UNCHANGED vars
  BY <1>11 DEF Terminated, vars, Abstract!vars
<1>12. QED
  BY <1>2, <1>3, <1>4, <1>5, <1>6, <1>7, <1>8, <1>9, <1>10, <1>11, <1>1
  DEF Next, WorkerStep, OwnerStep, Abstract!Next, NotifyOne, NotifyAll

\* The pool serves connections first come, first served, each exactly once, at
\* most one per worker, and its destructor returns when all were served.
THEOREM PoolImplementsTaskPool == Spec => RefinesTaskPool
<1>1. Init => Abstract!Init
  BY DEF Init, Abstract!Init
<1>2. IInv /\ IInv' /\ [Next]_vars => [Abstract!Next]_(Abstract!vars)
  BY RefinementStep
<1>3. QED
  BY <1>1, <1>2, Invariant, PTL DEF Spec, RefinesTaskPool, Abstract!Spec

-----------------------------------------------------------------------------
\* The place of the pool among the members.
Pool == CHOOSE p \in 1 .. Len(Members) : Members[p] = "thread_pool"

\* What the loop has accepted, arrived and handed over, and how far the
\* destructors have come.
Loop ==
  /\ loop \in {"accept", "handshake", "ended"}
  /\ arrived \in 0 .. Cardinality(Tasks)
  /\ accepted \in 0 .. arrived
  /\ loop = "handshake" => accepted = Len(enqueued) + 1

Destructors ==
  /\ gone \in 0 .. Len(Members)
  /\ owner = "destroyed" <=> gone >= Pool
  /\ stop => gone >= Pool - 1
  /\ owner \in {"notify_all", "join"} => gone = Pool - 1

SInv == Loop /\ NobodyOvertakes /\ Destructors

-----------------------------------------------------------------------------
\* The pool is one of the members; those a connection needs come after it.
LEMMA PoolPlace ==
  /\ Len(Members) \in Nat /\ Pool \in 1 .. Len(Members)
  /\ Members[Pool] = "thread_pool"
  /\ \A i \in 1 .. Len(Members) : Members[i] = "thread_pool" => i = Pool
  /\ \A i \in 1 .. Len(Members) :
       Members[i] \in {"acceptor", "ssl_context", "io_context"} => i > Pool
<1>1. Members \in Seq(STRING) /\ Len(Members) \in Nat
  BY MembersAssumption
<1>2. PICK p \in 1 .. Len(Members) :
       /\ Members[p] = "thread_pool"
       /\ \A i \in 1 .. Len(Members) : Members[i] = "thread_pool" => i = p
       /\ \A i \in 1 .. Len(Members) :
            Members[i] \in {"acceptor", "ssl_context", "io_context"} => i > p
  BY MembersAssumption
<1>3. Pool = p
  BY <1>2 DEF Pool
<1>4. QED
  BY <1>1, <1>2, <1>3

\* Clients are the numbers from 1 on.
LEMMA ClientNumbers ==
  Cardinality(Tasks) \in Nat /\ Tasks = 1 .. Cardinality(Tasks)
<1>1. QED
  BY ArrivalsAssumption, FS_CardinalityType

\* At first nobody has come and nothing is destroyed.
LEMMA ServerInitially == ServerInit => Init /\ SInv
<1> SUFFICES ASSUME ServerInit
             PROVE  Init /\ SInv
  OBVIOUS
<1>1. Init /\ loop = "accept" /\ arrived = 0 /\ accepted = 0 /\ gone = 0
  BY DEF ServerInit
<1>2. enqueued = <<>> /\ owner = "open" /\ stop = FALSE
  BY <1>1 DEF Init
<1>3. Loop /\ NobodyOvertakes
  BY <1>1, <1>2, ClientNumbers DEF Loop, NobodyOvertakes
<1>4. Destructors
  BY <1>1, <1>2, PoolPlace DEF Destructors
<1>5. QED
  BY <1>1, <1>3, <1>4 DEF SInv

\* Handing a socket over appends the client to the pool's history, in which
\* it was not: the history ends with the client before.
LEMMA HandOverStep ==
  ASSUME TypeOK, SInv, HandOver
  PROVE  SInv' /\ accepted \in Tasks \ Enqueued
<1>1. /\ loop = "handshake" /\ loop' = "accept" /\ owner = "open" /\ owner' = "notify"
      /\ enqueued' = Append(enqueued, accepted) /\ stop' = stop
      /\ arrived' = arrived /\ accepted' = accepted /\ gone' = gone
  BY DEF HandOver, Enqueue
<1>2. /\ accepted = Len(enqueued) + 1 /\ accepted \in Nat /\ arrived \in Nat
      /\ enqueued \in Seq(Tasks) /\ Len(enqueued) \in Nat
      /\ accepted <= arrived /\ arrived <= Cardinality(Tasks)
  BY <1>1, ClientNumbers DEF SInv, Loop, TypeOK
<1>3. accepted \in Tasks /\ accepted \notin Enqueued
  <2>1. \A i \in DOMAIN enqueued : enqueued[i] = i /\ i <= Len(enqueued)
    BY <1>2 DEF SInv, NobodyOvertakes
  <2>2. QED
    BY <1>2, <2>1, ClientNumbers DEF Enqueued
<1>4. Len(enqueued') = accepted /\ \A i \in 1 .. Len(enqueued') : enqueued'[i] = i
  BY <1>1, <1>2, <1>3 DEF SInv, NobodyOvertakes
<1>5. enqueued' \in Seq(Tasks)
  BY <1>1, <1>2, <1>3
<1>6. Loop' /\ NobodyOvertakes'
  BY <1>1, <1>2, <1>4, <1>5 DEF SInv, Loop, NobodyOvertakes
<1>7. Destructors'
  BY <1>1, PoolPlace DEF SInv, Destructors
<1>8. QED
  BY <1>3, <1>6, <1>7 DEF SInv

\* A step of the destructors takes the pool down at its place.
LEMMA DestroyStep ==
  ASSUME TypeOK, SInv, OwnerPosition, DestroyMember \/ DestroyPool
  PROVE  SInv'
<1>1. gone \in Nat /\ gone < Len(Members) /\ Len(Members) \in Nat
  BY PoolPlace DEF SInv, Destructors, DestroyMember, DestroyPool
<1>2. Loop' /\ NobodyOvertakes'
  BY DEF SInv, Loop, NobodyOvertakes, DestroyMember, DestroyPool, accepting, vars,
         Stop, NotifyAll, Join
<1>3. CASE DestroyMember
  <2>1. gone + 1 # Pool /\ gone' = gone + 1 /\ owner' = owner /\ stop' = stop
    BY <1>3, PoolPlace DEF DestroyMember, vars
  <2>2. owner \notin {"notify_all", "join"}
    BY <2>1, <1>1, PoolPlace DEF SInv, Destructors
  <2>3. QED
    BY <2>1, <2>2, <1>1, <1>2, PoolPlace DEF SInv, Destructors
<1>4. CASE DestroyPool
  <2>1. gone + 1 = Pool
    BY <1>4, <1>1, PoolPlace DEF DestroyPool
  <2>2. CASE Stop /\ UNCHANGED gone
    BY <2>1, <2>2, <1>1, <1>2, PoolPlace DEF SInv, Destructors, Stop
  <2>3. CASE NotifyAll /\ UNCHANGED gone
    BY <2>1, <2>3, <1>1, <1>2, PoolPlace DEF SInv, Destructors, NotifyAll
  <2>4. CASE Join /\ gone' = gone + 1
    BY <2>1, <2>4, <1>1, <1>2, PoolPlace DEF SInv, Destructors, Join
  <2>5. QED
    BY <1>4, <2>2, <2>3, <2>4 DEF DestroyPool
<1>5. QED
  BY <1>3, <1>4

\* A worker's step, or the notification, is none of the accept loop's business.
LEMMA PoolStepKeeps ==
  ASSUME SInv, OwnerPosition, PoolStep
  PROVE  SInv'
<1>1. /\ enqueued' = enqueued /\ stop' = stop /\ gone' = gone
      /\ loop' = loop /\ arrived' = arrived /\ accepted' = accepted
  BY DEF PoolStep, accepting, WorkerStep, Sleep, Exit, Take, SpuriousWakeup,
         TaskReturns, NotifyOne
<1>2. owner' = owner \/ (owner = "notify" /\ owner' = "open")
  BY DEF PoolStep, WorkerStep, Sleep, Exit, Take, SpuriousWakeup, TaskReturns,
         NotifyOne
<1>3. QED
  BY <1>1, <1>2 DEF SInv, Loop, NobodyOvertakes, Destructors

\* Every step keeps the invariant, and is a step the pool allows, or none.
LEMMA ServerStep ==
  IInv /\ SInv /\ [ServerNext]_all => SInv' /\ [Next]_vars
<1> SUFFICES ASSUME IInv, SInv, [ServerNext]_all
             PROVE  SInv' /\ [Next]_vars
  OBVIOUS
<1>0. TypeOK /\ OwnerPosition
  BY DEF IInv
<1>1. CASE Arrive
  <2>1. arrived' = arrived + 1 /\ arrived' \in Tasks /\ UNCHANGED <<vars, loop, accepted, gone>>
    BY <1>1 DEF Arrive
  <2>2. QED
    BY <2>1, ClientNumbers DEF SInv, Loop, NobodyOvertakes, Destructors, vars
<1>2. CASE Accept
  <2>1. /\ loop = "accept" /\ accepted < arrived /\ accepted' = accepted + 1
        /\ loop' = "handshake" /\ UNCHANGED <<vars, arrived, gone>>
    BY <1>2 DEF Accept
  <2>2. accepted \in Nat /\ arrived \in Nat /\ Len(enqueued) = accepted
    BY <2>1, ClientNumbers DEF SInv, Loop, NobodyOvertakes
  <2>3. QED
    BY <2>1, <2>2 DEF SInv, Loop, NobodyOvertakes, Destructors, vars
<1>3. CASE HandOver
  <2>1. SInv' /\ accepted \in Tasks \ Enqueued
    BY <1>0, <1>3, HandOverStep
  <2>2. Enqueue(accepted)
    BY <1>3 DEF HandOver
  <2>3. QED
    BY <2>1, <2>2 DEF Next
<1>4. CASE LoopFails
  BY <1>4 DEF LoopFails, SInv, Loop, NobodyOvertakes, Destructors, vars
<1>5. CASE DestroyMember
  <2>1. UNCHANGED vars
    BY <1>5 DEF DestroyMember
  <2>2. QED
    BY <1>0, <1>5, <2>1, DestroyStep
<1>6. CASE DestroyPool
  <2>1. Stop \/ NotifyAll \/ Join
    BY <1>6 DEF DestroyPool
  <2>2. QED
    BY <1>0, <1>6, <2>1, DestroyStep DEF Next, OwnerStep
<1>7. CASE PoolStep
  <2>1. Next
    BY <1>7 DEF PoolStep, Next, OwnerStep
  <2>2. QED
    BY <1>0, <1>7, <2>1, PoolStepKeeps
<1>8. CASE ServerEnded \/ UNCHANGED all
  BY <1>8 DEF ServerEnded, all, vars, SInv, Loop, NobodyOvertakes, Destructors
<1>9. QED
  BY <1>1, <1>2, <1>3, <1>4, <1>5, <1>6, <1>7, <1>8 DEF ServerNext

\* The invariants of the pool and of the loop hold together.
LEMMA ServerInvariant == ServerSpec => [](IInv /\ SInv)
<1>1. ServerInit => IInv /\ SInv
  BY ServerInitially, InitInvariant
<1>2. IInv /\ SInv /\ [ServerNext]_all => (IInv /\ SInv)'
  BY ServerStep, InvariantStep
<1>3. QED
  BY <1>1, <1>2, PTL DEF ServerSpec

\* The accept loop and the server's destructor keep the owner's part of the
\* pool's specification: what is proved of the pool holds in the server.
LEMMA ServerKeepsToThePool == ServerSpec => Spec
<1>1. ServerInit => Init
  BY DEF ServerInit
<1>2. IInv /\ SInv /\ [ServerNext]_all => [Next]_vars
  BY ServerStep
<1>3. QED
  BY <1>1, <1>2, ServerInvariant, PTL DEF ServerSpec, Spec

\* Each client that the accept loop hands over is served exactly once: no
\* socket is given to the pool a second time, and none is lost there.
THEOREM ClientsAreServedOnce == ServerSpec => []EachTaskOnce
<1>1. QED
  BY ServerKeepsToThePool, EveryTaskHasOnePlace, PTL

\* The whole server, accept loop and destruction included, serves connections
\* first come, first served, and is gone when all that it took were served.
THEOREM ServerImplementsTaskPool == ServerSpec => RefinesTaskPool
<1>1. QED
  BY ServerKeepsToThePool, PoolImplementsTaskPool, PTL

\* Clients get to the pool in the order they connected, none left out.
THEOREM ClientsKeepTheirOrder == ServerSpec => []NobodyOvertakes
<1>1. SInv => NobodyOvertakes
  BY DEF SInv
<1>2. QED
  BY <1>1, ServerInvariant, PTL

\* The TLS context and the io_context are destroyed only after the last
\* connection has ended.
THEOREM ContextsLast == ServerSpec => []ContextsOutliveHandlers
<1>1. IInv /\ SInv => ContextsOutliveHandlers
  <2> SUFFICES ASSUME IInv, SInv,
                      Destroyed("ssl_context") \/ Destroyed("io_context")
               PROVE  tasks = <<>> /\ Running = {}
    BY DEF ContextsOutliveHandlers
  <2>1. PICK i \in 1 .. gone : Members[i] \in {"acceptor", "ssl_context", "io_context"}
    BY DEF Destroyed
  <2>2. gone \in 0 .. Len(Members)
    BY DEF SInv, Destructors
  <2>3. i > Pool /\ i <= gone
    BY <2>1, <2>2, PoolPlace
  <2>4. owner = "destroyed"
    BY <2>2, <2>3, PoolPlace DEF SInv, Destructors
  <2>5. \A w \in Workers : workerpc[w] = "exited"
    BY <2>4 DEF IInv, OwnerPosition
  <2>6. Running = {}
    BY <2>5 DEF Running
  <2>7. tasks = <<>>
    BY <2>5, WorkersAssumption DEF IInv, OwnerPosition
  <2>8. QED
    BY <2>6, <2>7
<1>2. QED
  BY <1>1, ServerInvariant, PTL
=============================================================================

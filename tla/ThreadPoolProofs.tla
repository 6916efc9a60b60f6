--------------------------- MODULE ThreadPoolProofs ---------------------------
(***************************************************************************)
(* Safety of the thread pools, proved for all of their versions and any    *)
(* number of accept loops, workers and connections.                        *)
(***************************************************************************)
EXTENDS ThreadPool, TLAPS, FiniteSetTheorems

(***************************************************************************)
(* The inductive invariant. TypeOK alone is not inductive: that PushTask   *)
(* appends a task and not None follows from what each thread holds, and    *)
(* that PopTask finds one follows from who owns the mutex. What holds at a *)
(* label depends on the version: Early are the labels a thread passes      *)
(* before its first task, Inside those between lock and unlock of _mutex.  *)
(***************************************************************************)
Early == CASE version = "lazy"     -> {}
           [] version = "lesson28" -> {"idle", "construct", "create"}
           [] version = "lesson30" -> {"idle", "fast", "mlock", "second", "construct",
                                       "munlock", "create"}
Inside == CASE version = "lazy"     -> {"second", "construct", "create", "munlock"}
            [] version = "lesson28" -> {}
            [] version = "lesson30" -> {"second", "construct", "munlock"}

Owners == /\ \A th \in Threads : lock = th <=> pc[th] \in {"push", "test", "pop"}
          /\ \A p \in Producers : _mutex = p <=> pc[p] \in Inside
          /\ \A p, q \in Producers :
               version # "lazy" /\ pc[p] # "idle" /\ pc[q] # "idle" => p = q
          /\ \A p \in Producers :
               /\ version = "lazy" => pc[p] # "idle"
               /\ version = "lesson28" => pc[p] \notin {"fast", "mlock", "second", "munlock"}

Hands == /\ \A p \in Producers : hand[p] = None <=> pc[p] \in {"accept", "signal"} \cup Early
         /\ \A w \in Workers : hand[w] = None <=> pc[w] # "run"

Instance == /\ built \in {0, 1}
            /\ \A p \in Producers :
                 /\ pc[p] = "construct" => built = 0
                 /\ pc[p] \in {"create", "munlock", "lock", "push", "signal"} => built = 1
                 /\ pc[p] = "accept" /\ version # "lazy" => built = 1
            /\ \A w \in Workers : pc[w] # "unborn" => built = 1

Nonempty == \A w \in Workers : pc[w] = "pop" => task_queue # <<>>

Control == TypeOK /\ Owners /\ Hands /\ Instance /\ Nonempty

\* At the beginning no worker exists, and of the callers one or all are at work.
LEMMA InitLabels ==
        Init => /\ \A w \in Workers : pc[w] = "unborn"
                /\ \A p \in Producers : pc[p] \in {Beginning, "idle"}
                /\ version = "lazy" => \A p \in Producers : pc[p] = "accept"
                /\ version # "lazy" =>
                     \E main \in Producers : \A p \in Producers \ {main} : pc[p] = "idle"
                /\ version \in {"lazy", "lesson28", "lesson30"}
                /\ pc \in [Threads -> {"unborn", "idle", Beginning}]
<1> SUFFICES ASSUME Init PROVE
         /\ \A w \in Workers : pc[w] = "unborn"
         /\ \A p \in Producers : pc[p] \in {Beginning, "idle"}
         /\ version = "lazy" => \A p \in Producers : pc[p] = "accept"
         /\ version # "lazy" =>
              \E main \in Producers : \A p \in Producers \ {main} : pc[p] = "idle"
         /\ version \in {"lazy", "lesson28", "lesson30"}
         /\ pc \in [Threads -> {"unborn", "idle", Beginning}]
  OBVIOUS
<1>1. PICK main \in Producers :
         pc = [th \in Threads |-> IF th \in Workers THEN "unborn"
                                  ELSE IF th = main \/ version = "lazy" THEN Beginning
                                  ELSE "idle"]
  BY DEF Init
<1>2. \A w \in Workers : pc[w] = "unborn"
  BY <1>1, ThreadsAssumption DEF Threads
<1>3. \A p \in Producers : pc[p] = IF p = main \/ version = "lazy" THEN Beginning ELSE "idle"
  BY <1>1, ThreadsAssumption DEF Threads
<1>4. version = "lazy" => Beginning = "accept"
  BY DEF Beginning
<1>5. \A th \in Threads : pc[th] \in {"unborn", "idle", Beginning}
  BY <1>2, <1>3 DEF Threads
<1>6. DOMAIN pc = Threads /\ pc = [th \in Threads |-> pc[th]]
  BY <1>1
<1> QED
  BY <1>2, <1>3, <1>4, <1>5, <1>6 DEF Init

LEMMA ControlInit == Init => Control
<1> SUFFICES ASSUME Init PROVE Control
  OBVIOUS
<1> USE InitLabels, ThreadsAssumption DEF Threads, Init
<1>1. Beginning \in {"accept", "construct", "fast"}
  BY DEF Beginning
<1>2. TypeOK
  BY <1>1 DEF TypeOK, ProducerLabels, WorkerLabels
<1>3. Owners
  BY <1>1 DEF Owners, Inside, Beginning
<1>4. Hands
  BY DEF Hands, Early, Beginning
<1>5. Instance /\ Nonempty
  BY DEF Instance, Nonempty, Beginning
<1> QED
  BY <1>2, <1>3, <1>4, <1>5 DEF Control

\* Every step of every thread preserves the invariant.
LEMMA ControlStep == Control /\ [Next]_vars => Control'
<1> SUFFICES ASSUME Control, [Next]_vars PROVE Control'
  OBVIOUS
<1> USE ThreadsAssumption, TasksAssumption
    DEF Control, TypeOK, Owners, Hands, Instance, Nonempty, Threads,
        ProducerLabels, WorkerLabels, Goto, Early, Inside
<1>1. ASSUME NEW p \in Producers, Accept(p) PROVE Control'
  BY <1>1 DEF Accept, AfterAccept
<1>2. ASSUME NEW p \in Producers, FastCheck(p) PROVE Control'
  BY <1>2 DEF FastCheck, AfterInstance
<1>3. ASSUME NEW p \in Producers, LockInstance(p) PROVE Control'
  BY <1>3 DEF LockInstance
<1>4. ASSUME NEW p \in Producers, SecondCheck(p) PROVE Control'
  BY <1>4 DEF SecondCheck, StillNull
<1>5. ASSUME NEW p \in Producers, Construct(p) PROVE Control'
  BY <1>5 DEF Construct, AfterConstruct
<1>6. ASSUME NEW p \in Producers, CreateWorker(p) PROVE Control'
  BY <1>6 DEF CreateWorker, crew
<1>7. ASSUME NEW p \in Producers, InitReturns(p) PROVE Control'
  BY <1>7 DEF InitReturns, AfterCreate
<1>8. ASSUME NEW p \in Producers, UnlockInstance(p) PROVE Control'
  BY <1>8 DEF UnlockInstance, AfterInstance
<1>9. ASSUME NEW p \in Producers, PushLock(p) PROVE Control'
  BY <1>9 DEF PushLock, Acquire
<1>10. ASSUME NEW p \in Producers, Push(p) PROVE Control'
  BY <1>10, SMTT(30) DEF Push, Given, Release
<1>11. ASSUME NEW p \in Producers, ThreadWakeup(p) PROVE Control'
  BY <1>11 DEF ThreadWakeup, WakeOne, Signalled, Waiting
<1>12. ASSUME NEW w \in Workers, WorkerLock(w) PROVE Control'
  BY <1>12 DEF WorkerLock, AfterWait, Acquire
<1>13. ASSUME NEW w \in Workers, Test(w) PROVE Control'
  BY <1>13 DEF Test, Release, TaskQueueIsEmpty
<1>14. ASSUME NEW w \in Workers, SpuriousWakeup(w) PROVE Control'
  BY <1>14 DEF SpuriousWakeup
<1>15. ASSUME NEW w \in Workers, PopTask(w) PROVE Control'
  BY <1>15 DEF PopTask, Front, Popped, Release
<1>16. ASSUME NEW w \in Workers, ProcessOn(w) PROVE Control'
  BY <1>16 DEF ProcessOn
<1>17. ASSUME NEW p \in Producers, pushTask(p) PROVE Control'
  BY <1>17, SMTT(30) DEF pushTask, WakeOne, Signalled, Waiting, Release
<1>18. CASE UNCHANGED vars
  BY <1>18 DEF vars
<1> QED
  BY <1>1, <1>2, <1>3, <1>4, <1>5, <1>6, <1>7, <1>8, <1>9, <1>10, <1>11,
     <1>12, <1>13, <1>14, <1>15, <1>16, <1>17, <1>18
  DEF Next, ProducerStep, WorkerStep

LEMMA ControlAlways == SafeSpec => []Control
  BY ControlInit, ControlStep, PTL DEF SafeSpec

\* The state keeps its type: every step of the accept loop, getinstance, PushTask
\* and ThreadRoutinue leaves each thread at one of its own program points.
THEOREM TypeCorrect == SafeSpec => []TypeOK
  BY ControlAlways, PTL DEF Control

\* getinstance constructs one pool, whatever the number of threads calling it.
THEOREM SingletonOnce == SafeSpec => []OneInstance
<1>1. Control => OneInstance
  BY DEF Control, Instance, OneInstance, crew, TypeOK
<1> QED
  BY <1>1, ControlAlways, PTL

\* PopTask always finds a task: front() is never called on an empty queue.
THEOREM PopFindsTask == SafeSpec => []PopNonEmpty
<1>1. Control => PopNonEmpty
  BY DEF Control, TypeOK, Owners, Nonempty, PopNonEmpty, TaskQueueIsEmpty, Threads
<1> QED
  BY <1>1, ControlAlways, PTL

-------------------------------------------------------------------------------
(***************************************************************************)
(* Every accepted connection is in exactly one place. Only four steps move *)
(* a connection: from the listening socket to a producer, from there into  *)
(* the queue, from its head to a worker, and out of the worker.            *)
(***************************************************************************)
LEMMA OnceStep == Control /\ EachTaskOnce /\ [Next]_vars => EachTaskOnce'
<1> SUFFICES ASSUME Control, EachTaskOnce, [Next]_vars PROVE EachTaskOnce'
  OBVIOUS
<1> USE ThreadsAssumption, TasksAssumption DEF Control, TypeOK, Threads
<1>1. ASSUME UNCHANGED <<hand, task_queue, accepted, done>> PROVE EachTaskOnce'
  BY <1>1 DEF EachTaskOnce, Queued
<1>2. ASSUME NEW p \in Producers, Accept(p) PROVE EachTaskOnce'
  <2>1. PICK t \in Tasks \ accepted : /\ hand' = [hand EXCEPT ![p] = t]
                                     /\ accepted' = accepted \cup {t}
    BY <1>2 DEF Accept
  <2>2. hand[p] = None /\ UNCHANGED <<task_queue, done>>
    BY <1>2 DEF Accept, Hands
  <2> QED
    BY <2>1, <2>2 DEF EachTaskOnce, Queued
<1>3. ASSUME NEW p \in Producers, Push(p) \/ pushTask(p) PROVE EachTaskOnce'
  <2>1. /\ task_queue' = Append(task_queue, hand[p])
        /\ hand' = [hand EXCEPT ![p] = None]
        /\ UNCHANGED <<accepted, done>>
        /\ hand[p] \in Tasks
    BY <1>3 DEF Push, pushTask, Given, Hands, Early
  <2>2. Queued' = Queued \cup {hand[p]}
    BY <2>1 DEF Queued
  <2>3. \A i, j \in 1..Len(task_queue') : task_queue'[i] = task_queue'[j] => i = j
    BY <2>1 DEF EachTaskOnce, Queued
  <2> QED
    BY <2>1, <2>2, <2>3 DEF EachTaskOnce
<1>4. ASSUME NEW w \in Workers, PopTask(w) PROVE EachTaskOnce'
  <2>1. /\ hand' = [hand EXCEPT ![w] = Head(task_queue)]
        /\ task_queue' = Tail(task_queue)
        /\ UNCHANGED <<accepted, done>>
        /\ hand[w] = None
        /\ task_queue # <<>>
    BY <1>4 DEF PopTask, Front, Popped, Hands, Nonempty
  <2>2. /\ Head(task_queue) = task_queue[1]
        /\ Len(task_queue') = Len(task_queue) - 1
        /\ \A i \in 1..Len(task_queue') : task_queue'[i] = task_queue[i + 1]
        /\ Len(task_queue) \in Nat \ {0}
        /\ Head(task_queue) \in Tasks
    BY <2>1
  <2>3. Queued = Queued' \cup {Head(task_queue)}
    <3>1. \A i \in 1..Len(task_queue) : i = 1 \/ i - 1 \in 1..Len(task_queue')
      BY <2>2
    <3>2. \A i \in 1..Len(task_queue') : i + 1 \in 1..Len(task_queue)
      BY <2>2
    <3>3. \A i \in 1..Len(task_queue) :
            task_queue[i] \in Queued' \cup {Head(task_queue)}
      <4> SUFFICES ASSUME NEW i \in 1..Len(task_queue), i # 1
                   PROVE  task_queue[i] \in Queued'
        BY <2>2
      <4>1. i - 1 \in 1..Len(task_queue') /\ task_queue'[i - 1] = task_queue[(i - 1) + 1]
        BY <2>2, <3>1
      <4> QED
        BY <4>1 DEF Queued
    <3>4. Head(task_queue) \in Queued
      BY <2>2 DEF Queued
    <3>5. \A i \in 1..Len(task_queue') : task_queue'[i] \in Queued
      BY <2>2, <3>2 DEF Queued
    <3> QED
      BY <3>3, <3>4, <3>5 DEF Queued
  <2>4. Head(task_queue) \notin Queued'
    BY <2>2 DEF Queued, EachTaskOnce
  <2>5. \A i, j \in 1..Len(task_queue') : task_queue'[i] = task_queue'[j] => i = j
    <3> SUFFICES ASSUME NEW i \in 1..Len(task_queue'), NEW j \in 1..Len(task_queue'),
                        task_queue[i + 1] = task_queue[j + 1]
                 PROVE  i = j
      BY <2>2
    <3>1. i + 1 \in 1..Len(task_queue) /\ j + 1 \in 1..Len(task_queue)
      BY <2>2
    <3>2. i + 1 = j + 1
      BY <3>1 DEF EachTaskOnce
    <3> QED
      BY <3>2
  <2>6. \A th \in Threads : hand[th] \notin Queued /\ hand'[th] \notin Queued' \cup done'
    <3>1. \A th \in Threads \ {w} : hand'[th] = hand[th]
      BY <2>1
    <3>2. hand'[w] = Head(task_queue)
      BY <2>1
    <3>3. Head(task_queue) \notin done
      BY <2>3 DEF EachTaskOnce
    <3> QED
      BY <2>1, <2>3, <2>4, <3>1, <3>2, <3>3 DEF EachTaskOnce
  <2>7. \A a, b \in Threads : hand'[a] = hand'[b] /\ hand'[a] # None => a = b
    BY <2>1, <2>3, <2>6 DEF EachTaskOnce
  <2>8. {hand'[th] : th \in Threads} \ {None} =
          ({hand[th] : th \in Threads} \ {None}) \cup {Head(task_queue)}
    BY <2>1, <2>2
  <2> QED
    BY <2>1, <2>3, <2>5, <2>6, <2>7, <2>8 DEF EachTaskOnce
<1>5. ASSUME NEW w \in Workers, ProcessOn(w) PROVE EachTaskOnce'
  <2>1. /\ hand' = [hand EXCEPT ![w] = None]
        /\ done' = done \cup {hand[w]}
        /\ hand[w] \in Tasks
        /\ UNCHANGED <<task_queue, accepted>>
    BY <1>5 DEF ProcessOn, Hands
  <2> QED
    BY <2>1 DEF EachTaskOnce, Queued
<1> QED
  BY <1>1, <1>2, <1>3, <1>4, <1>5
  DEF Next, ProducerStep, WorkerStep, FastCheck, LockInstance, SecondCheck,
      Construct, CreateWorker, InitReturns, UnlockInstance, PushLock,
      ThreadWakeup, WorkerLock, Test, SpuriousWakeup, vars

LEMMA OnceAlways == SafeSpec => [](Control /\ EachTaskOnce)
<1>1. Init => EachTaskOnce
  BY DEF Init, EachTaskOnce, Queued
<1> QED
  BY <1>1, ControlInit, ControlStep, OnceStep, PTL DEF SafeSpec

\* No connection the accept loop took is dropped or processed twice.
THEOREM TaskNeverLost == SafeSpec => []EachTaskOnce
  BY OnceAlways, PTL

-------------------------------------------------------------------------------
(***************************************************************************)
(* No lost wakeup. The inequality is inductive by itself: a push adds one  *)
(* task and one signaller; a signal turns its signaller into a worker on   *)
(* its way, or finds nobody asleep; a pop takes one task and one worker;   *)
(* and a worker goes to sleep only beside an empty queue.                  *)
(***************************************************************************)
LEMMA AddOne == ASSUME NEW S, IsFiniteSet(S), NEW x, x \notin S
                PROVE  Cardinality(S \cup {x}) = Cardinality(S) + 1
  BY FS_AddElement

LEMMA DropOne == ASSUME NEW S, IsFiniteSet(S), NEW x \in S
                 PROVE  Cardinality(S \ {x}) = Cardinality(S) - 1
  BY FS_RemoveElement

LEMMA CountsAreFinite == /\ IsFiniteSet(OnTheWay) /\ Cardinality(OnTheWay) \in Nat
                         /\ IsFiniteSet(Signalling) /\ Cardinality(Signalling) \in Nat
<1>1. OnTheWay \subseteq Workers /\ Signalling \subseteq Producers
  BY DEF OnTheWay, Signalling
<1> QED
  BY <1>1, ThreadsAssumption, FS_Subset, FS_CardinalityType

LEMMA WakeupStep == Control /\ NoLostWakeup /\ [Next]_vars => NoLostWakeup'
<1> SUFFICES ASSUME Control, NoLostWakeup, [Next]_vars PROVE NoLostWakeup'
  OBVIOUS
<1> USE ThreadsAssumption, CountsAreFinite
    DEF Control, TypeOK, Threads, NoLostWakeup, ProducerLabels, WorkerLabels, Goto
<1> DEFINE Same == Waiting' = Waiting /\ OnTheWay' = OnTheWay /\ Signalling' = Signalling
<1>1. ASSUME Same, UNCHANGED task_queue PROVE NoLostWakeup'
  BY <1>1
<1>2. ASSUME NEW p \in Producers, Push(p) PROVE NoLostWakeup'
  <2>1. /\ Waiting' = Waiting /\ OnTheWay' = OnTheWay
        /\ p \notin Signalling /\ Signalling' = Signalling \cup {p}
    BY <1>2 DEF Push, Waiting, OnTheWay, Signalling
  <2>2. Len(task_queue') = Len(task_queue) + 1 /\ Len(task_queue) \in Nat
    BY <1>2 DEF Push, Given, Hands, Early
  <2> QED
    BY <2>1, <2>2, AddOne
<1>3. ASSUME NEW p \in Producers, ThreadWakeup(p), Waiting # {} PROVE NoLostWakeup'
  <2>1. PICK w \in Waiting : pc' = [pc EXCEPT ![p] = "accept", ![w] = "woken"]
    BY <1>3 DEF ThreadWakeup, WakeOne, Signalled
  <2>2. /\ w \notin OnTheWay /\ OnTheWay' = OnTheWay \cup {w}
        /\ p \in Signalling /\ Signalling' = Signalling \ {p}
    BY <1>3, <2>1 DEF ThreadWakeup, Waiting, OnTheWay, Signalling
  <2>3. Cardinality(OnTheWay') = Cardinality(OnTheWay) + 1
    BY <2>2, AddOne
  <2>4. Cardinality(Signalling') = Cardinality(Signalling) - 1
    BY <2>2, DropOne
  <2>5. task_queue' = task_queue /\ Len(task_queue) \in Nat
    BY <1>3 DEF ThreadWakeup
  <2> QED
    BY <1>3, <2>3, <2>4, <2>5
<1>4. ASSUME NEW p \in Producers, ThreadWakeup(p), Waiting = {} PROVE NoLostWakeup'
  BY <1>4 DEF ThreadWakeup, WakeOne, Signalled, Waiting
<1>5. ASSUME NEW w \in Workers, PopTask(w) PROVE NoLostWakeup'
  <2>1. /\ Waiting' = Waiting /\ Signalling' = Signalling
        /\ w \in OnTheWay /\ OnTheWay' = OnTheWay \ {w}
    BY <1>5 DEF PopTask, Waiting, OnTheWay, Signalling
  <2>2. Len(task_queue') = Len(task_queue) - 1 /\ Len(task_queue) \in Nat
    BY <1>5 DEF PopTask, Popped, Nonempty
  <2> QED
    BY <2>1, <2>2, DropOne
<1>6. ASSUME NEW w \in Workers, Test(w), TaskQueueIsEmpty PROVE NoLostWakeup'
  <2>1. Len(task_queue') = 0
    BY <1>6 DEF Test, TaskQueueIsEmpty
  <2>2. Cardinality(OnTheWay') \in Nat /\ Cardinality(Signalling') \in Nat
    <3>1. OnTheWay' \subseteq Workers /\ Signalling' \subseteq Producers
      BY DEF OnTheWay, Signalling
    <3> QED
      BY <3>1, FS_Subset, FS_CardinalityType
  <2> QED
    BY <2>1, <2>2
<1>7. ASSUME NEW w \in Workers, Test(w), ~TaskQueueIsEmpty PROVE NoLostWakeup'
  BY <1>7, <1>1 DEF Test, Waiting, OnTheWay, Signalling
<1>8. ASSUME NEW w \in Workers, UNCHANGED task_queue, Signalling' = Signalling,
             w \notin OnTheWay, OnTheWay' = OnTheWay \cup {w},
             Waiting' \subseteq Waiting
      PROVE  NoLostWakeup'
  BY <1>8, AddOne
<1>9. ASSUME NEW p \in Producers, CreateWorker(p) PROVE NoLostWakeup'
  <2>1. PICK w \in Workers \ crew : pc' = [pc EXCEPT ![w] = "lock"]
    BY <1>9 DEF CreateWorker
  <2> QED
    BY <1>8, <1>9, <2>1 DEF CreateWorker, crew, Waiting, OnTheWay, Signalling
<1>10. ASSUME NEW w \in Workers, SpuriousWakeup(w) PROVE NoLostWakeup'
  <2>1. /\ pc' = [pc EXCEPT ![w] = "woken"] /\ pc[w] = "wait"
        /\ UNCHANGED task_queue
    BY <1>10 DEF SpuriousWakeup
  <2>2. Signalling' = Signalling /\ Waiting' \subseteq Waiting
    BY <2>1 DEF Waiting, Signalling
  <2>3. w \notin OnTheWay /\ OnTheWay' = OnTheWay \cup {w}
    BY <2>1 DEF OnTheWay
  <2> QED
    BY <1>8, <2>1, <2>2, <2>3
<1>11. ASSUME NEW w \in Workers, ProcessOn(w) PROVE NoLostWakeup'
  BY <1>8, <1>11 DEF ProcessOn, Waiting, OnTheWay, Signalling
<1>12. ASSUME NEW w \in Workers, WorkerLock(w) PROVE NoLostWakeup'
  BY <1>1, <1>12 DEF WorkerLock, AfterWait, Waiting, OnTheWay, Signalling
<1>13. ASSUME NEW p \in Producers,
              \/ Accept(p) \/ FastCheck(p) \/ LockInstance(p) \/ SecondCheck(p)
              \/ Construct(p) \/ InitReturns(p) \/ UnlockInstance(p) \/ PushLock(p)
       PROVE  NoLostWakeup'
  BY <1>1, <1>13
  DEF Accept, FastCheck, LockInstance, SecondCheck, Construct, InitReturns,
      UnlockInstance, PushLock, AfterAccept, AfterConstruct, AfterCreate, AfterInstance,
      Waiting, OnTheWay, Signalling
<1>14. CASE UNCHANGED vars
  BY <1>1, <1>14 DEF vars, Waiting, OnTheWay, Signalling
<1>15. ASSUME NEW p \in Producers, pushTask(p), Waiting # {} PROVE NoLostWakeup'
  <2>1. PICK w \in Waiting : pc' = [pc EXCEPT ![p] = "accept", ![w] = "woken"]
    BY <1>15 DEF pushTask, WakeOne, Signalled
  <2>2. /\ w \notin OnTheWay /\ OnTheWay' = OnTheWay \cup {w}
        /\ Signalling' = Signalling
    BY <1>15, <2>1 DEF pushTask, Waiting, OnTheWay, Signalling
  <2>3. Cardinality(OnTheWay') = Cardinality(OnTheWay) + 1
    BY <2>2, AddOne
  <2>4. Len(task_queue') = Len(task_queue) + 1 /\ Len(task_queue) \in Nat
    BY <1>15 DEF pushTask, Hands, Early
  <2> QED
    BY <1>15, <2>2, <2>3, <2>4
<1>16. ASSUME NEW p \in Producers, pushTask(p), Waiting = {} PROVE NoLostWakeup'
  BY <1>16 DEF pushTask, WakeOne, Signalled, Waiting
<1> QED
  BY <1>2, <1>3, <1>4, <1>5, <1>6, <1>7, <1>9, <1>10, <1>11, <1>12, <1>13, <1>14,
     <1>15, <1>16
  DEF Next, ProducerStep, WorkerStep

\* A worker never sleeps on a task that nobody is on the way to fetch, although
\* PushTask signals after it has released the mutex.
THEOREM WakeupNeverLost == SafeSpec => []NoLostWakeup
<1>1. Init => NoLostWakeup
  BY InitLabels DEF Init, NoLostWakeup, Waiting
<1> QED
  BY <1>1, ControlInit, ControlStep, WakeupStep, PTL DEF SafeSpec

\* No deadlock between the two mutexes and the condition variable: when every
\* thread waits, each connection whose client keeps talking has been handled, or
\* silent clients hold all the workers. The owner of a mutex never rests, so nobody
\* waits for one; if a worker sleeps, no one is on the way and no signal is to
\* come, so the queue is empty, and what is accepted is done or held.
THEOREM PoolRestsDone == SafeSpec => []RestIsDone
<1>1. Control /\ EachTaskOnce /\ NoLostWakeup => RestIsDone
  <2> SUFFICES ASSUME Control, EachTaskOnce, NoLostWakeup,
                      \A th \in Threads : Resting(th), ~AllHeld
               PROVE  accepted \ Stuck \subseteq done
    BY DEF RestIsDone
  <2> USE ThreadsAssumption, TasksAssumption DEF Control, TypeOK, Threads, ProducerLabels, WorkerLabels
  <2>1. lock = None
    BY DEF Owners, Resting
  <2>2. _mutex = None
    BY DEF Owners, Inside, Resting
  <2>3. /\ \A p \in Producers : pc[p] \in {"idle", "accept"}
        /\ \A w \in Workers : \/ pc[w] \in {"unborn", "wait"}
                              \/ pc[w] = "run" /\ hand[w] \in Stuck
    BY <2>1, <2>2 DEF Resting
  <2>4. Waiting # {}
    BY <2>3 DEF AllHeld, crew, Waiting
  <2>5. OnTheWay = {} /\ Signalling = {}
    BY <2>3 DEF OnTheWay, Signalling
  <2>6. task_queue = <<>>
    BY <2>4, <2>5, FS_EmptySet DEF NoLostWakeup
  <2>7. \A p \in Producers : hand[p] = None
    BY <2>3 DEF Hands, Early, Owners
  <2>8. \A th \in Threads : hand[th] \in Stuck \cup {None}
    BY <2>3, <2>7 DEF Hands
  <2> QED
    BY <2>6, <2>8 DEF EachTaskOnce, Queued
<1> QED
  BY <1>1, OnceAlways, WakeupNeverLost, PTL

-------------------------------------------------------------------------------
(***************************************************************************)
(* The pools implement the hand-off queue: creating a worker starts it,    *)
(* Push submits, PopTask takes, ProcessOn finishes, the rest stutters.     *)
(***************************************************************************)
LEMMA StepRefines == Control /\ EachTaskOnce /\ [Next]_vars => [TQ!Next]_(TQ!vars)
<1> SUFFICES ASSUME Control, EachTaskOnce, [Next]_vars PROVE [TQ!Next]_(TQ!vars)
  OBVIOUS
<1> USE ThreadsAssumption, TasksAssumption
    DEF Control, TypeOK, Threads, WorkerLabels, ProducerLabels, Goto
<1>1. ASSUME NEW p \in Producers, Push(p) \/ pushTask(p)
      PROVE  TQ!Submit(hand[p]) /\ hand[p] \in Tasks
  <2>1. hand[p] \in Tasks /\ task_queue' = Append(task_queue, hand[p])
    BY <1>1 DEF Push, pushTask, Given, Hands, Early
  <2>2. \A w \in Workers : hand[w] # hand[p] /\ hand'[w] = hand[w]
    BY <1>1, <2>1 DEF Push, pushTask, EachTaskOnce
  <2>3. crew' = crew /\ done' = done
    BY <1>1 DEF Push, pushTask, WakeOne, Signalled, Waiting, crew
  <2>4. hand[p] \notin done /\ \A i \in 1..Len(task_queue) : task_queue[i] # hand[p]
    BY DEF EachTaskOnce, Queued
  <2> QED
    BY <2>1, <2>2, <2>3, <2>4 DEF TQ!Submit
<1>2. ASSUME NEW p \in Producers, CreateWorker(p) PROVE \E w \in Workers : TQ!Start(w)
  <2>1. PICK w \in Workers \ crew : pc' = [pc EXCEPT ![w] = "lock"]
    BY <1>2 DEF CreateWorker
  <2>2. crew' = crew \cup {w} /\ UNCHANGED <<task_queue, hand, done>>
    BY <1>2, <2>1 DEF CreateWorker, crew
  <2> QED
    BY <2>1, <2>2 DEF TQ!Start
<1>3. ASSUME NEW w \in Workers, PopTask(w) PROVE TQ!Take(w)
  <2>1. /\ hand[w] = None /\ task_queue # <<>>
        /\ hand' = [hand EXCEPT ![w] = Head(task_queue)]
        /\ task_queue' = Tail(task_queue) /\ done' = done
    BY <1>3 DEF PopTask, Front, Popped, Hands, Nonempty
  <2>2. w \in crew /\ crew' = crew
    BY <1>3 DEF PopTask, crew
  <2> QED
    BY <2>1, <2>2 DEF TQ!Take
<1>4. ASSUME NEW w \in Workers, ProcessOn(w) PROVE TQ!Finish(w)
  <2>1. /\ hand[w] \notin Stuck \cup {None}
        /\ hand' = [hand EXCEPT ![w] = None]
        /\ done' = done \cup {hand[w]} /\ task_queue' = task_queue
    BY <1>4 DEF ProcessOn, Hands
  <2>2. crew' = crew
    BY <1>4 DEF ProcessOn, crew
  <2> QED
    BY <2>1, <2>2 DEF TQ!Finish
<1>5. ASSUME UNCHANGED <<task_queue, done, crew>>, \A w \in Workers : hand'[w] = hand[w]
      PROVE  UNCHANGED TQ!vars
  BY <1>5 DEF TQ!vars
<1>6. ASSUME NEW p \in Producers,
             \/ Accept(p) \/ FastCheck(p) \/ LockInstance(p) \/ SecondCheck(p)
             \/ Construct(p) \/ InitReturns(p) \/ UnlockInstance(p) \/ PushLock(p)
             \/ ThreadWakeup(p)
      PROVE  UNCHANGED TQ!vars
  <2>1. UNCHANGED <<task_queue, done>> /\ \A w \in Workers : hand'[w] = hand[w]
    BY <1>6 DEF Accept, FastCheck, LockInstance, SecondCheck, Construct, InitReturns,
                UnlockInstance, PushLock, ThreadWakeup
  <2>2. crew' = crew
    BY <1>6 DEF Accept, FastCheck, LockInstance, SecondCheck, Construct, InitReturns,
                UnlockInstance, PushLock, ThreadWakeup, WakeOne, Signalled, Waiting, crew
  <2> QED
    BY <1>5, <2>1, <2>2
<1>7. ASSUME NEW w \in Workers, WorkerLock(w) \/ Test(w) \/ SpuriousWakeup(w)
      PROVE  UNCHANGED TQ!vars
  <2>1. UNCHANGED <<task_queue, done, hand>>
    BY <1>7 DEF WorkerLock, Test, SpuriousWakeup
  <2>2. crew' = crew
    BY <1>7 DEF WorkerLock, AfterWait, Test, SpuriousWakeup, crew
  <2> QED
    BY <1>5, <2>1, <2>2
<1>8. CASE UNCHANGED vars
  BY <1>5, <1>8 DEF vars, crew
<1> QED
  BY <1>1, <1>2, <1>3, <1>4, <1>6, <1>7, <1>8
  DEF Next, ProducerStep, WorkerStep, TQ!Next

\* The pool of locks, signals and sleeping workers is an implementation of the
\* plain first-in first-out hand-off queue.
THEOREM PoolRefinesQueue == SafeSpec => TQSafeSpec
<1>1. Init => TQ!Init
  BY InitLabels, ThreadsAssumption DEF Init, TQ!Init, crew, Threads
<1> QED
  BY <1>1, OnceAlways, StepRefines, PTL DEF SafeSpec, TQSafeSpec, TQ!SafeSpec
==============================================================================

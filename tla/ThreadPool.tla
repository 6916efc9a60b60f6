------------------------------ MODULE ThreadPool ------------------------------
(***************************************************************************)
(* The thread pools: a queue under one mutex and one condition variable,   *)
(* workers that wait for it, and the callers that push. "version" says     *)
(* which of them runs:                                                     *)
(*   "lazy"      myHttp, and lesson29, which differs in names: a singleton *)
(*               made by double-checked locking, whose constructor's call  *)
(*               starts the workers; PushTask signals after it unlocked    *)
(*   "lesson28"  no singleton: main makes the pool and starts its workers  *)
(*   "lesson30"  the singleton starts no worker, the server's call of run  *)
(*               does; pushTask signals while it holds the mutex           *)
(* In the last two one thread, main, does it all.                          *)
(*                                                                         *)
(* One action is one critical section or one step between two              *)
(* synchronising calls; what happens under a mutex that every accessor     *)
(* takes is indivisible for the other threads.                             *)
(***************************************************************************)
EXTENDS Naturals, Sequences, FiniteSets

CONSTANTS Producers,  \* the threads that run HttpServer::Loop
          Workers,    \* the num threads InitThreadPool tries to create
          Tasks,      \* the connections accept returns (lesson28: what main makes up)
          Stuck,      \* those whose handler never returns: the client neither sends nor closes,
                      \* or does not read, or its program does not end
          None

ASSUME ThreadsAssumption == /\ IsFiniteSet(Producers)
                            /\ IsFiniteSet(Workers)
                            /\ Producers \cap Workers = {}
                            /\ None \notin Producers \cup Workers
ASSUME TasksAssumption == Stuck \subseteq Tasks /\ None \notin Tasks

VARIABLES version,
          pc,          \* pc[th]: the next step of the thread
          hand,        \* hand[th]: the Task object the thread holds
          task_queue,
          lock,        \* the owner of ThreadPool::lock
          _mutex,      \* the owner of getinstance's static mutex
          built,       \* how many ThreadPool objects were constructed
          accepted,    \* history: the connections accepted so far
          done         \* history: the connections whose handler returned

vars == <<version, pc, hand, task_queue, lock, _mutex, built, accepted, done>>

Threads == Producers \cup Workers
Queued == {task_queue[i] : i \in 1..Len(task_queue)}
TaskQueueIsEmpty == Len(task_queue) = 0
Waiting == {w \in Workers : pc[w] = "wait"}     \* blocked in pthread_cond_wait
crew == {w \in Workers : pc[w] # "unborn"}

Goto(th, label) == pc' = [pc EXCEPT ![th] = label]
Acquire(th) == lock = None /\ lock' = th
Release(th) == lock = th /\ lock' = None

\* Where the program that uses the pool begins.
Beginning == CASE version = "lazy"     -> "accept"
               [] version = "lesson28" -> "construct"
               [] version = "lesson30" -> "fast"

Init == /\ version \in {"lazy", "lesson28", "lesson30"}
        /\ \E main \in Producers :
             pc = [th \in Threads |-> IF th \in Workers THEN "unborn"
                                      ELSE IF th = main \/ version = "lazy" THEN Beginning
                                      ELSE "idle"]
        /\ hand = [th \in Threads |-> None]
        /\ task_queue = <<>>
        /\ lock = None
        /\ _mutex = None
        /\ built = 0
        /\ accepted = {}
        /\ done = {}

(***************************************************************************)
(* What follows what. Only the lazy pool is asked for at each connection   *)
(* and creates its workers inside getinstance; lesson30 creates them in    *)
(* run, after getThreadPool returned.                                      *)
(***************************************************************************)
AfterAccept == IF version = "lazy" THEN "fast" ELSE "lock"
AfterConstruct == IF version = "lesson30" THEN "munlock" ELSE "create"
AfterCreate == IF version = "lazy" THEN "munlock" ELSE "accept"
AfterInstance == IF version = "lesson30" THEN "create" ELSE "lock"

\* A new connection becomes a Task.
Accept(p) == /\ pc[p] = "accept"
             /\ \E t \in Tasks \ accepted :
                  /\ hand' = [hand EXCEPT ![p] = t]
                  /\ accepted' = accepted \cup {t}
             /\ Goto(p, AfterAccept)
             /\ UNCHANGED <<version, task_queue, lock, _mutex, built, done>>

(***************************************************************************)
(* getinstance.                                                            *)
(***************************************************************************)
\* The first test of single_instance, made without the mutex.
FastCheck(p) == /\ pc[p] = "fast"
                /\ Goto(p, IF built = 0 THEN "mlock" ELSE AfterInstance)
                /\ UNCHANGED <<version, hand, task_queue, lock, _mutex, built, accepted, done>>

LockInstance(p) == /\ pc[p] = "mlock"
                   /\ _mutex = None
                   /\ _mutex' = p
                   /\ Goto(p, "second")
                   /\ UNCHANGED <<version, hand, task_queue, lock, built, accepted, done>>

\* Mutant: the test is not repeated under the mutex.
NotRepeated == TRUE

StillNull == built = 0

SecondCheck(p) == /\ pc[p] = "second"
                  /\ Goto(p, IF StillNull THEN "construct" ELSE "munlock")
                  /\ UNCHANGED <<version, hand, task_queue, lock, _mutex, built, accepted, done>>

\* The pool is published before it has a worker.
Construct(p) == /\ pc[p] = "construct"
                /\ built' = built + 1
                /\ Goto(p, AfterConstruct)
                /\ UNCHANGED <<version, hand, task_queue, lock, _mutex, accepted, done>>

CreateWorker(p) == /\ pc[p] = "create"
                   /\ \E w \in Workers \ crew : Goto(w, "lock")
                   /\ UNCHANGED <<version, hand, task_queue, lock, _mutex, built, accepted, done>>

\* The loop ended, or pthread_create failed; the callers ignore which.
InitReturns(p) == /\ pc[p] = "create"
                  /\ Goto(p, AfterCreate)
                  /\ UNCHANGED <<version, hand, task_queue, lock, _mutex, built, accepted, done>>

UnlockInstance(p) == /\ pc[p] = "munlock"
                     /\ _mutex' = None
                     /\ Goto(p, AfterInstance)
                     /\ UNCHANGED <<version, hand, task_queue, lock, built, accepted, done>>

(***************************************************************************)
(* PushTask.                                                               *)
(***************************************************************************)
PushLock(p) == /\ pc[p] = "lock"
               /\ Acquire(p)
               /\ Goto(p, "push")
               /\ UNCHANGED <<version, hand, task_queue, _mutex, built, accepted, done>>

\* Mutant: the task is moved out before it is appended.
Moved(p) == None

Given(p) == hand[p]

Push(p) == /\ pc[p] = "push" /\ version # "lesson30"
           /\ task_queue' = Append(task_queue, Given(p))
           /\ hand' = [hand EXCEPT ![p] = None]
           /\ Release(p)
           /\ Goto(p, "signal")
           /\ UNCHANGED <<version, _mutex, built, accepted, done>>

\* Mutant: only a push into an empty queue signals.
WaitingForFirst == IF Len(task_queue) = 1 THEN Waiting ELSE {}

\* The threads one of which pthread_cond_signal wakes: those that wait now.
Signalled == Waiting

WakeOne(p) == IF Signalled = {}
                THEN Goto(p, "accept")
                ELSE \E w \in Signalled :
                       pc' = [pc EXCEPT ![p] = "accept", ![w] = "woken"]

\* ThreadWakeup, after Unlock.
ThreadWakeup(p) == /\ pc[p] = "signal"
                   /\ WakeOne(p)
                   /\ UNCHANGED <<version, hand, task_queue, lock, _mutex, built, accepted, done>>

\* pushTask of lesson30, one critical section of a lockGuard.
pushTask(p) == /\ pc[p] = "push" /\ version = "lesson30"
               /\ task_queue' = Append(task_queue, hand[p])
               /\ hand' = [hand EXCEPT ![p] = None]
               /\ WakeOne(p)
               /\ Release(p)
               /\ UNCHANGED <<version, _mutex, built, accepted, done>>

(***************************************************************************)
(* ThreadRoutinue. A woken thread owns no mutex: pthread_cond_wait takes   *)
(* it again before it returns, and the while tests once more.              *)
(***************************************************************************)
\* Mutant: if instead of while, so a woken worker does not test again.
AfterWaitOnce(w) == IF pc[w] = "woken" THEN "pop" ELSE "test"

AfterWait(w) == "test"

WorkerLock(w) == /\ pc[w] \in {"lock", "woken"}
                 /\ Acquire(w)
                 /\ Goto(w, AfterWait(w))
                 /\ UNCHANGED <<version, hand, task_queue, _mutex, built, accepted, done>>

Test(w) == /\ pc[w] = "test"
           /\ IF TaskQueueIsEmpty
                THEN Release(w) /\ Goto(w, "wait")
                ELSE UNCHANGED lock /\ Goto(w, "pop")
           /\ UNCHANGED <<version, hand, task_queue, _mutex, built, accepted, done>>

\* POSIX allows pthread_cond_wait to return though nobody signalled.
SpuriousWakeup(w) == /\ pc[w] = "wait"
                     /\ Goto(w, "woken")
                     /\ UNCHANGED <<version, hand, task_queue, lock, _mutex, built, accepted, done>>

\* Mutants: front() without pop(), and the newest task instead of the oldest.
NotPopped == task_queue
Back == task_queue[Len(task_queue)]

Popped == Tail(task_queue)
Front == Head(task_queue)

PopTask(w) == /\ pc[w] = "pop"
              /\ hand' = [hand EXCEPT ![w] = Front]
              /\ task_queue' = Popped
              /\ Release(w)
              /\ Goto(w, "run")
              /\ UNCHANGED <<version, _mutex, built, accepted, done>>

ProcessOn(w) == /\ pc[w] = "run"
                /\ hand[w] \notin Stuck
                /\ done' = done \cup {hand[w]}
                /\ hand' = [hand EXCEPT ![w] = None]
                /\ Goto(w, "lock")
                /\ UNCHANGED <<version, task_queue, lock, _mutex, built, accepted>>

ProducerStep(p) == \/ Accept(p) \/ FastCheck(p) \/ LockInstance(p) \/ SecondCheck(p)
                   \/ Construct(p) \/ CreateWorker(p) \/ InitReturns(p)
                   \/ UnlockInstance(p) \/ PushLock(p) \/ Push(p) \/ ThreadWakeup(p)
                   \/ pushTask(p)
WorkerStep(w) == \/ WorkerLock(w) \/ Test(w) \/ SpuriousWakeup(w)
                 \/ PopTask(w) \/ ProcessOn(w)

Next == \/ \E p \in Producers : ProducerStep(p)
        \/ \E w \in Workers : WorkerStep(w)

(***************************************************************************)
(* A thread that can run does run; a thread that keeps finding a mutex     *)
(* free gets it in the end (strong fairness). Nothing obliges a client to  *)
(* connect or the kernel to wake a waiter that nobody signalled.           *)
(***************************************************************************)
ProducerFairness(p) ==
    /\ WF_vars(\/ FastCheck(p) \/ SecondCheck(p) \/ Construct(p) \/ CreateWorker(p)
               \/ InitReturns(p) \/ UnlockInstance(p) \/ Push(p) \/ ThreadWakeup(p) \/ pushTask(p))
    /\ SF_vars(LockInstance(p) \/ PushLock(p))
WorkerFairness(w) == /\ WF_vars(Test(w) \/ PopTask(w) \/ ProcessOn(w))
                     /\ SF_vars(WorkerLock(w))

SafeSpec == Init /\ [][Next]_vars
Spec == /\ SafeSpec
        /\ \A p \in Producers : ProducerFairness(p)
        /\ \A w \in Workers : WorkerFairness(w)

(***************************************************************************)
(* Properties.                                                             *)
(***************************************************************************)
ProducerLabels == {"idle", "accept", "fast", "mlock", "second", "construct", "create",
                   "munlock", "lock", "push", "signal"}
WorkerLabels == {"unborn", "lock", "woken", "test", "wait", "pop", "run"}

\* The type of the state.
TypeOK == /\ version \in {"lazy", "lesson28", "lesson30"}
          /\ pc \in [Threads -> ProducerLabels \cup WorkerLabels]
          /\ \A p \in Producers : pc[p] \in ProducerLabels
          /\ \A w \in Workers : pc[w] \in WorkerLabels
          /\ hand \in [Threads -> Tasks \cup {None}]
          /\ task_queue \in Seq(Tasks)
          /\ lock \in Threads \cup {None}
          /\ _mutex \in Producers \cup {None}
          /\ built \in Nat
          /\ accepted \subseteq Tasks
          /\ done \subseteq Tasks

\* getinstance: however many threads call it, one pool is constructed, and
\* whoever got past it (to PushTask) finds it constructed.
OneInstance == /\ built <= 1
               /\ \A p \in Producers : pc[p] \in {"create", "lock", "push"} => built = 1
               /\ crew # {} => built = 1

\* PopTask never runs front() on an empty queue: what Test saw under the mutex
\* still holds when the worker pops, also after it was woken for a task that
\* another worker took first.
PopNonEmpty == \A w \in Workers : pc[w] = "pop" => lock = w /\ ~TaskQueueIsEmpty

\* No lost wakeup although PushTask signals after Unlock: while a worker sleeps
\* every queued task has a worker on its way to the queue or a signal to come.
OnTheWay == {w \in Workers : pc[w] \in {"lock", "woken", "test", "pop"}}
Signalling == {p \in Producers : pc[p] = "signal"}
NoLostWakeup == Waiting # {} =>
                  Len(task_queue) <= Cardinality(OnTheWay) + Cardinality(Signalling)

\* Every accepted connection is in exactly one place: with one thread, once in
\* the queue, or handled. None is dropped and none is processed twice.
EachTaskOnce ==
    /\ \A a, b \in Threads : hand[a] = hand[b] /\ hand[a] # None => a = b
    /\ \A i, j \in 1..Len(task_queue) : task_queue[i] = task_queue[j] => i = j
    /\ \A th \in Threads : hand[th] \notin Queued \cup done
    /\ Queued \cap done = {}
    /\ accepted = Queued \cup done \cup ({hand[th] : th \in Threads} \ {None})

\* Liveness: every connection whose client keeps talking is handled, unless
\* from some time on each worker that exists is held by a silent client (or no
\* worker could be created at all).
AllHeld == \A w \in crew : pc[w] = "run" /\ hand[w] \in Stuck
Served == \A t \in Tasks \ Stuck : (t \in accepted) ~> (t \in done \/ []AllHeld)

\* The safety half of Served. A thread comes to rest where nothing but a client, a
\* signal or another thread's unlock moves it on; when all of them have, every
\* connection whose client keeps talking is handled, or each worker is held.
Resting(th) == \/ pc[th] \in {"idle", "unborn", "accept", "wait"}
               \/ pc[th] \in {"lock", "woken"} /\ lock # None
               \/ pc[th] = "mlock" /\ _mutex # None
               \/ pc[th] = "run" /\ hand[th] \in Stuck
RestIsDone == (\A th \in Threads : Resting(th)) => accepted \ Stuck \subseteq done \/ AllHeld

\* Refinement: the pool is the plain hand-off queue, and keeps its promise that
\* no worker rests for ever beside a queued task.
TQ == INSTANCE TaskQueue WITH
        queue <- task_queue,
        running <- [w \in Workers |-> hand[w]]
TQSafeSpec == TQ!SafeSpec
TQSpec == TQ!Spec
==============================================================================

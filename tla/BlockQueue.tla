------------------------------ MODULE BlockQueue ------------------------------
(***************************************************************************)
(* The blocking queue of lesson26 (consumer_producter/BlockQueue.hpp) and   *)
(* its threads (CpTest.cc): one mutex, one condition variable for each side,*)
(* each operation signalling the other side while it holds the mutex.       *)
(*                                                                          *)
(* What a thread does from a test that lets it pass to its unlock is one    *)
(* action: nobody else can be inside, and the waiter it signals cannot run  *)
(* before the unlock.                                                       *)
(***************************************************************************)
EXTENDS Naturals, Sequences, FiniteSets

CONSTANTS Producers, Consumers, Values,
          Cap,     \* cap_
          None

ASSUME ThreadsAssumption == /\ IsFiniteSet(Producers) /\ IsFiniteSet(Consumers)
                            /\ Producers \cap Consumers = {}
                            /\ None \notin Producers \cup Consumers \cup Values
ASSUME CapAssumption == Cap \in Nat \ {0}

VARIABLES bq_,
          mtx_,   \* the owner of the mutex
          pc,     \* "idle", "lock", "test", "wait"
          task    \* what a thread carries: the producer's in, the consumer's out

vars == <<bq_, mtx_, pc, task>>

Threads == Producers \cup Consumers
IsFull == Len(bq_) = Cap
IsEmpty == bq_ = <<>>

Init == /\ bq_ = <<>>
        /\ mtx_ = None
        /\ pc = [th \in Threads |-> IF th \in Producers THEN "idle" ELSE "lock"]
        /\ task = [th \in Threads |-> None]

\* The thread leaves the monitor for "label", and a signal wakes one thread that
\* waits on the other side's condition variable, if there is one.
Waiting(side) == {th \in side : pc[th] = "wait"}
LeaveAndWake(th, label, side) ==
    /\ mtx_' = None
    /\ IF Waiting(side) = {}
         THEN pc' = [pc EXCEPT ![th] = label]
         ELSE \E other \in Waiting(side) : pc' = [pc EXCEPT ![th] = label, ![other] = "lock"]

LockQueue(th) == /\ pc[th] = "lock"
                 /\ mtx_ = None
                 /\ mtx_' = th
                 /\ pc' = [pc EXCEPT ![th] = "test"]
                 /\ UNCHANGED <<bq_, task>>

\* pthread_cond_wait gives the mutex back while it sleeps ...
Wait(th) == /\ mtx_' = None
            /\ pc' = [pc EXCEPT ![th] = "wait"]
            /\ UNCHANGED <<bq_, task>>
\* ... and may return though nobody signalled.
SpuriousWakeup(th) == /\ pc[th] = "wait"
                      /\ pc' = [pc EXCEPT ![th] = "lock"]
                      /\ UNCHANGED <<bq_, mtx_, task>>

(***************************************************************************)
(* The producers.                                                           *)
(***************************************************************************)
Make(p) == /\ pc[p] = "idle"
           /\ \E v \in Values : task' = [task EXCEPT ![p] = v]
           /\ pc' = [pc EXCEPT ![p] = "lock"]
           /\ UNCHANGED <<bq_, mtx_>>

ProducterWait(p) == pc[p] = "test" /\ IsFull /\ Wait(p)

\* Mutants: the bound is not tested; the consumers are woken only when the queue
\* is more than half full, as the line commented out above the signal has it.
PushUnbounded(p) == /\ pc[p] = "test"
                    /\ bq_' = Append(bq_, task[p])
                    /\ task' = [task EXCEPT ![p] = None]
                    /\ LeaveAndWake(p, "idle", Consumers)
PushHalf(p) == /\ pc[p] = "test" /\ ~IsFull
               /\ bq_' = Append(bq_, task[p])
               /\ task' = [task EXCEPT ![p] = None]
               /\ LeaveAndWake(p, "idle", IF Len(bq_') > Cap \div 2 THEN Consumers ELSE {})

Push(p) == /\ pc[p] = "test" /\ ~IsFull
           /\ bq_' = Append(bq_, task[p])
           /\ task' = [task EXCEPT ![p] = None]
           /\ LeaveAndWake(p, "idle", Consumers)

(***************************************************************************)
(* The consumers.                                                           *)
(***************************************************************************)
ConsumerWait(c) == pc[c] = "test" /\ IsEmpty /\ Wait(c)

Pop(c) == /\ pc[c] = "test" /\ ~IsEmpty
          /\ task' = [task EXCEPT ![c] = Head(bq_)]
          /\ bq_' = Tail(bq_)
          /\ LeaveAndWake(c, "idle", Producers)

\* t(), the task itself, then Pop again.
Execute(c) == /\ pc[c] = "idle"
              /\ task' = [task EXCEPT ![c] = None]
              /\ pc' = [pc EXCEPT ![c] = "lock"]
              /\ UNCHANGED <<bq_, mtx_>>

ProducerStep(p) == \/ LockQueue(p) \/ SpuriousWakeup(p)
                   \/ Make(p) \/ ProducterWait(p) \/ Push(p)
ConsumerStep(c) == \/ LockQueue(c) \/ SpuriousWakeup(c)
                   \/ ConsumerWait(c) \/ Pop(c) \/ Execute(c)
Next == \/ \E p \in Producers : ProducerStep(p)
        \/ \E c \in Consumers : ConsumerStep(c)

SafeSpec == Init /\ [][Next]_vars

\* Threads that can run do, and one that finds the mutex free over and over gets
\* it. Producers need not produce; nothing but a signal obliges a waiter to wake.
Spec == /\ SafeSpec
        /\ \A th \in Threads : SF_vars(LockQueue(th))
        /\ \A p \in Producers : WF_vars(ProducterWait(p) \/ Push(p))
        /\ \A c \in Consumers : WF_vars(ConsumerWait(c) \/ Pop(c) \/ Execute(c))

(***************************************************************************)
(* Properties.                                                              *)
(***************************************************************************)
\* The type of the state; the queue keeps within its capacity.
TypeOK == /\ bq_ \in Seq(Values) /\ Len(bq_) <= Cap
          /\ mtx_ \in Threads \cup {None}
          /\ pc \in [Threads -> {"idle", "lock", "test", "wait"}]
          /\ task \in [Threads -> Values \cup {None}]

\* No lost wakeup: while a consumer sleeps, every task in the queue has a consumer
\* on its way to it, and while a producer sleeps, every free place has a producer.
Awake(side) == {th \in side : pc[th] \in {"lock", "test"}}
NoLostWakeup == /\ Waiting(Consumers) # {} => Len(bq_) <= Cardinality(Awake(Consumers))
                /\ Waiting(Producers) # {} => Cap <= Len(bq_) + Cardinality(Awake(Producers))

\* The safety half of the buffer's progress. A thread comes to rest where nothing
\* but a new task, a signal or another thread's unlock moves it on; when all of
\* them have, every task that was made is used, unless there is no consumer.
Resting(th) == \/ pc[th] = "idle" /\ th \in Producers
               \/ pc[th] = "wait"
               \/ pc[th] = "lock" /\ mtx_ # None
RestIsDone == (\A th \in Threads : Resting(th)) =>
                \/ Consumers = {}
                \/ bq_ = <<>> /\ \A th \in Threads : task[th] = None

\* Refinement: the queue is the bounded buffer, with its promise of progress.
BB == INSTANCE BoundedBuffer WITH
        items <- bq_,
        made <- [p \in Producers |-> task[p]],
        got <- [c \in Consumers |-> task[c]]
BBSafeSpec == BB!SafeSpec
BBSpec == BB!Spec
==============================================================================

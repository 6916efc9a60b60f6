------------------------------- MODULE RingQueue -------------------------------
(***************************************************************************)
(* The ring queue of lesson27 (ring_buffer/ring_queue.hpp) with the three   *)
(* producers and four consumers of ring_cp.cc or any other number: two      *)
(* semaphores count the free places and the tasks, one mutex orders the     *)
(* producers and another one the consumers. No lock is common to both.      *)
(***************************************************************************)
EXTENDS Integers, Sequences, FiniteSets

CONSTANTS Producers, Consumers, Values,
          Cap,     \* cap_
          None

ASSUME ThreadsAssumption == /\ IsFiniteSet(Producers) /\ IsFiniteSet(Consumers)
                            /\ Producers \cap Consumers = {}
                            /\ None \notin Producers \cup Consumers \cup Values
ASSUME CapAssumption == Cap \in Nat \ {0}

Places == 0..(Cap - 1)

VARIABLES ring_queue_,
          blank_sem_, data_sem_,
          p_step_, c_step_,   \* the next place to write and to read
          p_mtx_, c_mtx_,     \* the owners of the mutexes
          pc,                 \* "idle", "sem_wait", "lock", "access", "sem_post"
          task                \* what a thread carries: the producer's in, the consumer's out

vars == <<ring_queue_, blank_sem_, data_sem_, p_step_, c_step_, p_mtx_, c_mtx_, pc, task>>
places == <<ring_queue_, p_step_, c_step_>>
semaphores == <<blank_sem_, data_sem_>>

Threads == Producers \cup Consumers
Goto(th, label) == pc' = [pc EXCEPT ![th] = label]

Init == /\ ring_queue_ = [i \in Places |-> None]
        /\ blank_sem_ = Cap /\ data_sem_ = 0
        /\ p_step_ = 0 /\ c_step_ = 0
        /\ p_mtx_ = None /\ c_mtx_ = None
        /\ pc = [th \in Threads |-> IF th \in Producers THEN "idle" ELSE "sem_wait"]
        /\ task = [th \in Threads |-> None]

(***************************************************************************)
(* The producers: Push, between making one task and the next.               *)
(***************************************************************************)
Make(p) == /\ pc[p] = "idle"
           /\ \E v \in Values : task' = [task EXCEPT ![p] = v]
           /\ Goto(p, "sem_wait")
           /\ UNCHANGED <<places, semaphores, p_mtx_, c_mtx_>>

\* Mutant: a producer waits only when the count is below zero.
WaitBlankLate(p) == /\ pc[p] = "sem_wait" /\ blank_sem_ >= 0
                    /\ blank_sem_' = blank_sem_ - 1
                    /\ Goto(p, "lock")
                    /\ UNCHANGED <<places, data_sem_, p_mtx_, c_mtx_, task>>

WaitBlank(p) == /\ pc[p] = "sem_wait" /\ blank_sem_ > 0
                /\ blank_sem_' = blank_sem_ - 1
                /\ Goto(p, "lock")
                /\ UNCHANGED <<places, data_sem_, p_mtx_, c_mtx_, task>>

LockProducers(p) == /\ pc[p] = "lock" /\ p_mtx_ = None
                    /\ p_mtx_' = p
                    /\ Goto(p, "access")
                    /\ UNCHANGED <<places, semaphores, c_mtx_, task>>

Write(p) == /\ pc[p] = "access"
            /\ ring_queue_' = [ring_queue_ EXCEPT ![p_step_] = task[p]]
            /\ task' = [task EXCEPT ![p] = None]
            /\ p_step_' = (p_step_ + 1) % Cap
            /\ p_mtx_' = None
            /\ Goto(p, "sem_post")
            /\ UNCHANGED <<c_step_, semaphores, c_mtx_>>

PostData(p) == /\ pc[p] = "sem_post"
               /\ data_sem_' = data_sem_ + 1
               /\ Goto(p, "idle")
               /\ UNCHANGED <<places, blank_sem_, p_mtx_, c_mtx_, task>>

(***************************************************************************)
(* The consumers: Pop, then the task itself.                                *)
(***************************************************************************)
\* Mutant: the place is given back when the task is reserved, and once more later.
WaitDataPosts(c) == /\ pc[c] = "sem_wait" /\ data_sem_ > 0
                    /\ data_sem_' = data_sem_ - 1
                    /\ blank_sem_' = blank_sem_ + 1
                    /\ Goto(c, "lock")
                    /\ UNCHANGED <<places, p_mtx_, c_mtx_, task>>

WaitData(c) == /\ pc[c] = "sem_wait" /\ data_sem_ > 0
               /\ data_sem_' = data_sem_ - 1
               /\ Goto(c, "lock")
               /\ UNCHANGED <<places, blank_sem_, p_mtx_, c_mtx_, task>>

LockConsumers(c) == /\ pc[c] = "lock" /\ c_mtx_ = None
                    /\ c_mtx_' = c
                    /\ Goto(c, "access")
                    /\ UNCHANGED <<places, semaphores, p_mtx_, task>>

\* Mutant: the next consumer starts at the same place.
ReadStays(c) == /\ pc[c] = "access"
                /\ task' = [task EXCEPT ![c] = ring_queue_[c_step_]]
                /\ c_mtx_' = None
                /\ Goto(c, "sem_post")
                /\ UNCHANGED <<ring_queue_, p_step_, c_step_, semaphores, p_mtx_>>

Read(c) == /\ pc[c] = "access"
           /\ task' = [task EXCEPT ![c] = ring_queue_[c_step_]]
           /\ c_step_' = (c_step_ + 1) % Cap
           /\ c_mtx_' = None
           /\ Goto(c, "sem_post")
           /\ UNCHANGED <<ring_queue_, p_step_, semaphores, p_mtx_>>

PostBlank(c) == /\ pc[c] = "sem_post"
                /\ blank_sem_' = blank_sem_ + 1
                /\ Goto(c, "idle")
                /\ UNCHANGED <<places, data_sem_, p_mtx_, c_mtx_, task>>

Execute(c) == /\ pc[c] = "idle"
              /\ task' = [task EXCEPT ![c] = None]
              /\ Goto(c, "sem_wait")
              /\ UNCHANGED <<places, semaphores, p_mtx_, c_mtx_>>

PushStep(p) == WaitBlank(p) \/ LockProducers(p) \/ Write(p) \/ PostData(p)
PopStep(c) == WaitData(c) \/ LockConsumers(c) \/ Read(c) \/ PostBlank(c) \/ Execute(c)
Next == \/ \E p \in Producers : Make(p) \/ PushStep(p)
        \/ \E c \in Consumers : PopStep(c)

SafeSpec == Init /\ [][Next]_vars

\* Threads that can run do. The promise is to no thread in particular, so no
\* fairness of the semaphores or mutexes among their waiters is needed.
Spec == /\ SafeSpec
        /\ \A p \in Producers : WF_vars(PushStep(p))
        /\ \A c \in Consumers : WF_vars(PopStep(c))

(***************************************************************************)
(* Properties.                                                              *)
(***************************************************************************)
\* The type of the state; neither semaphore ever counts more than the places.
TypeOK == /\ ring_queue_ \in [Places -> Values \cup {None}]
          /\ blank_sem_ \in 0..Cap /\ data_sem_ \in 0..Cap
          /\ p_step_ \in Places /\ c_step_ \in Places
          /\ p_mtx_ \in Producers \cup {None} /\ c_mtx_ \in Consumers \cup {None}
          /\ pc \in [Threads -> {"idle", "sem_wait", "lock", "access", "sem_post"}]
          /\ task \in [Threads -> Values \cup {None}]

\* A producer and a consumer hold different mutexes; still they are never at the
\* same place at once, and no two threads of a side are inside together.
NoTornTask ==
    /\ \A p, q \in Producers : pc[p] = "access" /\ pc[q] = "access" => p = q
    /\ \A c, d \in Consumers : pc[c] = "access" /\ pc[d] = "access" => c = d
    /\ \A p \in Producers, c \in Consumers :
         pc[p] = "access" /\ pc[c] = "access" => p_step_ # c_step_

(***************************************************************************)
(* Refinement: the ring is the bounded buffer. Written and not yet read are  *)
(* the tasks the semaphore counts, those whose producer has yet to post and  *)
(* those a consumer has reserved.                                           *)
(***************************************************************************)
At(side, labels) == Cardinality({th \in side : pc[th] \in labels})
Filled == data_sem_ + At(Producers, {"sem_post"}) + At(Consumers, {"lock", "access"})
Queued == [i \in 1..Filled |-> ring_queue_[(c_step_ + i - 1) % Cap]]
BB == INSTANCE BoundedBuffer WITH
        items <- Queued,
        made <- [p \in Producers |-> task[p]],
        got <- [c \in Consumers |-> task[c]]
BBSafeSpec == BB!SafeSpec
BBSpec == BB!Spec

\* The safety half of the buffer's progress. A thread comes to rest where nothing
\* but a new task, a post or another thread's unlock moves it on; when all of
\* them have, every task that was made is used, unless there is no consumer.
Resting(th) ==
    \/ pc[th] = "idle" /\ th \in Producers
    \/ pc[th] = "sem_wait" /\ 0 = IF th \in Producers THEN blank_sem_ ELSE data_sem_
    \/ pc[th] = "lock" /\ None # IF th \in Producers THEN p_mtx_ ELSE c_mtx_
RestIsDone == (\A th \in Threads : Resting(th)) =>
                \/ Consumers = {}
                \/ Filled = 0 /\ \A th \in Threads : task[th] = None
==============================================================================

------------------------------ MODULE QueueProofs ------------------------------
(***************************************************************************)
(* Safety of the ring queue and, in the second half, of the blocking queue, *)
(* proved for any number of producers and consumers and any capacity. Both  *)
(* implement BoundedBuffer.                                                 *)
(***************************************************************************)
EXTENDS RingQueue, TLAPS, FiniteSetTheorems

(***************************************************************************)
(* Places of the ring: the remainder, for the numbers that occur here, is   *)
(* at most one subtraction.                                                 *)
(***************************************************************************)
Wrap(n) == IF n < Cap THEN n ELSE n - Cap

LEMMA Remainder == ASSUME NEW n \in Nat, n < 2 * Cap
                   PROVE  n % Cap = Wrap(n)
<1>1. CASE n < Cap
  BY <1>1, CapAssumption DEF Wrap
<1>2. CASE n >= Cap
  <2> DEFINE q == n \div Cap
             r == n % Cap
  <2>1. q \in Nat /\ r \in 0..(Cap - 1) /\ n = Cap * q + r
    BY CapAssumption
  <2> HIDE DEF q, r
  <2>2. q # 0
    BY <1>2, <2>1, CapAssumption
  <2>3. ASSUME q >= 2 PROVE FALSE
    <3>1. PICK k \in Nat : q = 2 + k
      BY <2>1, <2>3
    <3>2. Cap * q = 2 * Cap + Cap * k /\ Cap * k \in Nat
      BY <3>1, CapAssumption
    <3> QED
      BY <2>1, <3>2, CapAssumption
  <2>4. q = 1
    BY <2>1, <2>2, <2>3
  <2>5. r = n - Cap
    BY <2>1, <2>4, CapAssumption
  <2> QED
    BY <1>2, <2>5, CapAssumption DEF Wrap, r
<1> QED
  BY <1>1, <1>2, CapAssumption

-------------------------------------------------------------------------------
(***************************************************************************)
(* Counting threads. A thread that moves from one label to another leaves   *)
(* every count it was in and enters every count it is now in.               *)
(***************************************************************************)
Labels == {"idle", "sem_wait", "lock", "access", "sem_post"}
In(label, labels) == IF label \in labels THEN 1 ELSE 0

LEMMA AtIsNatural == ASSUME NEW side \in {Producers, Consumers}, NEW labels
                     PROVE  At(side, labels) \in Nat
<1>1. {th \in side : pc[th] \in labels} \subseteq side
  OBVIOUS
<1> QED
  BY <1>1, ThreadsAssumption, FS_Subset, FS_CardinalityType DEF At

LEMMA AddOne == ASSUME NEW S, IsFiniteSet(S), NEW x, x \notin S
                PROVE  Cardinality(S \cup {x}) = Cardinality(S) + 1
  BY FS_AddElement

LEMMA DropOne == ASSUME NEW S, IsFiniteSet(S), NEW x \in S
                 PROVE  Cardinality(S \ {x}) = Cardinality(S) - 1
  BY FS_RemoveElement

LEMMA Moving ==
    ASSUME pc \in [Threads -> Labels], NEW side \in {Producers, Consumers},
           NEW th \in side, NEW label \in Labels, Goto(th, label), NEW labels
    PROVE  At(side, labels)' = At(side, labels) - In(pc[th], labels) + In(label, labels)
<1> DEFINE S == {o \in side : pc[o] \in labels}
           T == {o \in side : pc'[o] \in labels}
<1>1. /\ IsFiniteSet(S) /\ IsFiniteSet(T)
      /\ Cardinality(S) \in Nat /\ Cardinality(T) \in Nat
  BY ThreadsAssumption, FS_Subset, FS_CardinalityType
<1>2. pc'[th] = label /\ \A o \in side \ {th} : pc'[o] = pc[o]
  BY DEF Goto, Threads
<1>2a. At(side, labels) = Cardinality(S) /\ At(side, labels)' = Cardinality(T)
  BY DEF At
<1>3. CASE pc[th] \in labels <=> label \in labels
  <2>1. S = T
    BY <1>2, <1>3
  <2>2. In(pc[th], labels) = In(label, labels) /\ In(label, labels) \in {0, 1}
    BY <1>3 DEF In
  <2> HIDE DEF S, T
  <2> QED
    BY <1>1, <1>2a, <2>1, <2>2
<1>4. CASE pc[th] \in labels /\ label \notin labels
  <2>1. th \in S /\ T = S \ {th}
    BY <1>2, <1>4
  <2> HIDE DEF S, T
  <2>2. Cardinality(T) = Cardinality(S) - 1
    BY <1>1, <2>1, DropOne
  <2>3. In(pc[th], labels) = 1 /\ In(label, labels) = 0
    BY <1>4 DEF In
  <2> QED
    BY <1>1, <1>2a, <2>2, <2>3
<1>5. CASE pc[th] \notin labels /\ label \in labels
  <2>1. th \notin S /\ T = S \cup {th}
    BY <1>2, <1>5
  <2> HIDE DEF S, T
  <2>2. Cardinality(T) = Cardinality(S) + 1
    BY <1>1, <2>1, AddOne
  <2>3. In(pc[th], labels) = 0 /\ In(label, labels) = 1
    BY <1>5 DEF In
  <2> QED
    BY <1>1, <1>2a, <2>2, <2>3
<1> QED
  BY <1>3, <1>4, <1>5

LEMMA Staying ==
    ASSUME pc \in [Threads -> Labels], NEW side \in {Producers, Consumers},
           NEW th \in Threads \ side, NEW label \in Labels, Goto(th, label), NEW labels
    PROVE  At(side, labels)' = At(side, labels)
<1>1. \A o \in side : pc'[o] = pc[o]
  BY DEF Goto, Threads
<1>2. {o \in side : pc'[o] \in labels} = {o \in side : pc[o] \in labels}
  BY <1>1
<1> QED
  BY <1>2 DEF At

(***************************************************************************)
(* The threads that hold a place or a task no semaphore counts.             *)
(***************************************************************************)
Claimed == At(Producers, {"lock", "access"})     \* took a free place, not written yet
Posting == At(Producers, {"sem_post"})           \* wrote it, not announced yet
Reserved == At(Consumers, {"lock", "access"})    \* took a task, not read yet
Returning == At(Consumers, {"sem_post"})         \* read it, not given back yet

LEMMA CountsAreNatural == {Claimed, Posting, Reserved, Returning} \subseteq Nat
  BY AtIsNatural DEF Claimed, Posting, Reserved, Returning

LEMMA ProducerMoves ==
    ASSUME pc \in [Threads -> Labels],
           NEW p \in Producers, NEW label \in Labels, Goto(p, label)
    PROVE  /\ Claimed' = Claimed - In(pc[p], {"lock", "access"}) + In(label, {"lock", "access"})
           /\ Posting' = Posting - In(pc[p], {"sem_post"}) + In(label, {"sem_post"})
           /\ Reserved' = Reserved /\ Returning' = Returning
<1>1. p \in Threads \ Consumers
  BY ThreadsAssumption DEF Threads
<1> QED
  BY <1>1, Moving, Staying DEF Claimed, Posting, Reserved, Returning

LEMMA ConsumerMoves ==
    ASSUME pc \in [Threads -> Labels],
           NEW c \in Consumers, NEW label \in Labels, Goto(c, label)
    PROVE  /\ Reserved' = Reserved - In(pc[c], {"lock", "access"}) + In(label, {"lock", "access"})
           /\ Returning' = Returning - In(pc[c], {"sem_post"}) + In(label, {"sem_post"})
           /\ Claimed' = Claimed /\ Posting' = Posting
<1>1. c \in Threads \ Producers
  BY ThreadsAssumption DEF Threads
<1> QED
  BY <1>1, Moving, Staying DEF Claimed, Posting, Reserved, Returning

-------------------------------------------------------------------------------
(***************************************************************************)
(* The inductive invariant. That the semaphores keep their bounds and the   *)
(* two sides keep apart follows from Conserved and Steps; that a consumer   *)
(* reads a task and not an empty place from Contents.                       *)
(***************************************************************************)
Typed == /\ ring_queue_ \in [Places -> Values \cup {None}]
         /\ blank_sem_ \in Nat /\ data_sem_ \in Nat
         /\ p_step_ \in Places /\ c_step_ \in Places
         /\ p_mtx_ \in Producers \cup {None} /\ c_mtx_ \in Consumers \cup {None}
         /\ pc \in [Threads -> Labels]
         /\ task \in [Threads -> Values \cup {None}]
Owners == /\ \A p \in Producers : p_mtx_ = p <=> pc[p] = "access"
          /\ \A c \in Consumers : c_mtx_ = c <=> pc[c] = "access"
Carries == /\ \A p \in Producers : task[p] = None <=> pc[p] \in {"idle", "sem_post"}
           /\ \A c \in Consumers : task[c] = None <=> pc[c] \notin {"idle", "sem_post"}
Conserved == blank_sem_ + Claimed + Filled + Returning = Cap
Steps == p_step_ = Wrap(c_step_ + Filled)
Contents == \A i \in 0..(Filled - 1) : ring_queue_[Wrap(c_step_ + i)] \in Values

Control == Typed /\ Owners /\ Carries
IInv == Control /\ Conserved /\ Steps /\ Contents

LEMMA FilledIs == Filled = data_sem_ + Posting + Reserved
  BY DEF Filled, Posting, Reserved

LEMMA FilledBounds == ASSUME Typed, Conserved
                      PROVE  Filled \in 0..Cap /\ data_sem_ \in 0..Cap /\ blank_sem_ \in 0..Cap
  BY FilledIs, CountsAreNatural, CapAssumption DEF Typed, Conserved

LEMMA InitFilled == Init => /\ Claimed = 0 /\ Posting = 0 /\ Reserved = 0 /\ Returning = 0
                            /\ Filled = 0
<1> SUFFICES ASSUME Init PROVE /\ Claimed = 0 /\ Posting = 0 /\ Reserved = 0 /\ Returning = 0
                               /\ Filled = 0
  OBVIOUS
<1>1. /\ {th \in Producers : pc[th] \in {"lock", "access"}} = {}
      /\ {th \in Producers : pc[th] \in {"sem_post"}} = {}
      /\ {th \in Consumers : pc[th] \in {"lock", "access"}} = {}
      /\ {th \in Consumers : pc[th] \in {"sem_post"}} = {}
  BY ThreadsAssumption DEF Init, Threads
<1>2. Claimed = 0 /\ Posting = 0 /\ Reserved = 0 /\ Returning = 0
  BY <1>1, FS_EmptySet DEF Claimed, Posting, Reserved, Returning, At
<1> QED
  BY <1>2, FilledIs DEF Init

LEMMA InitIInv == Init => IInv
<1> SUFFICES ASSUME Init PROVE IInv
  OBVIOUS
<1>1. Control
  BY ThreadsAssumption, CapAssumption
  DEF Init, Control, Typed, Owners, Carries, Places, Threads, Labels
<1> QED
  BY <1>1, InitFilled, CapAssumption DEF Init, IInv, Conserved, Steps, Contents, Wrap

\* A thread that holds a label is counted.
LEMMA AtLeastOne == ASSUME NEW side \in {Producers, Consumers}, NEW th \in side, NEW labels,
                           pc[th] \in labels
                    PROVE  At(side, labels) >= 1
<1> DEFINE S == {o \in side : pc[o] \in labels}
<1>1. S \subseteq side /\ th \in S
  OBVIOUS
<1>2. IsFiniteSet(S) /\ Cardinality(S) \in Nat
  BY <1>1, ThreadsAssumption, FS_Subset, FS_CardinalityType
<1>3. Cardinality(S) # 0
  <2> HIDE DEF S
  <2> QED
    BY <1>1, <1>2, FS_EmptySet
<1> QED
  BY <1>2, <1>3 DEF At

\* A consumer in its critical section has a task to read, a producer a free place.
LEMMA OneReserved == ASSUME Typed, Conserved, NEW c \in Consumers, pc[c] = "access"
                     PROVE  Filled >= 1
<1>1. Reserved >= 1
  BY AtLeastOne DEF Reserved
<1> QED
  BY <1>1, FilledIs, CountsAreNatural DEF Typed

LEMMA OneClaimed == ASSUME Typed, Conserved, NEW p \in Producers, pc[p] = "access"
                    PROVE  Filled < Cap
<1>1. Claimed >= 1
  BY AtLeastOne DEF Claimed
<1> QED
  BY <1>1, FilledBounds, CountsAreNatural, CapAssumption DEF Typed, Conserved

LEMMA HeadIsTask == ASSUME Typed, Contents, Filled \in Nat, Filled >= 1
                    PROVE  ring_queue_[c_step_] \in Values
<1>1. 0 \in 0..(Filled - 1) /\ Wrap(c_step_ + 0) = c_step_
  BY CapAssumption DEF Typed, Wrap, Places
<1> QED
  BY <1>1 DEF Contents

LEMMA ControlStep == Control /\ Contents /\ Conserved /\ [Next]_vars => Control'
<1> SUFFICES ASSUME Control, Contents, Conserved, [Next]_vars PROVE Control'
  OBVIOUS
<1> USE ThreadsAssumption, CapAssumption
    DEF Control, Typed, Owners, Carries, Threads, Labels, Goto, places, semaphores
<1>1. ASSUME NEW p \in Producers, Make(p) PROVE Control'
  BY <1>1 DEF Make
<1>2. ASSUME NEW p \in Producers, WaitBlank(p) PROVE Control'
  BY <1>2 DEF WaitBlank
<1>3. ASSUME NEW p \in Producers, LockProducers(p) PROVE Control'
  BY <1>3 DEF LockProducers
<1>4. ASSUME NEW p \in Producers, Write(p) PROVE Control'
  <2>1. (p_step_ + 1) % Cap \in Places
    BY DEF Places
  <2>2. task[p] \in Values
    BY <1>4 DEF Write
  <2> QED
    BY <1>4, <2>1, <2>2 DEF Write
<1>5. ASSUME NEW p \in Producers, PostData(p) PROVE Control'
  BY <1>5 DEF PostData
<1>6. ASSUME NEW c \in Consumers, WaitData(c) PROVE Control'
  BY <1>6 DEF WaitData
<1>7. ASSUME NEW c \in Consumers, LockConsumers(c) PROVE Control'
  BY <1>7 DEF LockConsumers
<1>8. ASSUME NEW c \in Consumers, Read(c) PROVE Control'
  <2>1. (c_step_ + 1) % Cap \in Places
    BY DEF Places
  <2>2. ring_queue_[c_step_] \in Values
    BY <1>8, OneReserved, HeadIsTask, FilledBounds DEF Read
  <2> QED
    BY <1>8, <2>1, <2>2 DEF Read
<1>9. ASSUME NEW c \in Consumers, PostBlank(c) PROVE Control'
  BY <1>9 DEF PostBlank
<1>10. ASSUME NEW c \in Consumers, Execute(c) PROVE Control'
  BY <1>10 DEF Execute
<1>11. CASE UNCHANGED vars
  BY <1>11 DEF vars
<1> QED
  BY <1>1, <1>2, <1>3, <1>4, <1>5, <1>6, <1>7, <1>8, <1>9, <1>10, <1>11
  DEF Next, PushStep, PopStep

(***************************************************************************)
(* What a step does to the number of filled places: only Write and Read     *)
(* change it, and the sum of all places is kept.                            *)
(***************************************************************************)
Quiet == \/ task' = task
         \/ \E p \in Producers : Make(p)
         \/ \E c \in Consumers : Execute(c)

LEMMA CountStep ==
    ASSUME Control, Conserved, [Next]_vars
    PROVE  /\ Conserved'
           /\ \/ Filled' = Filled /\ UNCHANGED places /\ Quiet
              \/ \E p \in Producers : Write(p) /\ Filled' = Filled + 1
              \/ \E c \in Consumers : Read(c) /\ Filled' = Filled - 1
<1> DEFINE Goal == /\ Conserved'
                   /\ \/ Filled' = Filled /\ UNCHANGED places /\ Quiet
                      \/ \E p \in Producers : Write(p) /\ Filled' = Filled + 1
                      \/ \E c \in Consumers : Read(c) /\ Filled' = Filled - 1
<1> USE CountsAreNatural DEF Control, Typed, Conserved, semaphores, In, Quiet
<1>1. Filled = data_sem_ + Posting + Reserved /\ Filled' = data_sem_' + Posting' + Reserved'
  BY FilledIs DEF Filled, Posting, Reserved
<1>2. pc \in [Threads -> Labels] /\ Labels = {"idle", "sem_wait", "lock", "access", "sem_post"}
  BY DEF Labels
<1>3. ASSUME NEW p \in Producers, Make(p) PROVE Goal
  <2>1. Claimed' = Claimed /\ Posting' = Posting /\ Reserved' = Reserved /\ Returning' = Returning
    BY <1>2, <1>3, ProducerMoves DEF Make
  <2> QED
    BY <1>1, <1>3, <2>1 DEF Make
<1>4. ASSUME NEW p \in Producers, WaitBlank(p) PROVE Goal
  <2>1. Claimed' = Claimed + 1 /\ Posting' = Posting /\ Reserved' = Reserved /\ Returning' = Returning
    BY <1>2, <1>4, ProducerMoves DEF WaitBlank
  <2> QED
    BY <1>1, <1>4, <2>1, CapAssumption DEF WaitBlank
<1>5. ASSUME NEW p \in Producers, LockProducers(p) PROVE Goal
  <2>1. Claimed' = Claimed /\ Posting' = Posting /\ Reserved' = Reserved /\ Returning' = Returning
    BY <1>2, <1>5, ProducerMoves DEF LockProducers
  <2> QED
    BY <1>1, <1>5, <2>1 DEF LockProducers
<1>6. ASSUME NEW p \in Producers, Write(p) PROVE Goal
  <2>1. Claimed' = Claimed - 1 /\ Posting' = Posting + 1 /\ Reserved' = Reserved /\ Returning' = Returning
    BY <1>2, <1>6, ProducerMoves DEF Write
  <2>2. UNCHANGED <<blank_sem_, data_sem_>>
    BY <1>6 DEF Write
  <2>3. Filled' = Filled + 1 /\ Conserved'
    BY <1>1, <2>1, <2>2, CapAssumption
  <2> QED
    BY <1>6, <2>3
<1>7. ASSUME NEW p \in Producers, PostData(p) PROVE Goal
  <2>1. Claimed' = Claimed /\ Posting' = Posting - 1 /\ Reserved' = Reserved /\ Returning' = Returning
    BY <1>2, <1>7, ProducerMoves DEF PostData
  <2> QED
    BY <1>1, <1>7, <2>1, CapAssumption DEF PostData
<1>8. ASSUME NEW c \in Consumers, WaitData(c) PROVE Goal
  <2>1. Claimed' = Claimed /\ Posting' = Posting /\ Reserved' = Reserved + 1 /\ Returning' = Returning
    BY <1>2, <1>8, ConsumerMoves DEF WaitData
  <2> QED
    BY <1>1, <1>8, <2>1, CapAssumption DEF WaitData
<1>9. ASSUME NEW c \in Consumers, LockConsumers(c) PROVE Goal
  <2>1. Claimed' = Claimed /\ Posting' = Posting /\ Reserved' = Reserved /\ Returning' = Returning
    BY <1>2, <1>9, ConsumerMoves DEF LockConsumers
  <2> QED
    BY <1>1, <1>9, <2>1 DEF LockConsumers
<1>10. ASSUME NEW c \in Consumers, Read(c) PROVE Goal
  <2>1. Claimed' = Claimed /\ Posting' = Posting /\ Reserved' = Reserved - 1 /\ Returning' = Returning + 1
    BY <1>2, <1>10, ConsumerMoves DEF Read
  <2>2. UNCHANGED <<blank_sem_, data_sem_>>
    BY <1>10 DEF Read
  <2>3. Filled' = Filled - 1 /\ Conserved'
    BY <1>1, <2>1, <2>2, CapAssumption
  <2> QED
    BY <1>10, <2>3
<1>11. ASSUME NEW c \in Consumers, PostBlank(c) PROVE Goal
  <2>1. Claimed' = Claimed /\ Posting' = Posting /\ Reserved' = Reserved /\ Returning' = Returning - 1
    BY <1>2, <1>11, ConsumerMoves DEF PostBlank
  <2> QED
    BY <1>1, <1>11, <2>1, CapAssumption DEF PostBlank
<1>12. ASSUME NEW c \in Consumers, Execute(c) PROVE Goal
  <2>1. Claimed' = Claimed /\ Posting' = Posting /\ Reserved' = Reserved /\ Returning' = Returning
    BY <1>2, <1>12, ConsumerMoves DEF Execute
  <2> QED
    BY <1>1, <1>12, <2>1 DEF Execute
<1>13. CASE UNCHANGED vars
  <2>1. UNCHANGED <<pc, blank_sem_, data_sem_, places>>
    BY <1>13 DEF vars, places
  <2>3. task' = task
    BY <1>13 DEF vars
  <2>2. Claimed' = Claimed /\ Posting' = Posting /\ Reserved' = Reserved /\ Returning' = Returning
    BY <2>1 DEF Claimed, Posting, Reserved, Returning, At
  <2> QED
    BY <1>1, <2>1, <2>2, <2>3
<1> QED
  BY <1>3, <1>4, <1>5, <1>6, <1>7, <1>8, <1>9, <1>10, <1>11, <1>12, <1>13
  DEF Next, PushStep, PopStep

(***************************************************************************)
(* Where the next task goes and what the filled places hold.                *)
(***************************************************************************)
LEMMA WrapPlaces ==
    /\ \A n \in 0..(2 * Cap - 1) : Wrap(n) \in Places
    /\ \A a \in Places, i, j \in 0..(Cap - 1) : Wrap(a + i) = Wrap(a + j) => i = j
    /\ \A a \in Places, i \in 0..(Cap - 1) : /\ Wrap(Wrap(a + 1) + i) = Wrap(a + (i + 1))
                                            /\ Wrap(Wrap(a + i) + 1) = Wrap(a + (i + 1))
    /\ \A a \in Places : (a + 1) % Cap = Wrap(a + 1)
<1>1. \A a \in Places : a + 1 \in Nat /\ a + 1 < 2 * Cap
  BY CapAssumption DEF Places
<1>2. \A a \in Places : (a + 1) % Cap = Wrap(a + 1)
  BY <1>1, Remainder
<1> QED
  BY <1>2, CapAssumption DEF Wrap, Places

LEMMA WriteFills ==
    ASSUME IInv, NEW p \in Producers, Write(p), Filled' = Filled + 1
    PROVE  /\ p_step_ = Wrap(c_step_ + Filled) /\ Filled < Cap
           /\ ring_queue_'[Wrap(c_step_ + Filled)] = task[p]
           /\ \A i \in 0..(Filled - 1) :
                ring_queue_'[Wrap(c_step_ + i)] = ring_queue_[Wrap(c_step_ + i)]
           /\ c_step_' = c_step_ /\ p_step_' = Wrap(c_step_ + (Filled + 1))
           /\ task[p] \in Values
<1> USE DEF IInv, Control
<1>1. Filled \in 0..(Cap - 1)
  BY OneClaimed, FilledBounds, CapAssumption DEF Write
<1>2. p_step_ = Wrap(c_step_ + Filled) /\ c_step_ \in Places /\ p_step_ \in Places
  BY DEF Steps, Typed
<1>3. ring_queue_' = [ring_queue_ EXCEPT ![p_step_] = task[p]]
  BY DEF Write
<1>4. \A i \in 0..(Filled - 1) : Wrap(c_step_ + i) \in Places /\ Wrap(c_step_ + i) # p_step_
  <2> SUFFICES ASSUME NEW i \in 0..(Filled - 1)
               PROVE  Wrap(c_step_ + i) \in Places /\ Wrap(c_step_ + i) # p_step_
    OBVIOUS
  <2>1. i \in 0..(Cap - 1) /\ i # Filled /\ c_step_ + i \in 0..(2 * Cap - 1)
    BY <1>1, <1>2, CapAssumption DEF Places
  <2> QED
    BY <1>1, <1>2, <2>1, WrapPlaces
<1>5. p_step_' = Wrap(c_step_ + (Filled + 1))
  BY <1>1, <1>2, WrapPlaces DEF Write
<1>6. /\ ring_queue_'[p_step_] = task[p]
      /\ \A place \in Places \ {p_step_} : ring_queue_'[place] = ring_queue_[place]
  BY <1>2, <1>3 DEF Typed
<1>7. task[p] \in Values /\ c_step_' = c_step_
  BY ThreadsAssumption DEF Write, Typed, Carries, Threads
<1> HIDE DEF IInv, Control
<1>8. \A i \in 0..(Filled - 1) : ring_queue_'[Wrap(c_step_ + i)] = ring_queue_[Wrap(c_step_ + i)]
  BY <1>4, <1>6
<1> QED
  BY <1>1, <1>2, <1>5, <1>6, <1>7, <1>8, CapAssumption

LEMMA ReadEmpties ==
    ASSUME IInv, NEW c \in Consumers, Read(c), Filled' = Filled - 1
    PROVE  /\ Filled \in 1..Cap
           /\ ring_queue_' = ring_queue_ /\ p_step_' = p_step_
           /\ task' = [task EXCEPT ![c] = ring_queue_[Wrap(c_step_ + 0)]]
           /\ \A i \in 0..(Cap - 1) : Wrap(c_step_' + i) = Wrap(c_step_ + (i + 1))
<1> USE DEF IInv, Control
<1>1. Filled \in 1..Cap
  BY OneReserved, FilledBounds, CapAssumption DEF Read
<1>2. c_step_ \in Places /\ c_step_' = Wrap(c_step_ + 1)
  BY WrapPlaces DEF Read, Typed
<1>3. Wrap(c_step_ + 0) = c_step_
  BY <1>2, CapAssumption DEF Wrap, Places
<1> QED
  BY <1>1, <1>2, <1>3, WrapPlaces DEF Read

LEMMA IInvStep == IInv /\ [Next]_vars => IInv'
<1> SUFFICES ASSUME IInv, [Next]_vars PROVE IInv'
  OBVIOUS
<1>1. Control' /\ Conserved'
  BY ControlStep, CountStep DEF IInv
<1>2. CASE Filled' = Filled /\ UNCHANGED places
  BY <1>1, <1>2 DEF IInv, Steps, Contents, Wrap, places
<1>3. ASSUME NEW p \in Producers, Write(p), Filled' = Filled + 1 PROVE IInv'
  <2>1. Steps'
    BY <1>3, WriteFills DEF Steps, Wrap
  <2>2. Filled \in Nat
    BY FilledBounds DEF IInv, Control
  <2>3. Contents'
    <3> SUFFICES ASSUME NEW i \in 0..(Filled' - 1)
                 PROVE  ring_queue_'[Wrap(c_step_' + i)] \in Values
      BY DEF Contents, Wrap
    <3>1. i \in 0..(Filled - 1) \/ i = Filled
      BY <1>3, <2>2
    <3> QED
      BY <1>3, <3>1, WriteFills DEF IInv, Contents
  <2> QED
    BY <1>1, <2>1, <2>3 DEF IInv
<1>4. ASSUME NEW c \in Consumers, Read(c), Filled' = Filled - 1 PROVE IInv'
  <2>1. /\ Filled \in 1..Cap /\ ring_queue_' = ring_queue_ /\ p_step_' = p_step_
        /\ \A i \in 0..(Cap - 1) : Wrap(c_step_' + i) = Wrap(c_step_ + (i + 1))
    BY <1>4, ReadEmpties
  <2>2. Filled' = Filled - 1 /\ Filled \in 1..Cap
    BY <1>4, <2>1
  <2>3. Steps'
    <3>1. Filled - 1 \in 0..(Cap - 1)
      BY <2>2, CapAssumption
    <3>2. Wrap(c_step_' + (Filled - 1)) = Wrap(c_step_ + ((Filled - 1) + 1))
      BY <2>1, <3>1
    <3>3. (Filled - 1) + 1 = Filled
      BY <2>2
    <3>4. p_step_' = Wrap(c_step_' + (Filled - 1))
      BY <2>1, <3>2, <3>3 DEF IInv, Steps
    <3> QED
      BY <2>2, <3>4 DEF Steps, Wrap
  <2>4. Contents'
    <3> SUFFICES ASSUME NEW i \in 0..(Filled' - 1)
                 PROVE  ring_queue_'[Wrap(c_step_' + i)] \in Values
      BY DEF Contents, Wrap
    <3>1. i \in 0..(Cap - 1) /\ i + 1 \in 0..(Filled - 1)
      <4>1. i \in 0..(Filled - 2)
        BY <2>2
      <4> QED
        BY <2>2, <4>1, CapAssumption
    <3>2. ring_queue_[Wrap(c_step_ + (i + 1))] \in Values
      BY <3>1 DEF IInv, Contents
    <3>3. Wrap(c_step_' + i) = Wrap(c_step_ + (i + 1)) /\ ring_queue_' = ring_queue_
      BY <2>1, <3>1
    <3> QED
      BY <3>2, <3>3
  <2> QED
    BY <1>1, <2>3, <2>4 DEF IInv
<1> QED
  BY <1>2, <1>3, <1>4, CountStep DEF IInv

LEMMA IInvAlways == SafeSpec => []IInv
  BY InitIInv, IInvStep, PTL DEF SafeSpec

\* However many threads push and pop, neither semaphore counts past the capacity
\* and both positions stay in the ring.
THEOREM RingTypeCorrect == SafeSpec => []TypeOK
<1>1. IInv => TypeOK
  BY FilledBounds DEF IInv, Control, Typed, TypeOK, Labels
<1> QED
  BY <1>1, IInvAlways, PTL

\* No task is read while it is being written, though the two sides hold different
\* mutexes: the semaphores keep them apart.
THEOREM RingNeverTorn == SafeSpec => []NoTornTask
<1>1. IInv => NoTornTask
  <2> SUFFICES ASSUME IInv PROVE NoTornTask
    OBVIOUS
  <2>1. ASSUME NEW p \in Producers, NEW c \in Consumers, pc[p] = "access", pc[c] = "access"
        PROVE  p_step_ # c_step_
    <3>1. Filled \in 1..(Cap - 1)
      BY <2>1, OneReserved, OneClaimed, FilledBounds, CapAssumption DEF IInv, Control
    <3>2. c_step_ \in 0..(Cap - 1) /\ p_step_ = Wrap(c_step_ + Filled)
      BY DEF IInv, Control, Typed, Places, Steps
    <3> QED
      BY <3>1, <3>2, CapAssumption DEF Wrap
  <2> QED
    BY <2>1 DEF IInv, Control, Owners, NoTornTask
<1> QED
  BY <1>1, IInvAlways, PTL

\* No deadlock between the two semaphores and the two mutexes: when every thread
\* waits, the tasks have all been used. An owner of a mutex never rests, so nobody
\* waits for one; then nothing is claimed or reserved, a consumer that waits finds
\* no task counted, and the places are all counted as free.
THEOREM RingRestsDone == SafeSpec => []RestIsDone
<1>1. IInv => RestIsDone
  <2> SUFFICES ASSUME IInv, \A th \in Threads : Resting(th), Consumers # {}
               PROVE  Filled = 0 /\ \A th \in Threads : task[th] = None
    BY DEF RestIsDone
  <2> USE ThreadsAssumption DEF IInv, Control, Typed, Threads
  <2>1. p_mtx_ = None /\ c_mtx_ = None
    BY DEF Owners, Resting
  <2>2. /\ \A p \in Producers : pc[p] = "idle" \/ (pc[p] = "sem_wait" /\ blank_sem_ = 0)
        /\ \A c \in Consumers : pc[c] = "sem_wait" /\ data_sem_ = 0
    BY <2>1 DEF Resting
  <2>3. Claimed = 0 /\ Posting = 0 /\ Reserved = 0 /\ Returning = 0
    <3>1. /\ {th \in Producers : pc[th] \in {"lock", "access"}} = {}
          /\ {th \in Producers : pc[th] \in {"sem_post"}} = {}
          /\ {th \in Consumers : pc[th] \in {"lock", "access"}} = {}
          /\ {th \in Consumers : pc[th] \in {"sem_post"}} = {}
      BY <2>2
    <3> QED
      BY <3>1, FS_EmptySet DEF Claimed, Posting, Reserved, Returning, At
  <2>4. data_sem_ = 0
    BY <2>2
  <2>5. Filled = 0 /\ blank_sem_ = Cap
    BY <2>3, <2>4, FilledIs, CapAssumption DEF Conserved
  <2>6. \A p \in Producers : pc[p] = "idle"
    BY <2>2, <2>5, CapAssumption
  <2> QED
    BY <2>2, <2>5, <2>6 DEF Carries
<1> QED
  BY <1>1, IInvAlways, PTL

-------------------------------------------------------------------------------
(***************************************************************************)
(* The ring implements the bounded buffer: Make, Write, Read and Execute    *)
(* are its operations, the semaphores and mutexes stutter.                  *)
(***************************************************************************)
QueuedFacts == /\ Filled \in 0..Cap
               /\ Queued \in Seq(Values) /\ Len(Queued) = Filled
               /\ \A i \in 1..Filled : Queued[i] = ring_queue_[Wrap(c_step_ + (i - 1))]

LEMMA QueuedIs == IInv => QueuedFacts
<1> SUFFICES ASSUME IInv PROVE QueuedFacts
  OBVIOUS
<1>1. Filled \in 0..Cap
  BY FilledBounds DEF IInv, Control
<1>2. \A i \in 1..Filled : Queued[i] = ring_queue_[Wrap(c_step_ + (i - 1))]
  <2> SUFFICES ASSUME NEW i \in 1..Filled
               PROVE  Queued[i] = ring_queue_[Wrap(c_step_ + (i - 1))]
    OBVIOUS
  <2>1. /\ c_step_ + i - 1 = c_step_ + (i - 1)
        /\ c_step_ + i - 1 \in Nat /\ c_step_ + i - 1 < 2 * Cap
    BY <1>1, CapAssumption DEF IInv, Control, Typed, Places
  <2>2. (c_step_ + i - 1) % Cap = Wrap(c_step_ + (i - 1))
    BY <2>1, Remainder
  <2> QED
    BY <2>2 DEF Queued
<1>3. \A i \in 1..Filled : Queued[i] \in Values
  <2> SUFFICES ASSUME NEW i \in 1..Filled PROVE Queued[i] \in Values
    OBVIOUS
  <2>1. i - 1 \in 0..(Filled - 1)
    BY <1>1
  <2> QED
    BY <1>2, <2>1 DEF IInv, Contents
<1>4. Queued = [i \in 1..Filled |-> Queued[i]]
  BY DEF Queued
<1>5. Queued \in Seq(Values) /\ Len(Queued) = Filled
  BY <1>1, <1>3, <1>4
<1> QED
  BY <1>1, <1>2, <1>5 DEF QueuedFacts

LEMMA WriteAppends ==
    ASSUME IInv, IInv', NEW p \in Producers, Write(p), Filled' = Filled + 1
    PROVE  Queued' = Append(Queued, task[p])
<1>1. /\ Filled \in 0..Cap /\ Queued \in Seq(Values) /\ Len(Queued) = Filled
      /\ \A i \in 1..Filled : Queued[i] = ring_queue_[Wrap(c_step_ + (i - 1))]
  BY QueuedIs DEF QueuedFacts
<1>2. /\ Queued' \in Seq(Values) /\ Len(Queued') = Filled'
      /\ \A i \in 1..Filled' : Queued'[i] = ring_queue_'[Wrap(c_step_' + (i - 1))]
  <2>1. QueuedFacts'
    BY QueuedIs, PTL
  <2> QED
    BY <2>1 DEF QueuedFacts, Wrap
<1>3. /\ c_step_' = c_step_ /\ task[p] \in Values
      /\ ring_queue_'[Wrap(c_step_ + Filled)] = task[p]
      /\ \A i \in 0..(Filled - 1) :
           ring_queue_'[Wrap(c_step_ + i)] = ring_queue_[Wrap(c_step_ + i)]
  BY WriteFills
<1>4. \A i \in 1..Filled : Queued'[i] = Queued[i]
  <2> SUFFICES ASSUME NEW i \in 1..Filled PROVE Queued'[i] = Queued[i]
    OBVIOUS
  <2>1. i \in 1..(Filled + 1) /\ i - 1 \in 0..(Filled - 1)
    BY <1>1
  <2>2. Queued'[i] = ring_queue_'[Wrap(c_step_ + (i - 1))]
    BY <1>2, <1>3, <2>1
  <2> QED
    BY <1>1, <1>3, <2>1, <2>2
<1>5. Queued'[Filled + 1] = task[p]
  <2>1. Filled + 1 \in 1..(Filled + 1) /\ (Filled + 1) - 1 = Filled
    BY <1>1
  <2> QED
    BY <1>2, <1>3, <2>1
<1>6. Len(Queued') = Filled + 1
  BY <1>2
<1> QED
  BY <1>1, <1>2, <1>3, <1>4, <1>5, <1>6

LEMMA ReadTakes ==
    ASSUME IInv, IInv', NEW c \in Consumers, Read(c), Filled' = Filled - 1
    PROVE  /\ Queued # <<>> /\ Queued' = Tail(Queued)
           /\ task' = [task EXCEPT ![c] = Head(Queued)]
<1>1. /\ Queued \in Seq(Values) /\ Len(Queued) = Filled
      /\ \A i \in 1..Filled : Queued[i] = ring_queue_[Wrap(c_step_ + (i - 1))]
  BY QueuedIs DEF QueuedFacts
<1>2. /\ Queued' \in Seq(Values) /\ Len(Queued') = Filled'
      /\ \A i \in 1..Filled' : Queued'[i] = ring_queue_'[Wrap(c_step_' + (i - 1))]
  <2>1. QueuedFacts'
    BY QueuedIs, PTL
  <2> QED
    BY <2>1 DEF QueuedFacts, Wrap
<1>3. /\ Filled \in 1..Cap /\ ring_queue_' = ring_queue_
      /\ task' = [task EXCEPT ![c] = ring_queue_[Wrap(c_step_ + 0)]]
      /\ \A i \in 0..(Cap - 1) : Wrap(c_step_' + i) = Wrap(c_step_ + (i + 1))
  BY ReadEmpties
<1>4. Head(Queued) = ring_queue_[Wrap(c_step_ + 0)]
  <2>1. 1 \in 1..Filled /\ 1 - 1 = 0
    BY <1>3, CapAssumption
  <2>2. Queued[1] = ring_queue_[Wrap(c_step_ + 0)]
    BY <1>1, <2>1
  <2> QED
    BY <1>1, <1>3, <2>2
<1>5. \A i \in 1..(Filled - 1) : Queued'[i] = Queued[i + 1]
  <2> SUFFICES ASSUME NEW i \in 1..(Filled - 1) PROVE Queued'[i] = Queued[i + 1]
    OBVIOUS
  <2>1. /\ i \in Nat /\ i - 1 \in 0..(Cap - 1) /\ i + 1 \in 1..Filled
        /\ (i - 1) + 1 = (i + 1) - 1
    BY <1>3, CapAssumption
  <2>2. Queued'[i] = ring_queue_[Wrap(c_step_' + (i - 1))]
    BY <1>2, <1>3
  <2>3. Wrap(c_step_' + (i - 1)) = Wrap(c_step_ + ((i + 1) - 1))
    BY <1>3, <2>1
  <2> QED
    BY <1>1, <2>1, <2>2, <2>3
<1>6. Len(Queued') = Filled - 1
  BY <1>2
<1>7. Queued # <<>>
  BY <1>1, <1>3, CapAssumption
<1>8. Queued' = Tail(Queued)
  BY <1>1, <1>2, <1>3, <1>5, <1>6, <1>7, CapAssumption
<1> QED
  BY <1>3, <1>4, <1>7, <1>8

LEMMA StepRefines == IInv /\ IInv' /\ [Next]_vars => [BB!Next]_(BB!vars)
<1> SUFFICES ASSUME IInv, IInv', [Next]_vars PROVE [BB!Next]_(BB!vars)
  OBVIOUS
<1>1. /\ task \in [Threads -> Values \cup {None}] /\ Carries
      /\ Producers \subseteq Threads /\ Consumers \subseteq Threads
      /\ Producers \cap Consumers = {}
  BY ThreadsAssumption DEF IInv, Control, Typed, Threads
<1>2. ASSUME NEW p \in Producers, Write(p), Filled' = Filled + 1 PROVE BB!Put(p)
  <2>1. Queued' = Append(Queued, task[p]) /\ Len(Queued) < Cap
    BY <1>2, WriteAppends, WriteFills, QueuedIs DEF QueuedFacts
  <2>2. task' = [task EXCEPT ![p] = None] /\ task[p] # None
    BY <1>1, <1>2 DEF Write, Carries
  <2> QED
    BY <1>1, <2>1, <2>2 DEF BB!Put
<1>3. ASSUME NEW c \in Consumers, Read(c), Filled' = Filled - 1 PROVE BB!Take(c)
  <2>1. /\ Queued # <<>> /\ Queued' = Tail(Queued)
        /\ task' = [task EXCEPT ![c] = Head(Queued)]
    BY <1>3, ReadTakes
  <2>2. task[c] = None
    BY <1>1, <1>3 DEF Read, Carries
  <2> QED
    BY <1>1, <2>1, <2>2 DEF BB!Take
<1>4. ASSUME Filled' = Filled, UNCHANGED places PROVE Queued' = Queued
  BY <1>4 DEF Queued, places
<1>5. ASSUME NEW p \in Producers, Make(p), Queued' = Queued PROVE BB!Make(p)
  <2>1. PICK v \in Values : task' = [task EXCEPT ![p] = v]
    BY <1>5 DEF Make
  <2>2. task[p] = None
    BY <1>1, <1>5 DEF Make, Carries
  <2> QED
    BY <1>1, <1>5, <2>1, <2>2 DEF BB!Make
<1>6. ASSUME NEW c \in Consumers, Execute(c), Queued' = Queued PROVE BB!Use(c)
  <2>1. task' = [task EXCEPT ![c] = None] /\ task[c] # None
    BY <1>1, <1>6 DEF Execute, Carries
  <2> QED
    BY <1>1, <1>6, <2>1 DEF BB!Use
<1>7. ASSUME task' = task, Queued' = Queued PROVE UNCHANGED BB!vars
  BY <1>7 DEF BB!vars
<1>8. CASE Filled' = Filled /\ UNCHANGED places /\ Quiet
  <2>1. Queued' = Queued
    BY <1>4, <1>8
  <2> QED
    BY <1>5, <1>6, <1>7, <1>8, <2>1 DEF Quiet, BB!Next
<1> QED
  BY <1>2, <1>3, <1>8, CountStep DEF IInv, BB!Next

\* Two semaphores, two mutexes and an array with two positions are a plain bounded
\* first-in first-out buffer.
THEOREM RingRefinesBuffer == SafeSpec => BBSafeSpec
<1>1. Init => BB!Init
  <2> SUFFICES ASSUME Init PROVE BB!Init
    OBVIOUS
  <2>1. Filled = 0
    BY InitFilled
  <2>2. Queued = <<>>
    BY <2>1 DEF Queued
  <2> QED
    BY <2>2, ThreadsAssumption DEF Init, BB!Init, Threads
<1> QED
  BY <1>1, IInvAlways, StepRefines, PTL DEF SafeSpec, BBSafeSpec, BB!SafeSpec

-------------------------------------------------------------------------------
(***************************************************************************)
(* The blocking queue, between the same producers and consumers: pc and     *)
(* task are what they do and carry in that program.                         *)
(***************************************************************************)
VARIABLES bq_, mtx_
Block == INSTANCE BlockQueue

(***************************************************************************)
(* The inductive invariant: the thread that passed the lock owns the mutex, *)
(* a producer carries a task from Make to Push, a consumer from Pop to      *)
(* Execute.                                                                 *)
(***************************************************************************)
BlockOwner == \A th \in Block!Threads : mtx_ = th <=> pc[th] = "test"
BlockCarries == /\ \A p \in Producers : task[p] = None <=> pc[p] = "idle"
           /\ \A c \in Consumers : task[c] = None <=> pc[c] # "idle"
BlockControl == Block!TypeOK /\ BlockOwner /\ BlockCarries

LEMMA BlockControlInit == Block!Init => BlockControl
  BY ThreadsAssumption, CapAssumption
  DEF Block!Init, BlockControl, Block!TypeOK, BlockOwner, BlockCarries, Block!Threads

\* A step that leaves the monitor and signals changes pc at the thread that leaves
\* and at most at one sleeper of the other side.
LEMMA Leaving ==
    ASSUME Block!TypeOK, NEW th \in Block!Threads, NEW label \in {"idle", "lock", "test", "wait"},
           NEW side \in SUBSET Block!Threads, pc[th] = "test", Block!LeaveAndWake(th, label, side)
    PROVE  /\ pc' \in [Block!Threads -> {"idle", "lock", "test", "wait"}]
           /\ mtx_' = None /\ pc'[th] = label
           /\ \A o \in Block!Threads \ {th} : \/ pc'[o] = pc[o]
                                              \/ o \in side /\ pc[o] = "wait" /\ pc'[o] = "lock"
  BY DEF Block!TypeOK, Block!LeaveAndWake, Block!Waiting

LEMMA BlockControlStep == BlockControl /\ [Block!Next]_(Block!vars) => BlockControl'
<1> SUFFICES ASSUME BlockControl, [Block!Next]_(Block!vars) PROVE BlockControl'
  OBVIOUS
<1> USE ThreadsAssumption, CapAssumption
    DEF BlockControl, Block!TypeOK, BlockOwner, BlockCarries, Block!Threads
<1>1. ASSUME NEW th \in Block!Threads, Block!LockQueue(th) PROVE BlockControl'
  BY <1>1 DEF Block!LockQueue
<1>2. ASSUME NEW th \in Block!Threads, Block!SpuriousWakeup(th) PROVE BlockControl'
  BY <1>2 DEF Block!SpuriousWakeup
<1>3. ASSUME NEW p \in Producers, Block!Make(p) PROVE BlockControl'
  BY <1>3 DEF Block!Make
<1>4. ASSUME NEW p \in Producers, Block!ProducterWait(p) PROVE BlockControl'
  BY <1>4 DEF Block!ProducterWait, Block!Wait
<1>5. ASSUME NEW p \in Producers, Block!Push(p) PROVE BlockControl'
  <2>1. /\ task[p] \in Values /\ task' = [task EXCEPT ![p] = None]
        /\ bq_' = Append(bq_, task[p]) /\ Len(bq_) < Cap
    BY <1>5 DEF Block!Push, Block!IsFull
  <2>2. bq_' \in Seq(Values) /\ Len(bq_') <= Cap
    BY <2>1
  <2>3. /\ pc' \in [Block!Threads -> {"idle", "lock", "test", "wait"}]
        /\ mtx_' = None /\ pc'[p] = "idle"
        /\ \A o \in Block!Threads \ {p} :
             pc'[o] = pc[o] \/ (o \in Consumers /\ pc[o] = "wait" /\ pc'[o] = "lock")
    BY <1>5, Leaving DEF Block!Push
  <2> QED
    BY <1>5, <2>1, <2>2, <2>3 DEF Block!Push
<1>6. ASSUME NEW c \in Consumers, Block!ConsumerWait(c) PROVE BlockControl'
  BY <1>6 DEF Block!ConsumerWait, Block!Wait
<1>7. ASSUME NEW c \in Consumers, Block!Pop(c) PROVE BlockControl'
  <2>1. /\ bq_ # <<>> /\ Head(bq_) \in Values
        /\ task' = [task EXCEPT ![c] = Head(bq_)] /\ bq_' = Tail(bq_)
    BY <1>7 DEF Block!Pop, Block!IsEmpty
  <2>2. bq_' \in Seq(Values) /\ Len(bq_') <= Cap
    BY <2>1
  <2>3. /\ pc' \in [Block!Threads -> {"idle", "lock", "test", "wait"}]
        /\ mtx_' = None /\ pc'[c] = "idle"
        /\ \A o \in Block!Threads \ {c} :
             pc'[o] = pc[o] \/ (o \in Producers /\ pc[o] = "wait" /\ pc'[o] = "lock")
    BY <1>7, Leaving DEF Block!Pop
  <2> QED
    BY <1>7, <2>1, <2>2, <2>3 DEF Block!Pop
<1>8. ASSUME NEW c \in Consumers, Block!Execute(c) PROVE BlockControl'
  BY <1>8 DEF Block!Execute
<1>9. CASE UNCHANGED Block!vars
  BY <1>9 DEF Block!vars
<1> QED
  BY <1>1, <1>2, <1>3, <1>4, <1>5, <1>6, <1>7, <1>8, <1>9
  DEF Block!Next, Block!ProducerStep, Block!ConsumerStep

LEMMA BlockControlAlways == Block!SafeSpec => []BlockControl
  BY BlockControlInit, BlockControlStep, PTL DEF Block!SafeSpec

\* The queue never holds more than Cap tasks and never something else than a task,
\* however many threads push and pop.
THEOREM BlockQueueTypeCorrect == Block!SafeSpec => []Block!TypeOK
  BY BlockControlAlways, PTL DEF BlockControl

-------------------------------------------------------------------------------
(***************************************************************************)
(* No lost wakeup, one half for each side. A half is inductive by itself: a *)
(* push adds a task and either wakes a consumer or finds none asleep; a pop *)
(* takes a task and a waking consumer; a consumer goes to sleep only beside *)
(* an empty queue. The same of producers and free places.                   *)
(***************************************************************************)
LEMMA AwakeFinite ==
    /\ IsFiniteSet(Block!Awake(Consumers)) /\ Cardinality(Block!Awake(Consumers)) \in Nat
    /\ IsFiniteSet(Block!Awake(Producers)) /\ Cardinality(Block!Awake(Producers)) \in Nat
<1>1. Block!Awake(Consumers) \subseteq Consumers /\ Block!Awake(Producers) \subseteq Producers
  BY DEF Block!Awake
<1> QED
  BY <1>1, ThreadsAssumption, FS_Subset, FS_CardinalityType

\* How each kind of step changes who of a side sleeps and who is on its way.
Same(side) == Block!Waiting(side)' = Block!Waiting(side) /\ Block!Awake(side)' = Block!Awake(side)
Rises(side) == \E th \in side : /\ th \notin Block!Awake(side)
                                /\ Block!Awake(side)' = Block!Awake(side) \cup {th}
                                /\ Block!Waiting(side)' \subseteq Block!Waiting(side)
Falls(side) == \E th \in Block!Awake(side) : /\ Block!Awake(side)' = Block!Awake(side) \ {th}
                                             /\ Block!Waiting(side)' = Block!Waiting(side)

LEMMA SignalMoves ==
    ASSUME BlockControl, NEW th \in Block!Threads,
           NEW side \in SUBSET Block!Threads, th \notin side,
           pc[th] = "test", Block!LeaveAndWake(th, "idle", side)
    PROVE  \/ Rises(side)
           \/ Block!Waiting(side) = {} /\ Same(side)
<1>1. CASE Block!Waiting(side) = {}
  BY <1>1 DEF BlockControl, Block!TypeOK, Block!LeaveAndWake, Block!Waiting, Block!Awake, Same
<1>2. CASE Block!Waiting(side) # {}
  <2>1. PICK other \in Block!Waiting(side) : pc' = [pc EXCEPT ![th] = "idle", ![other] = "lock"]
    BY <1>2 DEF Block!LeaveAndWake
  <2>2. /\ other \in side /\ other \notin Block!Awake(side)
        /\ Block!Awake(side)' = Block!Awake(side) \cup {other}
        /\ Block!Waiting(side)' \subseteq Block!Waiting(side)
    BY <2>1 DEF BlockControl, Block!TypeOK, Block!Waiting, Block!Awake
  <2> QED
    BY <2>2 DEF Rises
<1> QED
  BY <1>1, <1>2

\* The side of the thread that signals: it loses that thread.
LEMMA LeaverFalls ==
    ASSUME BlockControl, NEW side \in SUBSET Block!Threads, NEW th \in side,
           NEW far \in SUBSET Block!Threads, far \cap side = {},
           pc[th] = "test", Block!LeaveAndWake(th, "idle", far)
    PROVE  Falls(side)
<1>1. /\ pc' \in [Block!Threads -> {"idle", "lock", "test", "wait"}] /\ pc'[th] = "idle"
      /\ \A o \in side \ {th} : pc'[o] = pc[o]
  BY Leaving DEF BlockControl
<1>2. /\ Block!Awake(side)' = Block!Awake(side) \ {th} /\ th \in Block!Awake(side)
      /\ Block!Waiting(side)' = Block!Waiting(side)
  BY <1>1 DEF BlockControl, Block!TypeOK, Block!Awake, Block!Waiting
<1> QED
  BY <1>2 DEF Falls

\* The invariant, counting as FiniteSets does.
Wakeups == /\ Block!Waiting(Consumers) # {} => Len(bq_) <= Cardinality(Block!Awake(Consumers))
           /\ Block!Waiting(Producers) # {} => Cap <= Len(bq_) + Cardinality(Block!Awake(Producers))

LEMMA WakeupsAre == Wakeups <=> Block!NoLostWakeup
<1>1. \A S : Block!Cardinality(S) = Cardinality(S)
  BY DEF Block!Cardinality, Cardinality
<1> QED
  BY <1>1 DEF Wakeups, Block!NoLostWakeup

LEMMA WakeupStep == BlockControl /\ Wakeups /\ [Block!Next]_(Block!vars) => Wakeups'
<1> SUFFICES ASSUME BlockControl, Wakeups, [Block!Next]_(Block!vars) PROVE Wakeups'
  OBVIOUS
<1> DEFINE ForConsumers == Block!Waiting(Consumers) # {} =>
                             Len(bq_) <= Cardinality(Block!Awake(Consumers))
           ForProducers == Block!Waiting(Producers) # {} =>
                             Cap <= Len(bq_) + Cardinality(Block!Awake(Producers))
<1> USE ThreadsAssumption, CapAssumption DEF Block!Threads
<1>1. Len(bq_) \in Nat /\ Len(bq_) <= Cap
  BY DEF BlockControl, Block!TypeOK
<1>2. /\ \A o \in Producers, r \in Consumers : o # r
      /\ Producers \in SUBSET Block!Threads /\ Consumers \in SUBSET Block!Threads
  OBVIOUS
<1>3. ASSUME Same(Consumers) \/ Rises(Consumers), bq_' = bq_ PROVE ForConsumers'
  BY <1>1, <1>3, AwakeFinite, AddOne DEF Wakeups, Same, Rises
<1>4. ASSUME Same(Producers) \/ Rises(Producers), bq_' = bq_ PROVE ForProducers'
  BY <1>1, <1>4, AwakeFinite, AddOne DEF Wakeups, Same, Rises
<1>5. ASSUME NEW p \in Producers, Block!Push(p) PROVE Wakeups'
  <2>1. Len(bq_') = Len(bq_) + 1 /\ pc[p] = "test" /\ Block!LeaveAndWake(p, "idle", Consumers)
    BY <1>5 DEF Block!Push, BlockControl, Block!TypeOK, BlockCarries
  <2>2. Rises(Consumers) \/ (Block!Waiting(Consumers) = {} /\ Same(Consumers))
    BY <1>2, <2>1, SignalMoves
  <2>3. ForConsumers'
    BY <1>1, <2>1, <2>2, AwakeFinite, AddOne DEF Wakeups, Same, Rises
  <2>4. Falls(Producers)
    BY <1>2, <2>1, LeaverFalls
  <2>5. ForProducers'
    BY <1>1, <2>1, <2>4, AwakeFinite, DropOne DEF Wakeups, Falls
  <2> QED
    BY <2>3, <2>5 DEF Wakeups
<1>6. ASSUME NEW c \in Consumers, Block!Pop(c) PROVE Wakeups'
  <2>1. Len(bq_') = Len(bq_) - 1 /\ pc[c] = "test" /\ Block!LeaveAndWake(c, "idle", Producers)
    BY <1>6 DEF Block!Pop, Block!IsEmpty, BlockControl, Block!TypeOK
  <2>2. Rises(Producers) \/ (Block!Waiting(Producers) = {} /\ Same(Producers))
    BY <1>2, <2>1, SignalMoves
  <2>3. ForProducers'
    BY <1>1, <2>1, <2>2, AwakeFinite, AddOne DEF Wakeups, Same, Rises
  <2>4. Falls(Consumers)
    BY <1>2, <2>1, LeaverFalls
  <2>5. ForConsumers'
    BY <1>1, <2>1, <2>4, AwakeFinite, DropOne DEF Wakeups, Falls
  <2> QED
    BY <2>3, <2>5 DEF Wakeups
<1>7. ASSUME NEW th \in Block!Threads, Block!LockQueue(th) PROVE Wakeups'
  <2>1. Same(Consumers) /\ Same(Producers) /\ bq_' = bq_
    BY <1>7 DEF Block!LockQueue, Same, Block!Waiting,
       Block!Awake, BlockControl, Block!TypeOK
  <2> QED
    BY <1>3, <1>4, <2>1 DEF Wakeups
<1>8. ASSUME NEW side \in {Producers, Consumers}, NEW th \in side,
             pc[th] \in {"idle", "wait"}, pc' = [pc EXCEPT ![th] = "lock"], bq_' = bq_
      PROVE  Wakeups'
  <2>1. /\ th \notin Block!Awake(side) /\ Block!Awake(side)' = Block!Awake(side) \cup {th}
        /\ Block!Waiting(side)' \subseteq Block!Waiting(side)
    BY <1>8 DEF Block!Waiting, Block!Awake, BlockControl, Block!TypeOK
  <2>2. Rises(side)
    BY <2>1 DEF Rises
  <2>3. \A other \in {Producers, Consumers} \ {side} : Same(other)
    BY <1>8 DEF Same, Block!Waiting,
       Block!Awake, BlockControl, Block!TypeOK
  <2> QED
    BY <1>3, <1>4, <1>8, <2>2, <2>3 DEF Wakeups
<1>9. ASSUME NEW c \in Consumers, Block!ConsumerWait(c) PROVE Wakeups'
  <2>1. Len(bq_') = 0 /\ bq_' = bq_ /\ Same(Producers)
    BY <1>9 DEF Block!ConsumerWait, Block!Wait, Block!IsEmpty, Same, Block!Waiting,
       Block!Awake, BlockControl, Block!TypeOK
  <2>2. Cardinality(Block!Awake(Consumers)') \in Nat
    <3>1. Block!Awake(Consumers)' \subseteq Consumers
      BY DEF Block!Awake
    <3> QED
      BY <3>1, FS_Subset, FS_CardinalityType
  <2>3. ForConsumers'
    BY <2>1, <2>2
  <2> QED
    BY <1>4, <2>1, <2>3 DEF Wakeups
<1>10. ASSUME NEW p \in Producers, Block!ProducterWait(p) PROVE Wakeups'
  <2>1. Len(bq_') = Cap /\ bq_' = bq_ /\ Same(Consumers)
    BY <1>10 DEF Block!ProducterWait, Block!Wait, Block!IsFull, Same, Block!Waiting,
       Block!Awake, BlockControl, Block!TypeOK
  <2>2. Cardinality(Block!Awake(Producers)') \in Nat
    <3>1. Block!Awake(Producers)' \subseteq Producers
      BY DEF Block!Awake
    <3> QED
      BY <3>1, FS_Subset, FS_CardinalityType
  <2>3. ForProducers'
    BY <2>1, <2>2
  <2> QED
    BY <1>3, <2>1, <2>3 DEF Wakeups
<1>11. ASSUME NEW p \in Producers, Block!Make(p) PROVE Wakeups'
  BY <1>8, <1>11 DEF Block!Make
<1>12. ASSUME NEW c \in Consumers, Block!Execute(c) PROVE Wakeups'
  BY <1>8, <1>12 DEF Block!Execute
<1>13. ASSUME NEW th \in Block!Threads, Block!SpuriousWakeup(th) PROVE Wakeups'
  BY <1>8, <1>13 DEF Block!SpuriousWakeup
<1>14. CASE UNCHANGED Block!vars
  <2>1. Same(Consumers) /\ Same(Producers) /\ bq_' = bq_
    BY <1>14 DEF Block!vars, Same, Block!Waiting, Block!Awake
  <2> QED
    BY <1>3, <1>4, <2>1 DEF Wakeups
<1> QED
  BY <1>5, <1>6, <1>7, <1>9, <1>10, <1>11, <1>12, <1>13, <1>14
  DEF Block!Next, Block!ProducerStep, Block!ConsumerStep

\* A consumer never sleeps on a task, nor a producer on a free place, for which
\* nobody of its side is on the way: one signal per operation is enough.
THEOREM BlockQueueWakeups == Block!SafeSpec => []Block!NoLostWakeup
<1>1. Block!Init => Wakeups
  BY ThreadsAssumption DEF Block!Init, Wakeups, Block!Waiting, Block!Threads
<1> QED
  BY <1>1, BlockControlInit, BlockControlStep, WakeupStep, WakeupsAre, PTL DEF Block!SafeSpec

\* No deadlock between the mutex and the two condition variables: when every thread
\* waits, the tasks have all been used. Nobody owns the mutex then, so nobody is on
\* the way to the queue, and by the wakeups it is empty if a consumer sleeps; a
\* producer would sleep only beside a full one.
THEOREM BlockQueueRestsDone == Block!SafeSpec => []Block!RestIsDone
<1>1. BlockControl /\ Wakeups => Block!RestIsDone
  <2> SUFFICES ASSUME BlockControl, Wakeups, Consumers # {},
                      \A th \in Block!Threads : Block!Resting(th)
               PROVE  bq_ = <<>> /\ \A th \in Block!Threads : task[th] = None
    BY DEF Block!RestIsDone
  <2> USE ThreadsAssumption, CapAssumption DEF BlockControl, Block!TypeOK, Block!Threads
  <2>1. mtx_ = None
    BY DEF BlockOwner, Block!Resting
  <2>2. /\ \A p \in Producers : pc[p] \in {"idle", "wait"}
        /\ \A c \in Consumers : pc[c] = "wait"
    BY <2>1 DEF Block!Resting
  <2>3. Block!Awake(Consumers) = {} /\ Block!Awake(Producers) = {}
    BY <2>2 DEF Block!Awake
  <2>4. Block!Waiting(Consumers) # {}
    BY <2>2 DEF Block!Waiting
  <2>5. bq_ = <<>>
    BY <2>3, <2>4, FS_EmptySet DEF Wakeups
  <2>6. Block!Waiting(Producers) = {}
    BY <2>3, <2>5, FS_EmptySet DEF Wakeups
  <2>7. \A p \in Producers : pc[p] = "idle"
    BY <2>2, <2>6 DEF Block!Waiting
  <2> QED
    BY <2>2, <2>5, <2>7 DEF BlockCarries
<1> QED
  BY <1>1, BlockControlAlways, BlockQueueWakeups, WakeupsAre, PTL

-------------------------------------------------------------------------------
(***************************************************************************)
(* The queue implements the bounded buffer: Make, Push, Pop and Execute are *)
(* its operations, locking, sleeping and waking are stutters.               *)
(***************************************************************************)
LEMMA BlockStepRefines == BlockControl /\ [Block!Next]_(Block!vars) => [Block!BB!Next]_(Block!BB!vars)
<1> SUFFICES ASSUME BlockControl, [Block!Next]_(Block!vars) PROVE [Block!BB!Next]_(Block!BB!vars)
  OBVIOUS
<1> USE ThreadsAssumption, CapAssumption
    DEF BlockControl, Block!TypeOK, BlockOwner, BlockCarries, Block!Threads
<1>1. ASSUME NEW p \in Producers, Block!Make(p) PROVE Block!BB!Make(p)
  BY <1>1, ZenonT(40) DEF Block!Make, Block!BB!Make
<1>2. ASSUME NEW p \in Producers, Block!Push(p) PROVE Block!BB!Put(p)
  <2>1. /\ task[p] # None /\ Len(bq_) < Cap
        /\ bq_' = Append(bq_, task[p]) /\ task' = [task EXCEPT ![p] = None]
    BY <1>2 DEF Block!Push, Block!IsFull
  <2> QED
    BY <2>1 DEF Block!BB!Put
<1>3. ASSUME NEW c \in Consumers, Block!Pop(c) PROVE Block!BB!Take(c)
  BY <1>3 DEF Block!Pop, Block!BB!Take, Block!IsEmpty
<1>4. ASSUME NEW c \in Consumers, Block!Execute(c) PROVE Block!BB!Use(c)
  BY <1>4 DEF Block!Execute, Block!BB!Use
<1>5. ASSUME UNCHANGED <<bq_, task>> PROVE UNCHANGED Block!BB!vars
  BY <1>5 DEF Block!BB!vars
<1>6. ASSUME NEW th \in Block!Threads, Block!LockQueue(th) \/ Block!SpuriousWakeup(th)
      PROVE  UNCHANGED Block!BB!vars
  BY <1>5, <1>6 DEF Block!LockQueue, Block!SpuriousWakeup
<1>7. ASSUME NEW th \in Block!Threads, Block!Wait(th) PROVE UNCHANGED Block!BB!vars
  BY <1>5, <1>7 DEF Block!Wait
<1>8. CASE UNCHANGED Block!vars
  BY <1>5, <1>8 DEF Block!vars
<1> QED
  BY <1>1, <1>2, <1>3, <1>4, <1>6, <1>7, <1>8
  DEF Block!Next, Block!ProducerStep, Block!ConsumerStep, Block!ProducterWait,
      Block!ConsumerWait, Block!BB!Next

\* Under its mutex and its two condition variables the blocking queue is a plain
\* bounded first-in first-out buffer.
THEOREM BlockQueueRefinesBuffer == Block!SafeSpec => Block!BBSafeSpec
<1>1. Block!Init => Block!BB!Init
  BY ThreadsAssumption DEF Block!Init, Block!BB!Init, Block!Threads
<1> QED
  BY <1>1, BlockControlAlways, BlockStepRefines, PTL
  DEF Block!SafeSpec, Block!BBSafeSpec, Block!BB!SafeSpec
==============================================================================

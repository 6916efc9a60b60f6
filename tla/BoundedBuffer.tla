---------------------------- MODULE BoundedBuffer ----------------------------
(***************************************************************************)
(* What the producer/consumer queues of lesson26 and lesson27 promise: a    *)
(* first-in first-out buffer of at most Cap tasks between producers and     *)
(* consumers that never stand still together.                               *)
(***************************************************************************)
EXTENDS Naturals, Sequences

CONSTANTS Producers, Consumers,
          Values,     \* the tasks a producer may make
          Cap, None

VARIABLES items,  \* put and not yet taken
          made,   \* made[p]: the task p wants to put, or None
          got     \* got[c]: the task c has taken and not yet executed, or None

vars == <<items, made, got>>

Init == /\ items = <<>>
        /\ made = [p \in Producers |-> None]
        /\ got = [c \in Consumers |-> None]

Make(p) == /\ made[p] = None
           /\ \E v \in Values : made' = [made EXCEPT ![p] = v]
           /\ UNCHANGED <<items, got>>

Put(p) == /\ made[p] # None
          /\ Len(items) < Cap
          /\ items' = Append(items, made[p])
          /\ made' = [made EXCEPT ![p] = None]
          /\ UNCHANGED got

Take(c) == /\ got[c] = None
           /\ items # <<>>
           /\ got' = [got EXCEPT ![c] = Head(items)]
           /\ items' = Tail(items)
           /\ UNCHANGED made

Use(c) == /\ got[c] # None
          /\ got' = [got EXCEPT ![c] = None]
          /\ UNCHANGED <<items, made>>

Next == \/ \E p \in Producers : Make(p) \/ Put(p)
        \/ \E c \in Consumers : Take(c) \/ Use(c)

\* While there is room some producer that wants to put does, and while there is a
\* task some free consumer takes it: no deadlock and no lost wakeup. Which one it
\* is, is not promised.
Fairness == /\ WF_vars(\E p \in Producers : Put(p))
            /\ WF_vars(\E c \in Consumers : Take(c))
            /\ \A c \in Consumers : WF_vars(Use(c))

SafeSpec == Init /\ [][Next]_vars
Spec == SafeSpec /\ Fairness
==============================================================================

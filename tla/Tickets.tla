------------------------------- MODULE Tickets -------------------------------
(***************************************************************************)
(* The ticket sale of lesson25: threads that share a Ticket object sell     *)
(* tickets under one static mutex until none is left, and main joins them.  *)
(* The thread that finds no ticket left returns with the mutex locked.      *)
(***************************************************************************)
EXTENDS Naturals

CONSTANTS Count,     \* the tickets there are: 1000 in the program
          N,         \* the threads: 5 in the program
          None

Bounds == Count \in Nat /\ N \in Nat /\ None \notin 1..N

Threads == 1..N

VARIABLES tickets,
          mtx,       \* the thread that holds the mutex, or None
          pc,        \* pc[t]: "none", "lock", "test", "sell", "unlock", "ended"
          created,   \* the threads main has created
          joined     \* the threads main has joined

vars == <<tickets, mtx, pc, created, joined>>

Init == /\ tickets = Count /\ mtx = None
        /\ pc = [t \in Threads |-> "none"]
        /\ created = 0 /\ joined = 0

Goto(t, label) == pc' = [pc EXCEPT ![t] = label]

Create == /\ created < N
          /\ created' = created + 1
          /\ Goto(created + 1, "lock")
          /\ UNCHANGED <<tickets, mtx, joined>>

Join == /\ created = N /\ joined < N
        /\ pc[joined + 1] = "ended"
        /\ joined' = joined + 1
        /\ UNCHANGED <<tickets, mtx, pc, created>>

Lock(t) == /\ pc[t] = "lock" /\ mtx = None
           /\ mtx' = t
           /\ Goto(t, "test")
           /\ UNCHANGED <<tickets, created, joined>>

FindTicket(t) == /\ pc[t] = "test" /\ tickets > 0
                 /\ Goto(t, "sell")
                 /\ UNCHANGED <<tickets, mtx, created, joined>>

Sell(t) == /\ pc[t] = "sell"
           /\ tickets' = tickets - 1
           /\ Goto(t, "unlock")
           /\ UNCHANGED <<mtx, created, joined>>

Unlock(t) == /\ pc[t] = "unlock"
             /\ mtx' = None
             /\ Goto(t, "lock")
             /\ UNCHANGED <<tickets, created, joined>>

\* GetTicket says false, and the loop of ThreadRoutine ends.
SoldOut(t) == /\ pc[t] = "test" /\ ~(tickets > 0)
              /\ Goto(t, "ended")
              /\ UNCHANGED <<tickets, mtx, created, joined>>

Thread(t) == Lock(t) \/ FindTicket(t) \/ Sell(t) \/ Unlock(t) \/ SoldOut(t)
Next == Create \/ Join \/ \E t \in Threads : Thread(t)

\* A thread that asks for the mutex again and again gets it in the end.
Spec == /\ Init /\ [][Next]_vars
        /\ WF_vars(Create) /\ WF_vars(Join) /\ \A t \in Threads : SF_vars(Thread(t))

\* "抢票失败，退出" (a thread that gets no ticket leaves) and "等待" (main waits for
\* all of them): main comes to its end. It does not, with two threads or more.
MainReturns == <>(joined = N)

\* The type of the state.
TypeOK == /\ tickets \in Nat
          /\ mtx \in Threads \cup {None}
          /\ pc \in [Threads -> {"none", "lock", "test", "sell", "unlock", "ended"}]
          /\ created \in 0..N /\ joined \in 0..N

\* Inside the mutex is exactly who holds it, and a thread that has ended never
\* gave it back; whoever sells has seen a ticket.
Held == /\ \A t \in Threads : pc[t] \in {"test", "sell", "unlock", "ended"} <=> mtx = t
        /\ \A t \in Threads : pc[t] = "sell" => tickets > 0
        /\ \A t \in created + 1..N : pc[t] = "none"
        /\ \A t \in 1..joined : pc[t] = "ended"

\* No ticket is sold twice or beyond the last, at most one thread ever comes to its
\* end, and main joins no second one: the loop of pthread_join hangs for every
\* number of tickets and of threads above one.
OneEnds == /\ tickets \in Nat
           /\ \A t, u \in Threads : pc[t] = "ended" /\ pc[u] = "ended" => t = u
           /\ joined <= 1
==============================================================================

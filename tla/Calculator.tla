------------------------------ MODULE Calculator ------------------------------
(***************************************************************************)
(* What the two calculators promise, the threads of lesson31 and the        *)
(* reactor of lesson37: a client reads the answers to its own requests in   *)
(* the order it asked, one for each request that parses, and none before    *)
(* the request is there. How many are under way is not said.                *)
(***************************************************************************)
EXTENDS Naturals, Sequences

CONSTANTS Clients,
          WellFormed   \* WellFormed[c]: the numbers of the requests of c that parse

VARIABLES asked,       \* asked[c]: how many whole requests c has sent
          answered     \* answered[c]: the numbers of the requests whose answers c has read

vars == <<asked, answered>>

Init == /\ asked = [c \in Clients |-> 0]
        /\ answered = [c \in Clients |-> <<>>]

Ask(c) == /\ asked' = [asked EXCEPT ![c] = @ + 1]
          /\ UNCHANGED answered

Open(c) == {i \in WellFormed[c] : /\ i <= asked[c]
                                  /\ \A k \in 1..Len(answered[c]) : answered[c][k] # i}

Answer(c) == /\ \E i \in Open(c) : /\ \A j \in Open(c) : i <= j
                                   /\ answered' = [answered EXCEPT ![c] = Append(@, i)]
             /\ UNCHANGED asked

Next == \E c \in Clients : Ask(c) \/ Answer(c)

SafeSpec == Init /\ [][Next]_vars
==============================================================================

------------------------------ MODULE TaskQueue ------------------------------
(***************************************************************************)
(* What a thread pool promises, without its locks: an unbounded first-in   *)
(* first-out queue of tasks, handed to a crew of workers one task each.    *)
(* The pools of myHttp and of lesson28 to lesson30 implement it.           *)
(***************************************************************************)
EXTENDS Naturals, Sequences

CONSTANTS Workers,  \* the worker threads that may be started
          Tasks,    \* the tasks that may be submitted
          Stuck,    \* the tasks whose handler never returns
          None      \* "no task"

VARIABLES queue,    \* submitted and not yet taken
          crew,     \* the workers that were started
          running,  \* running[w]: the task w executes, or None
          done      \* the tasks whose handler returned

vars == <<queue, crew, running, done>>

Init == /\ queue = <<>>
        /\ crew = {}
        /\ running = [w \in Workers |-> None]
        /\ done = {}

Start(w) == /\ w \notin crew
            /\ crew' = crew \cup {w}
            /\ UNCHANGED <<queue, running, done>>

\* A task is submitted at most once: it is a connection the caller owns.
Submit(t) == /\ t \notin done
             /\ \A i \in 1..Len(queue) : queue[i] # t
             /\ \A w \in Workers : running[w] # t
             /\ queue' = Append(queue, t)
             /\ UNCHANGED <<crew, running, done>>

Take(w) == /\ w \in crew
           /\ running[w] = None
           /\ queue # <<>>
           /\ running' = [running EXCEPT ![w] = Head(queue)]
           /\ queue' = Tail(queue)
           /\ UNCHANGED <<crew, done>>

Finish(w) == /\ running[w] \notin Stuck \cup {None}
             /\ done' = done \cup {running[w]}
             /\ running' = [running EXCEPT ![w] = None]
             /\ UNCHANGED <<queue, crew>>

Next == \/ \E t \in Tasks : Submit(t)
        \/ \E w \in Workers : Start(w) \/ Take(w) \/ Finish(w)

\* No worker of the crew rests for ever beside a task nobody has taken.
Fairness == /\ WF_vars(\E w \in Workers : Take(w))
            /\ \A w \in Workers : WF_vars(Finish(w))

SafeSpec == Init /\ [][Next]_vars
Spec == SafeSpec /\ Fairness
==============================================================================

------------------------------- MODULE CgiProofs -------------------------------
(***************************************************************************)
(* Safety of ProcessCgi, proved for any number of concurrent requests, any  *)
(* capacity of a pipe, any limit of descriptors and any body.               *)
(***************************************************************************)
EXTENDS Cgi, TLAPS, FiniteSetTheorems

(***************************************************************************)
(* The ends of the pipes of different requests, and the four of one, are    *)
(* different; each is a member of the type of fds.                          *)
(***************************************************************************)
LEMMA EndsDiffer ==
    ASSUME NEW r, NEW s
    PROVE  /\ WriteEnd(input(r)) = WriteEnd(input(s)) => r = s
           /\ ReadEnd(input(r)) = ReadEnd(input(s)) => r = s
           /\ WriteEnd(output(r)) = WriteEnd(output(s)) => r = s
           /\ ReadEnd(output(r)) = ReadEnd(output(s)) => r = s
           /\ WriteEnd(input(r)) # ReadEnd(input(s))
           /\ WriteEnd(input(r)) # ReadEnd(output(s))
           /\ WriteEnd(input(r)) # WriteEnd(output(s))
           /\ WriteEnd(output(r)) # ReadEnd(input(s))
           /\ WriteEnd(output(r)) # ReadEnd(output(s))
           /\ ReadEnd(input(r)) # ReadEnd(output(s))
  BY DEF WriteEnd, ReadEnd, input, output

LEMMA PipesDiffer ==
    ASSUME NEW r, NEW s
    PROVE  (input(r) = input(s) => r = s) /\ (output(r) = output(s) => r = s) /\ input(r) # output(s)
  BY DEF input, output

LEMMA EndsOfRequest ==
    ASSUME NEW r \in Requests
    PROVE  /\ input(r) \in Pipes /\ output(r) \in Pipes
           /\ Ends(input(r)) \subseteq Pipes \X {0, 1}
           /\ Ends(output(r)) \subseteq Pipes \X {0, 1}
  BY DEF Ends, WriteEnd, ReadEnd, input, output, Pipes

LEMMA EndIsSomeones ==
    ASSUME NEW end \in Pipes \X {0, 1}
    PROVE  /\ end[1][1] \in Requests
           /\ end \in Ends(input(end[1][1])) \cup Ends(output(end[1][1]))
  BY DEF Ends, WriteEnd, ReadEnd, input, output, Pipes

\* The descriptor each close names, and the step after it.
LEMMA CloseStep ==
    ASSUME NEW r \in Requests, Close(r)
    PROVE  /\ fds' = [fds EXCEPT ![Server] = @ \ Closed(r)]
           /\ UNCHANGED <<total, response, code, child, prog, body, buffered>>
           /\ \/ /\ pc[r] = "close_input_1" /\ pc' = [pc EXCEPT ![r] = "close_output_0"]
                 /\ Closed(r) = {WriteEnd(input(r))}
              \/ /\ pc[r] = "close_output_0" /\ pc' = [pc EXCEPT ![r] = "write"]
                 /\ Closed(r) = {ReadEnd(output(r))}
              \/ /\ pc[r] = "close_input_0" /\ pc' = [pc EXCEPT ![r] = "close_output_1"]
                 /\ Closed(r) = {ReadEnd(input(r))}
              \/ /\ pc[r] = "close_output_1" /\ pc' = [pc EXCEPT ![r] = "done"]
                 /\ Closed(r) = {WriteEnd(output(r))}
<1>1. pc[r] \in {"close_input_1", "close_output_0", "close_input_0", "close_output_1"}
  BY DEF Close, Closing
<1>2. pc' = [pc EXCEPT ![r] = Closing(r)[pc[r]].next]
  BY DEF Close, Goto
<1>3. CASE pc[r] = "close_input_1"
  <2>1. Closing(r)[pc[r]].end = WriteEnd(input(r)) /\ Closing(r)[pc[r]].next = "close_output_0"
    BY <1>3 DEF Closing
  <2> QED
    BY <1>2, <1>3, <2>1 DEF Close, Closed
<1>4. CASE pc[r] = "close_output_0"
  <2>1. Closing(r)[pc[r]].end = ReadEnd(output(r)) /\ Closing(r)[pc[r]].next = "write"
    BY <1>4 DEF Closing
  <2> QED
    BY <1>2, <1>4, <2>1 DEF Close, Closed
<1>5. CASE pc[r] = "close_input_0"
  <2>1. Closing(r)[pc[r]].end = ReadEnd(input(r)) /\ Closing(r)[pc[r]].next = "close_output_1"
    BY <1>5 DEF Closing
  <2> QED
    BY <1>2, <1>5, <2>1 DEF Close, Closed
<1>6. CASE pc[r] = "close_output_1"
  <2>1. Closing(r)[pc[r]].end = WriteEnd(output(r)) /\ Closing(r)[pc[r]].next = "done"
    BY <1>6 DEF Closing
  <2> QED
    BY <1>2, <1>6, <2>1 DEF Close, Closed
<1> QED
  BY <1>1, <1>3, <1>4, <1>5, <1>6

\* Opening a pipe takes at most two descriptors more, closing takes none.
LEMMA OneMore ==
    ASSUME NEW S, IsFiniteSet(S), NEW x
    PROVE  /\ IsFiniteSet(S \cup {x}) /\ Cardinality(S \cup {x}) \in Nat
           /\ Cardinality(S) \in Nat /\ Cardinality(S \cup {x}) <= Cardinality(S) + 1
<1>1. /\ IsFiniteSet(S \cup {x})
      /\ Cardinality(S \cup {x}) = IF x \in S THEN Cardinality(S) ELSE Cardinality(S) + 1
  BY FS_AddElement
<1>2. Cardinality(S) \in Nat
  BY FS_CardinalityType
<1> QED
  BY <1>1, <1>2

LEMMA OpenCounts ==
    ASSUME NEW S, IsFiniteSet(S), NEW pipe
    PROVE  /\ IsFiniteSet(S \cup Ends(pipe))
           /\ Cardinality(S \cup Ends(pipe)) <= Cardinality(S) + 2
<1> DEFINE T == S \cup {ReadEnd(pipe)}
<1>1. /\ IsFiniteSet(T) /\ Cardinality(T) \in Nat /\ Cardinality(S) \in Nat
      /\ Cardinality(T) <= Cardinality(S) + 1
  BY OneMore
<1>2. S \cup Ends(pipe) = T \cup {WriteEnd(pipe)}
  BY DEF Ends
<1> HIDE DEF T
<1>3. /\ IsFiniteSet(T \cup {WriteEnd(pipe)})
      /\ Cardinality(T \cup {WriteEnd(pipe)}) \in Nat
      /\ Cardinality(T \cup {WriteEnd(pipe)}) <= Cardinality(T) + 1
  BY <1>1, OneMore
<1> QED
  BY <1>1, <1>2, <1>3

LEMMA CloseCounts ==
    ASSUME NEW S, IsFiniteSet(S), NEW T
    PROVE  IsFiniteSet(S \ T) /\ Cardinality(S \ T) <= Cardinality(S)
  BY FS_Subset, FS_CardinalityType


-------------------------------------------------------------------------------
(***************************************************************************)
(* Types, and the limit of descriptors: it is counted, so the set of the    *)
(* open ones has to be finite.                                              *)
(***************************************************************************)
Finite == IsFiniteSet(fds[Server])

LEMMA TypeInit == Init => TypeOK /\ Finite
<1> SUFFICES ASSUME Init PROVE TypeOK /\ Finite
  OBVIOUS
<1>1. fds[Server] = {}
  BY DEF Init
<1>2. IsFiniteSet(fds[Server]) /\ Cardinality(fds[Server]) = 0
  BY <1>1, FS_EmptySet
<1>3. ValuesOK
  BY BoundsAssumption DEF Init, ValuesOK, ThreadLabels, Pipes
<1> QED
  BY <1>2, <1>3, BoundsAssumption DEF TypeOK, Finite

LEMMA ValuesStep == ValuesOK /\ [Next]_vars => ValuesOK'
<1> SUFFICES ASSUME ValuesOK, [Next]_vars PROVE ValuesOK'
  OBVIOUS
<1> USE BoundsAssumption DEF ValuesOK, ThreadLabels, thread, child, Goto, Return, Drain, Fill
<1>1. ASSUME NEW r \in Requests, ThreadStep(r) \/ ChildStep(r)
      PROVE  ValuesOK'
  <2>0. input(r) \in Pipes /\ output(r) \in Pipes
    BY EndsOfRequest
  <2> USE <2>0
  <2>1. CASE PipeInput(r)
    BY <2>1, EndsOfRequest DEF PipeInput, Open
  <2>2. CASE PipeOutput(r)
    BY <2>2, EndsOfRequest DEF PipeOutput, Open
  <2>3. CASE Fork(r)
    BY <2>3 DEF Fork
  <2>4. CASE ForkFails(r)
    BY <2>4 DEF ForkFails
  <2>5. CASE Close(r)
    BY <2>5, CloseStep
  <2>6. CASE Write(r)
    BY <2>6 DEF Write, More, ThenRead
  <2>7. CASE WriteEnds(r)
    BY <2>7 DEF WriteEnds, ThenRead
  <2>8. CASE Read(r)
    BY <2>8 DEF Read
  <2>9. CASE ReadEof(r)
    BY <2>9 DEF ReadEof
  <2>10. CASE WaitPid(r)
    BY <2>10 DEF WaitPid, Status
  <2>11. CASE Exec(r)
    BY <2>11 DEF Exec, Die
  <2>12. CASE GetQueryString(r)
    BY <2>12 DEF GetQueryString
  <2>13. CASE GotQueryString(r)
    BY <2>13 DEF GotQueryString
  <2>14. CASE PrintBlock(r)
    BY <2>14 DEF PrintBlock
  <2>15. CASE Exit(r)
    BY <2>15 DEF Exit, Die
  <2> QED
    BY <1>1, <2>1, <2>2, <2>3, <2>4, <2>5, <2>6, <2>7, <2>8, <2>9, <2>10, <2>11, <2>12,
       <2>13, <2>14, <2>15 DEF ThreadStep, ChildStep
<1>2. CASE UNCHANGED vars
  BY <1>2 DEF vars
<1> QED
  BY <1>1, <1>2 DEF Next

LEMMA LimitStep ==
    ValuesOK /\ Finite /\ Cardinality(fds[Server]) <= MaxFds /\ [Next]_vars =>
      Finite' /\ Cardinality(fds[Server])' <= MaxFds
<1> SUFFICES ASSUME ValuesOK, Finite, Cardinality(fds[Server]) <= MaxFds, [Next]_vars
             PROVE  Finite' /\ Cardinality(fds'[Server]) <= MaxFds
  OBVIOUS
<1>1. CASE fds'[Server] = fds[Server]
  BY <1>1 DEF Finite
<1>2. ASSUME NEW pipe, CanPipe, Open(pipe) PROVE Finite' /\ Cardinality(fds'[Server]) <= MaxFds
  <2>1. fds'[Server] = fds[Server] \cup Ends(pipe)
    BY <1>2 DEF ValuesOK, Open
  <2>2. /\ IsFiniteSet(fds'[Server])
        /\ Cardinality(fds'[Server]) <= Cardinality(fds[Server]) + 2
    BY <2>1, OpenCounts DEF Finite
  <2>3. Cardinality(fds'[Server]) \in Nat /\ Cardinality(fds[Server]) \in Nat
    BY <2>2, FS_CardinalityType DEF Finite
  <2> QED
    BY <1>2, <2>2, <2>3, BoundsAssumption DEF CanPipe, Finite
<1>3. ASSUME NEW r \in Requests, Close(r) PROVE Finite' /\ Cardinality(fds'[Server]) <= MaxFds
  <2>1. fds'[Server] = fds[Server] \ Closed(r)
    BY <1>3, CloseStep DEF ValuesOK
  <2>2. /\ IsFiniteSet(fds'[Server])
        /\ Cardinality(fds'[Server]) <= Cardinality(fds[Server])
    BY <2>1, CloseCounts DEF Finite
  <2>3. Cardinality(fds'[Server]) \in Nat /\ Cardinality(fds[Server]) \in Nat
    BY <2>2, FS_CardinalityType DEF Finite
  <2> QED
    BY <2>2, <2>3, BoundsAssumption DEF Finite
<1>4. ASSUME NEW r \in Requests, ThreadStep(r) \/ ChildStep(r), ~Close(r)
      PROVE  \/ fds'[Server] = fds[Server]
             \/ \E pipe : CanPipe /\ Open(pipe)
  BY <1>4, RequestsAssumption
     DEF ThreadStep, ChildStep, ValuesOK, PipeInput, PipeOutput, Fork, ForkFails, Write, WriteEnds,
         Read, ReadEof, WaitPid, Exec, GetQueryString, GotQueryString, PrintBlock, Exit, Die
<1>5. CASE UNCHANGED vars
  BY <1>1, <1>5 DEF vars
<1> QED
  BY <1>1, <1>2, <1>3, <1>4, <1>5 DEF Next

\* The state has its type, and pipe fails before the server has more than MaxFds
\* descriptors open.
THEOREM TypeCorrect == SafeSpec => []TypeOK
<1>1. TypeOK /\ Finite /\ [Next]_vars => TypeOK' /\ Finite'
  BY ValuesStep, LimitStep DEF TypeOK
<1> QED
  BY <1>1, TypeInit, PTL DEF SafeSpec

-------------------------------------------------------------------------------
(***************************************************************************)
(* Who talks to whom. A program runs only while its thread talks to it: the *)
(* end of file that lets the thread go on comes when the program, which has *)
(* the write end of its stdout, has exited. What the server holds open      *)
(* follows from the label: the ends a child inherits until it is forked,    *)
(* the write end of its stdin until it is reaped, and nothing in the end.   *)
(***************************************************************************)
Talking == {"close_input_1", "close_output_0", "write", "read"}

Parties == \A r \in Requests :
    /\ cpc[r] = "none" => pc[r] \in {"pipe_input", "pipe_output", "fork", "done"}
    /\ cpc[r] \in {"exec", "stdin", "stdout"} => pc[r] \in Talking
    /\ cpc[r] = "zombie" => pc[r] \in Talking \cup {"waitpid"}
    /\ cpc[r] = "reaped" => pc[r] \in {"close_input_0", "close_output_1", "done"}

Holding == \A r \in Requests :
    /\ pc[r] \in {"pipe_output", "fork"} => Ends(input(r)) \subseteq fds[Server]
    /\ pc[r] \in {"fork", "waitpid", "close_input_0", "close_output_1"} \cup Talking =>
         WriteEnd(output(r)) \in fds[Server]
    /\ cpc[r] \in {"exec", "stdin", "stdout"} => WriteEnd(input(r)) \in fds[r]
    /\ cpc[r] \notin {"exec", "stdin", "stdout"} => fds[r] = {}

Releasing == \A r \in Requests : Forked(r) =>
    /\ WriteEnd(input(r)) \in fds[Server] => pc[r] = "close_input_1"
    /\ ReadEnd(output(r)) \in fds[Server] => pc[r] \in {"close_input_1", "close_output_0"}
    /\ ReadEnd(input(r)) \in fds[Server] => pc[r] \notin {"close_output_1", "done"}
    /\ WriteEnd(output(r)) \in fds[Server] => pc[r] # "done"

LEMMA ControlInit == Init => Parties /\ Holding /\ Releasing
  BY RequestsAssumption DEF Init, Parties, Holding, Releasing, Forked, Talking

\* A close disturbs nobody else's ends, and takes the write end of the program's
\* stdin only in the last step.
LEMMA CloseFrame ==
    ASSUME ValuesOK, NEW r \in Requests, Close(r)
    PROVE  /\ fds' = [fds EXCEPT ![Server] = @ \ Closed(r)]
           /\ cpc' = cpc
           /\ \A s \in Requests \ {r} : /\ pc'[s] = pc[s]
                                      /\ Ends(input(s)) \cap Closed(r) = {}
                                      /\ WriteEnd(output(s)) \notin Closed(r)
           /\ pc[r] \in Talking \cup {"close_input_0", "close_output_1"}
           /\ pc'[r] \notin {"pipe_output", "fork"}
           /\ WriteEnd(output(r)) \in Closed(r) => pc'[r] = "done"
<1>1. /\ fds' = [fds EXCEPT ![Server] = @ \ Closed(r)]
      /\ cpc' = cpc
  BY CloseStep DEF child
<1>2. /\ \A s \in Requests \ {r} : pc'[s] = pc[s]
      /\ pc[r] \in Talking \cup {"close_input_0", "close_output_1"}
      /\ pc'[r] \notin {"pipe_output", "fork"}
  BY CloseStep DEF ValuesOK, Talking
<1>3. ASSUME NEW s \in Requests \ {r}
      PROVE  Ends(input(s)) \cap Closed(r) = {} /\ WriteEnd(output(s)) \notin Closed(r)
  <2>1. Closed(r) \in {{WriteEnd(input(r))}, {ReadEnd(output(r))},
                       {ReadEnd(input(r))}, {WriteEnd(output(r))}}
    BY CloseStep
  <2>2. {WriteEnd(input(s)), ReadEnd(input(s)), WriteEnd(output(s))} \cap
        {WriteEnd(input(r)), ReadEnd(input(r)), WriteEnd(output(r)), ReadEnd(output(r))} = {}
    BY EndsDiffer
  <2> QED
    BY <2>1, <2>2 DEF Ends
<1>4. WriteEnd(output(r)) \in Closed(r) => pc'[r] = "done"
  BY CloseStep, EndsDiffer DEF ValuesOK
<1> QED
  BY <1>1, <1>2, <1>3, <1>4

LEMMA PartiesStep == ValuesOK /\ Parties /\ Holding /\ [Next]_vars => Parties'
<1> SUFFICES ASSUME ValuesOK, Parties, Holding, [Next]_vars
             PROVE  Parties'
  OBVIOUS
<1> USE DEF ValuesOK, Parties, Talking, thread, child, Goto, Return
<1>1. ASSUME NEW r \in Requests, ThreadStep(r) \/ ChildStep(r)
      PROVE  Parties'
  <2>1. CASE PipeInput(r)
    BY <2>1 DEF PipeInput, Open
  <2>2. CASE PipeOutput(r)
    BY <2>2 DEF PipeOutput, Open
  <2>3. CASE Fork(r)
    BY <2>3 DEF Fork
  <2>4. CASE ForkFails(r)
    BY <2>4 DEF ForkFails
  <2>5. CASE Close(r)
    BY <2>5, CloseStep
  <2>6. CASE Write(r)
    BY <2>6 DEF Write, More, ThenRead
  <2>7. CASE WriteEnds(r)
    BY <2>7 DEF WriteEnds, ThenRead
  <2>8. CASE Read(r)
    BY <2>8 DEF Read
  <2>9. CASE ReadEof(r)
    BY <2>9 DEF ReadEof, HasWriter, Holding
  <2>10. CASE WaitPid(r)
    BY <2>10 DEF WaitPid
  <2>11. CASE Exec(r)
    BY <2>11 DEF Exec, Die
  <2>12. CASE GetQueryString(r)
    BY <2>12 DEF GetQueryString
  <2>13. CASE GotQueryString(r)
    BY <2>13 DEF GotQueryString
  <2>14. CASE PrintBlock(r)
    BY <2>14 DEF PrintBlock
  <2>15. CASE Exit(r)
    BY <2>15 DEF Exit, Die
  <2> QED
    BY <1>1, <2>1, <2>2, <2>3, <2>4, <2>5, <2>6, <2>7, <2>8, <2>9, <2>10, <2>11, <2>12,
       <2>13, <2>14, <2>15 DEF ThreadStep, ChildStep
<1>2. CASE UNCHANGED vars
  BY <1>2 DEF vars
<1> QED
  BY <1>1, <1>2 DEF Next

LEMMA HoldingStep == ValuesOK /\ Parties /\ Holding /\ [Next]_vars => Holding'
<1> SUFFICES ASSUME ValuesOK, Parties, Holding, [Next]_vars
             PROVE  Holding'
  OBVIOUS
<1> USE RequestsAssumption DEF ValuesOK, Parties, Holding, Talking, thread, child, Goto, Return
<1>1. ASSUME NEW r \in Requests, ThreadStep(r) \/ ChildStep(r)
      PROVE  Holding'
  <2>1. CASE PipeInput(r)
    BY <2>1 DEF PipeInput, Open, Ends
  <2>2. CASE PipeOutput(r)
    BY <2>2 DEF PipeOutput, Open, Ends
  <2>3. CASE Fork(r)
    BY <2>3 DEF Fork, Ends
  <2>4. CASE ForkFails(r)
    BY <2>4 DEF ForkFails, Ends
  <2>5. CASE Close(r)
    BY <2>5, CloseFrame
  <2>6. CASE Write(r)
    BY <2>6 DEF Write, More, ThenRead
  <2>7. CASE WriteEnds(r)
    BY <2>7 DEF WriteEnds, ThenRead
  <2>8. CASE Read(r)
    BY <2>8 DEF Read
  <2>9. CASE ReadEof(r)
    BY <2>9 DEF ReadEof
  <2>10. CASE WaitPid(r)
    BY <2>10 DEF WaitPid
  <2>11. CASE Exec(r)
    BY <2>11, EndsDiffer, SMTT(30) DEF Exec, Die
  <2>12. CASE GetQueryString(r)
    BY <2>12 DEF GetQueryString
  <2>13. CASE GotQueryString(r)
    BY <2>13 DEF GotQueryString
  <2>14. CASE PrintBlock(r)
    BY <2>14 DEF PrintBlock
  <2>15. CASE Exit(r)
    BY <2>15 DEF Exit, Die
  <2> QED
    BY <1>1, <2>1, <2>2, <2>3, <2>4, <2>5, <2>6, <2>7, <2>8, <2>9, <2>10, <2>11, <2>12,
       <2>13, <2>14, <2>15 DEF ThreadStep, ChildStep
<1>2. CASE UNCHANGED vars
  BY <1>2 DEF vars
<1> QED
  BY <1>1, <1>2 DEF Next

LEMMA ReleasingStep == ValuesOK /\ Parties /\ Releasing /\ [Next]_vars => Releasing'
<1> SUFFICES ASSUME ValuesOK, Parties, Releasing, [Next]_vars
             PROVE  Releasing'
  OBVIOUS
<1> USE RequestsAssumption DEF ValuesOK, Parties, Releasing, Talking, Forked, thread, child, Goto, Return
<1>1. ASSUME NEW r \in Requests, ThreadStep(r) \/ ChildStep(r)
      PROVE  Releasing'
  <2>1. CASE PipeInput(r)
    BY <2>1, EndsDiffer DEF PipeInput, Open, Ends
  <2>2. CASE PipeOutput(r)
    BY <2>2, EndsDiffer DEF PipeOutput, Open, Ends
  <2>3. CASE Fork(r)
    BY <2>3 DEF Fork
  <2>4. CASE ForkFails(r)
    BY <2>4 DEF ForkFails
  <2>5. CASE Close(r)
    BY <2>5, CloseStep, EndsDiffer
  <2>6. CASE Write(r)
    BY <2>6 DEF Write, More, ThenRead
  <2>7. CASE WriteEnds(r)
    BY <2>7 DEF WriteEnds, ThenRead
  <2>8. CASE Read(r)
    BY <2>8 DEF Read
  <2>9. CASE ReadEof(r)
    BY <2>9 DEF ReadEof
  <2>10. CASE WaitPid(r)
    BY <2>10 DEF WaitPid
  <2>11. CASE Exec(r)
    BY <2>11 DEF Exec, Die
  <2>12. CASE GetQueryString(r)
    BY <2>12 DEF GetQueryString
  <2>13. CASE GotQueryString(r)
    BY <2>13 DEF GotQueryString
  <2>14. CASE PrintBlock(r)
    BY <2>14 DEF PrintBlock
  <2>15. CASE Exit(r)
    BY <2>15 DEF Exit, Die
  <2> QED
    BY <1>1, <2>1, <2>2, <2>3, <2>4, <2>5, <2>6, <2>7, <2>8, <2>9, <2>10, <2>11, <2>12,
       <2>13, <2>14, <2>15 DEF ThreadStep, ChildStep
<1>2. CASE UNCHANGED vars
  BY <1>2 DEF vars
<1> QED
  BY <1>1, <1>2 DEF Next

\* A program takes only what was sent for the body of its request: it never meets an
\* end of file on its stdin.
THEOREM BodyIsNoPhantom == SafeSpec => []NoPhantomBody
<1>1. Init => NoPhantomBody
  BY DEF Init, NoPhantomBody
<1>2. ValuesOK /\ Parties /\ Holding /\ NoPhantomBody /\ [Next]_vars => NoPhantomBody'
  <2> SUFFICES ASSUME ValuesOK, Parties, Holding, NoPhantomBody, [Next]_vars
               PROVE  NoPhantomBody'
    OBVIOUS
  <2> USE DEF NoPhantomBody, thread, child
  <2>1. ASSUME NEW r \in Requests, GetQueryString(r) PROVE NoPhantomBody'
    <3>1. WriteEnd(output(r)) \in fds[Server]
      BY <2>1 DEF GetQueryString, Parties, Holding
    <3>2. HasWriter(output(r))
      BY <3>1 DEF HasWriter, ValuesOK
    <3> QED
      BY <2>1, <3>2 DEF GetQueryString
  <2>2. ASSUME NEW r \in Requests, ThreadStep(r) \/ ChildStep(r), ~GetQueryString(r)
        PROVE  phantom' = phantom
    BY <2>2, CloseStep
       DEF ThreadStep, ChildStep, PipeInput, PipeOutput, Fork, ForkFails, Write, WriteEnds, Read,
           ReadEof, WaitPid, Exec, GotQueryString, PrintBlock, Exit
  <2>3. CASE UNCHANGED vars
    BY <2>3 DEF vars
  <2> QED
    BY <2>1, <2>2, <2>3 DEF Next
<1>3. TypeOK => ValuesOK
  BY DEF TypeOK
<1> QED
  BY <1>1, <1>2, <1>3, TypeCorrect, ControlInit, PartiesStep, HoldingStep, PTL DEF SafeSpec

\* A request that returned after a fork has closed all its descriptors in the server
\* and reaped its child.
THEOREM DescriptorsAccounted == SafeSpec => []FdsAccounted
<1>1. ASSUME ValuesOK, Parties, Holding, Releasing PROVE FdsAccounted
  <2>1. ASSUME NEW end \in fds[Server]
        PROVE  LET r == end[1][1] IN pc[r] # "done" \/ ~Forked(r)
    <3> DEFINE r == end[1][1]
    <3>1. r \in Requests /\ end \in Ends(input(r)) \cup Ends(output(r))
      BY <1>1, EndIsSomeones DEF ValuesOK
    <3> HIDE DEF r
    <3>2. pc[r] # "done" \/ ~Forked(r)
      BY <1>1, <3>1 DEF Releasing, Ends
    <3> QED
      BY <3>2 DEF r
  <2>2. ASSUME NEW r \in Requests, pc[r] = "done"
        PROVE  cpc[r] \in {"none", "reaped"} /\ fds[r] = {}
    BY <1>1, <2>2 DEF ValuesOK, Parties, Holding, Talking
  <2> QED
    BY <2>1, <2>2 DEF FdsAccounted
<1>2. TypeOK => ValuesOK
  BY DEF TypeOK
<1> QED
  BY <1>1, <1>2, TypeCorrect, ControlInit, PartiesStep, HoldingStep, ReleasingStep, PTL DEF SafeSpec

-------------------------------------------------------------------------------
(***************************************************************************)
(* Outcome. What the program printed is what the thread has read and what   *)
(* is still in the pipe; once the thread waits for the program the pipe is  *)
(* empty, and the program can fill it no more.                              *)
(***************************************************************************)
Outcome == \A r \in Requests :
    /\ printed[r] = response[r] + buffered[input(r)]
    /\ cpc[r] \in {"none", "exec", "stdin"} => printed[r] = 0
    /\ cpc[r] \in {"zombie", "reaped"} => printed[r] = Program[prog[r]].out
    /\ pc[r] = "waitpid" \/ cpc[r] = "reaped" => buffered[input(r)] = 0
    /\ cpc[r] = "reaped" => code[r] = Status(Program[prog[r]].ends)

LEMMA OutcomeInit == Init => Outcome
  BY EndsOfRequest DEF Init, Outcome, Pipes

LEMMA OutcomeStep == ValuesOK /\ Parties /\ Holding /\ Outcome /\ [Next]_vars => Outcome'
<1> SUFFICES ASSUME ValuesOK, Parties, Holding, Outcome, [Next]_vars
             PROVE  Outcome'
  OBVIOUS
<1> USE DEF ValuesOK, Parties, Outcome, Talking, thread, child, Goto, Return, Drain, Fill
<1>1. ASSUME NEW r \in Requests, ThreadStep(r) \/ ChildStep(r)
      PROVE  Outcome'
  <2>1. CASE PipeInput(r)
    BY <2>1 DEF PipeInput, Open
  <2>2. CASE PipeOutput(r)
    BY <2>2 DEF PipeOutput, Open
  <2>3. CASE Fork(r)
    BY <2>3 DEF Fork
  <2>4. CASE ForkFails(r)
    BY <2>4 DEF ForkFails
  <2>5. CASE Close(r)
    BY <2>5, CloseStep
  <2>6. CASE Write(r)
    BY <2>6, PipesDiffer, EndsOfRequest DEF Write, More, ThenRead
  <2>7. CASE WriteEnds(r)
    BY <2>7 DEF WriteEnds, ThenRead
  <2>8. CASE Read(r)
    <3>1. \A s \in Requests \ {r} : /\ printed'[s] = printed[s] /\ response'[s] = response[s]
                                     /\ buffered'[input(s)] = buffered[input(s)]
      BY <2>8, PipesDiffer, EndsOfRequest DEF Read
    <3>2. printed'[r] = response'[r] + buffered'[input(r)]
      BY <2>8, EndsOfRequest DEF Read
    <3>3. /\ cpc' = cpc /\ pc' = pc /\ code' = code /\ prog' = prog
          /\ pc[r] = "read" /\ printed' = printed
      BY <2>8, EndsOfRequest DEF Read
    <3> QED
      BY <3>1, <3>2, <3>3
  <2>9. CASE ReadEof(r)
    BY <2>9 DEF ReadEof, HasWriter, Holding
  <2>10. CASE WaitPid(r)
    BY <2>10 DEF WaitPid
  <2>11. CASE Exec(r)
    BY <2>11 DEF Exec, Die, Program
  <2>12. CASE GetQueryString(r)
    BY <2>12, PipesDiffer, EndsOfRequest DEF GetQueryString
  <2>13. CASE GotQueryString(r)
    BY <2>13 DEF GotQueryString
  <2>14. CASE PrintBlock(r)
    <3>1. \A s \in Requests \ {r} : /\ printed'[s] = printed[s] /\ response'[s] = response[s]
                                     /\ buffered'[input(s)] = buffered[input(s)]
      BY <2>14, PipesDiffer, EndsOfRequest DEF PrintBlock
    <3>2. printed'[r] = response'[r] + buffered'[input(r)]
      BY <2>14, EndsOfRequest DEF PrintBlock
    <3>3. /\ cpc' = cpc /\ pc' = pc /\ code' = code /\ prog' = prog
          /\ cpc[r] = "stdout"
      BY <2>14, EndsOfRequest DEF PrintBlock
    <3> QED
      BY <3>1, <3>2, <3>3
  <2>15. CASE Exit(r)
    BY <2>15 DEF Exit, Die
  <2> QED
    BY <1>1, <2>1, <2>2, <2>3, <2>4, <2>5, <2>6, <2>7, <2>8, <2>9, <2>10, <2>11, <2>12,
       <2>13, <2>14, <2>15 DEF ThreadStep, ChildStep
<1>2. CASE UNCHANGED vars
  BY <1>2 DEF vars
<1> QED
  BY <1>1, <1>2 DEF Next

\* The status ProcessCgi returns is how the program ended, and a 200 comes with all
\* that it printed.
THEOREM StatusTellsOutcome == SafeSpec => []CodeTellsOutcome
<1>1. ASSUME ValuesOK, Parties, Outcome PROVE CodeTellsOutcome
  BY <1>1 DEF ValuesOK, Parties, Outcome, Talking, Forked, Status, CodeTellsOutcome
<1>2. TypeOK => ValuesOK
  BY DEF TypeOK
<1> QED
  BY <1>1, <1>2, TypeCorrect, ControlInit, PartiesStep, HoldingStep, OutcomeInit, OutcomeStep,
     PTL DEF SafeSpec

-------------------------------------------------------------------------------
(***************************************************************************)
(* Rest. What the thread has sent is what the program has taken and what is *)
(* still in the pipe; a program that runs keeps the read end of its stdin   *)
(* open, so its thread stops sending only when it has sent the whole body.  *)
(***************************************************************************)
Alive == {"exec", "stdin", "stdout"}
Sending == \A r \in Requests :
    /\ total[r] <= body[r]
    /\ total[r] = consumed[r] + buffered[output(r)]
    /\ cpc[r] \in {"none", "exec"} => consumed[r] = 0
    /\ cpc[r] = "stdin" => Program[prog[r]].reads
    /\ cpc[r] = "stdout" => consumed[r] = IF Program[prog[r]].reads THEN body[r] ELSE 0
    /\ pc[r] = "fork" => ReadEnd(output(r)) \in fds[Server]
    /\ cpc[r] \in Alive => ReadEnd(output(r)) \in fds[r]
    /\ cpc[r] \in Alive /\ pc[r] = "read" => total[r] = body[r]

LEMMA SendingInit == Init => Sending
  BY EndsOfRequest, BoundsAssumption DEF Init, Sending, Alive, Pipes

LEMMA SendingStep ==
    ValuesOK /\ Parties /\ NoPhantomBody /\ NoPhantomBody' /\ Sending /\ [Next]_vars => Sending'
<1> SUFFICES ASSUME ValuesOK, Parties, NoPhantomBody, NoPhantomBody', Sending, [Next]_vars
             PROVE  Sending'
  OBVIOUS
<1> USE RequestsAssumption
    DEF ValuesOK, Parties, NoPhantomBody, Sending, Alive, Talking, thread, child, Goto, Return, Drain, Fill
<1>1. ASSUME NEW r \in Requests, ThreadStep(r) \/ ChildStep(r)
      PROVE  Sending'
  <2>1. CASE PipeInput(r)
    BY <2>1, EndsDiffer DEF PipeInput, Open, Ends
  <2>2. CASE PipeOutput(r)
    BY <2>2, EndsDiffer DEF PipeOutput, Open, Ends
  <2>3. CASE Fork(r)
    BY <2>3 DEF Fork
  <2>4. CASE ForkFails(r)
    BY <2>4 DEF ForkFails
  <2>5. CASE Close(r)
    <3>1. \A s \in Requests : fds'[s] = fds[s]
      BY <2>5, CloseStep
    <3>2. /\ UNCHANGED <<total, child, prog, body, buffered>>
          /\ \A s \in Requests : pc'[s] = "read" => pc[s] = "read"
      BY <2>5, CloseStep
    <3>3. ASSUME NEW s \in Requests, pc'[s] = "fork" PROVE ReadEnd(output(s)) \in fds'[Server]
      <4>1. pc[s] = "fork" /\ s # r
        BY <2>5, <3>3, CloseStep
      <4>2. Closed(r) \in {{WriteEnd(input(r))}, {ReadEnd(output(r))},
                           {ReadEnd(input(r))}, {WriteEnd(output(r))}}
        BY <2>5, CloseStep
      <4>3. ReadEnd(output(s)) \notin {WriteEnd(input(r)), ReadEnd(output(r)),
                                      ReadEnd(input(r)), WriteEnd(output(r))}
        BY <4>1 DEF WriteEnd, ReadEnd, input, output
      <4>4. fds'[Server] = fds[Server] \ Closed(r)
        BY <2>5, CloseStep
      <4> QED
        BY <4>1, <4>2, <4>3, <4>4
    <3> QED
      BY <3>1, <3>2, <3>3
  <2>6. CASE Write(r)
    <3>1. CASE HasReader(output(r))
      <4>1. \A s \in Requests \ {r} : /\ total'[s] = total[s]
                                       /\ buffered'[output(s)] = buffered[output(s)]
        BY <2>6, <3>1, PipesDiffer, EndsOfRequest DEF Write
      <4>2. /\ total'[r] = total[r] + 1 /\ total'[r] <= body[r]
            /\ buffered'[output(r)] = buffered[output(r)] + 1
        BY <2>6, <3>1, EndsOfRequest DEF Write, More
      <4>3. /\ pc' = pc /\ pc[r] = "write"
            /\ UNCHANGED <<child, prog, body, fds>>
        BY <2>6, <3>1 DEF Write
      <4> QED
        BY <4>1, <4>2, <4>3, EndsOfRequest
    <3>2. CASE ~HasReader(output(r))
      <4>1. cpc[r] \notin Alive
        BY <3>2 DEF HasReader
      <4> QED
        BY <2>6, <3>2, <4>1 DEF Write, ThenRead
    <3> QED
      BY <3>1, <3>2
  <2>7. CASE WriteEnds(r)
    BY <2>7 DEF WriteEnds, ThenRead
  <2>8. CASE Read(r)
    BY <2>8, PipesDiffer, EndsOfRequest DEF Read
  <2>9. CASE ReadEof(r)
    BY <2>9 DEF ReadEof
  <2>10. CASE WaitPid(r)
    BY <2>10 DEF WaitPid
  <2>11. CASE Exec(r)
    BY <2>11, EndsDiffer, SMTT(30) DEF Exec, Die
  <2>12. CASE GetQueryString(r)
    <3>1. \A s \in Requests \ {r} : /\ consumed'[s] = consumed[s]
                                     /\ buffered'[output(s)] = buffered[output(s)]
      BY <2>12, PipesDiffer, EndsOfRequest DEF GetQueryString
    <3>2. /\ consumed'[r] = consumed[r] + 1
          /\ buffered'[output(r)] = buffered[output(r)] - 1
      BY <2>12, EndsOfRequest DEF GetQueryString
    <3>3. UNCHANGED <<thread, cpc, prog, body, fds>> /\ cpc[r] = "stdin"
      BY <2>12 DEF GetQueryString
    <3> QED
      BY <3>1, <3>2, <3>3, EndsOfRequest
  <2>13. CASE GotQueryString(r)
    BY <2>13 DEF GotQueryString
  <2>14. CASE PrintBlock(r)
    BY <2>14, PipesDiffer, EndsOfRequest DEF PrintBlock
  <2>15. CASE Exit(r)
    BY <2>15 DEF Exit, Die
  <2> QED
    BY <1>1, <2>1, <2>2, <2>3, <2>4, <2>5, <2>6, <2>7, <2>8, <2>9, <2>10, <2>11, <2>12,
       <2>13, <2>14, <2>15 DEF ThreadStep, ChildStep
<1>2. CASE UNCHANGED vars
  BY <1>2 DEF vars
<1> QED
  BY <1>1, <1>2 DEF Next

\* No circle of threads and programs that wait for each other's pipes: when all of
\* them wait, every request has returned. A program that waits to print has taken
\* the body it wants, so its thread reads; one that waits for body has a thread that
\* still writes. So no program runs, and then nobody holds an end that lets a thread
\* wait in write or in read.
THEOREM RequestsRestDone == SafeSpec => []RestIsDone
<1>1. ASSUME ValuesOK, Parties, Holding, Releasing, Outcome, NoPhantomBody, Sending
      PROVE  RestIsDone
  <2> SUFFICES ASSUME \A r \in Requests : ~Greedy(r) /\ ThreadRests(r) /\ ChildRests(r),
                      NEW r \in Requests
               PROVE  pc[r] = "done"
    BY DEF RestIsDone
  <2>1. \A s \in Requests : input(s) \in Pipes /\ output(s) \in Pipes
    BY EndsOfRequest
  <2>2. ASSUME NEW s \in Requests PROVE cpc[s] # "stdin"
    <3> SUFFICES ASSUME cpc[s] = "stdin" PROVE FALSE
      OBVIOUS
    <3>1. consumed[s] < body[s] /\ buffered[output(s)] = 0
      BY <1>1 DEF ChildRests, NoPhantomBody, ValuesOK
    <3>2. total[s] < body[s]
      BY <1>1, <2>1, <3>1 DEF Sending, ValuesOK
    <3>3. pc[s] \in Talking /\ pc[s] # "read"
      BY <1>1, <3>2 DEF Parties, Sending, Alive, ValuesOK
    <3> QED
      BY <1>1, <3>1, <3>3, BoundsAssumption DEF ThreadRests, Talking
  <2>3. ASSUME NEW s \in Requests PROVE cpc[s] # "stdout"
    <3> SUFFICES ASSUME cpc[s] = "stdout" PROVE FALSE
      OBVIOUS
    <3>1. printed[s] < Program[prog[s]].out /\ buffered[input(s)] = Cap
      BY DEF ChildRests
    <3>2. pc[s] = "write" /\ total[s] < body[s] /\ buffered[output(s)] = Cap
      BY <1>1, <3>1, BoundsAssumption DEF Parties, Talking, ThreadRests, More
    <3>3. ~Program[prog[s]].reads /\ Cap < body[s]
      BY <1>1, <2>1, <3>2, BoundsAssumption DEF Sending, ValuesOK
    <3>4. Cap < Program[prog[s]].out
      <4>1. /\ printed[s] = response[s] + Cap
            /\ response[s] \in Nat /\ Program[prog[s]].out \in Nat
        BY <1>1, <3>1, ProgramsAssumption DEF Outcome, ValuesOK, Program
      <4> QED
        BY <3>1, <4>1, BoundsAssumption
    <3> QED
      BY <3>3, <3>4 DEF Greedy
  <2>4. \A s \in Requests : fds[s] = {}
    BY <1>1, <2>2, <2>3 DEF ChildRests, Holding
  <2>5. DOMAIN fds = Requests \cup {Server}
    BY <1>1 DEF ValuesOK
  <2>6. pc[r] # "waitpid"
    BY <1>1 DEF ThreadRests, Parties, ValuesOK, Talking
  <2>7. pc[r] # "write"
    <3> SUFFICES ASSUME pc[r] = "write" PROVE FALSE
      OBVIOUS
    <3>1. ReadEnd(output(r)) \in fds[Server]
      BY <2>4, <2>5 DEF ThreadRests, HasReader
    <3> QED
      BY <1>1, <3>1 DEF Releasing, Forked, Parties
  <2>8. pc[r] # "read"
    <3> SUFFICES ASSUME pc[r] = "read" PROVE FALSE
      OBVIOUS
    <3>1. WriteEnd(input(r)) \in fds[Server]
      BY <2>4, <2>5 DEF ThreadRests, HasWriter
    <3> QED
      BY <1>1, <3>1 DEF Releasing, Forked, Parties
  <2> QED
    BY <2>6, <2>7, <2>8 DEF ThreadRests
<1>2. TypeOK => ValuesOK
  BY DEF TypeOK
<1> QED
  BY <1>1, <1>2, TypeCorrect, BodyIsNoPhantom, ControlInit, PartiesStep, HoldingStep, ReleasingStep,
     OutcomeInit, OutcomeStep, SendingInit, SendingStep, PTL DEF SafeSpec
==============================================================================

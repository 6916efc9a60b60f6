--------------------------------- MODULE Cgi ---------------------------------
(***************************************************************************)
(* EndPoint::ProcessCgi of myHttp (src/myHttp/Protocol.hpp), run by several *)
(* worker threads of one server process at once. Each request makes two     *)
(* pipes, forks, and talks to its CGI program through them. fork copies the *)
(* whole descriptor table and nothing is close-on-exec, so a child also     *)
(* keeps open the pipe ends that other requests had open at that moment.    *)
(*                                                                          *)
(* A thread of the pool handles one request at a time, so a request stands  *)
(* for the thread that handles it and for the child it forks. Bodies and    *)
(* outputs are counted in blocks; a pipe holds Cap of them.                 *)
(***************************************************************************)
EXTENDS Naturals, FiniteSets

CONSTANTS Requests,   \* the CGI requests, handled concurrently
          Server,     \* the server process
          Programs,   \* the programs installed under wwwroot, named in Program
          Cap,        \* blocks a pipe buffers
          MaxFds,     \* pipe descriptors the server process may have open
          MaxBody     \* blocks of request body (0: GET, or POST without a body)

ASSUME RequestsAssumption == IsFiniteSet(Requests) /\ Server \notin Requests
ASSUME BoundsAssumption == Cap \in Nat \ {0} /\ MaxFds \in Nat /\ MaxBody \in Nat

(***************************************************************************)
(* The programs a CGI request can end in: whether they read CONTENT_LENGTH  *)
(* blocks first (comm.hpp, GetQueryString), how much they print and how     *)
(* they end. test_cgi divides by its second operand: zero is a SIGFPE after  *)
(* the two lines std::endl flushed.                                         *)
(***************************************************************************)
Program == [test_cgi       |-> [reads |-> TRUE,  out |-> 2, ends |-> "exit_0"],
            test_cgi_zero  |-> [reads |-> TRUE,  out |-> 1, ends |-> "signal"],
            python_cgi     |-> [reads |-> FALSE, out |-> 1, ends |-> "exit_0"],
            shell_cgi      |-> [reads |-> FALSE, out |-> 2, ends |-> "exit_0"],
            not_executable |-> [reads |-> FALSE, out |-> 0, ends |-> "exit_1"]]
ASSUME ProgramsAssumption == Programs \subseteq DOMAIN Program

VARIABLES pc,         \* pc[r]: where the thread is in ProcessCgi
          cpc,        \* cpc[r]: where its child is
          prog,       \* prog[r]: the program at http_request.path
          body,       \* body[r]: content_length
          total,      \* total[r]: blocks written to the child so far
          response,   \* response[r]: blocks of response_body
          code,       \* code[r]: the status ProcessCgi returns, 0 before
          fds,        \* fds[process]: the pipe ends it has open
          buffered,   \* buffered[pipe]: blocks in the pipe
          consumed,   \* consumed[r]: body blocks the program took from its stdin
          phantom,    \* phantom[r]: blocks it made up after an end of file
          printed     \* printed[r]: blocks it wrote to its stdout

thread == <<pc, total, response, code>>
child == <<cpc, consumed, phantom, printed>>
vars == <<thread, child, prog, body, fds, buffered>>

\* Pipe input carries the response, pipe output the body; side 0 is read.
input(r) == <<r, "input">>
output(r) == <<r, "output">>
ReadEnd(pipe) == <<pipe, 0>>
WriteEnd(pipe) == <<pipe, 1>>
Ends(pipe) == {ReadEnd(pipe), WriteEnd(pipe)}

HasReader(pipe) == \E q \in DOMAIN fds : ReadEnd(pipe) \in fds[q]
HasWriter(pipe) == \E q \in DOMAIN fds : WriteEnd(pipe) \in fds[q]
CanPipe == Cardinality(fds[Server]) + 2 <= MaxFds

Goto(r, label) == pc' = [pc EXCEPT ![r] = label]
Fill(pipe) == buffered[pipe] < Cap /\ buffered' = [buffered EXCEPT ![pipe] = @ + 1]
Drain(pipe) == buffered[pipe] > 0 /\ buffered' = [buffered EXCEPT ![pipe] = @ - 1]

Init == /\ prog \in [Requests -> Programs]
        /\ body \in [Requests -> 0..MaxBody]
        /\ pc = [r \in Requests |-> "pipe_input"]
        /\ cpc = [r \in Requests |-> "none"]
        /\ total = [r \in Requests |-> 0]
        /\ response = [r \in Requests |-> 0]
        /\ code = [r \in Requests |-> 0]
        /\ fds = [q \in Requests \cup {Server} |-> {}]
        /\ buffered = [pipe \in Requests \X {"input", "output"} |-> 0]
        /\ consumed = [r \in Requests |-> 0]
        /\ phantom = [r \in Requests |-> 0]
        /\ printed = [r \in Requests |-> 0]

(***************************************************************************)
(* The thread. An error return closes nothing.                              *)
(***************************************************************************)
Return(r, status) == code' = [code EXCEPT ![r] = status] /\ Goto(r, "done")
Open(pipe) == fds' = [fds EXCEPT ![Server] = @ \cup Ends(pipe)]

PipeInput(r) ==
    /\ pc[r] = "pipe_input"
    /\ IF CanPipe THEN Open(input(r)) /\ Goto(r, "pipe_output") /\ UNCHANGED code
                  ELSE Return(r, 500) /\ UNCHANGED fds
    /\ UNCHANGED <<total, response, child, prog, body, buffered>>

PipeOutput(r) ==
    /\ pc[r] = "pipe_output"
    /\ IF CanPipe THEN Open(output(r)) /\ Goto(r, "fork") /\ UNCHANGED code
                  ELSE Return(r, 500) /\ UNCHANGED fds
    /\ UNCHANGED <<total, response, child, prog, body, buffered>>

Fork(r) ==
    /\ pc[r] = "fork"
    /\ fds' = [fds EXCEPT ![r] = fds[Server]]
    /\ cpc' = [cpc EXCEPT ![r] = "exec"]
    /\ Goto(r, "close_input_1")
    /\ UNCHANGED <<total, response, code, consumed, phantom, printed, prog, body, buffered>>

ForkFails(r) ==
    /\ pc[r] = "fork"
    /\ Return(r, 404)
    /\ UNCHANGED <<total, response, child, prog, body, fds, buffered>>

\* The four close calls of the parent, each a step other threads may fork at.
Closing(r) == [label \in {"close_input_1", "close_output_0", "close_input_0", "close_output_1"} |->
    CASE label = "close_input_1"  -> [end |-> WriteEnd(input(r)),  next |-> "close_output_0"]
      [] label = "close_output_0" -> [end |-> ReadEnd(output(r)),  next |-> "write"]
      [] label = "close_input_0"  -> [end |-> ReadEnd(input(r)),   next |-> "close_output_1"]
      [] label = "close_output_1" -> [end |-> WriteEnd(output(r)), next |-> "done"]]

\* Mutants: the parent keeps the read end of the child's stdin; it closes the
\* write end in its place.
ClosedThree(r) == {Closing(r)[pc[r]].end} \ {ReadEnd(output(r))}
ClosedOther(r) == IF pc[r] = "close_output_0" THEN {WriteEnd(output(r))}
                                               ELSE {Closing(r)[pc[r]].end}

Closed(r) == {Closing(r)[pc[r]].end}

Close(r) ==
    /\ pc[r] \in DOMAIN Closing(r)
    /\ fds' = [fds EXCEPT ![Server] = @ \ Closed(r)]
    /\ Goto(r, Closing(r)[pc[r]].next)
    /\ UNCHANGED <<total, response, code, child, prog, body, buffered>>

\* Mutants: the bound of the loop dropped; the thread waits for the program
\* before it reads what it prints.
Unbounded(r) == TRUE
ThenWait == "waitpid"

More(r) == total[r] < body[r]
ThenRead == "read"

\* One write of the loop: it blocks while the pipe is full and somebody could
\* still read it, and ends the loop when nobody can (SIGPIPE is ignored).
Write(r) ==
    /\ pc[r] = "write"
    /\ More(r)
    /\ IF HasReader(output(r))
         THEN Fill(output(r)) /\ total' = [total EXCEPT ![r] = @ + 1] /\ UNCHANGED pc
         ELSE Goto(r, ThenRead) /\ UNCHANGED <<total, buffered>>
    /\ UNCHANGED <<response, code, child, prog, body, fds>>

WriteEnds(r) ==
    /\ pc[r] = "write"
    /\ total[r] = body[r]
    /\ Goto(r, ThenRead)
    /\ UNCHANGED <<total, response, code, child, prog, body, fds, buffered>>

Read(r) ==
    /\ pc[r] = "read"
    /\ Drain(input(r))
    /\ response' = [response EXCEPT ![r] = @ + 1]
    /\ UNCHANGED <<pc, total, code, child, prog, body, fds>>

\* read returns 0 only when no process at all has the write end open.
ReadEof(r) ==
    /\ pc[r] = "read"
    /\ buffered[input(r)] = 0
    /\ ~HasWriter(input(r))
    /\ Goto(r, "waitpid")
    /\ UNCHANGED <<total, response, code, child, prog, body, fds, buffered>>

\* Mutant: WEXITSTATUS without WIFEXITED, which is 0 after a signal.
StatusExited(ends) == IF ends = "exit_1" THEN 400 ELSE 200

Status(ends) == CASE ends = "exit_0" -> 200 [] ends = "exit_1" -> 400 [] OTHER -> 500

WaitPid(r) ==
    /\ pc[r] = "waitpid"
    /\ cpc[r] = "zombie"
    /\ cpc' = [cpc EXCEPT ![r] = "reaped"]
    /\ code' = [code EXCEPT ![r] = Status(Program[prog[r]].ends)]
    /\ Goto(r, "close_input_0")
    /\ UNCHANGED <<total, response, consumed, phantom, printed, prog, body, fds, buffered>>

(***************************************************************************)
(* The child: it closes its own two far ends, and the ends it inherited     *)
(* from other requests only by exiting.                                     *)
(***************************************************************************)
Die(r) == /\ cpc' = [cpc EXCEPT ![r] = "zombie"]
          /\ fds' = [fds EXCEPT ![r] = {}]

Exec(r) ==
    /\ cpc[r] = "exec"
    /\ IF prog[r] = "not_executable"
         THEN Die(r)
         ELSE /\ fds' = [fds EXCEPT ![r] = @ \ {ReadEnd(input(r)), WriteEnd(output(r))}]
              /\ cpc' = [cpc EXCEPT ![r] = IF Program[prog[r]].reads THEN "stdin" ELSE "stdout"]
    /\ UNCHANGED <<thread, consumed, phantom, printed, prog, body, buffered>>

\* GetQueryString counts CONTENT_LENGTH down, whatever read returned.
GetQueryString(r) ==
    /\ cpc[r] = "stdin"
    /\ consumed[r] + phantom[r] < body[r]
    /\ \/ /\ Drain(output(r))
          /\ consumed' = [consumed EXCEPT ![r] = @ + 1]
          /\ UNCHANGED phantom
       \/ /\ buffered[output(r)] = 0
          /\ ~HasWriter(output(r))
          /\ phantom' = [phantom EXCEPT ![r] = @ + 1]
          /\ UNCHANGED <<consumed, buffered>>
    /\ UNCHANGED <<thread, cpc, printed, prog, body, fds>>

GotQueryString(r) ==
    /\ cpc[r] = "stdin"
    /\ consumed[r] + phantom[r] = body[r]
    /\ cpc' = [cpc EXCEPT ![r] = "stdout"]
    /\ UNCHANGED <<thread, consumed, phantom, printed, prog, body, fds, buffered>>

PrintBlock(r) ==
    /\ cpc[r] = "stdout"
    /\ printed[r] < Program[prog[r]].out
    /\ Fill(input(r))
    /\ printed' = [printed EXCEPT ![r] = @ + 1]
    /\ UNCHANGED <<thread, cpc, consumed, phantom, prog, body, fds>>

Exit(r) ==
    /\ cpc[r] = "stdout"
    /\ printed[r] = Program[prog[r]].out
    /\ Die(r)
    /\ UNCHANGED <<thread, consumed, phantom, printed, prog, body, buffered>>

ThreadStep(r) == \/ PipeInput(r) \/ PipeOutput(r) \/ Fork(r) \/ ForkFails(r) \/ Close(r)
                 \/ Write(r) \/ WriteEnds(r) \/ Read(r) \/ ReadEof(r) \/ WaitPid(r)
ChildStep(r) == \/ Exec(r) \/ GetQueryString(r) \/ GotQueryString(r)
                \/ PrintBlock(r) \/ Exit(r)

Next == \E r \in Requests : ThreadStep(r) \/ ChildStep(r)

SafeSpec == Init /\ [][Next]_vars

\* The kernel runs every thread and every process that is not blocked.
Spec == /\ SafeSpec
        /\ \A r \in Requests : WF_vars(ThreadStep(r)) /\ WF_vars(ChildStep(r))

(***************************************************************************)
(* Properties.                                                              *)
(***************************************************************************)
ThreadLabels == {"pipe_input", "pipe_output", "fork", "write", "read", "waitpid", "done"}
                  \cup {"close_input_1", "close_output_0", "close_input_0", "close_output_1"}
Pipes == Requests \X {"input", "output"}
Forked(r) == cpc[r] # "none"

\* The type of the state; no pipe is filled beyond its capacity and the server
\* never has more descriptors than its limit.
ValuesOK ==
    /\ pc \in [Requests -> ThreadLabels]
    /\ cpc \in [Requests -> {"none", "exec", "stdin", "stdout", "zombie", "reaped"}]
    /\ prog \in [Requests -> Programs]
    /\ body \in [Requests -> 0..MaxBody]
    /\ total \in [Requests -> 0..MaxBody]
    /\ response \in [Requests -> Nat]
    /\ code \in [Requests -> {0, 200, 400, 404, 500}]
    /\ fds \in [Requests \cup {Server} -> SUBSET (Pipes \X {0, 1})]
    /\ buffered \in [Pipes -> 0..Cap]
    /\ consumed \in [Requests -> 0..MaxBody]
    /\ phantom \in [Requests -> 0..MaxBody]
    /\ printed \in [Requests -> Nat]
TypeOK == ValuesOK /\ Cardinality(fds[Server]) <= MaxFds

\* What ProcessCgi returns tells how the program ended, and a 200 comes with all
\* the program printed, whatever other children kept open meanwhile.
CodeTellsOutcome == \A r \in Requests :
    pc[r] = "done" /\ Forked(r) =>
      /\ code[r] = 200 <=> Program[prog[r]].ends = "exit_0"
      /\ code[r] = 200 => response[r] = Program[prog[r]].out

\* GetQueryString never takes the end of its stdin for body: the parent keeps
\* the write end until the program has ended.
NoPhantomBody == \A r \in Requests : phantom[r] = 0

\* Descriptors: the server has open only the ends of requests in flight, and
\* those that a failed pipe or fork left behind; a child is never left a zombie
\* by a request that returned.
FdsAccounted ==
    /\ \A end \in fds[Server] :
         LET r == end[1][1] IN pc[r] # "done" \/ ~Forked(r)
    /\ \A r \in Requests : pc[r] = "done" => cpc[r] \in {"none", "reaped"} /\ fds[r] = {}

\* A program that prints more than a pipe holds without reading a body larger
\* than a pipe holds faces a thread that writes before it reads.
Greedy(r) == /\ ~Program[prog[r]].reads
             /\ Program[prog[r]].out > Cap
             /\ body[r] > Cap

\* The safety half of AllFinish. The threads and the programs come to rest where a
\* full pipe that has a reader, an empty one that has a writer or a program that
\* still runs blocks them; no circle of them does, whatever ends the siblings
\* inherited, unless a request is of that kind: all of them have returned.
ThreadRests(r) == \/ pc[r] = "done"
                  \/ pc[r] = "write" /\ More(r) /\ HasReader(output(r)) /\ buffered[output(r)] = Cap
                  \/ pc[r] = "read" /\ buffered[input(r)] = 0 /\ HasWriter(input(r))
                  \/ pc[r] = "waitpid" /\ cpc[r] # "zombie"
ChildRests(r) == \/ cpc[r] \in {"none", "zombie", "reaped"}
                 \/ /\ cpc[r] = "stdin" /\ consumed[r] + phantom[r] < body[r]
                    /\ buffered[output(r)] = 0 /\ HasWriter(output(r))
                 \/ /\ cpc[r] = "stdout" /\ printed[r] < Program[prog[r]].out
                    /\ buffered[input(r)] = Cap
RestIsDone == (\A r \in Requests : ~Greedy(r) /\ ThreadRests(r) /\ ChildRests(r)) =>
                \A r \in Requests : pc[r] = "done"

\* Liveness: if no request is of that kind every request gets its status, though
\* siblings hold each other's pipe ends open and a dead reader goes unnoticed
\* until the last of them has exited.
AllFinish == (\A r \in Requests : ~Greedy(r)) => \A r \in Requests : <>(pc[r] = "done")
==============================================================================

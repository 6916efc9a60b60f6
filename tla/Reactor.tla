-------------------------------- MODULE Reactor --------------------------------
(***************************************************************************)
(* The reactor of lesson37 (TcpServer.hpp, Epoll.hpp, Protocol.hpp,         *)
(* main.cc): one thread, an edge-triggered epoll, non-blocking sockets, and *)
(* per connection an input buffer cut into messages and an output buffer    *)
(* sent as the socket accepts it. The clients act between any two system    *)
(* calls of the server.                                                     *)
(*                                                                          *)
(* The kernel is modelled as the code uses it: a connection is put on the   *)
(* ready list when data, a FIN or a reset arrives, when space appears after *)
(* a send or a poll that found none, and when epoll_ctl finds it ready; epoll_wait    *)
(* takes it off (EPOLLET). A request is Chunk pieces of the stream, the     *)
(* last of which holds the separator; an answer is one piece.               *)
(***************************************************************************)
EXTENDS Naturals, Sequences, FiniteSets

CONSTANTS Clients,
          Script,      \* Script[c]: the requests c sends: "good", or "bad" (does not parse)
          Chunk,       \* pieces per request
          Zeros,       \* Zeros[c]: the pieces of what c sends that begin with a zero byte
          TxCap,       \* answers a socket's send buffer holds
          RecvMax,     \* pieces one recv returns at most
          MaxConns,    \* bound of the descriptors the process has left for connections
          MaxEvents,   \* gnum, the size of _revs
          None

ASSUME ScriptAssumption == Script \in [Clients -> Seq({"good", "bad"})]
ASSUME BoundsAssumption == /\ {Chunk, TxCap, RecvMax, MaxConns, MaxEvents} \subseteq Nat \ {0}
                           /\ None \notin Clients

\* Only text can be handled, no "binary stream" (TcpServer.hpp:47): nobody sends a
\* zero byte. What the model says, it says of such clients.
ASSUME TextAssumption == Zeros = [c \in Clients |-> {}]

Fds == 1..MaxConns
Listener == 0      \* _listensock

VARIABLES limit,        \* descriptors left for connections (RLIMIT_NOFILE)
          link,         \* link[c]: "new", "backlog", "accepted", "closed"
          written,      \* written[c]: pieces c has sent
          rx, tx,       \* rx[c], tx[c]: the kernel's receive and send buffers
          fin, rst,     \* c has shut down its side; has reset the connection
          received,     \* received[c]: the answers c has read
          _connections, \* _connections[fd]: the client of that Connection, or None
          inbuffer,     \* inbuffer[c]: pieces not yet cut into messages
          handled,      \* handled[c]: messages passed to NetCal so far
          outbuffer,    \* outbuffer[c]: answers not yet sent
          interest,     \* interest[c]: the events epoll watches
          nospace,      \* nospace[c]: a send or a poll found the send buffer full
          ready,        \* the ready list of the epoll
          pc,           \* "wait", "dispatch", "accept", "recv", "handle", "send", "aborted"
          batch,        \* what is left of _revs
          message,      \* the messages of Recver not yet passed to NetCal
          full          \* history: an accept has failed for want of a descriptor

client == <<written, received>>
kernel == <<limit, link, rx, tx, fin, rst, nospace, ready>>
conn == <<_connections, inbuffer, handled, outbuffer, interest>>
loop == <<pc, batch, message, full>>
vars == <<client, kernel, conn, loop>>

Init == /\ limit \in 1..MaxConns
        /\ link = [c \in Clients |-> "new"]
        /\ written = [c \in Clients |-> 0]
        /\ rx = [c \in Clients |-> 0] /\ tx = [c \in Clients |-> <<>>]
        /\ fin = [c \in Clients |-> FALSE] /\ rst = [c \in Clients |-> FALSE]
        /\ received = [c \in Clients |-> <<>>]
        /\ _connections = [fd \in Fds |-> None]
        /\ inbuffer = [c \in Clients |-> 0] /\ handled = [c \in Clients |-> 0]
        /\ outbuffer = [c \in Clients |-> <<>>]
        /\ interest = [c \in Clients |-> {}] /\ nospace = [c \in Clients |-> FALSE]
        /\ ready = <<>> /\ pc = "wait" /\ batch = <<>> /\ message = 0 /\ full = FALSE

(***************************************************************************)
(* epoll.                                                                   *)
(***************************************************************************)
InSeq(x, s) == \E i \in 1..Len(s) : s[i] = x
Edge(x) == ready' = IF InSeq(x, ready) THEN ready ELSE Append(ready, x)
FdOf(c) == CHOOSE fd \in Fds : _connections[fd] = c
Smaller(a, b) == IF a < b THEN a ELSE b

\* What epoll would report for c: EPOLLERR and EPOLLHUP count as both.
Readable(c) == rx[c] > 0 \/ fin[c] \/ rst[c]
Writable(c, sent) == Len(sent) < TxCap \/ rst[c]
Reported(c, events, sent) == [in  |-> ("IN" \in events /\ Readable(c)) \/ rst[c],
                              out |-> ("OUT" \in events /\ Writable(c, sent)) \/ rst[c]]

\* EPOLL_CTL_ADD and MOD poll the descriptor: it is ready at once if it is ready
\* now. "sent" is what the socket's send buffer holds after this step.
CtrlEpoll(c, fd, events, sent) ==
    /\ interest' = [interest EXCEPT ![c] = events]
    /\ nospace' = [nospace EXCEPT ![c] = @ \/ ~Writable(c, sent)]
    /\ LET now == Reported(c, events, sent)
       IN  IF now.in \/ now.out THEN Edge(fd) ELSE UNCHANGED ready

\* An arrival wakes the epoll if the connection is registered.
Wake(c) == IF link[c] = "accepted" THEN Edge(FdOf(c)) ELSE UNCHANGED ready

(***************************************************************************)
(* The clients and the network.                                             *)
(***************************************************************************)
Connect(c) == /\ link[c] = "new"
              /\ link' = [link EXCEPT ![c] = "backlog"]
              /\ Edge(Listener)
              /\ UNCHANGED <<client, limit, rx, tx, fin, rst, nospace, conn, loop>>

Write(c) == /\ link[c] \in {"backlog", "accepted"}
            /\ ~fin[c] /\ ~rst[c]
            /\ written[c] < Chunk * Len(Script[c])
            /\ written' = [written EXCEPT ![c] = @ + 1]
            /\ rx' = [rx EXCEPT ![c] = @ + 1]
            /\ Wake(c)
            /\ UNCHANGED <<received, limit, link, tx, fin, rst, nospace, conn, loop>>

Shut(c) == /\ link[c] \in {"backlog", "accepted"}
           /\ ~fin[c] /\ ~rst[c]
           /\ fin' = [fin EXCEPT ![c] = TRUE]
           /\ Wake(c)
           /\ UNCHANGED <<client, limit, link, rx, tx, rst, nospace, conn, loop>>

Reset(c) == /\ link[c] \in {"backlog", "accepted"}
            /\ ~rst[c]
            /\ rst' = [rst EXCEPT ![c] = TRUE]
            /\ Wake(c)
            /\ UNCHANGED <<client, limit, link, rx, tx, fin, nospace, conn, loop>>

ReadAnswer(c) == /\ tx[c] # <<>> /\ ~rst[c]
                 /\ received' = [received EXCEPT ![c] = Append(@, Head(tx[c]))]
                 /\ tx' = [tx EXCEPT ![c] = Tail(@)]
                 /\ nospace' = [nospace EXCEPT ![c] = FALSE]
                 /\ IF nospace[c] /\ "OUT" \in interest[c] THEN Wake(c) ELSE UNCHANGED ready
                 /\ UNCHANGED <<written, limit, link, rx, fin, rst, conn, loop>>

(***************************************************************************)
(* LoopOnce.                                                                *)
(***************************************************************************)
Event(fd) == IF fd = Listener
               THEN [fd |-> fd, of |-> None,
                     in |-> \E c \in Clients : link[c] = "backlog", out |-> FALSE]
               ELSE LET c == _connections[fd] now == Reported(c, interest[c], tx[c])
                    IN  [fd |-> fd, of |-> c, in |-> now.in, out |-> now.out]

\* The sequence of the numbers in S from the least to the greatest.
Ascending(S) == {at \in [1..Cardinality(S) -> S] :
                   \A i, j \in 1..Cardinality(S) : i < j => at[i] < at[j]}

\* The first MaxEvents of the ready list are looked at; what is ready no more is
\* not reported.
WaitEpoll ==
    /\ pc = "wait" /\ ready # <<>>
    /\ LET n == Smaller(Len(ready), MaxEvents)
           hits == {i \in 1..n : Event(ready[i]).in \/ Event(ready[i]).out}
       IN  /\ \E at \in Ascending(hits) :
                batch' = [i \in 1..Cardinality(hits) |-> Event(ready[at[i]])]
           /\ ready' = SubSeq(ready, n + 1, Len(ready))
           /\ nospace' = [c \in Clients |-> \/ nospace[c]
                                          \/ \E i \in 1..n : /\ ready[i] # Listener
                                                            /\ _connections[ready[i]] = c
                                                            /\ ~Writable(c, tx[c])]
    /\ pc' = "dispatch"
    /\ UNCHANGED <<client, limit, link, rx, tx, fin, rst, conn, message, full>>

Current == Head(batch)

\* Mutant: the EPOLLOUT half does not look whether the EPOLLIN half deleted conn.
IsConnectionAssumed(fd) == fd # Listener

IsConnectionExists(fd) == _connections[fd] # None

\* The EPOLLIN half of an event, then its EPOLLOUT half, then the next event.
Dispatch ==
    /\ pc = "dispatch"
    /\ \/ batch = <<>> /\ pc' = "wait" /\ UNCHANGED batch
       \/ /\ batch # <<>> /\ Current.in
          /\ pc' = IF Current.fd = Listener THEN "accept"
                   ELSE IF IsConnectionExists(Current.fd) THEN "recv" ELSE "dispatch"
          /\ batch' = [batch EXCEPT ![1].in = FALSE]
       \/ /\ batch # <<>> /\ ~Current.in /\ Current.out
          /\ pc' = IF IsConnectionExists(Current.fd) THEN "send" ELSE "dispatch"
          /\ batch' = [batch EXCEPT ![1].out = FALSE]
       \/ /\ batch # <<>> /\ ~Current.in /\ ~Current.out
          /\ batch' = Tail(batch) /\ UNCHANGED pc
    /\ UNCHANGED <<client, kernel, conn, message, full>>

\* The connection whose event is being handled: callbacks go by descriptor.
Here == _connections[Current.fd]

(***************************************************************************)
(* Accepter: until EAGAIN, or until accept fails. AddConnection registers   *)
(* the socket for EPOLLIN and enters it into the map.                       *)
(***************************************************************************)
FreeFds == {fd \in 1..limit : _connections[fd] = None}

AddConnection(c, fd) ==
    /\ _connections' = [_connections EXCEPT ![fd] = c]
    /\ CtrlEpoll(c, fd, {"IN"}, tx[c])
    /\ UNCHANGED <<inbuffer, handled, outbuffer>>

Accept ==
    /\ pc = "accept"
    /\ \E c \in Clients :
         /\ link[c] = "backlog"
         /\ FreeFds # {}
         /\ link' = [link EXCEPT ![c] = "accepted"]
         /\ AddConnection(c, CHOOSE fd \in FreeFds : \A other \in FreeFds : fd <= other)
    /\ UNCHANGED <<client, limit, rx, tx, fin, rst, loop>>

Drained == \A c \in Clients : link[c] # "backlog"

AcceptEnds ==
    /\ pc = "accept"
    /\ \/ Drained /\ UNCHANGED full                                   \* EAGAIN
       \/ ~Drained /\ FreeFds = {} /\ full' = TRUE                      \* EMFILE
    /\ pc' = "dispatch"
    /\ UNCHANGED <<client, kernel, conn, batch, message>>

(***************************************************************************)
(* Recver, EXcepter and, once recv says EAGAIN, SpliteMessage and NetCal.   *)
(***************************************************************************)
Without(s, x) == IF InSeq(x, s)
                   THEN LET at == CHOOSE i \in 1..Len(s) : s[i] = x
                        IN  SubSeq(s, 1, at - 1) \o SubSeq(s, at + 1, Len(s))
                   ELSE s

EXcepter(c) ==
    /\ _connections' = [_connections EXCEPT ![Current.fd] = None]
    /\ link' = [link EXCEPT ![c] = "closed"]
    /\ interest' = [interest EXCEPT ![c] = {}]
    /\ ready' = Without(ready, Current.fd)

\* Mutant: the whole buffer is appended, not the n bytes received.
Stale(n) == RecvMax

\* The n pieces received are appended as a C string, which a zero byte ends.
Appended(n) ==
    LET before == written[Here] - rx[Here]
        zeros == Zeros[Here] \cap (before + 1)..(before + n)
    IN  IF zeros = {} THEN n ELSE (CHOOSE z \in zeros : \A y \in zeros : z <= y) - before - 1

Recv ==
    /\ pc = "recv" /\ rx[Here] > 0
    /\ LET n == Smaller(rx[Here], RecvMax)
       IN  /\ rx' = [rx EXCEPT ![Here] = @ - n]
           /\ inbuffer' = [inbuffer EXCEPT ![Here] = @ + Appended(n)]
    /\ UNCHANGED <<client, limit, link, tx, fin, rst, nospace, ready, _connections, handled,
                   outbuffer, interest, loop>>

\* recv returned 0 or an error: what was received before is not handled any more.
RecvFails ==
    /\ pc = "recv" /\ rx[Here] = 0 /\ (fin[Here] \/ rst[Here])
    /\ EXcepter(Here)
    /\ pc' = "dispatch"
    /\ UNCHANGED <<client, limit, rx, tx, fin, rst, nospace, inbuffer, handled, outbuffer, batch, message, full>>

\* Mutants: recv is called once per event; the incomplete message at the end is
\* thrown away; the answers replace those still unsent; EPOLLOUT is not enabled.
OneRecv == TRUE
Nothing == 0
Replacing(new) == <<new>>
OnlyIn == {"IN"}

Exhausted == ~Readable(Here)
LastMessage == inbuffer[Here] % Chunk
Pending(new) == Append(outbuffer[Here], new)
ReadWrite == {"IN", "OUT"}

RecvEagain ==
    /\ pc = "recv" /\ Exhausted
    /\ inbuffer' = [inbuffer EXCEPT ![Here] = LastMessage]
    /\ message' = inbuffer[Here] \div Chunk
    /\ pc' = "handle"
    /\ UNCHANGED <<client, kernel, _connections, handled, outbuffer, interest, batch, full>>

\* The next message: its answer is appended and EPOLLOUT enabled, or nothing
\* happens if it does not parse.
NetCal ==
    /\ pc = "handle" /\ message > 0
    /\ message' = message - 1
    /\ handled' = [handled EXCEPT ![Here] = @ + 1]
    /\ IF Script[Here][handled[Here] + 1] = "good"
         THEN /\ outbuffer' = [outbuffer EXCEPT ![Here] = Pending(handled[Here] + 1)]
              /\ CtrlEpoll(Here, Current.fd, ReadWrite, tx[Here])
         ELSE UNCHANGED <<outbuffer, interest, ready, nospace>>
    /\ UNCHANGED <<client, limit, link, rx, tx, fin, rst, _connections, inbuffer, pc, batch, full>>

NetCalEnds ==
    /\ pc = "handle" /\ message = 0
    /\ pc' = "dispatch"
    /\ UNCHANGED <<client, kernel, conn, batch, message, full>>

(***************************************************************************)
(* Sender.                                                                  *)
(***************************************************************************)
Send ==
    /\ pc = "send" /\ ~rst[Here] /\ Len(tx[Here]) < TxCap
    /\ LET n == Smaller(TxCap - Len(tx[Here]), Len(outbuffer[Here]))
           rest == SubSeq(outbuffer[Here], n + 1, Len(outbuffer[Here]))
           sent == tx[Here] \o SubSeq(outbuffer[Here], 1, n)
       IN  /\ tx' = [tx EXCEPT ![Here] = sent]
           /\ outbuffer' = [outbuffer EXCEPT ![Here] = rest]
           /\ IF rest = <<>>
                THEN CtrlEpoll(Here, Current.fd, {"IN"}, sent) /\ pc' = "dispatch"
                ELSE UNCHANGED <<interest, ready, nospace, pc>>
    /\ UNCHANGED <<client, limit, link, rx, fin, rst, _connections, inbuffer, handled, batch, message,
                   full>>

SendEagain ==
    /\ pc = "send" /\ ~rst[Here] /\ Len(tx[Here]) = TxCap
    /\ CtrlEpoll(Here, Current.fd, {"IN", "OUT"}, tx[Here])
    /\ pc' = "dispatch"
    /\ UNCHANGED <<client, limit, link, rx, tx, fin, rst, _connections, inbuffer, handled, outbuffer,
                   batch, message, full>>

\* A send error: EXcepter deletes conn, and Sender goes on to use it. Whatever
\* descriptor it reads there, epoll_ctl fails and assert(res) aborts the server.
SendFails ==
    /\ pc = "send" /\ rst[Here]
    /\ EXcepter(Here)
    /\ pc' = "aborted"
    /\ UNCHANGED <<client, limit, rx, tx, fin, rst, nospace, inbuffer, handled, outbuffer, batch, message,
                   full>>

Server == \/ WaitEpoll \/ Dispatch \/ Accept \/ AcceptEnds \/ Recv \/ RecvFails
          \/ RecvEagain \/ NetCal \/ NetCalEnds \/ Send \/ SendEagain \/ SendFails
Peer(c) == Connect(c) \/ Write(c) \/ Shut(c) \/ Reset(c) \/ ReadAnswer(c)
Next == Server \/ \E c \in Clients : Peer(c)

SafeSpec == Init /\ [][Next]_vars

\* The server runs; a client that is there reads the answers sent to it. Nothing
\* obliges a client to connect, to write on, to shut or to reset.
Spec == /\ SafeSpec
        /\ WF_vars(Server)
        /\ \A c \in Clients : WF_vars(ReadAnswer(c))

(***************************************************************************)
(* Properties.                                                              *)
(***************************************************************************)
Requests(c) == 1..Len(Script[c])
Live(c) == link[c] = "accepted"

\* The type of the state.
TypeOK ==
    /\ limit \in 1..MaxConns
    /\ link \in [Clients -> {"new", "backlog", "accepted", "closed"}]
    /\ \A c \in Clients : /\ written[c] \in 0..(Chunk * Len(Script[c]))
                          /\ rx[c] \in 0..written[c]
                          /\ tx[c] \in Seq(Requests(c)) /\ Len(tx[c]) <= TxCap
                          /\ received[c] \in Seq(Requests(c))
                          /\ inbuffer[c] \in 0..written[c]
                          /\ handled[c] \in 0..Len(Script[c])
                          /\ outbuffer[c] \in Seq(Requests(c))
    /\ {fin, rst, nospace} \subseteq [Clients -> BOOLEAN]
    /\ _connections \in [Fds -> Clients \cup {None}]
    /\ interest \in [Clients -> SUBSET {"IN", "OUT"}]
    /\ ready \in Seq(Fds \cup {Listener})
    /\ pc \in {"wait", "dispatch", "accept", "recv", "handle", "send", "aborted"}
    /\ message \in Nat
    /\ full \in BOOLEAN

\* Every client gets the answers to its own well-formed requests, in the order
\* of the requests and each once: what it read, what is in the socket and what
\* waits in the output buffer are together the answers of the requests handled.
Answers(c) == received[c] \o tx[c] \o outbuffer[c]
AnswersInOrder == \A c \in Clients :
    /\ \A i, j \in 1..Len(Answers(c)) : i < j => Answers(c)[i] < Answers(c)[j]
    /\ \A i \in Requests(c) :
         InSeq(i, Answers(c)) <=> i <= handled[c] /\ Script[c][i] = "good"

\* Of a text no byte is lost between the socket and the messages cut from it: none is
\* counted twice, left behind by a recv or thrown away with the end of an incomplete
\* message. (With a zero byte, which TextAssumption excludes, this would be false.)
Cut(c) == IF pc = "handle" /\ Here = c THEN message ELSE 0
NothingMisread == \A c \in Clients :
    written[c] = rx[c] + inbuffer[c] + Chunk * (handled[c] + Cut(c))

\* The edge-triggered contract: when the server is about to sleep, a connection
\* the epoll will not report has nothing to be read, and nothing to be sent that
\* the socket would take; and a pending connection will be reported, unless an
\* accept has failed for want of a descriptor: then it waits for the next client.
NoLostEdge == pc = "wait" =>
    /\ \A c \in Clients : Live(c) /\ ~InSeq(FdOf(c), ready) =>
         /\ ~Readable(c) /\ inbuffer[c] < Chunk
         /\ outbuffer[c] # <<>> => "OUT" \in interest[c] /\ nospace[c] /\ Len(tx[c]) = TxCap
    /\ (\E c \in Clients : link[c] = "backlog") => InSeq(Listener, ready) \/ full

\* An event reaches the connection it was reported for, though descriptors are
\* reused within one batch.
EventForOwner == pc \in {"recv", "handle", "send"} => Here = Current.of

\* Liveness: a client that stays gets an answer to every well-formed request it
\* has sent completely, unless the server aborted or no descriptor was left.
Served == \A c \in Clients : \A i \in Requests(c) :
    (Script[c][i] = "good" /\ written[c] >= Chunk * i) ~>
      \/ InSeq(i, received[c])
      \/ fin[c] \/ rst[c]
      \/ pc = "aborted" \/ full

\* The safety half of Served: where the server sleeps with nothing to be reported and
\* no client has an answer to read, every well-formed request is answered.
Resting == /\ pc = "aborted" \/ (pc = "wait" /\ ready = <<>>)
           /\ \A c \in Clients : tx[c] = <<>> \/ rst[c]
RestIsDone == Resting /\ pc # "aborted" /\ ~full =>
    \A c \in Clients : \A i \in Requests(c) :
      Script[c][i] = "good" /\ written[c] >= Chunk * i =>
        InSeq(i, received[c]) \/ fin[c] \/ rst[c]

\* Refinement: to a client the reactor is a calculator. A request is asked when its
\* last piece is sent.
Calc == INSTANCE Calculator WITH
          WellFormed <- [c \in Clients |-> {i \in Requests(c) : Script[c][i] = "good"}],
          asked <- [c \in Clients |-> written[c] \div Chunk],
          answered <- received
CalcSpec == Calc!SafeSpec

\* The assertion in EnableReadWrite (TcpServer.hpp:142).
AssertHolds == pc # "aborted"
==============================================================================

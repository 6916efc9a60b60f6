-------------------------------- MODULE NetCal --------------------------------
(***************************************************************************)
(* The network calculator of lesson31: the server that gives each           *)
(* connection a thread (TcpServer.hpp, CalServer.cc), the client            *)
(* (CalClient.cc) and the protocol both use (Protocol.hpp).                 *)
(*                                                                          *)
(* A message is three pieces of the stream: the length with its separator,  *)
(* the payload and the closing separator. TCP keeps their order and nothing *)
(* else: a recv returns any number of the pieces that are there.            *)
(*                                                                          *)
(* CalClient waits for the answer before it sends again: its Window is 1. A *)
(* larger Window stands for another client of the protocol, one that does   *)
(* not wait.                                                                *)
(***************************************************************************)
EXTENDS Naturals, Sequences, FiniteSets

CONSTANTS Clients,
          Window,      \* Window[c]: the requests c sends before it reads an answer
          Requests,    \* the requests a client sends at most
          MaxFds,      \* descriptors the server has left for connections
          None

ASSUME WindowAssumption == Window \in [Clients -> Nat \ {0}]
ASSUME BoundsAssumption == {Requests, MaxFds} \subseteq Nat \ {0} /\ None \notin Clients

Fds == 1..MaxFds

VARIABLES link,       \* link[c]: "new", "backlog", "served", "orphan", "closed"
          ended,      \* c has closed its side
          sent,       \* sent[c]: the requests c has sent
          shown,      \* shown[c]: what c has printed
          buffer,     \* buffer[c]: what the client has received, not decoded
          toServer,   \* toServer[c]: the stream from c
          toClient,   \* toClient[c]: the stream to c
          file,       \* file[fd]: the client of the server's socket fd, or None
          tpc,        \* tpc[t]: "none", "recv", "decode", "close", "ended"
          sock_,      \* sock_[t]: the descriptor in the ThreadData of t
          inbuffer    \* inbuffer[t]: what the thread has received, not decoded

\* A thread goes by the client whose accept created it.
client == <<ended, sent, shown, buffer>>
thread == <<tpc, sock_, inbuffer>>
vars == <<link, client, toServer, toClient, file, thread>>

Init == /\ link = [c \in Clients |-> "new"]
        /\ ended = [c \in Clients |-> FALSE]
        /\ sent = [c \in Clients |-> 0]
        /\ shown = [c \in Clients |-> <<>>]
        /\ buffer = [c \in Clients |-> <<>>]
        /\ toServer = [c \in Clients |-> <<>>]
        /\ toClient = [c \in Clients |-> <<>>]
        /\ file = [fd \in Fds |-> None]
        /\ tpc = [c \in Clients |-> "none"]
        /\ sock_ = [c \in Clients |-> 0]
        /\ inbuffer = [c \in Clients |-> <<>>]

(***************************************************************************)
(* Protocol.hpp. The payload of request number i, and of its answer, is i.  *)
(***************************************************************************)
Encode(i) == <<[part |-> "length", of |-> i], [part |-> "payload", of |-> i],
               [part |-> "end", of |-> i]>>
Send(stream, c, i) == stream' = [stream EXCEPT ![c] = @ \o Encode(i)]

\* Mutant: "*out = buffer", which loses what had come before.
Overwritten(old, new) == new

\* Recv appends what one recv returned to the string it is given.
Appended(old, new) == old \o new

\* Mutants of Decode: a message counts as complete without its separator; what
\* was decoded stays in the buffer.
CompleteEarly(s) == Len(s) >= 2
NotErased(s) == s

\* Decode: the payload of the first message if all of it is there; then the
\* message is erased from the buffer.
Complete(s) == Len(s) >= 3
Erased(s) == SubSeq(s, 4, Len(s))
Package(s) == s[2]

(***************************************************************************)
(* CalClient.                                                               *)
(***************************************************************************)
Connect(c) == /\ link[c] = "new"
              /\ link' = [link EXCEPT ![c] = "backlog"]
              /\ UNCHANGED <<client, toServer, toClient, file, thread>>

Connected(c) == link[c] # "new" /\ ~ended[c]

SendRequest(c) == /\ Connected(c)
                  /\ sent[c] < Requests /\ sent[c] - Len(shown[c]) < Window[c]
                  /\ sent' = [sent EXCEPT ![c] = @ + 1]
                  /\ Send(toServer, c, sent[c] + 1)
                  /\ UNCHANGED <<link, ended, shown, buffer, toClient, file, thread>>

\* One turn of the inner loop: Recv, then one Decode, and the answer is printed.
RecvAnswer(c) ==
    /\ Connected(c) /\ Len(shown[c]) < sent[c]
    /\ \E n \in 1..Len(toClient[c]) :
         LET got == Appended(buffer[c], SubSeq(toClient[c], 1, n))
         IN  /\ toClient' = [toClient EXCEPT ![c] = SubSeq(@, n + 1, Len(@))]
             /\ IF Complete(got)
                  THEN /\ shown' = [shown EXCEPT ![c] = Append(@, Package(got))]
                       /\ buffer' = [buffer EXCEPT ![c] = Erased(got)]
                  ELSE buffer' = [buffer EXCEPT ![c] = got] /\ UNCHANGED shown
    /\ UNCHANGED <<link, ended, sent, toServer, file, thread>>

\* The user ends the client, or its machine does.
Quit(c) == /\ Connected(c)
           /\ ended' = [ended EXCEPT ![c] = TRUE]
           /\ UNCHANGED <<link, sent, shown, buffer, toServer, toClient, file, thread>>

(***************************************************************************)
(* TcpServer: accept, and a detached thread for the connection. The result  *)
(* of pthread_create is not looked at: without a thread the connection      *)
(* stays open and nobody serves it.                                         *)
(***************************************************************************)
FreeFds == {fd \in Fds : file[fd] = None}
Lowest(S) == CHOOSE n \in S : \A m \in S : n <= m

Accept(c) == /\ link[c] = "backlog" /\ FreeFds # {}
             /\ file' = [file EXCEPT ![Lowest(FreeFds)] = c]
             /\ \/ /\ tpc' = [tpc EXCEPT ![c] = "recv"]
                   /\ sock_' = [sock_ EXCEPT ![c] = Lowest(FreeFds)]
                   /\ link' = [link EXCEPT ![c] = "served"]
                \/ link' = [link EXCEPT ![c] = "orphan"] /\ UNCHANGED <<tpc, sock_>>
             /\ UNCHANGED <<client, toServer, toClient, inbuffer>>

\* The connection a descriptor means when the thread uses it.
Peer(t) == file[sock_[t]]
Goto(t, label) == tpc' = [tpc EXCEPT ![t] = label]

Recv(t) ==
    /\ tpc[t] = "recv" /\ Peer(t) # None
    /\ \E n \in 1..Len(toServer[Peer(t)]) :
         /\ inbuffer' = [inbuffer EXCEPT ![t] = Appended(@, SubSeq(toServer[Peer(t)], 1, n))]
         /\ toServer' = [toServer EXCEPT ![Peer(t)] = SubSeq(@, n + 1, Len(@))]
    /\ Goto(t, "decode")
    /\ UNCHANGED <<link, client, toClient, file, sock_>>

\* recv says 0 or fails; a client that left with answers unread resets the
\* connection, and what it had sent may be lost.
RecvEnds(t) ==
    /\ tpc[t] = "recv"
    /\ Peer(t) # None => ended[Peer(t)]
    /\ Goto(t, "close")
    /\ UNCHANGED <<link, client, toServer, toClient, file, sock_, inbuffer>>

\* One message is decoded for each recv, whatever else is in the buffer.
Calculate(t) ==
    /\ tpc[t] = "decode"
    /\ IF Complete(inbuffer[t])
         THEN /\ IF Peer(t) = None THEN UNCHANGED toClient
                   ELSE toClient' = [toClient EXCEPT ![Peer(t)] =
                                       @ \o Encode(Package(inbuffer[t]).of)]
              /\ inbuffer' = [inbuffer EXCEPT ![t] = Erased(@)]
         ELSE UNCHANGED <<toClient, inbuffer>>
    /\ Goto(t, "recv")
    /\ UNCHANGED <<link, client, toServer, file, sock_>>

Close(t) == /\ tpc[t] = "close"
            /\ file' = [file EXCEPT ![sock_[t]] = None]
            /\ link' = [c \in Clients |-> IF c = Peer(t) THEN "closed" ELSE link[c]]
            /\ Goto(t, "ended")
            /\ UNCHANGED <<client, toServer, toClient, sock_, inbuffer>>

Thread(t) == Recv(t) \/ RecvEnds(t) \/ Calculate(t) \/ Close(t)
Next == \E c \in Clients : \/ Connect(c) \/ SendRequest(c) \/ RecvAnswer(c) \/ Quit(c)
                           \/ Accept(c) \/ Thread(c)

\* The server's threads run, and a client reads what it waits for. Nobody is
\* obliged to connect, to send another request or to quit.
SafeSpec == Init /\ [][Next]_vars
Spec == /\ SafeSpec
        /\ \A c \in Clients : WF_vars(Accept(c)) /\ WF_vars(Thread(c)) /\ WF_vars(RecvAnswer(c))

(***************************************************************************)
(* Properties.                                                              *)
(***************************************************************************)
Pieces == [part : {"length", "payload", "end"}, of : 1..Requests]

\* The type of the state. A thread's buffer never holds more than the requests
\* its client may have under way.
TypeOK ==
    /\ link \in [Clients -> {"new", "backlog", "served", "orphan", "closed"}]
    /\ ended \in [Clients -> BOOLEAN]
    /\ sent \in [Clients -> 0..Requests]
    /\ \A c \in Clients : /\ {shown[c], buffer[c], toServer[c], toClient[c]} \subseteq Seq(Pieces)
                          /\ inbuffer[c] \in Seq(Pieces)
                          /\ Len(inbuffer[c]) <= 3 * Window[c]
    /\ file \in [Fds -> Clients \cup {None}]
    /\ tpc \in [Clients -> {"none", "recv", "decode", "close", "ended"}]
    /\ sock_ \in [Clients -> Fds \cup {0}]

\* What a client prints are the answers to its own requests, in their order,
\* none twice and none skipped, however the streams are cut and the descriptors
\* of closed connections reused by other threads.
AnswersMatch == \A c \in Clients :
    shown[c] = [i \in 1..Len(shown[c]) |-> [part |-> "payload", of |-> i]]

\* Liveness: CalClient gets the answer to every request it sends, unless it quits
\* first, no descriptor is free, or there was no thread for it. A client that does
\* not wait gets no such promise: what arrives together is not decoded together.
Answered == \A c \in Clients : \A i \in 1..Requests :
    (Window[c] = 1 /\ sent[c] >= i) ~>
      \/ Len(shown[c]) >= i \/ ended[c]
      \/ link[c] = "orphan" \/ (link[c] = "backlog" /\ FreeFds = {})

\* The safety half of Answered, for the same clients. A connection comes to rest
\* where accept has no descriptor for it, its thread no piece to receive and the
\* client no answer to read.
Resting(c) == /\ link[c] = "backlog" => FreeFds = {}
              /\ \/ tpc[c] \in {"none", "ended"}
                 \/ /\ tpc[c] = "recv" /\ Peer(c) # None
                    /\ toServer[Peer(c)] = <<>> /\ ~ended[Peer(c)]
              /\ Connected(c) /\ Len(shown[c]) < sent[c] => toClient[c] = <<>>
RestIsDone == \A c \in Clients :
    Window[c] = 1 /\ Resting(c) =>
      \/ Len(shown[c]) = sent[c] \/ ended[c]
      \/ link[c] = "orphan" \/ (link[c] = "backlog" /\ FreeFds = {})

\* Refinement: to a client the server and its thread are a calculator, whatever the
\* client's window.
Calc == INSTANCE Calculator WITH
          WellFormed <- [c \in Clients |-> 1..Requests],
          asked <- sent,
          answered <- [c \in Clients |-> [k \in 1..Len(shown[c]) |-> shown[c][k].of]]
CalcSpec == Calc!SafeSpec
==============================================================================

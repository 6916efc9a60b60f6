----------------------------- MODULE LevelServer -----------------------------
(***************************************************************************)
(* The three single-threaded servers that wait for readable descriptors     *)
(* with a level-triggered call and then accept and recv on blocking         *)
(* sockets: select and poll (lesson35) and epoll (lesson36). "kind" says    *)
(* which of them runs.                                                      *)
(*                                                                          *)
(* select and poll keep an array of descriptors, slot 0 of which is the     *)
(* listening socket; one call of accept is made per event. A connection's   *)
(* end is a FIN or a reset: recv says 0 or fails, and the code treats both  *)
(* alike. Standard descriptors and epfd are left out: Listener is 0 and the *)
(* connections get 1, 2, ...                                                *)
(***************************************************************************)
EXTENDS Naturals, Integers, Sequences, FiniteSets

CONSTANTS Clients,
          NUM,        \* the slots of select's array, and the bits of an fd_set
          nfds,       \* the slots of poll's array
          Limits,     \* the limits on descriptors a process may have
          MaxEvents,  \* gnum, the size of _revs
          MaxWrites,  \* pieces a client sends at most
          None

ASSUME BoundsAssumption == /\ {NUM, nfds, MaxEvents, MaxWrites} \cup Limits \subseteq Nat \ {0}
                           /\ None \notin Clients

Listener == 0      \* _listensock
FD_NONE == -1
Fds == UNION {1..n : n \in Limits}

VARIABLES kind,      \* "select", "poll" or "epoll"
          limit,     \* the highest descriptor the process may open
          link,      \* link[c]: "new", "backlog", "open", "closed", "leaked"
          written,   \* written[c]: pieces c has sent
          rx,        \* rx[c]: pieces in the socket's receive buffer
          ended,     \* c has shut down or reset the connection
          file,      \* file[fd]: the client of the open socket fd, or None
          _fds,      \* _fd_array of select, the fd members of poll's _fds
          reported,  \* select: the descriptors in rfds; poll: the slots with POLLIN
          interest,  \* the descriptors registered with epfd
          rdlist,    \* epoll's ready list
          _revs,     \* what epoll_wait returned
          pc,        \* "wait", "handle", "accept", "recv"
          pos,       \* the index of the loop over the slots or events
          failed     \* history: a select or poll call has failed

start == <<kind, limit>>
Slots == 0..((IF kind = "poll" THEN nfds ELSE NUM) - 1)
clients == <<written, ended>>
array == <<_fds, reported>>
epoll == <<interest, rdlist, _revs>>
loop == <<pc, pos>>
vars == <<start, clients, link, rx, file, array, epoll, loop, failed>>

\* Only descriptors below FD_SETSIZE, which is NUM, fit into an fd_set: for select
\* the limit keeps to that, as the usual limit of a process does.
Init == /\ kind \in {"select", "poll", "epoll"}
        /\ limit \in Limits
        /\ kind = "select" => limit < NUM
        /\ link = [c \in Clients |-> "new"]
        /\ written = [c \in Clients |-> 0] /\ rx = [c \in Clients |-> 0]
        /\ ended = [c \in Clients |-> FALSE]
        /\ file = [fd \in Fds |-> None]
        /\ _fds = [i \in Slots |-> IF i = 0 THEN Listener ELSE FD_NONE]
        /\ reported = {}
        /\ interest = {Listener} /\ rdlist = <<>> /\ _revs = <<>>
        /\ pc = "wait" /\ pos = 0 /\ failed = FALSE

(***************************************************************************)
(* The kernel.                                                              *)
(***************************************************************************)
Backlog == {c \in Clients : link[c] = "backlog"}
FreeFds == {fd \in 1..limit : file[fd] = None}
Lowest(S) == CHOOSE n \in S : \A m \in S : n <= m
Smaller(a, b) == IF a < b THEN a ELSE b
InSeq(x, s) == \E i \in 1..Len(s) : s[i] = x

Readable(c) == rx[c] > 0 \/ ended[c]
ReadyFds == {fd \in Fds : file[fd] # None /\ Readable(file[fd])}
              \cup (IF Backlog # {} THEN {Listener} ELSE {})

\* An arrival enters a registered descriptor into epoll's ready list.
Arrive(fd) == rdlist' = IF fd \in interest /\ ~InSeq(fd, rdlist) THEN Append(rdlist, fd)
                                                                 ELSE rdlist

\* The places of S in the ready list, from the first to the last, and what is there.
Ascending(S) == {at \in [1..Cardinality(S) -> S] :
                   \A i, j \in 1..Cardinality(S) : i < j => at[i] < at[j]}
Places(S) == Ascending({i \in 1..Len(rdlist) : rdlist[i] \in S})
Part(at) == [i \in DOMAIN at |-> rdlist[at[i]]]

FdOf(c) == CHOOSE fd \in Fds : file[fd] = c
ArriveAt(c) == IF link[c] = "open" THEN Arrive(FdOf(c)) ELSE UNCHANGED rdlist

(***************************************************************************)
(* The clients. What one does on a leaked connection nobody will ever see.  *)
(***************************************************************************)
Connect(c) == /\ link[c] = "new"
              /\ link' = [link EXCEPT ![c] = "backlog"]
              /\ Arrive(Listener)
              /\ UNCHANGED <<start, clients, rx, file, array, interest, _revs, loop, failed>>

Write(c) == /\ link[c] \in {"backlog", "open"} /\ ~ended[c]
            /\ written[c] < MaxWrites
            /\ written' = [written EXCEPT ![c] = @ + 1]
            /\ rx' = [rx EXCEPT ![c] = @ + 1]
            /\ ArriveAt(c)
            /\ UNCHANGED <<start, ended, link, file, array, interest, _revs, loop, failed>>

End(c) == /\ link[c] \in {"backlog", "open"} /\ ~ended[c]
          /\ ended' = [ended EXCEPT ![c] = TRUE]
          /\ ArriveAt(c)
          /\ UNCHANGED <<start, written, link, rx, file, array, interest, _revs, loop, failed>>

(***************************************************************************)
(* Waiting. The set of select is built anew for each call; a call that      *)
(* fails leaves it, and poll's revents, as they were, and "case -1" has no  *)
(* break: the events are handled as if the call had succeeded.              *)
(***************************************************************************)
Watched == {_fds[i] : i \in Slots} \ {FD_NONE}
Handle(index) == pc' = "handle" /\ pos' = index

\* Mutant: FD_ZERO dropped.
NotZeroed(fds) == reported \cup fds

Zeroed(fds) == fds

Select == /\ kind = "select" /\ pc = "wait"
          /\ Watched \cap ReadyFds # {}
          /\ reported' = Zeroed(Watched \cap ReadyFds)
          /\ Handle(0)
          /\ UNCHANGED <<start, clients, link, rx, file, _fds, epoll, failed>>

Poll == /\ kind = "poll" /\ pc = "wait"
        /\ Watched \cap ReadyFds # {}
        /\ reported' = {i \in Slots : _fds[i] \in ReadyFds}
        /\ Handle(0)
        /\ UNCHANGED <<start, clients, link, rx, file, _fds, epoll, failed>>

SelectFails == /\ kind = "select" /\ pc = "wait" /\ ~failed
               /\ reported' = Watched
               /\ failed' = TRUE
               /\ Handle(0)
               /\ UNCHANGED <<start, clients, link, rx, file, _fds, epoll>>

PollFails == /\ kind = "poll" /\ pc = "wait" /\ ~failed
             /\ failed' = TRUE
             /\ Handle(0)
             /\ UNCHANGED <<start, clients, link, rx, file, array, epoll>>

\* Mutant: epoll_wait is told of more room than _revs has.
TakenAll(now) == Len(now)

Taken(now) == Smaller(Len(now), MaxEvents)

\* Level-triggered: what was reported goes to the end of the ready list, and is
\* dropped when a later call finds it not ready any more.
WaitEpoll ==
    /\ kind = "epoll" /\ pc = "wait"
    /\ \E at \in Places(ReadyFds) :
         LET now == Part(at)
             n == Taken(now)
         IN  /\ n > 0
             /\ _revs' = SubSeq(now, 1, n)
             /\ rdlist' = SubSeq(now, n + 1, Len(now)) \o SubSeq(now, 1, n)
    /\ Handle(1)
    /\ UNCHANGED <<start, clients, link, rx, file, array, interest, failed>>

(***************************************************************************)
(* The loop over what was reported: the next slot or event, or the next     *)
(* call when there is none left.                                            *)
(***************************************************************************)
HitSelect(i) == _fds[i] # FD_NONE /\ _fds[i] \in reported
HitPoll(i) == _fds[i] # FD_NONE /\ i \in reported
HitEpoll(i) == i \in 1..Len(_revs)

Hits == CASE kind = "select" -> {i \in Slots : HitSelect(i)}
          [] kind = "poll"   -> {i \in Slots : HitPoll(i)}
          [] kind = "epoll"  -> {i \in 1..MaxEvents : HitEpoll(i)}

\* The descriptor the loop is at, and the connection behind it.
At(i) == IF kind = "epoll" THEN _revs[i] ELSE _fds[i]
Here == file[At(pos)]

HandlerEvent ==
    /\ pc = "handle"
    /\ LET todo == {i \in Hits : i >= pos}
       IN  IF todo = {}
             THEN pc' = "wait" /\ pos' = 0
             ELSE /\ pos' = Lowest(todo)
                  /\ pc' = IF At(Lowest(todo)) = Listener THEN "accept" ELSE "recv"
    /\ UNCHANGED <<start, clients, link, rx, file, array, epoll, failed>>

(***************************************************************************)
(* Accepter. accept fails when the limit is reached; the connection then    *)
(* stays in the backlog, and the listening socket ready.                    *)
(***************************************************************************)
AcceptFails == /\ pc = "accept" /\ FreeFds = {}
               /\ Handle(pos + 1)
               /\ UNCHANGED <<start, clients, link, rx, file, array, epoll, failed>>

\* Mutant: with the array full the socket is not closed.
LeftOpen(c, fd) == /\ link' = [link EXCEPT ![c] = "open"]
                   /\ file' = [file EXCEPT ![fd] = c]

CloseFull(c, fd) == link' = [link EXCEPT ![c] = "closed"] /\ UNCHANGED file

Accepter ==
    /\ kind # "epoll" /\ pc = "accept" /\ FreeFds # {}
    /\ \E c \in Backlog :
         LET fd == Lowest(FreeFds)
             free == {i \in Slots \ {0} : _fds[i] = FD_NONE}
         IN  IF free = {}
               THEN CloseFull(c, fd) /\ UNCHANGED _fds
               ELSE /\ _fds' = [_fds EXCEPT ![Lowest(free)] = fd]
                    /\ file' = [file EXCEPT ![fd] = c]
                    /\ link' = [link EXCEPT ![c] = "open"]
    /\ Handle(pos + 1)
    /\ UNCHANGED <<start, clients, rx, reported, epoll, failed>>

\* EPOLL_CTL_ADD polls the socket at once; if it fails the socket is left open.
AddToEpoll(c, fd) ==
    \/ /\ interest' = interest \cup {fd}
       /\ rdlist' = IF Readable(c) THEN Append(rdlist, fd) ELSE rdlist
       /\ link' = [link EXCEPT ![c] = "open"]
    \/ UNCHANGED <<interest, rdlist>> /\ link' = [link EXCEPT ![c] = "leaked"]

AccepterEpoll ==
    /\ kind = "epoll" /\ pc = "accept" /\ FreeFds # {}
    /\ \E c \in Backlog : /\ file' = [file EXCEPT ![Lowest(FreeFds)] = c]
                          /\ AddToEpoll(c, Lowest(FreeFds))
    /\ Handle(pos + 1)
    /\ UNCHANGED <<start, clients, rx, array, _revs, failed>>

(***************************************************************************)
(* Recver: one recv, which blocks if there is nothing; 0 or an error closes *)
(* the socket and takes it out of the array or the epoll.                   *)
(***************************************************************************)
Recv == /\ pc = "recv" /\ rx[Here] > 0
        /\ rx' = [rx EXCEPT ![Here] = 0]
        /\ Handle(pos + 1)
        /\ UNCHANGED <<start, clients, link, file, array, epoll, failed>>

\* Mutant: the error branch forgets to close.
KeepHere == UNCHANGED <<file, link>>

CloseHere == /\ file' = [file EXCEPT ![At(pos)] = None]
             /\ link' = [link EXCEPT ![Here] = "closed"]

RecvEnds == /\ kind # "epoll" /\ pc = "recv" /\ rx[Here] = 0 /\ ended[Here]
            /\ CloseHere
            /\ _fds' = [_fds EXCEPT ![pos] = FD_NONE]
            /\ Handle(pos + 1)
            /\ UNCHANGED <<start, clients, rx, reported, epoll, failed>>

RecvEndsEpoll ==
    /\ kind = "epoll" /\ pc = "recv" /\ rx[Here] = 0 /\ ended[Here]
    /\ CloseHere
    /\ interest' = interest \ {At(pos)}
    /\ \E at \in Places(interest \ {At(pos)}) : rdlist' = Part(at)
    /\ Handle(pos + 1)
    /\ UNCHANGED <<start, clients, rx, array, _revs, failed>>

Server == \/ Select \/ Poll \/ WaitEpoll \/ HandlerEvent \/ AcceptFails
          \/ Accepter \/ AccepterEpoll \/ Recv \/ RecvEnds \/ RecvEndsEpoll
Peer(c) == Connect(c) \/ Write(c) \/ End(c)
Next == Server \/ SelectFails \/ PollFails \/ \E c \in Clients : Peer(c)

\* The server runs; nobody need connect, write or leave, and no call need fail.
SafeSpec == Init /\ [][Next]_vars
Spec == SafeSpec /\ WF_vars(Server)

(***************************************************************************)
(* Properties.                                                              *)
(***************************************************************************)
\* The type of the state.
TypeOK ==
    /\ kind \in {"select", "poll", "epoll"} /\ limit \in Limits
    /\ link \in [Clients -> {"new", "backlog", "open", "closed", "leaked"}]
    /\ written \in [Clients -> 0..MaxWrites]
    /\ \A c \in Clients : rx[c] \in 0..written[c]
    /\ ended \in [Clients -> BOOLEAN]
    /\ file \in [Fds -> Clients \cup {None}]
    /\ _fds \in [Slots -> Fds \cup {Listener, FD_NONE}]
    /\ reported \subseteq IF kind = "poll" THEN Slots ELSE Fds \cup {Listener}
    /\ interest \subseteq Fds \cup {Listener}
    /\ rdlist \in Seq(Fds \cup {Listener}) /\ _revs \in Seq(Fds \cup {Listener})
    /\ Len(_revs) <= MaxEvents
    /\ pc \in {"wait", "handle", "accept", "recv"}
    /\ pos \in 0..(NUM + nfds + MaxEvents) /\ failed \in BOOLEAN

\* The sockets are blocking, so the server must only accept and recv where that
\* returns: what a call reported is still true when its turn in the loop comes,
\* though slots and descriptors are freed and reused in between. Only a failed
\* select or poll, whose result is used all the same, breaks this.
NeverBlocks == ~failed =>
    /\ pc = "accept" => Backlog # {} \/ FreeFds = {}
    /\ pc = "recv" => Here # None /\ Readable(Here)

\* No connection is forgotten and none is watched twice: every open socket is in
\* exactly one slot (or in the epoll, so that EPOLL_CTL_DEL and its assertion
\* succeed), every slot holds an open socket, and only the socket that epoll_ctl
\* refused is open and watched by nobody.
NoneForgotten ==
    /\ \A fd \in Fds : file[fd] # None =>
         IF kind = "epoll"
           THEN fd \in interest <=> link[file[fd]] = "open"
           ELSE Cardinality({i \in Slots : _fds[i] = fd}) = 1
    /\ \A fd \in (IF kind = "epoll" THEN interest ELSE Watched) \ {Listener} :
         file[fd] # None /\ link[file[fd]] = "open"
    /\ \A c \in Clients :
         link[c] \in {"open", "leaked"} => Cardinality({fd \in Fds : file[fd] = c}) = 1

\* A client whose connection is closed or leaked, that waits for a descriptor to
\* become free, or of whom everything sent was read.
Quiet(c) == \/ link[c] \in {"closed", "leaked"}
            \/ link[c] = "backlog" /\ FreeFds = {}
            \/ link[c] = "open" /\ ~Readable(c)

\* Liveness: a pending connection is accepted or refused unless the descriptors
\* are used up, what a client sent is read, and a connection that ended is closed,
\* however many descriptors are ready and however few fit into _revs.
AllRead == \A c \in Clients : link[c] # "new" ~> Quiet(c) \/ failed

\* The safety half of AllRead. The server comes to rest in its wait when nothing it
\* would be told of is ready, and in an accept or a recv that blocks.
Unreported == IF kind = "epoll" THEN \A i \in 1..Len(rdlist) : rdlist[i] \notin ReadyFds
                                ELSE Watched \cap ReadyFds = {}
Resting == \/ pc = "wait" /\ Unreported
           \/ pc = "accept" /\ Backlog = {} /\ FreeFds # {}
           \/ pc = "recv" /\ ~Readable(Here)
RestIsDone == Resting /\ ~failed => \A c \in Clients :
    link[c] # "backlog" /\ (link[c] = "open" => ~Readable(c))
==============================================================================

--------------------------- MODULE LevelServerProofs ---------------------------
(***************************************************************************)
(* Safety of the select, poll and epoll servers, proved for any number of   *)
(* clients, any sizes of the arrays and of the batch epoll_wait returns, and *)
(* any limits on descriptors.                                               *)
(***************************************************************************)
EXTENDS LevelServer, TLAPS, FiniteSetTheorems, FunctionTheorems, SequenceTheorems,
        WellFoundedInduction

(***************************************************************************)
(* The inductive invariant, in parts.                                       *)
(***************************************************************************)
Distinct(s) == \A i, j \in 1..Len(s) : s[i] = s[j] => i = j

\* What has its type by counting alone.
Tally == /\ kind \in {"select", "poll", "epoll"} /\ limit \in Limits
         /\ written \in [Clients -> 0..MaxWrites] /\ rx \in [Clients -> Nat]
         /\ \A c \in Clients : rx[c] <= written[c]
         /\ ended \in [Clients -> BOOLEAN] /\ failed \in BOOLEAN
         /\ kind = "epoll" => ~failed

\* The open sockets and their clients are one to one.
Open(c) == link[c] \in {"open", "leaked"}
Linked == /\ link \in [Clients -> {"new", "backlog", "open", "closed", "leaked"}]
          /\ file \in [Fds -> Clients \cup {None}]
          /\ \A fd \in Fds : file[fd] # None => Open(file[fd])
          /\ \A f, g \in Fds : file[f] = file[g] /\ file[f] # None => f = g
          /\ \A c \in Clients : Open(c) => \E fd \in Fds : file[fd] = c
          /\ kind # "epoll" => \A c \in Clients : link[c] # "leaked"

\* The array of select and poll has every open socket in one slot.
Arrayed == /\ _fds \in [Slots -> Fds \cup {Listener, FD_NONE}]
           /\ kind # "epoll" =>
                /\ \A i \in Slots : _fds[i] = Listener <=> i = 0
                /\ \A i \in Slots : _fds[i] \in Fds => file[_fds[i]] # None
                /\ \A i, j \in Slots : _fds[i] = _fds[j] /\ _fds[i] # FD_NONE => i = j
                /\ \A fd \in Fds : file[fd] # None => \E i \in Slots : _fds[i] = fd

\* The epoll has every open socket but those epoll_ctl refused.
Registered == /\ interest \subseteq Fds \cup {Listener} /\ Listener \in interest
              /\ rdlist \in Seq(interest) /\ Distinct(rdlist)
              /\ \A fd \in interest \ {Listener} :
                    kind = "epoll" /\ file[fd] # None /\ link[file[fd]] = "open"
              /\ kind = "epoll" => \A fd \in Fds :
                    file[fd] # None /\ link[file[fd]] = "open" => fd \in interest

\* The loop: where it is, and what it is at.
Phased == /\ reported \subseteq IF kind = "poll" THEN Slots ELSE Fds \cup {Listener}
          /\ _revs \in Seq(Fds \cup {Listener}) /\ Distinct(_revs) /\ Len(_revs) <= MaxEvents
          /\ pc \in {"wait", "handle", "accept", "recv"}
          /\ pos \in 0..(NUM + nfds + MaxEvents)
          /\ pc \in {"accept", "recv"} => pos \in Hits
          /\ pc = "accept" => At(pos) = Listener
          /\ pc = "recv" => At(pos) \in Fds

\* What was reported and is still to be handled is true still.
Due(i) == IF At(i) = Listener THEN Backlog # {}
                              ELSE file[At(i)] # None /\ Readable(file[At(i)])
Promised == ~failed /\ pc # "wait" => \A i \in Hits : i >= pos => Due(i)

\* Until the listening socket, which is first, has been looked at, nothing that
\* was reported has been closed.
Recent == kind # "epoll" /\ ~failed /\ pc # "wait" /\ pos = 0 =>
            IF kind = "select" THEN \A fd \in reported \cap Fds : file[fd] # None
                               ELSE \A i \in reported : _fds[i] # FD_NONE

Watching == Linked /\ Arrayed /\ Registered
Invariant == Tally /\ Watching /\ Phased /\ Promised /\ Recent

(***************************************************************************)
(* Numbers, sequences without repetition, and the ready list.               *)
(***************************************************************************)
LEMMA Numbers ==
    /\ NUM \in Nat \ {0} /\ nfds \in Nat \ {0} /\ MaxEvents \in Nat \ {0} /\ MaxWrites \in Nat
    /\ Fds \subseteq Nat \ {0} /\ Listener \notin Fds /\ FD_NONE \notin Fds
    /\ Listener # FD_NONE /\ None \notin Clients
    /\ \A n \in Limits : n \in Nat \ {0} /\ 1..n \subseteq Fds
<1>1. /\ NUM \in Nat \ {0} /\ nfds \in Nat \ {0} /\ MaxEvents \in Nat \ {0}
      /\ MaxWrites \in Nat \ {0} /\ Limits \subseteq Nat \ {0} /\ None \notin Clients
  BY BoundsAssumption
<1>2. Fds \subseteq Nat \ {0}
  BY <1>1 DEF Fds
<1>3. \A n \in Limits : 1..n \subseteq Fds
  BY DEF Fds
<1> QED
  BY <1>1, <1>2, <1>3 DEF Listener, FD_NONE

LEMMA LeastNumber ==
    ASSUME NEW S, S \subseteq Nat, S # {}
    PROVE  Lowest(S) \in S /\ \A k \in S : Lowest(S) <= k
<1> DEFINE R == OpToRel(<, Nat)
<1>1. IsWellFoundedOn(R, Nat)
  BY NatLessThanWellFounded, Zenon
<1>2. \A x, y \in Nat : <<x, y>> \in R <=> x < y
  BY DEF OpToRel
<1> HIDE DEF R
<1>3. PICK m \in S : \A k \in S : <<k, m>> \notin R
  BY <1>1, WFMin
<1>4. ASSUME NEW k \in S PROVE m <= k
  <2>1. m \in Nat /\ k \in Nat
    OBVIOUS
  <2>2. ~(k < m)
    BY <1>2, <1>3, <2>1
  <2> QED
    BY <2>1, <2>2
<1>5. \E n \in S : \A k \in S : n <= k
  BY <1>4
<1> QED
  BY <1>5, Zenon DEF Lowest

LEMMA AppendsOne ==
    ASSUME NEW S, NEW s \in Seq(S), Distinct(s), NEW x, ~InSeq(x, s)
    PROVE  Append(s, x) \in Seq(S \cup {x}) /\ Distinct(Append(s, x))
<1> DEFINE t == Append(s, x)
           T == S \cup {x}
<1>1. s \in Seq(T) /\ x \in T
  BY SeqMonotonic
<1>2. /\ t \in Seq(T) /\ Len(t) = Len(s) + 1 /\ Len(s) \in Nat
      /\ t[Len(s) + 1] = x /\ \A i \in 1..Len(s) : t[i] = s[i]
  BY <1>1, AppendProperties, LenProperties
<1> HIDE DEF t, T
<1>3. Distinct(t)
  BY <1>2 DEF Distinct, InSeq
<1> QED
  BY <1>2, <1>3 DEF t, T

LEMMA AscendingIsOnto ==
    ASSUME NEW S, IsFiniteSet(S), S \subseteq Nat, NEW at \in Ascending(S)
    PROVE  /\ Cardinality(S) \in Nat
           /\ at \in [1..Cardinality(S) -> S]
           /\ \A i, j \in 1..Cardinality(S) : at[i] = at[j] => i = j
           /\ \A s \in S : \E i \in 1..Cardinality(S) : at[i] = s
<1> DEFINE m == Cardinality(S)
<1>1. m \in Nat
  BY FS_CardinalityType
<1>2. at \in [1..m -> S] /\ \A i, j \in 1..m : i < j => at[i] < at[j]
  BY DEF Ascending
<1>3. IsFiniteSet(1..m) /\ Cardinality(1..m) = m
  BY <1>1, FS_Interval
<1>4. m = Cardinality(S)
  OBVIOUS
<1> HIDE DEF m
<1>5. \A i, j \in 1..m : at[i] = at[j] => i = j
  <2>1. \A i \in 1..m : at[i] \in Nat
    BY <1>2
  <2> QED
    BY <1>1, <1>2, <2>1
<1>6. at \in Injection(1..m, S)
  BY <1>2, <1>5, Fun_IsInj
<1>7. at \in Surjection(1..m, S)
  BY <1>3, <1>4, <1>6, FS_Injection
<1>8. \A s \in S : \E i \in 1..m : at[i] = s
  BY <1>7 DEF Surjection
<1> QED
  BY <1>1, <1>2, <1>4, <1>5, <1>8

\* What is found at the places of S: the descriptors of S in the list, each once.
LEMMA PartIs ==
    ASSUME NEW S, NEW T, rdlist \in Seq(T), Distinct(rdlist), NEW at \in Places(S)
    PROVE  Part(at) \in Seq(T \cap S) /\ Distinct(Part(at))
<1> DEFINE places == {i \in 1..Len(rdlist) : rdlist[i] \in S}
           m == Cardinality(places)
           p == Part(at)
<1>1. Len(rdlist) \in Nat /\ \A i \in 1..Len(rdlist) : rdlist[i] \in T
  BY LenProperties, ElementOfSeq
<1>2. /\ m \in Nat /\ at \in [1..m -> places]
      /\ \A i, j \in 1..m : at[i] = at[j] => i = j
  <2>1. places \subseteq 1..Len(rdlist) /\ places \subseteq Nat
    BY <1>1
  <2>2. IsFiniteSet(1..Len(rdlist))
    BY <1>1, FS_Interval
  <2>3. at \in Ascending(places)
    BY DEF Places
  <2> HIDE DEF places
  <2>4. IsFiniteSet(places)
    BY <2>1, <2>2, FS_Subset
  <2> QED
    BY <2>1, <2>3, <2>4, AscendingIsOnto
<1> HIDE DEF m
<1>3. \A i \in 1..m : at[i] \in 1..Len(rdlist) /\ rdlist[at[i]] \in T \cap S
  BY <1>1, <1>2
<1> HIDE DEF places
<1>4. p = [i \in 1..m |-> rdlist[at[i]]]
  BY <1>2 DEF Part
<1> HIDE DEF p
<1>5. p \in [1..m -> T \cap S]
  BY <1>3, <1>4
<1>6. p \in Seq(T \cap S)
  BY <1>2, <1>5, SeqDef
<1>7. Len(p) = m
  <2>1. Len(p) \in Nat /\ 1..Len(p) = 1..m
    BY <1>5, <1>6, LenProperties
  <2> QED
    BY <1>2, <2>1
<1>8. Distinct(p)
  <2> SUFFICES ASSUME NEW i \in 1..m, NEW j \in 1..m, p[i] = p[j] PROVE i = j
    BY <1>7 DEF Distinct
  <2>1. rdlist[at[i]] = rdlist[at[j]]
    BY <1>4
  <2>2. at[i] = at[j]
    BY <1>3, <2>1 DEF Distinct
  <2> QED
    BY <1>2, <2>2
<1> QED
  BY <1>6, <1>8 DEF p

\* The beginning of a list, and the list with its beginning moved to the end.
LEMMA Rotates ==
    ASSUME NEW T, NEW s \in Seq(T), Distinct(s), NEW n \in 0..Len(s)
    PROVE  /\ SubSeq(s, 1, n) \in Seq(T) /\ Distinct(SubSeq(s, 1, n))
           /\ Len(SubSeq(s, 1, n)) = n
           /\ SubSeq(s, n + 1, Len(s)) \o SubSeq(s, 1, n) \in Seq(T)
           /\ Distinct(SubSeq(s, n + 1, Len(s)) \o SubSeq(s, 1, n))
<1> DEFINE L == Len(s)
           a == SubSeq(s, 1, n)
           b == SubSeq(s, n + 1, L)
           r == b \o a
<1>1. L \in Nat /\ n \in Nat /\ n <= L /\ \A i \in 1..L : s[i] \in T
  BY LenProperties, ElementOfSeq
<1>2. \A i, j \in 1..L : s[i] = s[j] => i = j
  BY DEF Distinct
<1> HIDE DEF L
<1>3. a \in Seq(T) /\ Len(a) = n /\ \A i \in 1..n : a[i] = s[i]
  <2>1. \A i \in 1..n : s[i] \in T
    BY <1>1
  <2>2. /\ a \in Seq(T) /\ Len(a) = IF 1 <= n THEN n - 1 + 1 ELSE 0
        /\ \A i \in 1..(n - 1 + 1) : a[i] = s[1 + i - 1]
    BY <1>1, <2>1, SubSeqProperties
  <2> HIDE DEF a
  <2> QED
    BY <1>1, <2>2
<1>4. b \in Seq(T) /\ Len(b) = L - n /\ \A i \in 1..(L - n) : b[i] = s[i + n]
  <2>1. \A i \in (n + 1)..L : s[i] \in T
    BY <1>1
  <2>2. /\ b \in Seq(T) /\ Len(b) = IF n + 1 <= L THEN L - (n + 1) + 1 ELSE 0
        /\ \A i \in 1..(L - (n + 1) + 1) : b[i] = s[(n + 1) + i - 1]
    BY <1>1, <2>1, SubSeqProperties
  <2> HIDE DEF b
  <2> QED
    BY <1>1, <2>2
<1> HIDE DEF a, b
<1>5. /\ r \in Seq(T) /\ Len(r) = Len(b) + Len(a)
      /\ \A i \in 1..(Len(b) + Len(a)) : r[i] = IF i <= Len(b) THEN b[i] ELSE a[i - Len(b)]
  BY <1>3, <1>4, ConcatProperties
<1> HIDE DEF r
<1>6. Len(r) = L /\ \A i \in 1..L : r[i] = IF i <= L - n THEN s[i + n] ELSE s[i - (L - n)]
  <2>1. Len(b) = L - n /\ Len(a) = n /\ Len(b) + Len(a) = L
    BY <1>1, <1>3, <1>4
  <2>2. Len(r) = L
    BY <1>5, <2>1
  <2>3. ASSUME NEW i \in 1..L, i <= L - n PROVE r[i] = s[i + n]
    <3>1. r[i] = b[i] /\ i \in 1..(L - n)
      BY <1>1, <1>5, <2>1, <2>3
    <3> QED
      BY <1>4, <3>1
  <2>4. ASSUME NEW i \in 1..L, ~(i <= L - n) PROVE r[i] = s[i - (L - n)]
    <3>1. r[i] = a[i - (L - n)] /\ i - (L - n) \in 1..n
      BY <1>1, <1>5, <2>1, <2>4
    <3> QED
      BY <1>3, <3>1
  <2> QED
    BY <2>2, <2>3, <2>4
<1>7. Distinct(a)
  BY <1>1, <1>2, <1>3 DEF Distinct
<1>8. Distinct(r)
  <2> SUFFICES ASSUME NEW i \in 1..L, NEW j \in 1..L, r[i] = r[j] PROVE i = j
    BY <1>6 DEF Distinct
  <2> DEFINE of(k) == IF k <= L - n THEN k + n ELSE k - (L - n)
  <2>1. of(i) \in 1..L /\ of(j) \in 1..L /\ (of(i) = of(j) => i = j)
    BY <1>1
  <2>2. s[of(i)] = s[of(j)]
    BY <1>6
  <2> QED
    BY <1>2, <2>1, <2>2
<1> QED
  BY <1>3, <1>5, <1>7, <1>8 DEF r, a, b, L

(***************************************************************************)
(* What the operators of the model give, one lemma each.                    *)
(***************************************************************************)
LEMMA FreeIs ==
    ASSUME Tally, FreeFds # {}
    PROVE  Lowest(FreeFds) \in Fds /\ file[Lowest(FreeFds)] = None
<1>1. FreeFds \subseteq 1..limit /\ 1..limit \subseteq Fds /\ Fds \subseteq Nat
  BY Numbers DEF FreeFds, Tally
<1>2. Lowest(FreeFds) \in FreeFds
  BY <1>1, LeastNumber
<1> QED
  BY <1>1, <1>2 DEF FreeFds

LEMMA SlotsAre ==
    /\ 0 \in Slots /\ Slots \subseteq Nat
    /\ \A i \in Slots : i < NUM + nfds + MaxEvents
BY Numbers DEF Slots

LEMMA HitIs ==
    ASSUME Tally, Arrayed, Phased, NEW i \in Hits
    PROVE  /\ i \in Nat /\ i + 1 \in 0..(NUM + nfds + MaxEvents)
           /\ At(i) \in Fds \cup {Listener}
           /\ \A j \in Hits : At(i) = At(j) => i = j
           /\ kind # "epoll" => i \in Slots /\ (At(i) = Listener <=> i = 0)
<1>1. CASE kind = "epoll"
  <2>1. i \in 1..MaxEvents /\ \A j \in Hits : j \in 1..Len(_revs)
    BY <1>1 DEF Hits, HitEpoll
  <2>2. _revs[i] \in Fds \cup {Listener}
    BY <2>1, ElementOfSeq DEF Phased
  <2>3. \A j \in Hits : _revs[i] = _revs[j] => i = j
    BY <2>1 DEF Phased, Distinct
  <2>4. i \in Nat /\ i + 1 \in 0..(NUM + nfds + MaxEvents)
    BY <2>1, Numbers
  <2> QED
    BY <1>1, <2>2, <2>3, <2>4 DEF At
<1>2. CASE kind # "epoll"
  <2>1. \A j \in Hits : j \in Slots /\ _fds[j] # FD_NONE
    <3>1. CASE kind = "select"
      BY <3>1 DEF Hits, HitSelect
    <3>2. CASE kind = "poll"
      BY <3>2 DEF Hits, HitPoll
    <3> QED
      BY <1>2, <3>1, <3>2 DEF Tally
  <2>2. i \in Nat /\ i + 1 \in 0..(NUM + nfds + MaxEvents)
    <3>1. i \in Nat /\ i < NUM + nfds + MaxEvents
      BY <2>1, SlotsAre
    <3>2. NUM \in Nat /\ nfds \in Nat /\ MaxEvents \in Nat
      BY Numbers
    <3> QED
      BY <3>1, <3>2
  <2>3. \A j \in Hits : At(j) = _fds[j]
    BY <1>2 DEF At
  <2>4. i \in Slots /\ _fds[i] # FD_NONE /\ _fds[i] \in Fds \cup {Listener}
    BY <2>1 DEF Arrayed
  <2>5. _fds[i] = Listener <=> i = 0
    BY <1>2, <2>4 DEF Arrayed
  <2>6. \A j \in Hits : _fds[i] = _fds[j] => i = j
    BY <1>2, <2>1, <2>4 DEF Arrayed
  <2> QED
    BY <2>2, <2>3, <2>4, <2>5, <2>6
<1> QED
  BY <1>1, <1>2

\* The connection the server receives from is an open one, whatever the call said.
LEMMA HereIs ==
    ASSUME Tally, Watching, Phased, Promised, pc = "recv"
    PROVE  /\ pos \in Hits /\ At(pos) \in Fds /\ Here \in Clients /\ Open(Here)
           /\ Here = file[At(pos)]
           /\ kind # "epoll" => pos \in Slots /\ _fds[pos] = At(pos) /\ pos # 0
<1>1. pos \in Hits /\ At(pos) \in Fds /\ At(pos) # Listener
  BY Numbers DEF Phased
<1>2. pos \in Nat /\ (kind # "epoll" => pos \in Slots /\ pos # 0)
  BY <1>1, HitIs DEF Watching
<1>3. file[At(pos)] # None
  <2>1. CASE kind = "epoll"
    <3>1. Due(pos)
      BY <1>1, <1>2, <2>1 DEF Promised, Tally
    <3> QED
      BY <1>1, <3>1 DEF Due
  <2>2. CASE kind # "epoll"
    BY <1>1, <1>2, <2>2 DEF At, Watching, Arrayed
  <2> QED
    BY <2>1, <2>2
<1>4. file[At(pos)] \in Clients /\ Open(file[At(pos)])
  BY <1>1, <1>3 DEF Watching, Linked
<1> QED
  BY <1>1, <1>2, <1>4 DEF Here, At

LEMMA Arrives ==
    ASSUME Registered, NEW fd, Arrive(fd)
    PROVE  rdlist' \in Seq(interest) /\ Distinct(rdlist')
<1>1. CASE fd \in interest /\ ~InSeq(fd, rdlist)
  <2>1. interest \cup {fd} = interest
    BY <1>1
  <2> QED
    BY <1>1, <2>1, AppendsOne DEF Arrive, Registered
<1>2. CASE ~(fd \in interest /\ ~InSeq(fd, rdlist))
  <2>1. rdlist' = rdlist
    BY <1>2 DEF Arrive
  <2> QED
    BY <2>1 DEF Registered
<1> QED
  BY <1>1, <1>2

LEMMA ArrivesAt ==
    ASSUME Registered, NEW c, ArriveAt(c)
    PROVE  rdlist' \in Seq(interest) /\ Distinct(rdlist')
<1>1. CASE link[c] = "open"
  BY <1>1, Arrives DEF ArriveAt
<1>2. CASE link[c] # "open"
  <2>1. rdlist' = rdlist
    BY <1>2 DEF ArriveAt
  <2> QED
    BY <2>1 DEF Registered
<1> QED
  BY <1>1, <1>2

(***************************************************************************)
(* The counters.                                                            *)
(***************************************************************************)
LEMMA TallyNext == Tally /\ [Next]_vars => Tally'
<1> SUFFICES ASSUME Tally, [Next]_vars PROVE Tally'
  OBVIOUS
<1>1. CASE UNCHANGED <<start, clients, rx, failed>>
  BY <1>1 DEF Tally, start, clients
<1>2. CASE \E c \in Clients : Write(c)
  <2>1. PICK c \in Clients : Write(c)
    BY <1>2
  <2>2. /\ UNCHANGED <<start, ended, failed>> /\ written[c] < MaxWrites
        /\ written' = [written EXCEPT ![c] = @ + 1] /\ rx' = [rx EXCEPT ![c] = @ + 1]
    BY <2>1 DEF Write
  <2>3. \A d \in Clients : written[d] \in Nat /\ rx[d] \in Nat /\ rx[d] <= written[d]
    BY DEF Tally
  <2>4. written' \in [Clients -> 0..MaxWrites] /\ rx' \in [Clients -> Nat]
    BY <2>2, <2>3, Numbers DEF Tally
  <2>5. \A d \in Clients : rx'[d] <= written'[d]
    BY <2>2, <2>3 DEF Tally
  <2> QED
    BY <2>2, <2>4, <2>5 DEF Tally, start
<1>3. CASE \E c \in Clients : End(c)
  BY <1>3 DEF End, Tally, start
<1>4. CASE SelectFails
  BY <1>4 DEF SelectFails, Tally, start, clients
<1>5. CASE PollFails
  BY <1>5 DEF PollFails, Tally, start, clients
<1>6. CASE Recv
  <2>1. UNCHANGED <<start, clients, failed>> /\ rx' = [rx EXCEPT ![Here] = 0]
    BY <1>6 DEF Recv
  <2>2. rx' \in [Clients -> Nat] /\ \A d \in Clients : rx'[d] = rx[d] \/ rx'[d] = 0
    BY <2>1 DEF Tally
  <2>3. \A d \in Clients : written[d] \in Nat
    BY DEF Tally
  <2> QED
    BY <2>1, <2>2, <2>3 DEF Tally, start, clients
<1> HIDE DEF Tally
<1> QED
  <2>1. CASE UNCHANGED vars
    BY <1>1, <2>1 DEF vars
  <2>2. CASE Next
    <3>1. CASE Server
      <4>1. Recv \/ UNCHANGED <<start, clients, rx, failed>>
        BY <3>1 DEF Server, Select, Poll, WaitEpoll, HandlerEvent, AcceptFails, Accepter,
                    AccepterEpoll, RecvEnds, RecvEndsEpoll, CloseHere
      <4> QED
        BY <1>1, <1>6, <4>1
    <3>2. CASE \E c \in Clients : Peer(c)
      <4>1. PICK c \in Clients : Connect(c) \/ Write(c) \/ End(c)
        BY <3>2 DEF Peer
      <4>2. CASE Connect(c)
        BY <1>1, <4>2 DEF Connect
      <4> QED
        BY <1>2, <1>3, <4>1, <4>2
    <3> QED
      BY <1>4, <1>5, <2>2, <3>1, <3>2 DEF Next
  <2> QED
    BY <2>1, <2>2

(***************************************************************************)
(* The sockets: what an accept and a close do to who is watched where.      *)
(***************************************************************************)
LEMMA LinkedMoves ==
    ASSUME Linked, kind' = kind, file' = file, NEW c \in Clients, ~Open(c),
           NEW to \in {"backlog", "closed"}, link' = [link EXCEPT ![c] = to]
    PROVE  Linked'
<1>1. /\ link' \in [Clients -> {"new", "backlog", "open", "closed", "leaked"}]
      /\ \A d \in Clients : link'[d] = IF d = c THEN to ELSE link[d]
  BY DEF Linked
<1>2. \A d \in Clients : Open(d)' <=> Open(d)
  BY <1>1 DEF Open
<1>3. \A fd \in Fds : file[fd] # None => file[fd] \in Clients
  BY DEF Linked
<1> QED
  BY <1>1, <1>2, <1>3 DEF Linked

LEMMA LinkedAccepts ==
    ASSUME Linked, kind' = kind, NEW c \in Backlog, NEW fd \in Fds, file[fd] = None,
           NEW to \in {"open", "leaked"}, kind # "epoll" => to = "open",
           file' = [file EXCEPT ![fd] = c], link' = [link EXCEPT ![c] = to]
    PROVE  Linked'
<1>1. c \in Clients /\ ~Open(c) /\ c # None
  BY Numbers DEF Backlog, Open
<1>2. /\ link' \in [Clients -> {"new", "backlog", "open", "closed", "leaked"}]
      /\ \A d \in Clients : link'[d] = IF d = c THEN to ELSE link[d]
      /\ file' \in [Fds -> Clients \cup {None}]
      /\ \A f \in Fds : file'[f] = IF f = fd THEN c ELSE file[f]
  BY <1>1 DEF Linked
<1>3. \A d \in Clients : Open(d)' <=> Open(d) \/ d = c
  BY <1>1, <1>2 DEF Open
<1>4. \A f \in Fds : file[f] # None => file[f] \in Clients /\ Open(file[f]) /\ file[f] # c
  BY <1>1 DEF Linked
<1>5. (\A f \in Fds : file[f] # None => Open(file[f]))'
  BY <1>1, <1>2, <1>4 DEF Open
<1>6. \A f, g \in Fds : file'[f] = file'[g] /\ file'[f] # None => f = g
  BY <1>1, <1>2, <1>4 DEF Linked
<1>7. \A d \in Clients : Open(d)' => \E f \in Fds : file'[f] = d
  <2> SUFFICES ASSUME NEW d \in Clients, Open(d)' PROVE \E f \in Fds : file'[f] = d
    OBVIOUS
  <2>1. CASE d = c
    BY <1>2, <2>1
  <2>2. CASE d # c
    <3>1. PICK f \in Fds : file[f] = d
      BY <1>3, <2>2 DEF Linked
    <3>2. f # fd
      BY <3>1, Numbers
    <3> QED
      BY <1>2, <3>1, <3>2
  <2> QED
    BY <2>1, <2>2
<1>8. kind' # "epoll" => \A d \in Clients : link'[d] # "leaked"
  BY <1>2 DEF Linked
<1> QED
  BY <1>2, <1>5, <1>6, <1>7, <1>8 DEF Linked

LEMMA LinkedCloses ==
    ASSUME Linked, kind' = kind, NEW fd \in Fds, file[fd] # None,
           file' = [file EXCEPT ![fd] = None], link' = [link EXCEPT ![file[fd]] = "closed"]
    PROVE  Linked'
<1> DEFINE c == file[fd]
<1>1. c \in Clients /\ Open(c)
  BY DEF Linked
<1>2. /\ link' \in [Clients -> {"new", "backlog", "open", "closed", "leaked"}]
      /\ \A d \in Clients : link'[d] = IF d = c THEN "closed" ELSE link[d]
      /\ file' \in [Fds -> Clients \cup {None}]
      /\ \A f \in Fds : file'[f] = IF f = fd THEN None ELSE file[f]
  BY <1>1 DEF Linked
<1>3. \A d \in Clients : Open(d)' <=> Open(d) /\ d # c
  BY <1>2 DEF Open
<1>4. \A f \in Fds : f # fd => file[f] # c
  BY DEF Linked
<1>5. (\A f \in Fds : file[f] # None => Open(file[f]))'
  <2>1. \A f \in Fds : file[f] # None => file[f] \in Clients /\ Open(file[f])
    BY DEF Linked
  <2> QED
    BY <1>2, <1>4, <2>1 DEF Open
<1>6. \A f, g \in Fds : file'[f] = file'[g] /\ file'[f] # None => f = g
  BY <1>2 DEF Linked
<1>7. \A d \in Clients : Open(d)' => \E f \in Fds : file'[f] = d
  <2> SUFFICES ASSUME NEW d \in Clients, Open(d)' PROVE \E f \in Fds : file'[f] = d
    OBVIOUS
  <2>1. PICK f \in Fds : file[f] = d
    BY <1>3 DEF Linked
  <2>2. f # fd
    BY <1>3, <2>1
  <2> QED
    BY <1>2, <2>1, <2>2
<1>8. kind' # "epoll" => \A d \in Clients : link'[d] # "leaked"
  BY <1>2 DEF Linked
<1> QED
  BY <1>2, <1>5, <1>6, <1>7, <1>8 DEF Linked

LEMMA ArrayedAccepts ==
    ASSUME Tally, Arrayed, kind' = kind, NEW c \in Clients, NEW fd \in Fds, file[fd] = None,
           file \in [Fds -> Clients \cup {None}],
           NEW j \in Slots \ {0}, _fds[j] = FD_NONE, kind # "epoll",
           _fds' = [_fds EXCEPT ![j] = fd], file' = [file EXCEPT ![fd] = c]
    PROVE  Arrayed'
<1>1. Slots' = Slots /\ 0 \in Slots
  BY SlotsAre DEF Slots
<1>2. /\ _fds' \in [Slots -> Fds \cup {Listener, FD_NONE}]
      /\ \A i \in Slots : _fds'[i] = IF i = j THEN fd ELSE _fds[i]
      /\ \A f \in Fds : file'[f] = IF f = fd THEN c ELSE file[f]
  BY DEF Arrayed
<1>3. fd # Listener /\ fd # FD_NONE /\ Listener # FD_NONE /\ c # None
  BY Numbers
<1>4. \A i \in Slots : _fds[i] # fd
  BY DEF Arrayed
<1>5. \A i \in Slots : _fds'[i] = Listener <=> i = 0
  BY <1>2, <1>3 DEF Arrayed
<1>6. \A i \in Slots : _fds'[i] \in Fds => file'[_fds'[i]] # None
  BY <1>2, <1>3, <1>4 DEF Arrayed
<1>7. \A i, k \in Slots : _fds'[i] = _fds'[k] /\ _fds'[i] # FD_NONE => i = k
  BY <1>2, <1>4 DEF Arrayed
<1>8. \A f \in Fds : file'[f] # None => \E i \in Slots : _fds'[i] = f
  <2> SUFFICES ASSUME NEW f \in Fds, file'[f] # None PROVE \E i \in Slots : _fds'[i] = f
    OBVIOUS
  <2>1. CASE f = fd
    BY <1>2, <2>1
  <2>2. CASE f # fd
    <3>1. PICK i \in Slots : _fds[i] = f
      BY <1>2, <2>2 DEF Arrayed
    <3>2. i # j
      BY <3>1, Numbers
    <3> QED
      BY <1>2, <3>1, <3>2
  <2> QED
    BY <2>1, <2>2
<1> QED
  BY <1>1, <1>2, <1>5, <1>6, <1>7, <1>8 DEF Arrayed

LEMMA ArrayedCloses ==
    ASSUME Arrayed, kind' = kind, NEW i \in Slots, _fds[i] \in Fds, kind # "epoll",
           file \in [Fds -> Clients \cup {None}],
           _fds' = [_fds EXCEPT ![i] = FD_NONE], file' = [file EXCEPT ![_fds[i]] = None]
    PROVE  Arrayed'
<1>1. Slots' = Slots
  BY DEF Slots
<1>2. /\ _fds' \in [Slots -> Fds \cup {Listener, FD_NONE}]
      /\ \A k \in Slots : _fds'[k] = IF k = i THEN FD_NONE ELSE _fds[k]
      /\ \A f \in Fds : file'[f] = IF f = _fds[i] THEN None ELSE file[f]
  BY DEF Arrayed
<1>3. _fds[i] # Listener /\ _fds[i] # FD_NONE /\ Listener # FD_NONE /\ FD_NONE \notin Fds
  BY Numbers
<1>4. \A k \in Slots : k # i => _fds[k] # _fds[i]
  BY <1>3 DEF Arrayed
<1>5. \A k \in Slots : _fds'[k] = Listener <=> k = 0
  BY <1>2, <1>3 DEF Arrayed
<1>6. \A k \in Slots : _fds'[k] \in Fds => file'[_fds'[k]] # None
  BY <1>2, <1>3, <1>4 DEF Arrayed
<1>7. \A h, k \in Slots : _fds'[h] = _fds'[k] /\ _fds'[h] # FD_NONE => h = k
  BY <1>2 DEF Arrayed
<1>8. \A f \in Fds : file'[f] # None => \E k \in Slots : _fds'[k] = f
  <2> SUFFICES ASSUME NEW f \in Fds, file'[f] # None PROVE \E k \in Slots : _fds'[k] = f
    OBVIOUS
  <2>1. PICK k \in Slots : _fds[k] = f
    BY <1>2 DEF Arrayed
  <2>2. k # i
    BY <1>2, <2>1
  <2> QED
    BY <1>2, <2>1, <2>2
<1> QED
  BY <1>1, <1>2, <1>5, <1>6, <1>7, <1>8 DEF Arrayed

\* An array server never touches the epoll, which stays as the start left it.
LEMMA RegisteredApart ==
    ASSUME Registered, kind # "epoll", kind' = kind, UNCHANGED epoll
    PROVE  Registered'
BY DEF Registered, epoll

\* A step that changes neither what is open nor what is registered.
LEMMA RegisteredStays ==
    ASSUME Linked, Registered, kind' = kind, file' = file, interest' = interest,
           \A c \in Clients : Open(c) => link'[c] = link[c],
           rdlist' \in Seq(interest), Distinct(rdlist')
    PROVE  Registered'
<1>1. \A fd \in Fds : file[fd] # None => link'[file[fd]] = link[file[fd]]
  BY DEF Linked
<1>2. \A fd \in interest \ {Listener} : fd \in Fds
  BY DEF Registered
<1> QED
  BY <1>1, <1>2 DEF Registered

(***************************************************************************)
(* One lemma for each step that changes what is watched.                    *)
(***************************************************************************)
LEMMA WatchingStays ==
    ASSUME Watching, UNCHANGED <<start, link, file, _fds, epoll>>
    PROVE  Watching'
<1>1. Linked'
  BY DEF Watching, Linked, Open, start
<1>2. Arrayed'
  BY DEF Watching, Arrayed, Slots, start
<1>3. Registered'
  BY DEF Watching, Registered, start, epoll
<1> QED
  BY <1>1, <1>2, <1>3 DEF Watching

LEMMA ConnectWatches ==
    ASSUME Watching, NEW c \in Clients, Connect(c)
    PROVE  Watching'
<1>1. /\ link[c] = "new" /\ link' = [link EXCEPT ![c] = "backlog"] /\ Arrive(Listener)
      /\ UNCHANGED <<start, file, array, interest>>
  BY DEF Connect
<1>2. Linked /\ Arrayed /\ Registered /\ ~Open(c) /\ kind' = kind /\ file' = file
      /\ interest' = interest
  BY <1>1 DEF Watching, Open, start
<1>3. Linked'
  BY <1>1, <1>2, LinkedMoves
<1>4. Arrayed'
  BY <1>1 DEF Watching, Arrayed, Slots, start, array
<1>5. Registered'
  <2>1. \A d \in Clients : Open(d) => link'[d] = link[d]
    BY <1>1, <1>2 DEF Linked
  <2>2. rdlist' \in Seq(interest) /\ Distinct(rdlist')
    BY <1>1, <1>2, Arrives
  <2> QED
    BY <1>2, <2>1, <2>2, RegisteredStays
<1> QED
  BY <1>3, <1>4, <1>5 DEF Watching

LEMMA ArrivalWatches ==
    ASSUME Watching, NEW c \in Clients, Write(c) \/ End(c)
    PROVE  Watching'
<1>1. ArriveAt(c) /\ UNCHANGED <<start, link, file, array, interest>>
  BY DEF Write, End
<1>2. Linked /\ Registered /\ kind' = kind /\ file' = file /\ interest' = interest
      /\ link' = link
  BY <1>1 DEF Watching, start
<1>3. Linked' /\ Arrayed'
  BY <1>1 DEF Watching, Linked, Open, Arrayed, Slots, start, array
<1>4. Registered'
  <2>1. rdlist' \in Seq(interest) /\ Distinct(rdlist')
    BY <1>1, <1>2, ArrivesAt
  <2> QED
    BY <1>2, <2>1, RegisteredStays
<1> QED
  BY <1>3, <1>4 DEF Watching

\* What epoll_wait does to its list, and what it reports.
LEMMA WaitEpollIs ==
    ASSUME Registered, WaitEpoll
    PROVE  /\ rdlist' \in Seq(interest) /\ Distinct(rdlist')
           /\ _revs' \in Seq(interest \cap ReadyFds) /\ Distinct(_revs')
           /\ Len(_revs') <= MaxEvents
<1>1. PICK at \in Places(ReadyFds) :
        /\ _revs' = SubSeq(Part(at), 1, Taken(Part(at)))
        /\ rdlist' = SubSeq(Part(at), Taken(Part(at)) + 1, Len(Part(at)))
                       \o SubSeq(Part(at), 1, Taken(Part(at)))
  BY DEF WaitEpoll
<1> DEFINE now == Part(at)
           n == Taken(now)
           T == interest \cap ReadyFds
<1>2. now \in Seq(T) /\ Distinct(now)
  BY PartIs DEF Registered
<1>3. _revs' = SubSeq(now, 1, n)
      /\ rdlist' = SubSeq(now, n + 1, Len(now)) \o SubSeq(now, 1, n)
  BY <1>1
<1>4. n = Taken(now)
  OBVIOUS
<1> HIDE DEF now, n, T
<1>5. Len(now) \in Nat /\ MaxEvents \in Nat
  BY <1>2, Numbers, LenProperties
<1>6. n \in 0..Len(now) /\ n <= MaxEvents
  BY <1>4, <1>5 DEF Taken, Smaller
<1>7. /\ _revs' \in Seq(T) /\ Distinct(_revs') /\ Len(_revs') = n
      /\ rdlist' \in Seq(T) /\ Distinct(rdlist')
  BY <1>2, <1>3, <1>6, Rotates
<1>8. rdlist' \in Seq(interest)
  <2>1. T \subseteq interest
    BY DEF T
  <2> QED
    BY <1>7, <2>1, SeqMonotonic
<1> QED
  BY <1>6, <1>7, <1>8 DEF T

LEMMA WaitEpollWatches ==
    ASSUME Watching, WaitEpoll
    PROVE  Watching'
<1>1. UNCHANGED <<start, link, file, array, interest>>
  BY DEF WaitEpoll
<1>2. Linked /\ Registered /\ kind' = kind /\ file' = file /\ interest' = interest
      /\ link' = link
  BY <1>1 DEF Watching, start
<1>3. Linked' /\ Arrayed'
  BY <1>1 DEF Watching, Linked, Open, Arrayed, Slots, start, array
<1>4. Registered'
  BY <1>2, WaitEpollIs, RegisteredStays
<1> QED
  BY <1>3, <1>4 DEF Watching

LEMMA AccepterWatches ==
    ASSUME Tally, Watching, Accepter
    PROVE  Watching'
<1> DEFINE fd == Lowest(FreeFds)
           free == {i \in Slots \ {0} : _fds[i] = FD_NONE}
<1>1. PICK c \in Backlog :
        IF free = {} THEN CloseFull(c, fd) /\ UNCHANGED _fds
                     ELSE /\ _fds' = [_fds EXCEPT ![Lowest(free)] = fd]
                          /\ file' = [file EXCEPT ![fd] = c]
                          /\ link' = [link EXCEPT ![c] = "open"]
  BY DEF Accepter
<1>2. /\ kind # "epoll" /\ kind' = kind /\ UNCHANGED epoll
      /\ Linked /\ Arrayed /\ Registered
  BY DEF Accepter, start, Watching
<1>3. fd \in Fds /\ file[fd] = None
  BY FreeIs DEF Accepter
<1>4. c \in Clients /\ ~Open(c)
  BY DEF Backlog, Open
<1>5. Registered'
  BY <1>2, RegisteredApart
<1>6. CASE free = {}
  <2>1. link' = [link EXCEPT ![c] = "closed"] /\ file' = file /\ _fds' = _fds
    BY <1>1, <1>6 DEF CloseFull
  <2>2. Linked'
    BY <1>2, <1>4, <2>1, LinkedMoves
  <2>3. Arrayed'
    BY <1>2, <2>1 DEF Arrayed, Slots
  <2> QED
    BY <1>5, <2>2, <2>3 DEF Watching
<1>7. CASE free # {}
  <2>1. /\ _fds' = [_fds EXCEPT ![Lowest(free)] = fd]
        /\ file' = [file EXCEPT ![fd] = c] /\ link' = [link EXCEPT ![c] = "open"]
    BY <1>1, <1>7
  <2>2. Lowest(free) \in Slots \ {0} /\ _fds[Lowest(free)] = FD_NONE
    <3>1. free \subseteq Nat
      BY SlotsAre
    <3>2. Lowest(free) \in free
      BY <1>7, <3>1, LeastNumber
    <3> QED
      BY <3>2
  <2>3. file \in [Fds -> Clients \cup {None}]
    BY <1>2 DEF Linked
  <2> HIDE DEF fd, free
  <2>4. Linked'
    BY <1>2, <1>3, <2>1, LinkedAccepts
  <2>5. Arrayed'
    BY <1>2, <1>3, <1>4, <2>1, <2>2, <2>3, ArrayedAccepts
  <2> QED
    BY <1>5, <2>4, <2>5 DEF Watching
<1> QED
  BY <1>6, <1>7

LEMMA AccepterEpollWatches ==
    ASSUME Tally, Watching, AccepterEpoll
    PROVE  Watching'
<1> DEFINE fd == Lowest(FreeFds)
<1>1. PICK c \in Backlog : file' = [file EXCEPT ![fd] = c] /\ AddToEpoll(c, fd)
  BY DEF AccepterEpoll
<1>2. kind = "epoll" /\ kind' = kind /\ UNCHANGED array /\ Linked /\ Arrayed /\ Registered
  BY DEF AccepterEpoll, start, Watching
<1>3. fd \in Fds /\ file[fd] = None
  BY FreeIs DEF AccepterEpoll
<1> HIDE DEF fd
<1>4. c \in Clients /\ c # None
  BY Numbers DEF Backlog
<1>5. Arrayed'
  BY <1>2 DEF Arrayed, Slots, array
<1>6. fd \notin interest /\ fd # Listener
  BY <1>3, Numbers DEF Watching, Registered
<1>7. ~InSeq(fd, rdlist)
  BY <1>2, <1>6, ElementOfSeq DEF Registered, InSeq
<1>8. \A f \in Fds : file'[f] = IF f = fd THEN c ELSE file[f]
  BY <1>1, <1>2 DEF Linked
<1>9. \A f \in Fds : file[f] # None => file[f] \in Clients /\ file[f] # c
  BY DEF Watching, Linked, Backlog, Open
<1>10. \A f \in interest : f # Listener => f \in Fds
  BY <1>2 DEF Registered
<1>11. CASE /\ interest' = interest \cup {fd}
            /\ rdlist' = IF Readable(c) THEN Append(rdlist, fd) ELSE rdlist
            /\ link' = [link EXCEPT ![c] = "open"]
  <2>1. Linked'
    BY <1>1, <1>2, <1>3, <1>11, LinkedAccepts
  <2>2. rdlist' \in Seq(interest') /\ Distinct(rdlist')
    <3>1. CASE Readable(c)
      BY <1>2, <1>7, <1>11, <3>1, AppendsOne DEF Registered
    <3>2. CASE ~Readable(c)
      BY <1>2, <1>11, <3>2, SeqMonotonic DEF Registered
    <3> QED
      BY <3>1, <3>2
  <2>3. \A d \in Clients : link'[d] = IF d = c THEN "open" ELSE link[d]
    BY <1>2, <1>11 DEF Linked
  <2>4. interest' \subseteq Fds \cup {Listener} /\ Listener \in interest'
    BY <1>2, <1>3, <1>11 DEF Registered
  <2>5. \A f \in interest' \ {Listener} : file'[f] # None /\ link'[file'[f]] = "open"
    <3> SUFFICES ASSUME NEW f \in interest' \ {Listener}
                 PROVE  file'[f] # None /\ link'[file'[f]] = "open"
      OBVIOUS
    <3>1. CASE f = fd
      BY <1>3, <1>4, <1>8, <2>3, <3>1
    <3>2. CASE f # fd
      <4>1. f \in interest \ {Listener} /\ f \in Fds
        BY <1>10, <1>11, <3>2
      <4>2. file[f] # None /\ link[file[f]] = "open" /\ file'[f] = file[f]
        BY <1>2, <1>8, <3>2, <4>1 DEF Registered
      <4> QED
        BY <1>9, <2>3, <4>1, <4>2
    <3> QED
      BY <3>1, <3>2
  <2>6. \A f \in Fds : file'[f] # None /\ link'[file'[f]] = "open" => f \in interest'
    BY <1>2, <1>8, <1>9, <1>11, <2>3 DEF Registered
  <2>7. Registered'
    BY <1>2, <2>2, <2>4, <2>5, <2>6 DEF Registered
  <2> QED
    BY <1>5, <2>1, <2>7 DEF Watching
<1>12. CASE UNCHANGED <<interest, rdlist>> /\ link' = [link EXCEPT ![c] = "leaked"]
  <2>1. Linked'
    BY <1>1, <1>2, <1>3, <1>12, LinkedAccepts
  <2>2. \A d \in Clients : link'[d] = IF d = c THEN "leaked" ELSE link[d]
    BY <1>2, <1>12 DEF Linked
  <2>3. \A f \in interest \ {Listener} : file'[f] # None /\ link'[file'[f]] = "open"
    <3> SUFFICES ASSUME NEW f \in interest \ {Listener}
                 PROVE  file'[f] # None /\ link'[file'[f]] = "open"
      OBVIOUS
    <3>1. f \in Fds /\ f # fd
      BY <1>6, <1>10
    <3>2. file[f] # None /\ link[file[f]] = "open" /\ file'[f] = file[f]
      BY <1>2, <1>8, <3>1 DEF Registered
    <3> QED
      BY <1>9, <2>2, <3>1, <3>2
  <2>4. \A f \in Fds : file'[f] # None /\ link'[file'[f]] = "open" => f \in interest
    <3> SUFFICES ASSUME NEW f \in Fds, file'[f] # None, link'[file'[f]] = "open"
                 PROVE  f \in interest
      OBVIOUS
    <3>1. f # fd
      BY <1>4, <1>8, <2>2
    <3>2. file'[f] = file[f] /\ file[f] \in Clients /\ file[f] # c
      BY <1>8, <1>9, <3>1
    <3>3. link[file[f]] = "open"
      BY <2>2, <3>2
    <3> QED
      BY <1>2, <3>2, <3>3 DEF Registered
  <2>5. Registered'
    BY <1>2, <1>12, <2>3, <2>4 DEF Registered
  <2> QED
    BY <1>5, <2>1, <2>5 DEF Watching
<1> QED
  BY <1>1, <1>11, <1>12 DEF AddToEpoll

LEMMA RecvEndsWatches ==
    ASSUME Tally, Watching, Phased, Promised, RecvEnds
    PROVE  Watching'
<1>1. /\ kind # "epoll" /\ kind' = kind /\ pc = "recv" /\ UNCHANGED epoll
      /\ Linked /\ Arrayed /\ Registered
  BY DEF RecvEnds, start, Watching
<1>2. /\ pos \in Slots /\ At(pos) = _fds[pos] /\ _fds[pos] \in Fds
      /\ Here = file[_fds[pos]] /\ Here \in Clients
  BY <1>1, HereIs
<1>3. /\ file' = [file EXCEPT ![_fds[pos]] = None]
      /\ link' = [link EXCEPT ![file[_fds[pos]]] = "closed"]
      /\ _fds' = [_fds EXCEPT ![pos] = FD_NONE]
  BY <1>2 DEF RecvEnds, CloseHere
<1>4. file[_fds[pos]] # None /\ file \in [Fds -> Clients \cup {None}]
  BY <1>1, <1>2, Numbers DEF Linked
<1>5. Linked'
  BY <1>1, <1>2, <1>3, <1>4, LinkedCloses
<1>6. Arrayed'
  BY <1>1, <1>2, <1>3, <1>4, ArrayedCloses
<1>7. Registered'
  BY <1>1, RegisteredApart
<1> QED
  BY <1>5, <1>6, <1>7 DEF Watching

LEMMA RecvEndsEpollWatches ==
    ASSUME Tally, Watching, Phased, Promised, RecvEndsEpoll
    PROVE  Watching'
<1>1. /\ kind = "epoll" /\ kind' = kind /\ pc = "recv" /\ UNCHANGED array
      /\ Linked /\ Arrayed /\ Registered
  BY DEF RecvEndsEpoll, start, Watching
<1> DEFINE fd == At(pos)
           c == file[fd]
<1>2. fd \in Fds /\ Here = c /\ c \in Clients
  BY <1>1, HereIs
<1>3. /\ file' = [file EXCEPT ![fd] = None] /\ link' = [link EXCEPT ![c] = "closed"]
      /\ interest' = interest \ {fd}
      /\ \E at \in Places(interest \ {fd}) : rdlist' = Part(at)
  BY <1>2 DEF RecvEndsEpoll, CloseHere
<1>4. fd # Listener /\ c # None
  BY <1>2, Numbers
<1>5. fd \in Fds /\ c = file[fd]
  BY <1>2
<1> HIDE DEF fd, c
<1>6. Linked'
  BY <1>1, <1>3, <1>4, <1>5, LinkedCloses
<1>7. Arrayed'
  BY <1>1 DEF Arrayed, Slots, array
<1>8. rdlist' \in Seq(interest') /\ Distinct(rdlist')
  <2>1. PICK at \in Places(interest \ {fd}) : rdlist' = Part(at)
    BY <1>3
  <2>2. Part(at) \in Seq(interest \cap (interest \ {fd})) /\ Distinct(Part(at))
    BY <1>1, PartIs DEF Registered
  <2>3. interest \cap (interest \ {fd}) = interest'
    BY <1>3
  <2> QED
    BY <2>1, <2>2, <2>3
<1>9. /\ \A f \in Fds : file'[f] = IF f = fd THEN None ELSE file[f]
      /\ \A d \in Clients : link'[d] = IF d = c THEN "closed" ELSE link[d]
      /\ \A f \in Fds : file[f] # None /\ f # fd => file[f] \in Clients /\ file[f] # c
  BY <1>1, <1>3, <1>5 DEF Linked
<1>10. interest' \subseteq Fds \cup {Listener} /\ Listener \in interest'
  BY <1>1, <1>3, <1>4 DEF Registered
<1>11. \A f \in interest' \ {Listener} : file'[f] # None /\ link'[file'[f]] = "open"
  <2> SUFFICES ASSUME NEW f \in interest' \ {Listener}
               PROVE  file'[f] # None /\ link'[file'[f]] = "open"
    OBVIOUS
  <2>1. f \in interest \ {Listener} /\ f \in Fds /\ f # fd
    BY <1>1, <1>3 DEF Registered
  <2>2. file[f] # None /\ link[file[f]] = "open" /\ file'[f] = file[f]
    BY <1>1, <1>9, <2>1 DEF Registered
  <2> QED
    BY <1>9, <2>1, <2>2
<1>12. \A f \in Fds : file'[f] # None /\ link'[file'[f]] = "open" => f \in interest'
  <2> SUFFICES ASSUME NEW f \in Fds, file'[f] # None, link'[file'[f]] = "open"
               PROVE  f \in interest'
    OBVIOUS
  <2>1. f # fd /\ file'[f] = file[f] /\ file[f] \in Clients /\ file[f] # c
    BY <1>9
  <2>2. link[file[f]] = "open"
    BY <1>9, <2>1
  <2> QED
    BY <1>1, <1>3, <2>1, <2>2 DEF Registered
<1>13. Registered'
  BY <1>1, <1>8, <1>10, <1>11, <1>12 DEF Registered
<1> QED
  BY <1>6, <1>7, <1>13 DEF Watching

LEMMA WatchingNext == Tally /\ Watching /\ Phased /\ Promised /\ [Next]_vars => Watching'
<1> SUFFICES ASSUME Tally, Watching, Phased, Promised, [Next]_vars PROVE Watching'
  OBVIOUS
<1>1. CASE UNCHANGED vars
  BY <1>1, WatchingStays DEF vars, array
<1>2. CASE Server
  <2>1. CASE Select \/ Poll \/ HandlerEvent \/ AcceptFails \/ Recv
    <3>1. UNCHANGED <<start, link, file, _fds, epoll>>
      BY <2>1 DEF Select, Poll, HandlerEvent, AcceptFails, Recv, array
    <3> QED
      BY <3>1, WatchingStays
  <2> QED
    BY <1>2, <2>1, WaitEpollWatches, AccepterWatches, AccepterEpollWatches, RecvEndsWatches,
       RecvEndsEpollWatches DEF Server
<1>3. CASE SelectFails \/ PollFails
  <2>1. UNCHANGED <<start, link, file, _fds, epoll>>
    BY <1>3 DEF SelectFails, PollFails, array
  <2> QED
    BY <2>1, WatchingStays
<1>4. CASE \E c \in Clients : Peer(c)
  BY <1>4, ConnectWatches, ArrivalWatches DEF Peer
<1> QED
  BY <1>1, <1>2, <1>3, <1>4 DEF Next

(***************************************************************************)
(* The loop: what was reported stays true until its turn comes.             *)
(***************************************************************************)
Loop == Phased /\ Promised /\ Recent

LEMMA ReadyIs ==
    ASSUME NEW fd \in ReadyFds
    PROVE  /\ fd \in Fds \cup {Listener} /\ fd # FD_NONE
           /\ IF fd = Listener THEN Backlog # {} ELSE file[fd] # None /\ Readable(file[fd])
BY Numbers DEF ReadyFds

LEMMA SameHits ==
    ASSUME UNCHANGED <<kind, _fds, reported, _revs>>
    PROVE  Hits' = Hits /\ \A i : At(i)' = At(i)
<1>1. Hits' = Hits
  BY DEF Hits, HitSelect, HitPoll, HitEpoll, Slots
<1>2. \A i : At(i)' = At(i)
  BY DEF At
<1> QED
  BY <1>1, <1>2

LEMMA DueStays ==
    ASSUME NEW i, Due(i), At(i)' = At(i),
           At(i) = Listener /\ Backlog # {} => Backlog' # {},
           At(i) # Listener => LET c == file[At(i)]
                               IN  /\ file'[At(i)] = c
                                   /\ Readable(c) => rx'[c] > 0 \/ ended'[c]
    PROVE  Due(i)'
BY DEF Due, Readable

LEMMA PromiseKept ==
    ASSUME Promised, pc # "wait", failed' = failed,
           ~failed => \A i \in Hits' : i >= pos' => i \in Hits /\ i >= pos /\ (Due(i) => Due(i)')
    PROVE  Promised'
BY DEF Promised

\* What a step back to the loop keeps by itself.
LEMMA StepsOn ==
    ASSUME Tally, Arrayed, Phased, pc \in {"accept", "recv"}, Handle(pos + 1),
           UNCHANGED <<kind, reported, _revs>>
    PROVE  Phased' /\ Recent' /\ pos' = pos + 1 /\ pos \in Nat /\ pos \in Hits
<1>1. pos \in Hits /\ pos \in Nat /\ pos + 1 \in 0..(NUM + nfds + MaxEvents)
  BY HitIs DEF Phased
<1>2. pos' = pos + 1 /\ pc' = "handle" /\ pos' # 0
  BY <1>1 DEF Handle
<1>3. Phased'
  BY <1>1, <1>2 DEF Phased, Slots
<1>4. Recent'
  BY <1>2 DEF Recent
<1> QED
  BY <1>1, <1>2, <1>3, <1>4

\* The peers only add to what is ready.
LEMMA PeerLoops ==
    ASSUME Tally, Watching, Loop, NEW c \in Clients, Peer(c)
    PROVE  Loop'
<1>1. UNCHANGED <<start, file, array, _revs, loop, failed>>
  BY DEF Peer, Connect, Write, End
<1>2. Hits' = Hits /\ \A i : At(i)' = At(i)
  BY <1>1, SameHits DEF start, array
<1>3. pc' = pc /\ pos' = pos /\ failed' = failed /\ file' = file /\ kind' = kind
  BY <1>1 DEF loop, start
<1>4. Phased'
  BY <1>1, <1>2, <1>3 DEF Loop, Phased, Slots, array
<1>5. Recent'
  BY <1>1, <1>3 DEF Loop, Recent, array
<1>6. Backlog # {} => Backlog' # {}
  <2>1. CASE Connect(c)
    BY <2>1 DEF Connect, Backlog, Watching, Linked
  <2>2. CASE Write(c) \/ End(c)
    BY <2>2 DEF Write, End, Backlog
  <2> QED
    BY <2>1, <2>2 DEF Peer
<1>7. \A d \in Clients : Readable(d) => rx'[d] > 0 \/ ended'[d]
  <2>1. CASE Connect(c)
    BY <2>1 DEF Connect, clients, Readable
  <2>2. CASE Write(c)
    BY <2>2 DEF Write, Tally, Readable
  <2>3. CASE End(c)
    BY <2>3 DEF End, Tally, Readable
  <2> QED
    BY <2>1, <2>2, <2>3 DEF Peer
<1>8. \A i \in Hits : Due(i) => Due(i)'
  <2> SUFFICES ASSUME NEW i \in Hits, Due(i) PROVE Due(i)'
    OBVIOUS
  <2>1. CASE At(i) = Listener
    BY <1>2, <1>6, <2>1, DueStays
  <2>2. CASE At(i) # Listener
    <3>1. At(i) \in Fds /\ file[At(i)] # None
      BY <2>2, HitIs DEF Due, Watching, Loop
    <3>2. file[At(i)] \in Clients
      BY <3>1 DEF Watching, Linked
    <3> QED
      BY <1>2, <1>3, <1>7, <2>2, <3>2, DueStays
  <2> QED
    BY <2>1, <2>2
<1>9. Promised'
  <2>1. CASE pc = "wait"
    BY <1>3, <2>1 DEF Promised
  <2>2. CASE pc # "wait"
    BY <1>2, <1>3, <1>8, <2>2, PromiseKept DEF Loop
  <2> QED
    BY <2>1, <2>2
<1> QED
  BY <1>4, <1>5, <1>9 DEF Loop

LEMMA SelectLoops ==
    ASSUME Tally, Watching, Loop, Select
    PROVE  Loop'
<1>1. /\ kind = "select" /\ reported' = Watched \cap ReadyFds /\ pc' = "handle" /\ pos' = 0
      /\ UNCHANGED <<start, clients, link, rx, file, _fds, epoll, failed>>
  BY DEF Select, Zeroed, Handle
<1>2. kind' = "select" /\ _fds' = _fds /\ _revs' = _revs /\ file' = file
  BY <1>1 DEF start, epoll
<1>3. Phased'
  <2>1. reported' \subseteq Fds \cup {Listener}
    BY <1>1, ReadyIs
  <2>2. 0 \in 0..(NUM + nfds + MaxEvents)
    BY Numbers
  <2> QED
    BY <1>1, <1>2, <2>1, <2>2 DEF Loop, Phased
<1>4. \A i \in Hits' : At(i)' \in ReadyFds /\ At(i)' = At(i)
  BY <1>1, <1>2 DEF Hits, HitSelect, At
<1>5. Promised'
  <2> SUFFICES ASSUME NEW i \in Hits' PROVE Due(i)'
    BY DEF Promised
  <2>1. IF At(i) = Listener THEN Backlog # {} ELSE file[At(i)] # None /\ Readable(file[At(i)])
    BY <1>4, ReadyIs
  <2>2. Due(i)
    BY <2>1 DEF Due
  <2> QED
    BY <1>1, <1>4, <2>2, DueStays DEF Readable, Backlog, clients
<1>6. Recent'
  <2>1. \A fd \in reported' \cap Fds : file[fd] # None
    BY <1>1, ReadyIs, Numbers
  <2> QED
    BY <1>1, <1>2, <2>1 DEF Recent
<1> QED
  BY <1>3, <1>5, <1>6 DEF Loop

LEMMA PollLoops ==
    ASSUME Tally, Watching, Loop, Poll
    PROVE  Loop'
<1>1. /\ kind = "poll" /\ reported' = {i \in Slots : _fds[i] \in ReadyFds}
      /\ pc' = "handle" /\ pos' = 0
      /\ UNCHANGED <<start, clients, link, rx, file, _fds, epoll, failed>>
  BY DEF Poll, Handle
<1>2. kind' = "poll" /\ _fds' = _fds /\ _revs' = _revs /\ file' = file
  BY <1>1 DEF start, epoll
<1>3. Phased'
  <2>1. reported' \subseteq Slots'
    BY <1>1, <1>2 DEF Slots
  <2>2. 0 \in 0..(NUM + nfds + MaxEvents)
    BY Numbers
  <2> QED
    BY <1>1, <1>2, <2>1, <2>2 DEF Loop, Phased
<1>4. \A i \in Hits' : At(i)' \in ReadyFds /\ At(i)' = At(i)
  BY <1>1, <1>2 DEF Hits, HitPoll, At
<1>5. Promised'
  <2> SUFFICES ASSUME NEW i \in Hits' PROVE Due(i)'
    BY DEF Promised
  <2>1. IF At(i) = Listener THEN Backlog # {} ELSE file[At(i)] # None /\ Readable(file[At(i)])
    BY <1>4, ReadyIs
  <2>2. Due(i)
    BY <2>1 DEF Due
  <2> QED
    BY <1>1, <1>4, <2>2, DueStays DEF Readable, Backlog, clients
<1>6. Recent'
  <2>1. \A i \in reported' : _fds[i] # FD_NONE
    BY <1>1, ReadyIs
  <2> QED
    BY <1>1, <1>2, <2>1 DEF Recent
<1> QED
  BY <1>3, <1>5, <1>6 DEF Loop

\* The code goes on with the old result of a call that failed.
LEMMA FailsLoops ==
    ASSUME Tally, Watching, Loop, SelectFails \/ PollFails
    PROVE  Loop'
<1>1. failed' = TRUE /\ pc' = "handle" /\ pos' = 0 /\ UNCHANGED <<start, _fds, epoll>>
  BY DEF SelectFails, PollFails, Handle, array
<1>2. reported' = reported \/ (kind = "select" /\ reported' = Watched)
  BY DEF SelectFails, PollFails, array
<1>3. kind' = kind /\ _revs' = _revs
  BY <1>1 DEF start, epoll
<1>4. Watched \subseteq Fds \cup {Listener}
  BY DEF Watched, Watching, Arrayed
<1>5. reported' \subseteq IF kind' = "poll" THEN Slots' ELSE Fds \cup {Listener}
  BY <1>2, <1>3, <1>4 DEF Loop, Phased, Slots
<1>6. 0 \in 0..(NUM + nfds + MaxEvents)
  BY Numbers
<1>7. Phased'
  BY <1>1, <1>3, <1>5, <1>6 DEF Loop, Phased
<1> QED
  BY <1>1, <1>7 DEF Loop, Promised, Recent

LEMMA WaitEpollLoops ==
    ASSUME Tally, Watching, Loop, WaitEpoll
    PROVE  Loop'
<1>1. /\ kind = "epoll" /\ pc' = "handle" /\ pos' = 1
      /\ UNCHANGED <<start, clients, link, rx, file, array, interest, failed>>
  BY DEF WaitEpoll, Handle
<1>2. kind' = "epoll" /\ reported' = reported /\ file' = file
  BY <1>1 DEF start, array
<1>3. /\ _revs' \in Seq(interest \cap ReadyFds) /\ Distinct(_revs') /\ Len(_revs') <= MaxEvents
  BY WaitEpollIs DEF Watching
<1>4. Phased'
  <2>1. interest \cap ReadyFds \subseteq Fds \cup {Listener}
    BY ReadyIs
  <2>2. _revs' \in Seq(Fds \cup {Listener})
    BY <1>3, <2>1, SeqMonotonic
  <2>3. 1 \in 0..(NUM + nfds + MaxEvents)
    BY Numbers
  <2> QED
    BY <1>1, <1>2, <1>3, <2>2, <2>3 DEF Loop, Phased
<1>5. \A i \in Hits' : At(i)' = _revs'[i] /\ _revs'[i] \in ReadyFds
  <2>1. \A i \in Hits' : i \in 1..Len(_revs')
    BY <1>2 DEF Hits, HitEpoll
  <2>2. \A i \in Hits' : _revs'[i] \in interest \cap ReadyFds
    BY <1>3, <2>1, ElementOfSeq
  <2> QED
    BY <1>2, <2>2 DEF At
<1>6. Promised'
  <2> SUFFICES ASSUME NEW i \in Hits' PROVE Due(i)'
    BY DEF Promised
  <2> DEFINE fd == _revs'[i]
  <2>1. IF fd = Listener THEN Backlog # {} ELSE file[fd] # None /\ Readable(file[fd])
    BY <1>5, ReadyIs
  <2>2. At(i)' = fd
    BY <1>5
  <2> HIDE DEF fd
  <2>3. Backlog' = Backlog /\ \A c : (rx'[c] > 0 \/ ended'[c]) <=> Readable(c)
    BY <1>1 DEF Backlog, Readable, clients
  <2> QED
    BY <1>2, <2>1, <2>2, <2>3 DEF Due, Readable
<1>7. Recent'
  BY <1>2 DEF Recent
<1> QED
  BY <1>4, <1>6, <1>7 DEF Loop

LEMMA HandlerLoops ==
    ASSUME Tally, Watching, Loop, HandlerEvent
    PROVE  Loop'
<1> DEFINE todo == {i \in Hits : i >= pos}
           next == Lowest(todo)
<1>1. /\ pc = "handle"
      /\ IF todo = {} THEN pc' = "wait" /\ pos' = 0
                      ELSE /\ pos' = next
                           /\ pc' = IF At(next) = Listener THEN "accept" ELSE "recv"
      /\ UNCHANGED <<start, clients, link, rx, file, array, epoll, failed>>
  BY DEF HandlerEvent
<1>2. kind' = kind /\ _fds' = _fds /\ reported' = reported /\ _revs' = _revs /\ file' = file
  BY <1>1 DEF start, array, epoll
<1>3. Hits' = Hits /\ \A i : At(i)' = At(i)
  BY <1>2, SameHits
<1>4. CASE todo = {}
  <2>1. 0 \in 0..(NUM + nfds + MaxEvents)
    BY Numbers
  <2>2. pc' = "wait" /\ pos' = 0
    BY <1>1, <1>4
  <2>3. Phased'
    BY <1>2, <2>1, <2>2 DEF Loop, Phased, Slots
  <2> QED
    BY <2>2, <2>3 DEF Loop, Promised, Recent
<1>5. CASE todo # {}
  <2>1. todo \subseteq Nat
    BY HitIs DEF Watching, Loop
  <2>2. next \in Hits /\ next >= pos
    <3>1. next \in todo
      BY <1>5, <2>1, LeastNumber
    <3> QED
      BY <3>1
  <2>3. pos' = next /\ pc' = IF At(next) = Listener THEN "accept" ELSE "recv"
    BY <1>1, <1>5
  <2> HIDE DEF todo, next
  <2>4. next \in 0..(NUM + nfds + MaxEvents) /\ next \in Nat /\ At(next) \in Fds \cup {Listener}
    <3>1. next \in Nat /\ next + 1 \in 0..(NUM + nfds + MaxEvents)
      BY <2>2, HitIs DEF Watching, Loop
    <3>2. At(next) \in Fds \cup {Listener}
      BY <2>2, HitIs DEF Watching, Loop
    <3>3. NUM \in Nat /\ nfds \in Nat /\ MaxEvents \in Nat
      BY Numbers
    <3> QED
      BY <3>1, <3>2, <3>3
  <2>5. pos' \in Hits' /\ At(pos)' = At(next)
    BY <1>2, <1>3, <2>2, <2>3 DEF At
  <2>6. pc' \in {"accept", "recv"} /\ (pc' = "accept" <=> At(next) = Listener)
    BY <2>3
  <2>7. Phased'
    BY <1>2, <2>3, <2>4, <2>5, <2>6 DEF Loop, Phased, Slots
  <2>8. pos \in Nat
    BY DEF Loop, Phased
  <2>9. Promised'
    <3>1. \A i \in Hits' : i >= pos' => i \in Hits /\ i >= pos
      <4> SUFFICES ASSUME NEW i \in Hits', i >= pos' PROVE i \in Hits /\ i >= pos
        OBVIOUS
      <4>1. i \in Hits /\ i \in Nat
        BY <1>3, HitIs DEF Watching, Loop
      <4> QED
        BY <2>2, <2>3, <2>4, <2>8, <4>1
    <3>2. \A i : Due(i) => Due(i)'
      BY <1>1, <1>3 DEF Due, Readable, Backlog, clients
    <3> QED
      BY <1>1, <3>1, <3>2, PromiseKept DEF Loop
  <2>10. Recent'
    <3>1. pos' = 0 => pos = 0
      BY <2>2, <2>3, <2>4, <2>8
    <3> QED
      BY <1>1, <1>2, <3>1 DEF Loop, Recent
  <2> QED
    BY <2>7, <2>9, <2>10 DEF Loop
<1> QED
  BY <1>4, <1>5

LEMMA AcceptFailsLoops ==
    ASSUME Tally, Watching, Loop, AcceptFails
    PROVE  Loop'
<1>1. /\ pc = "accept" /\ Handle(pos + 1)
      /\ UNCHANGED <<start, clients, link, rx, file, array, epoll, failed>>
  BY DEF AcceptFails
<1>2. UNCHANGED <<kind, _fds, reported, _revs>>
  BY <1>1 DEF start, array, epoll
<1>3. Phased' /\ Recent' /\ pos' = pos + 1 /\ pos \in Nat
  BY <1>1, <1>2, StepsOn DEF Watching, Loop
<1>4. Promised'
  <2>1. Hits' = Hits /\ \A i : Due(i) => Due(i)'
    BY <1>1, <1>2, SameHits DEF Due, Readable, Backlog, clients
  <2>2. \A i \in Hits : i >= pos' => i >= pos
    BY <1>3, HitIs DEF Watching, Loop
  <2> QED
    BY <1>1, <2>1, <2>2, PromiseKept DEF Loop
<1> QED
  BY <1>3, <1>4 DEF Loop

\* Handling the listening socket changes nothing of what else was reported.
LEMMA OthersDue ==
    ASSUME Tally, Watching, Loop, pc = "accept", pos' = pos + 1, ~failed,
           NEW i \in Hits, i >= pos', At(i)' = At(i), UNCHANGED <<rx, clients>>,
           \A fd \in Fds : file[fd] # None => file'[fd] = file[fd]
    PROVE  i >= pos /\ Due(i)'
<1>1. pos \in Hits /\ At(pos) = Listener /\ pos \in Nat /\ i \in Nat
  BY HitIs DEF Watching, Loop, Phased
<1>2. i >= pos /\ i # pos
  BY <1>1
<1>3. At(i) # Listener /\ At(i) \in Fds
  BY <1>1, <1>2, HitIs DEF Watching, Loop
<1>4. Due(i)
  BY <1>2 DEF Loop, Promised
<1>5. file'[At(i)] = file[At(i)]
  BY <1>3, <1>4 DEF Due
<1>6. Due(i)'
  BY <1>3, <1>4, <1>5, DueStays DEF Readable, clients
<1> QED
  BY <1>2, <1>6

LEMMA AccepterLoops ==
    ASSUME Tally, Watching, Loop, Accepter
    PROVE  Loop'
<1> DEFINE fd == Lowest(FreeFds)
           free == {i \in Slots \ {0} : _fds[i] = FD_NONE}
<1>1. PICK c \in Backlog :
        IF free = {} THEN CloseFull(c, fd) /\ UNCHANGED _fds
                     ELSE /\ _fds' = [_fds EXCEPT ![Lowest(free)] = fd]
                          /\ file' = [file EXCEPT ![fd] = c]
                          /\ link' = [link EXCEPT ![c] = "open"]
  BY DEF Accepter
<1>2. /\ kind # "epoll" /\ pc = "accept" /\ Handle(pos + 1)
      /\ UNCHANGED <<start, clients, rx, reported, epoll, failed>>
  BY DEF Accepter
<1>3. UNCHANGED <<kind, reported, _revs>>
  BY <1>2 DEF start, epoll
<1>4. Phased' /\ Recent' /\ pos' = pos + 1 /\ pos \in Hits
  BY <1>2, <1>3, StepsOn DEF Watching, Loop
<1>5. pos = 0
  BY <1>2, <1>4, HitIs DEF Watching, Loop, Phased
<1>6. fd \in Fds /\ file[fd] = None
  BY FreeIs DEF Accepter
<1>7. CASE free = {}
  <2>1. file' = file /\ _fds' = _fds
    BY <1>1, <1>7 DEF CloseFull
  <2>2. Hits' = Hits /\ \A i : At(i)' = At(i)
    BY <1>3, <2>1, SameHits
  <2>3. Promised'
    <3>1. ~failed => \A i \in Hits' : i >= pos' => i \in Hits /\ i >= pos /\ (Due(i) => Due(i)')
      BY <1>2, <1>4, <2>1, <2>2, OthersDue
    <3> QED
      BY <1>2, <3>1, PromiseKept DEF Loop
  <2> QED
    BY <1>4, <2>3 DEF Loop
<1>8. CASE free # {}
  <2> DEFINE j == Lowest(free)
  <2>1. _fds' = [_fds EXCEPT ![j] = fd] /\ file' = [file EXCEPT ![fd] = c]
    BY <1>1, <1>8
  <2>2. j \in Slots \ {0} /\ _fds[j] = FD_NONE
    <3>1. free \subseteq Nat
      BY SlotsAre
    <3>2. j \in free
      BY <1>8, <3>1, LeastNumber
    <3> QED
      BY <3>2
  <2> HIDE DEF fd, free, j
  <2>3. /\ \A i \in Slots : i # j => _fds'[i] = _fds[i]
        /\ _fds'[j] = fd
        /\ \A f \in Fds : file[f] # None => file'[f] = file[f]
    BY <1>6, <2>1, <2>2 DEF Watching, Arrayed, Linked
  <2>4. ~failed => j \notin Hits'
    \* What is reported was open, or not free, when the listening socket's turn came.
    <3> SUFFICES ASSUME ~failed PROVE j \notin Hits'
      OBVIOUS
    <3>1. CASE kind = "select"
      <4>1. fd \notin reported
        BY <1>2, <1>5, <1>6, <3>1 DEF Loop, Recent
      <4> QED
        BY <1>3, <2>3, <3>1, <4>1 DEF Hits, HitSelect
    <3>2. CASE kind = "poll"
      <4>1. j \notin reported
        BY <1>2, <1>5, <2>2, <3>2 DEF Loop, Recent
      <4> QED
        BY <1>3, <3>2, <4>1 DEF Hits, HitPoll
    <3> QED
      BY <1>2, <3>1, <3>2 DEF Tally
  <2>5. \A i \in Hits' : i # j => i \in Hits /\ At(i)' = At(i)
    <3> SUFFICES ASSUME NEW i \in Hits', i # j PROVE i \in Hits /\ At(i)' = At(i)
      OBVIOUS
    <3>1. CASE kind = "select"
      BY <1>3, <2>3, <3>1 DEF Hits, HitSelect, At, Slots
    <3>2. CASE kind = "poll"
      BY <1>3, <2>3, <3>2 DEF Hits, HitPoll, At, Slots
    <3> QED
      BY <1>2, <3>1, <3>2 DEF Tally
  <2>6. Promised'
    <3>1. ~failed => \A i \in Hits' : i >= pos' => i \in Hits /\ i >= pos /\ (Due(i) => Due(i)')
      BY <1>2, <1>4, <2>3, <2>4, <2>5, OthersDue
    <3> QED
      BY <1>2, <3>1, PromiseKept DEF Loop
  <2> QED
    BY <1>4, <2>6 DEF Loop
<1> QED
  BY <1>7, <1>8

LEMMA AccepterEpollLoops ==
    ASSUME Tally, Watching, Loop, AccepterEpoll
    PROVE  Loop'
<1> DEFINE fd == Lowest(FreeFds)
<1>1. PICK c \in Backlog : file' = [file EXCEPT ![fd] = c]
  BY DEF AccepterEpoll
<1>2. /\ kind = "epoll" /\ pc = "accept" /\ Handle(pos + 1)
      /\ UNCHANGED <<start, clients, rx, array, _revs, failed>>
  BY DEF AccepterEpoll
<1>3. UNCHANGED <<kind, _fds, reported, _revs>>
  BY <1>2 DEF start, array
<1>4. Phased' /\ Recent' /\ pos' = pos + 1
  BY <1>2, <1>3, StepsOn DEF Watching, Loop
<1>5. fd \in Fds /\ file[fd] = None
  BY FreeIs DEF AccepterEpoll
<1> HIDE DEF fd
<1>6. \A f \in Fds : file[f] # None => file'[f] = file[f]
  BY <1>1, <1>5 DEF Watching, Linked
<1>7. Hits' = Hits /\ \A i : At(i)' = At(i)
  BY <1>3, SameHits
<1>8. Promised'
  <2>1. ~failed => \A i \in Hits' : i >= pos' => i \in Hits /\ i >= pos /\ (Due(i) => Due(i)')
    BY <1>2, <1>4, <1>6, <1>7, OthersDue
  <2> QED
    BY <1>2, <2>1, PromiseKept DEF Loop
<1> QED
  BY <1>4, <1>8 DEF Loop

\* Serving one connection changes nothing of what was reported of the others.
LEMMA RestDue ==
    ASSUME Tally, Watching, Loop, pc = "recv", pos' = pos + 1, ~failed,
           NEW i \in Hits, i >= pos', At(i)' = At(i), UNCHANGED clients,
           \A c \in Clients : c # Here => rx'[c] = rx[c],
           \A fd \in Fds : fd # At(pos) => file'[fd] = file[fd],
           \A c \in Clients : link[c] = "backlog" => link'[c] = "backlog"
    PROVE  i >= pos /\ Due(i)'
<1>1. /\ pos \in Hits /\ pos \in Nat /\ i \in Nat /\ At(pos) \in Fds
      /\ Here = file[At(pos)] /\ Here \in Clients
  BY HereIs, HitIs DEF Watching, Loop
<1>2. i >= pos /\ i # pos
  BY <1>1
<1>3. At(i) # At(pos) /\ At(i) \in Fds \cup {Listener}
  BY <1>1, <1>2, HitIs DEF Watching, Loop
<1>4. Due(i)
  BY <1>2 DEF Loop, Promised
<1>5. CASE At(i) = Listener
  <2>1. Backlog # {} => Backlog' # {}
    BY DEF Backlog
  <2> QED
    BY <1>2, <1>4, <1>5, <2>1, DueStays
<1>6. CASE At(i) # Listener
  <2>1. At(i) \in Fds /\ file[At(i)] # None
    BY <1>3, <1>4, <1>6 DEF Due
  <2>2. file[At(i)] \in Clients /\ file[At(i)] # Here
    BY <1>1, <1>3, <2>1 DEF Watching, Linked
  <2>3. file'[At(i)] = file[At(i)] /\ rx'[file[At(i)]] = rx[file[At(i)]] /\ ended' = ended
    BY <1>3, <2>1, <2>2 DEF clients
  <2> QED
    BY <1>2, <1>4, <1>6, <2>3, DueStays DEF Readable
<1> QED
  BY <1>2, <1>5, <1>6

LEMMA RecvLoops ==
    ASSUME Tally, Watching, Loop, Recv
    PROVE  Loop'
<1>1. /\ pc = "recv" /\ rx' = [rx EXCEPT ![Here] = 0] /\ Handle(pos + 1)
      /\ UNCHANGED <<start, clients, link, file, array, epoll, failed>>
  BY DEF Recv
<1>2. UNCHANGED <<kind, _fds, reported, _revs>>
  BY <1>1 DEF start, array, epoll
<1>3. Phased' /\ Recent' /\ pos' = pos + 1
  BY <1>1, <1>2, StepsOn DEF Watching, Loop
<1>4. Hits' = Hits /\ \A i : At(i)' = At(i)
  BY <1>2, SameHits
<1>5. \A c \in Clients : c # Here => rx'[c] = rx[c]
  BY <1>1 DEF Tally
<1>6. Promised'
  <2>1. ~failed => \A i \in Hits' : i >= pos' => i \in Hits /\ i >= pos /\ (Due(i) => Due(i)')
    BY <1>1, <1>3, <1>4, <1>5, RestDue
  <2> QED
    BY <1>1, <2>1, PromiseKept DEF Loop
<1> QED
  BY <1>3, <1>6 DEF Loop

\* A close forgets one descriptor and one client.
LEMMA CloseIs ==
    ASSUME Tally, Watching, Loop, pc = "recv", CloseHere
    PROVE  /\ \A fd \in Fds : fd # At(pos) => file'[fd] = file[fd]
           /\ \A c \in Clients : link[c] = "backlog" => link'[c] = "backlog"
<1>1. At(pos) \in Fds /\ Here \in Clients /\ link[Here] # "backlog"
  BY HereIs DEF Loop, Open
<1>2. file' = [file EXCEPT ![At(pos)] = None] /\ link' = [link EXCEPT ![Here] = "closed"]
  BY DEF CloseHere
<1>3. file \in [Fds -> Clients \cup {None}] /\ DOMAIN link = Clients
  BY DEF Watching, Linked
<1> QED
  BY <1>1, <1>2, <1>3

LEMMA RecvEndsLoops ==
    ASSUME Tally, Watching, Loop, RecvEnds
    PROVE  Loop'
<1>1. /\ kind # "epoll" /\ pc = "recv" /\ CloseHere /\ _fds' = [_fds EXCEPT ![pos] = FD_NONE]
      /\ Handle(pos + 1) /\ UNCHANGED <<start, clients, rx, reported, epoll, failed>>
  BY DEF RecvEnds
<1>2. UNCHANGED <<kind, reported, _revs>>
  BY <1>1 DEF start, epoll
<1>3. Phased' /\ Recent' /\ pos' = pos + 1
  BY <1>1, <1>2, StepsOn DEF Watching, Loop
<1>4. pos \in Slots
  BY <1>1, HereIs DEF Loop
<1>5. \A i \in Slots : _fds'[i] = IF i = pos THEN FD_NONE ELSE _fds[i]
  BY <1>1 DEF Watching, Arrayed
<1>6. \A i \in Hits' : i \in Hits /\ At(i)' = At(i)
  <2> SUFFICES ASSUME NEW i \in Hits' PROVE i \in Hits /\ At(i)' = At(i)
    OBVIOUS
  <2>1. CASE kind = "select"
    BY <1>2, <1>5, <2>1 DEF Hits, HitSelect, At, Slots
  <2>2. CASE kind = "poll"
    BY <1>2, <1>5, <2>2 DEF Hits, HitPoll, At, Slots
  <2> QED
    BY <1>1, <2>1, <2>2 DEF Tally
<1>7. /\ \A fd \in Fds : fd # At(pos) => file'[fd] = file[fd]
      /\ \A c \in Clients : link[c] = "backlog" => link'[c] = "backlog"
  BY <1>1, CloseIs
<1>8. Promised'
  <2>1. ~failed => \A i \in Hits' : i >= pos' => i \in Hits /\ i >= pos /\ (Due(i) => Due(i)')
    BY <1>1, <1>3, <1>6, <1>7, RestDue
  <2> QED
    BY <1>1, <2>1, PromiseKept DEF Loop
<1> QED
  BY <1>3, <1>8 DEF Loop

LEMMA RecvEndsEpollLoops ==
    ASSUME Tally, Watching, Loop, RecvEndsEpoll
    PROVE  Loop'
<1>1. /\ kind = "epoll" /\ pc = "recv" /\ CloseHere /\ Handle(pos + 1)
      /\ UNCHANGED <<start, clients, rx, array, _revs, failed>>
  BY DEF RecvEndsEpoll
<1>2. UNCHANGED <<kind, _fds, reported, _revs>>
  BY <1>1 DEF start, array
<1>3. Phased' /\ Recent' /\ pos' = pos + 1
  BY <1>1, <1>2, StepsOn DEF Watching, Loop
<1>4. Hits' = Hits /\ \A i : At(i)' = At(i)
  BY <1>2, SameHits
<1>5. /\ \A fd \in Fds : fd # At(pos) => file'[fd] = file[fd]
      /\ \A c \in Clients : link[c] = "backlog" => link'[c] = "backlog"
  BY <1>1, CloseIs
<1>6. Promised'
  <2>1. ~failed => \A i \in Hits' : i >= pos' => i \in Hits /\ i >= pos /\ (Due(i) => Due(i)')
    BY <1>1, <1>3, <1>4, <1>5, RestDue
  <2> QED
    BY <1>1, <2>1, PromiseKept DEF Loop
<1> QED
  BY <1>3, <1>6 DEF Loop

LEMMA LoopNext == Tally /\ Watching /\ Loop /\ [Next]_vars => Loop'
<1> SUFFICES ASSUME Tally, Watching, Loop, [Next]_vars PROVE Loop'
  OBVIOUS
<1>1. CASE UNCHANGED vars
  <2>1. Hits' = Hits /\ UNCHANGED <<start, link, rx, clients, file, array, epoll, loop, failed>>
    BY <1>1, SameHits DEF vars, start, array, epoll
  <2>2. Phased'
    BY <2>1 DEF Loop, Phased, Slots, At, start, array, epoll, loop
  <2>3. Promised'
    BY <2>1 DEF Loop, Promised, Due, At, Readable, Backlog, start, array, epoll, loop, clients
  <2>4. Recent'
    BY <2>1 DEF Loop, Recent, start, array, loop
  <2> QED
    BY <2>2, <2>3, <2>4 DEF Loop
<1>2. CASE Server
  BY <1>2, SelectLoops, PollLoops, WaitEpollLoops, HandlerLoops, AcceptFailsLoops,
     AccepterLoops, AccepterEpollLoops, RecvLoops, RecvEndsLoops, RecvEndsEpollLoops DEF Server
<1>3. CASE SelectFails \/ PollFails
  BY <1>3, FailsLoops
<1>4. CASE \E c \in Clients : Peer(c)
  BY <1>4, PeerLoops
<1> QED
  BY <1>1, <1>2, <1>3, <1>4 DEF Next

(***************************************************************************)
(* The theorems.                                                            *)
(***************************************************************************)
LEMMA InvariantInit == Init => Invariant
<1> SUFFICES ASSUME Init PROVE Invariant
  OBVIOUS
<1>1. Tally
  <2>1. /\ written = [c \in Clients |-> 0] /\ rx = [c \in Clients |-> 0]
        /\ ended = [c \in Clients |-> FALSE] /\ failed = FALSE
        /\ kind \in {"select", "poll", "epoll"} /\ limit \in Limits
    BY DEF Init
  <2>2. 0 \in 0..MaxWrites /\ 0 \in Nat /\ 0 <= 0
    BY Numbers
  <2>3. written \in [Clients -> 0..MaxWrites] /\ rx \in [Clients -> Nat]
    BY <2>1, <2>2
  <2>4. \A c \in Clients : rx[c] <= written[c]
    BY <2>1, <2>2
  <2>5. ended \in [Clients -> BOOLEAN] /\ failed \in BOOLEAN /\ ~failed
    BY <2>1
  <2> QED
    BY <2>1, <2>3, <2>4, <2>5 DEF Tally
<1>2. Linked
  BY Numbers DEF Init, Linked, Open
<1>3. Arrayed
  <2>1. _fds = [i \in Slots |-> IF i = 0 THEN Listener ELSE FD_NONE]
    BY DEF Init
  <2>2. \A i \in Slots : _fds[i] = Listener <=> i = 0
    BY <2>1, Numbers
  <2>3. \A fd \in Fds : file[fd] = None
    BY DEF Init
  <2> QED
    BY <2>1, <2>2, <2>3, SlotsAre, Numbers DEF Arrayed
<1>4. Registered
  <2>1. interest = {Listener} /\ rdlist = <<>> /\ \A fd \in Fds : file[fd] = None
    BY DEF Init
  <2>2. rdlist \in Seq(interest) /\ Len(rdlist) = 0
    BY <2>1, EmptySeq
  <2> QED
    BY <2>1, <2>2 DEF Registered, Distinct
<1>5. Phased /\ Promised /\ Recent
  <2>1. /\ reported = {} /\ _revs = <<>> /\ pc = "wait" /\ pos = 0
    BY DEF Init
  <2>2. _revs \in Seq(Fds \cup {Listener}) /\ Len(_revs) = 0
    BY <2>1, EmptySeq
  <2>3. 0 \in 0..(NUM + nfds + MaxEvents) /\ 0 <= MaxEvents
    BY Numbers
  <2>4. Phased
    BY <2>1, <2>2, <2>3 DEF Phased, Distinct
  <2> QED
    BY <2>1, <2>4 DEF Promised, Recent
<1> QED
  BY <1>1, <1>2, <1>3, <1>4, <1>5 DEF Invariant, Watching

LEMMA InvariantHolds == SafeSpec => []Invariant
<1>1. Invariant /\ [Next]_vars => Invariant'
  <2> SUFFICES ASSUME Invariant, [Next]_vars PROVE Invariant'
    OBVIOUS
  <2>1. Tally /\ Watching /\ Loop /\ Phased /\ Promised
    BY DEF Invariant, Loop
  <2>2. Tally' /\ Watching' /\ Loop'
    BY <2>1, TallyNext, WatchingNext, LoopNext
  <2> QED
    BY <2>2 DEF Invariant, Loop
<1> QED
  BY <1>1, InvariantInit, PTL DEF SafeSpec

\* The state of the servers keeps its type: what epoll_wait reports fits into _revs,
\* the index of the loop stays in its bounds, and no more is unread than was sent.
THEOREM TypeCorrect == SafeSpec => []TypeOK
<1>1. Invariant => TypeOK
  <2> SUFFICES ASSUME Invariant PROVE TypeOK
    OBVIOUS
  <2>1. \A c \in Clients : rx[c] \in 0..written[c]
    BY DEF Invariant, Tally
  <2>2. rdlist \in Seq(Fds \cup {Listener})
    BY SeqMonotonic DEF Invariant, Watching, Registered
  <2>3. Tally /\ Linked /\ Arrayed /\ Registered /\ Phased
    BY DEF Invariant, Watching
  <2> QED
    BY <2>1, <2>2, <2>3 DEF TypeOK, Tally, Linked, Arrayed, Registered, Phased
<1> QED
  BY <1>1, InvariantHolds, PTL

\* HandlerEvent calls accept and recv only where they return: however slots and
\* descriptors are freed and reused inside one round, nothing that select, poll or
\* epoll_wait reported is stale when its turn comes.
THEOREM NothingBlocks == SafeSpec => []NeverBlocks
<1>1. Invariant => NeverBlocks
  <2> SUFFICES ASSUME Invariant, ~failed PROVE /\ pc = "accept" => Backlog # {}
                                               /\ pc = "recv" => Here # None /\ Readable(Here)
    BY DEF NeverBlocks
  <2>1. Tally /\ Watching /\ Phased /\ Promised
    BY DEF Invariant
  <2>2. ASSUME pc \in {"accept", "recv"} PROVE Due(pos) /\ pos \in Hits
    <3>1. pos \in Hits /\ pos \in Nat /\ pc # "wait"
      BY <2>1, <2>2, HitIs DEF Phased, Watching
    <3>2. pos >= pos
      BY <3>1
    <3> QED
      BY <2>1, <3>1, <3>2 DEF Promised
  <2>3. pc = "accept" => At(pos) = Listener
    BY <2>1 DEF Phased
  <2>4. pc = "recv" => At(pos) # Listener
    BY <2>1, Numbers DEF Phased
  <2> QED
    BY <2>2, <2>3, <2>4 DEF Due, Here
<1> QED
  BY <1>1, InvariantHolds, PTL

\* Accepter and Recver keep the array, or the epoll, and the open sockets in step: none
\* is forgotten, none watched twice, and none but a socket that EPOLL_CTL_ADD refused
\* is left open without a watcher.
THEOREM NobodyIsForgotten == SafeSpec => []NoneForgotten
<1>1. Invariant => NoneForgotten
  <2> SUFFICES ASSUME Invariant PROVE NoneForgotten
    OBVIOUS
  <2>1. Tally /\ Linked /\ Arrayed /\ Registered
    BY DEF Invariant, Watching
  <2>2. ASSUME NEW fd \in Fds, file[fd] # None
        PROVE  IF kind = "epoll" THEN fd \in interest <=> link[file[fd]] = "open"
                                 ELSE Cardinality({i \in Slots : _fds[i] = fd}) = 1
    <3>1. CASE kind = "epoll"
      BY <2>1, <2>2, <3>1, Numbers DEF Registered
    <3>2. CASE kind # "epoll"
      <4>1. PICK i \in Slots : _fds[i] = fd
        BY <2>1, <2>2, <3>2 DEF Arrayed
      <4>2. \A j \in Slots : _fds[j] = fd => j = i
        BY <2>1, <3>2, <4>1, Numbers DEF Arrayed
      <4>3. {j \in Slots : _fds[j] = fd} = {i}
        BY <4>1, <4>2
      <4> QED
        BY <3>2, <4>3, FS_Singleton
    <3> QED
      BY <3>1, <3>2
  <2>3. ASSUME NEW fd \in (IF kind = "epoll" THEN interest ELSE Watched) \ {Listener}
        PROVE  file[fd] # None /\ link[file[fd]] = "open"
    <3>1. CASE kind = "epoll"
      BY <2>1, <2>3, <3>1 DEF Registered
    <3>2. CASE kind # "epoll"
      <4>1. PICK i \in Slots : _fds[i] = fd /\ fd # FD_NONE /\ fd # Listener
        BY <2>3, <3>2 DEF Watched
      <4>2. fd \in Fds /\ file[fd] # None
        BY <2>1, <3>2, <4>1 DEF Arrayed
      <4>3. file[fd] \in Clients /\ Open(file[fd])
        BY <2>1, <4>2 DEF Linked
      <4> QED
        BY <2>1, <3>2, <4>2, <4>3 DEF Linked, Open
    <3> QED
      BY <3>1, <3>2
  <2>4. ASSUME NEW c \in Clients, link[c] \in {"open", "leaked"}
        PROVE  Cardinality({fd \in Fds : file[fd] = c}) = 1
    <3>1. PICK fd \in Fds : file[fd] = c
      BY <2>1, <2>4 DEF Linked, Open
    <3>2. \A f \in Fds : file[f] = c => f = fd
      BY <2>1, <3>1, Numbers DEF Linked
    <3>3. {f \in Fds : file[f] = c} = {fd}
      BY <3>1, <3>2
    <3> QED
      BY <3>3, FS_Singleton
  <2> QED
    BY <2>2, <2>3, <2>4 DEF NoneForgotten
<1> QED
  BY <1>1, InvariantHolds, PTL

(***************************************************************************)
(* Rest. Level-triggered: a registered descriptor that is ready is always   *)
(* in epoll's ready list, whatever was reported before.                     *)
(***************************************************************************)
Listed == kind = "epoll" => \A fd \in interest : fd \in ReadyFds => InSeq(fd, rdlist)

LEMMA AppendHolds ==
    ASSUME NEW S, NEW s \in Seq(S), NEW x
    PROVE  InSeq(x, Append(s, x)) /\ \A y : InSeq(y, s) => InSeq(y, Append(s, x))
<1> DEFINE t == Append(s, x)
           T == S \cup {x}
<1>1. s \in Seq(T) /\ x \in T
  BY SeqMonotonic
<1>2. /\ Len(t) = Len(s) + 1 /\ Len(s) \in Nat
      /\ t[Len(s) + 1] = x /\ \A i \in 1..Len(s) : t[i] = s[i]
  BY <1>1, AppendProperties, LenProperties
<1> HIDE DEF t, T
<1>3. Len(t) \in 1..Len(t) /\ \A i \in 1..Len(s) : i \in 1..Len(t)
  BY <1>2
<1>4. InSeq(x, t)
  BY <1>2, <1>3 DEF InSeq
<1>5. \A y : InSeq(y, s) => InSeq(y, t)
  BY <1>2, <1>3 DEF InSeq
<1> QED
  BY <1>4, <1>5 DEF t

\* What is in the list and in S is found at the places of S.
LEMMA PartHolds ==
    ASSUME NEW S, NEW T, rdlist \in Seq(T), NEW at \in Places(S), NEW x \in S, InSeq(x, rdlist)
    PROVE  InSeq(x, Part(at))
<1> DEFINE places == {i \in 1..Len(rdlist) : rdlist[i] \in S}
           m == Cardinality(places)
           p == Part(at)
<1>1. Len(rdlist) \in Nat /\ \A i \in 1..Len(rdlist) : rdlist[i] \in T
  BY LenProperties, ElementOfSeq
<1>2. PICK k \in places : rdlist[k] = x
  BY DEF InSeq
<1>3. /\ m \in Nat /\ at \in [1..m -> places]
      /\ \E i \in 1..m : at[i] = k
  <2>1. places \subseteq 1..Len(rdlist) /\ places \subseteq Nat
    BY <1>1
  <2>2. IsFiniteSet(1..Len(rdlist))
    BY <1>1, FS_Interval
  <2>3. at \in Ascending(places) /\ k \in places
    BY <1>2 DEF Places
  <2> HIDE DEF places
  <2>4. IsFiniteSet(places)
    BY <2>1, <2>2, FS_Subset
  <2>5. /\ m \in Nat /\ at \in [1..m -> places]
        /\ \A q \in places : \E i \in 1..m : at[i] = q
    BY <2>1, <2>3, <2>4, AscendingIsOnto
  <2> QED
    BY <2>3, <2>5
<1> HIDE DEF m
<1>4. \A i \in 1..m : rdlist[at[i]] \in T
  BY <1>1, <1>3
<1> HIDE DEF places
<1>5. p = [i \in 1..m |-> rdlist[at[i]]]
  BY <1>3 DEF Part
<1> HIDE DEF p
<1>6. p \in [1..m -> T]
  BY <1>4, <1>5
<1>7. p \in Seq(T)
  BY <1>3, <1>6, SeqDef
<1>8. 1..Len(p) = 1..m
  BY <1>6, <1>7, LenProperties
<1>9. PICK i \in 1..m : at[i] = k
  BY <1>3
<1>10. p[i] = x /\ i \in 1..Len(p)
  BY <1>2, <1>5, <1>8, <1>9
<1>11. InSeq(x, p)
  BY <1>10 DEF InSeq
<1> QED
  BY <1>11 DEF p

\* Moving the beginning of a list to its end loses nothing.
LEMMA RotateHolds ==
    ASSUME NEW T, NEW s \in Seq(T), NEW n \in 0..Len(s), NEW x, InSeq(x, s)
    PROVE  InSeq(x, SubSeq(s, n + 1, Len(s)) \o SubSeq(s, 1, n))
<1> DEFINE L == Len(s)
           a == SubSeq(s, 1, n)
           b == SubSeq(s, n + 1, L)
           r == b \o a
<1>1. L \in Nat /\ n \in Nat /\ n <= L /\ \A i \in 1..L : s[i] \in T
  BY LenProperties, ElementOfSeq
<1>0. PICK k \in 1..L : s[k] = x
  BY DEF InSeq
<1> HIDE DEF L
<1>3. a \in Seq(T) /\ Len(a) = n /\ \A i \in 1..n : a[i] = s[i]
  <2>1. \A i \in 1..n : s[i] \in T
    BY <1>1
  <2>2. /\ a \in Seq(T) /\ Len(a) = IF 1 <= n THEN n - 1 + 1 ELSE 0
        /\ \A i \in 1..(n - 1 + 1) : a[i] = s[1 + i - 1]
    BY <1>1, <2>1, SubSeqProperties
  <2> HIDE DEF a
  <2> QED
    BY <1>1, <2>2
<1>4. b \in Seq(T) /\ Len(b) = L - n /\ \A i \in 1..(L - n) : b[i] = s[i + n]
  <2>1. \A i \in (n + 1)..L : s[i] \in T
    BY <1>1
  <2>2. /\ b \in Seq(T) /\ Len(b) = IF n + 1 <= L THEN L - (n + 1) + 1 ELSE 0
        /\ \A i \in 1..(L - (n + 1) + 1) : b[i] = s[(n + 1) + i - 1]
    BY <1>1, <2>1, SubSeqProperties
  <2> HIDE DEF b
  <2>3. (IF n + 1 <= L THEN L - (n + 1) + 1 ELSE 0) = L - n /\ L - (n + 1) + 1 = L - n
    BY <1>1
  <2>4. ASSUME NEW i \in 1..(L - n) PROVE b[i] = s[i + n]
    <3>1. b[i] = s[(n + 1) + i - 1]
      BY <2>2, <2>3
    <3>2. (n + 1) + i - 1 = i + n
      BY <1>1
    <3> QED
      BY <3>1, <3>2
  <2> QED
    BY <2>2, <2>3, <2>4
<1> HIDE DEF a, b
<1>5. /\ Len(r) = Len(b) + Len(a)
      /\ \A i \in 1..(Len(b) + Len(a)) : r[i] = IF i <= Len(b) THEN b[i] ELSE a[i - Len(b)]
  BY <1>3, <1>4, ConcatProperties
<1> HIDE DEF r
<1>6. Len(r) = L /\ \A i \in 1..L : r[i] = IF i <= L - n THEN s[i + n] ELSE s[i - (L - n)]
  <2>1. Len(b) = L - n /\ Len(a) = n /\ Len(b) + Len(a) = L
    BY <1>1, <1>3, <1>4
  <2>2. Len(r) = L
    BY <1>5, <2>1
  <2>3. ASSUME NEW i \in 1..L, i <= L - n PROVE r[i] = s[i + n]
    <3>1. r[i] = b[i] /\ i \in 1..(L - n)
      BY <1>1, <1>5, <2>1, <2>3
    <3> QED
      BY <1>4, <3>1
  <2>4. ASSUME NEW i \in 1..L, ~(i <= L - n) PROVE r[i] = s[i - (L - n)]
    <3>1. r[i] = a[i - (L - n)] /\ i - (L - n) \in 1..n
      BY <1>1, <1>5, <2>1, <2>4
    <3> QED
      BY <1>3, <3>1
  <2> QED
    BY <2>2, <2>3, <2>4
<1> DEFINE to == IF k <= n THEN k + (L - n) ELSE k - n
<1>7. /\ to \in 1..L
      /\ (IF to <= L - n THEN to + n ELSE to - (L - n)) = k
  BY <1>0, <1>1
<1> HIDE DEF to
<1>8. r[to] = x
  BY <1>0, <1>6, <1>7
<1>9. to \in 1..Len(r)
  BY <1>6, <1>7
<1>10. InSeq(x, r)
  BY <1>8, <1>9 DEF InSeq
<1> QED
  BY <1>10 DEF r, a, b, L

\* A step that keeps what is listed, and lists what becomes ready.
LEMMA ListedMoves ==
    ASSUME Listed, kind' = kind,
           \A fd \in interest' : fd \in ReadyFds' =>
              \/ InSeq(fd, rdlist')
              \/ fd \in interest /\ fd \in ReadyFds /\ (InSeq(fd, rdlist) => InSeq(fd, rdlist'))
    PROVE  Listed'
BY DEF Listed

LEMMA ArriveLists ==
    ASSUME Registered, NEW fd, Arrive(fd)
    PROVE  /\ fd \in interest => InSeq(fd, rdlist')
           /\ \A x : InSeq(x, rdlist) => InSeq(x, rdlist')
<1>1. CASE fd \in interest /\ ~InSeq(fd, rdlist)
  <2>1. rdlist' = Append(rdlist, fd)
    BY <1>1 DEF Arrive
  <2> QED
    BY <1>1, <2>1, AppendHolds DEF Registered
<1>2. CASE ~(fd \in interest /\ ~InSeq(fd, rdlist))
  <2>1. rdlist' = rdlist
    BY <1>2 DEF Arrive
  <2> QED
    BY <1>2, <2>1
<1> QED
  BY <1>1, <1>2

\* Nothing becomes ready that was not, and the list stays.
LEMMA LessReady ==
    ASSUME Listed, UNCHANGED <<kind, file, interest, rdlist>>,
           \A c \in Clients : link'[c] = "backlog" => link[c] = "backlog",
           \A c \in Clients : Readable(c)' => Readable(c),
           file \in [Fds -> Clients \cup {None}]
    PROVE  Listed'
<1>1. Backlog' \subseteq Backlog
  BY DEF Backlog
<1>2. \A fd \in Fds : file[fd] # None => file[fd] \in Clients
  OBVIOUS
<1>3. \A fd \in Fds : file[fd] # None /\ (rx'[file[fd]] > 0 \/ ended'[file[fd]]) =>
                        Readable(file[fd])
  BY <1>2 DEF Readable
<1>4. ReadyFds' \subseteq ReadyFds
  BY <1>1, <1>3 DEF ReadyFds, Readable
<1> QED
  BY <1>4, ListedMoves

LEMMA ConnectLists ==
    ASSUME Watching, Listed, NEW c \in Clients, Connect(c)
    PROVE  Listed'
<1>1. Arrive(Listener) /\ UNCHANGED <<kind, file, rx, ended, interest>> /\ Registered
  BY DEF Connect, start, clients, Watching
<1>2. InSeq(Listener, rdlist') /\ \A x : InSeq(x, rdlist) => InSeq(x, rdlist')
  BY <1>1, ArriveLists DEF Registered
<1>3. ReadyFds' \subseteq ReadyFds \cup {Listener}
  BY <1>1 DEF ReadyFds, Readable
<1> QED
  BY <1>1, <1>2, <1>3, ListedMoves

LEMMA ArrivalLists ==
    ASSUME Tally, Watching, Listed, NEW c \in Clients, Write(c) \/ End(c)
    PROVE  Listed'
<1>1. /\ ArriveAt(c) /\ UNCHANGED <<kind, file, link, interest>> /\ Registered /\ Linked
      /\ link[c] \in {"backlog", "open"}
      /\ \A d \in Clients : d # c => rx'[d] = rx[d] /\ ended'[d] = ended[d]
  BY DEF Write, End, start, clients, Watching, Tally
<1>2. \A fd \in Fds : file[fd] # None => file[fd] \in Clients
  BY <1>1 DEF Linked
<1>3. Backlog' = Backlog
  BY <1>1 DEF Backlog
<1>4. \A fd \in ReadyFds' : fd \in ReadyFds \/ (fd \in Fds /\ file[fd] = c)
  BY <1>1, <1>2, <1>3 DEF ReadyFds, Readable
<1>5. CASE link[c] = "open"
  <2>1. Arrive(FdOf(c))
    BY <1>1, <1>5 DEF ArriveAt
  <2>2. \A fd \in Fds : file[fd] = c => fd = FdOf(c)
    <3> SUFFICES ASSUME NEW fd \in Fds, file[fd] = c PROVE fd = FdOf(c)
      OBVIOUS
    <3>1. \A f \in Fds : file[f] = c => f = fd
      BY <1>1, Numbers DEF Linked
    <3> QED
      BY <3>1 DEF FdOf
  <2>3. /\ \A fd \in interest : fd = FdOf(c) => InSeq(fd, rdlist')
        /\ \A x : InSeq(x, rdlist) => InSeq(x, rdlist')
    BY <1>1, <2>1, ArriveLists
  <2> QED
    BY <1>1, <1>4, <2>2, <2>3, ListedMoves
<1>6. CASE link[c] # "open"
  <2>1. rdlist' = rdlist
    BY <1>1, <1>6 DEF ArriveAt
  <2>2. \A fd \in Fds : file[fd] # c
    BY <1>1, <1>6, Numbers DEF Linked, Open
  <2> QED
    BY <1>1, <1>4, <2>1, <2>2, ListedMoves
<1> QED
  BY <1>5, <1>6

LEMMA WaitEpollLists ==
    ASSUME Watching, Listed, WaitEpoll
    PROVE  Listed'
<1>1. UNCHANGED <<kind, file, link, rx, ended, interest>> /\ Registered
  BY DEF WaitEpoll, start, clients, Watching
<1>2. ReadyFds' = ReadyFds
  BY <1>1 DEF ReadyFds, Readable, Backlog
<1>3. PICK at \in Places(ReadyFds) :
        rdlist' = SubSeq(Part(at), Taken(Part(at)) + 1, Len(Part(at)))
                    \o SubSeq(Part(at), 1, Taken(Part(at)))
  BY DEF WaitEpoll
<1> DEFINE now == Part(at)
           n == Taken(now)
<1>4. now \in Seq(interest \cap ReadyFds)
      /\ \A x \in ReadyFds : InSeq(x, rdlist) => InSeq(x, now)
  BY <1>1, PartIs, PartHolds DEF Registered
<1>5. rdlist' = SubSeq(now, n + 1, Len(now)) \o SubSeq(now, 1, n) /\ n = Taken(now)
  BY <1>3
<1> HIDE DEF now, n
<1>6. n \in 0..Len(now)
  <2>1. Len(now) \in Nat /\ MaxEvents \in Nat
    BY <1>4, Numbers, LenProperties
  <2> QED
    BY <1>5, <2>1 DEF Taken, Smaller
<1>7. \A x : InSeq(x, now) => InSeq(x, rdlist')
  BY <1>4, <1>5, <1>6, RotateHolds
<1> QED
  BY <1>1, <1>2, <1>4, <1>7, ListedMoves

LEMMA AccepterEpollLists ==
    ASSUME Tally, Watching, Listed, AccepterEpoll
    PROVE  Listed'
<1> DEFINE fd == Lowest(FreeFds)
<1>1. PICK c \in Backlog : file' = [file EXCEPT ![fd] = c] /\ AddToEpoll(c, fd)
  BY DEF AccepterEpoll
<1>2. kind' = kind /\ UNCHANGED <<rx, ended>> /\ Linked /\ Registered
  BY DEF AccepterEpoll, start, clients, Watching
<1>3. fd \in Fds /\ file[fd] = None
  BY FreeIs DEF AccepterEpoll
<1> HIDE DEF fd
<1>4. fd \notin interest
  BY <1>3, Numbers DEF Watching, Registered
<1>5. \A f \in Fds : f # fd => file'[f] = file[f]
  BY <1>1, <1>2 DEF Linked
<1>6. c \in Clients /\ \A d \in Clients : link'[d] = "backlog" => link[d] = "backlog"
  BY <1>1, <1>2 DEF AddToEpoll, Linked, Backlog
<1>7. Backlog' \subseteq Backlog
  BY <1>6 DEF Backlog
<1>8. \A f \in ReadyFds' : f \in ReadyFds \/ f = fd
  BY <1>2, <1>5, <1>7 DEF ReadyFds, Readable
<1>9. fd # Listener /\ (fd \in ReadyFds' => Readable(c))
  <2>1. fd # Listener /\ file'[fd] = c
    BY <1>1, <1>2, <1>3, Numbers DEF Linked
  <2> QED
    BY <1>2, <2>1 DEF ReadyFds, Readable
<1>10. CASE /\ interest' = interest \cup {fd}
            /\ rdlist' = IF Readable(c) THEN Append(rdlist, fd) ELSE rdlist
  <2>1. Readable(c) => InSeq(fd, rdlist')
    BY <1>2, <1>10, AppendHolds DEF Registered
  <2>2. \A x : InSeq(x, rdlist) => InSeq(x, rdlist')
    BY <1>2, <1>10, AppendHolds DEF Registered
  <2> QED
    BY <1>2, <1>8, <1>9, <1>10, <2>1, <2>2, ListedMoves
<1>11. CASE UNCHANGED <<interest, rdlist>>
  BY <1>2, <1>4, <1>8, <1>11, ListedMoves
<1> QED
  BY <1>1, <1>10, <1>11 DEF AddToEpoll

LEMMA RecvEndsEpollLists ==
    ASSUME Tally, Watching, Phased, Promised, Listed, RecvEndsEpoll
    PROVE  Listed'
<1>1. kind' = kind /\ pc = "recv" /\ UNCHANGED <<rx, ended>> /\ Linked /\ Registered
  BY DEF RecvEndsEpoll, start, clients, Watching
<1> DEFINE fd == At(pos)
           c == file[fd]
<1>2. fd \in Fds /\ Here = c /\ c \in Clients
  BY <1>1, HereIs
<1>3. /\ file' = [file EXCEPT ![fd] = None] /\ link' = [link EXCEPT ![c] = "closed"]
      /\ interest' = interest \ {fd}
      /\ \E at \in Places(interest \ {fd}) : rdlist' = Part(at)
  BY <1>2 DEF RecvEndsEpoll, CloseHere
<1> HIDE DEF fd, c
<1>4. \A x \in interest' : InSeq(x, rdlist) => InSeq(x, rdlist')
  <2>1. PICK at \in Places(interest \ {fd}) : rdlist' = Part(at)
    BY <1>3
  <2> QED
    BY <1>1, <1>3, <2>1, PartHolds DEF Registered
<1>5. Backlog' \subseteq Backlog
  BY <1>1, <1>3 DEF Backlog, Linked
<1>6. \A f \in Fds : file'[f] # None => file'[f] = file[f]
  BY <1>1, <1>2, <1>3 DEF Linked
<1>7. ReadyFds' \subseteq ReadyFds
  BY <1>1, <1>5, <1>6 DEF ReadyFds, Readable
<1> QED
  BY <1>1, <1>3, <1>4, <1>7, ListedMoves

LEMMA ListedNext == Invariant /\ Listed /\ [Next]_vars => Listed'
<1> SUFFICES ASSUME Invariant, Listed, [Next]_vars PROVE Listed'
  OBVIOUS
<1>0. Tally /\ Watching /\ Phased /\ Promised /\ Linked /\ file \in [Fds -> Clients \cup {None}]
  BY DEF Invariant, Watching, Linked
<1>1. CASE kind # "epoll"
  <2>1. kind' = kind
    BY DEF Next, Server, Peer, Select, Poll, WaitEpoll, HandlerEvent, AcceptFails, Accepter,
           AccepterEpoll, Recv, RecvEnds, RecvEndsEpoll, SelectFails, PollFails, Connect, Write,
           End, vars, start
  <2> QED
    BY <1>1, <2>1 DEF Listed
<1>2. CASE HandlerEvent \/ AcceptFails \/ UNCHANGED vars
  <2>1. UNCHANGED <<kind, file, link, rx, ended, interest, rdlist>>
    BY <1>2 DEF HandlerEvent, AcceptFails, vars, start, clients, epoll
  <2> QED
    BY <1>0, <2>1, LessReady DEF Readable
<1>3. CASE Recv
  <2>1. UNCHANGED <<kind, file, link, ended, interest, rdlist>> /\ rx' = [rx EXCEPT ![Here] = 0]
        /\ rx[Here] > 0
    BY <1>3 DEF Recv, start, clients, epoll
  <2>2. \A d \in Clients : Readable(d)' => Readable(d)
    BY <1>0, <2>1 DEF Readable, Tally
  <2> QED
    BY <1>0, <2>1, <2>2, LessReady
<1>4. CASE WaitEpoll \/ AccepterEpoll \/ RecvEndsEpoll
  BY <1>0, <1>4, WaitEpollLists, AccepterEpollLists, RecvEndsEpollLists
<1>5. CASE \E c \in Clients : Peer(c)
  BY <1>0, <1>5, ConnectLists, ArrivalLists DEF Peer
<1>6. CASE kind = "epoll"
  <2>1. ~(Select \/ Poll \/ Accepter \/ RecvEnds \/ SelectFails \/ PollFails)
    BY <1>6 DEF Select, Poll, Accepter, RecvEnds, SelectFails, PollFails
  <2> QED
    BY <1>2, <1>3, <1>4, <1>5, <2>1 DEF Next, Server
<1> QED
  BY <1>1, <1>6

\* The servers rest only where there is nothing to do: what select, poll or epoll_wait
\* is not told of, or has handed out before, is never forgotten. No client is left in
\* the backlog, unread, or hung up and not closed, while the server sleeps or blocks.
THEOREM ServerRestsDone == SafeSpec => []RestIsDone
<1>1. Invariant /\ Listed => RestIsDone
  <2> SUFFICES ASSUME Invariant, Listed, Resting, ~failed
               PROVE  \A c \in Clients : link[c] # "backlog" /\ (link[c] = "open" => ~Readable(c))
    BY DEF RestIsDone
  <2>0. Tally /\ Linked /\ Arrayed /\ Registered /\ Phased /\ Promised /\ Watching
    BY DEF Invariant, Watching
  <2>1. ASSUME pc \in {"accept", "recv"} PROVE Due(pos) /\ pos \in Hits
    <3>1. pos \in Hits /\ pos \in Nat /\ pc # "wait"
      BY <2>0, <2>1, HitIs DEF Phased
    <3>2. pos >= pos
      BY <3>1
    <3> QED
      BY <2>0, <3>1, <3>2 DEF Promised
  <2>2. ~(pc = "accept" /\ Backlog = {})
    BY <2>0, <2>1 DEF Due, Phased
  <2>3. ~(pc = "recv" /\ ~Readable(Here))
    <3>1. pc = "recv" => At(pos) # Listener
      BY <2>0, Numbers DEF Phased
    <3> QED
      BY <2>1, <3>1 DEF Due, Here
  <2>4. Unreported
    BY <2>2, <2>3 DEF Resting
  <2>5. Listener \notin ReadyFds
    <3>1. CASE kind = "epoll"
      BY <2>0, <2>4, <3>1 DEF Unreported, Listed, Registered, InSeq
    <3>2. CASE kind # "epoll"
      <4>1. 0 \in Slots /\ _fds[0] = Listener /\ Listener # FD_NONE
        BY <2>0, <3>2, SlotsAre, Numbers DEF Arrayed
      <4>2. Listener \in Watched
        BY <4>1 DEF Watched
      <4> QED
        BY <2>4, <3>2, <4>2 DEF Unreported
    <3> QED
      BY <3>1, <3>2
  <2>6. Backlog = {}
    BY <2>5 DEF ReadyFds
  <2>7. ASSUME NEW c \in Clients, link[c] = "open", Readable(c) PROVE FALSE
    <3>1. PICK fd \in Fds : file[fd] = c
      BY <2>0, <2>7 DEF Linked, Open
    <3>2. fd \in ReadyFds /\ file[fd] # None
      BY <2>7, <3>1, Numbers DEF ReadyFds
    <3>3. CASE kind = "epoll"
      <4>1. fd \in interest
        BY <2>0, <2>7, <3>1, <3>2, <3>3 DEF Registered
      <4> QED
        BY <2>4, <3>2, <3>3, <4>1 DEF Unreported, Listed, InSeq
    <3>4. CASE kind # "epoll"
      <4>1. PICK i \in Slots : _fds[i] = fd
        BY <2>0, <3>2, <3>4 DEF Arrayed
      <4>2. fd \in Watched
        BY <4>1, Numbers DEF Watched
      <4> QED
        BY <2>4, <3>2, <3>4, <4>2 DEF Unreported
    <3> QED
      BY <3>3, <3>4
  <2> QED
    BY <2>6, <2>7 DEF Backlog
<1>2. Init => Listed
  <2> SUFFICES ASSUME Init PROVE Listed
    OBVIOUS
  <2>1. Backlog = {} /\ \A fd \in Fds : file[fd] = None
    BY DEF Init, Backlog
  <2>2. ReadyFds = {}
    BY <2>1 DEF ReadyFds
  <2> QED
    BY <2>2 DEF Listed
<1> QED
  BY <1>1, <1>2, ListedNext, InvariantHolds, PTL DEF SafeSpec
==============================================================================

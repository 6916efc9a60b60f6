----------------------------- MODULE ReactorProofs -----------------------------
(***************************************************************************)
(* Safety of the reactor of lesson37, proved for any number of clients that *)
(* send text (TextAssumption) and of requests, any sizes of messages,       *)
(* buffers and batches, and any number of descriptors.                      *)
(***************************************************************************)
EXTENDS Reactor, TLAPS, FiniteSetTheorems, FunctionTheorems, SequenceTheorems,
        WellFoundedInduction

(***************************************************************************)
(* The ready list as a sequence without repetition: what the operations of  *)
(* the kernel on it keep, and what is in it afterwards.                     *)
(***************************************************************************)
Distinct(s) == \A i, j \in 1..Len(s) : s[i] = s[j] => i = j

LEMMA AppendsOne ==
    ASSUME NEW S, NEW s \in Seq(S), Distinct(s), NEW x \in S, ~InSeq(x, s)
    PROVE  /\ Append(s, x) \in Seq(S) /\ Distinct(Append(s, x))
           /\ \A y : InSeq(y, Append(s, x)) <=> InSeq(y, s) \/ y = x
<1> DEFINE t == Append(s, x)
<1>1. /\ t \in Seq(S) /\ Len(t) = Len(s) + 1 /\ Len(s) \in Nat
      /\ t[Len(s) + 1] = x /\ \A i \in 1..Len(s) : t[i] = s[i]
  BY AppendProperties, LenProperties
<1> HIDE DEF t
<1>2. Distinct(t)
  BY <1>1 DEF Distinct, InSeq
<1>3. ASSUME NEW y PROVE InSeq(y, t) <=> InSeq(y, s) \/ y = x
  BY <1>1 DEF InSeq
<1> QED
  BY <1>1, <1>2, <1>3 DEF t

LEMMA EdgeKeeps ==
    ASSUME NEW S, ready \in Seq(S), Distinct(ready), NEW x \in S, Edge(x)
    PROVE  /\ ready' \in Seq(S) /\ Distinct(ready')
           /\ \A y : InSeq(y, ready') <=> InSeq(y, ready) \/ y = x
<1>1. CASE InSeq(x, ready)
  BY <1>1 DEF Edge
<1>2. CASE ~InSeq(x, ready)
  BY <1>2, AppendsOne DEF Edge
<1> QED
  BY <1>1, <1>2

LEMMA SuffixKeeps ==
    ASSUME NEW S, NEW s \in Seq(S), Distinct(s), NEW n \in 0..Len(s)
    PROVE  LET t == SubSeq(s, n + 1, Len(s))
           IN  /\ t \in Seq(S) /\ Distinct(t)
               /\ \A y : InSeq(y, t) <=> \E i \in n+1..Len(s) : s[i] = y
<1> DEFINE t == SubSeq(s, n + 1, Len(s))
<1>1. /\ t \in Seq(S) /\ Len(t) = Len(s) - n /\ Len(s) \in Nat
      /\ \A i \in 1..(Len(s) - n) : t[i] = s[i + n]
  <2>1. \A i \in n+1..Len(s) : s[i] \in S
    BY ElementOfSeq, LenProperties
  <2>2. Len(s) \in Nat /\ n + 1 \in Int /\ Len(s) \in Int
    BY LenProperties
  <2>3. /\ t \in Seq(S) /\ Len(t) = IF n + 1 <= Len(s) THEN Len(s) - (n + 1) + 1 ELSE 0
        /\ \A i \in 1..(Len(s) - (n + 1) + 1) : t[i] = s[n + 1 + i - 1]
    BY <2>1, <2>2, SubSeqProperties
  <2> HIDE DEF t
  <2> QED
    BY <2>2, <2>3
<1> HIDE DEF t
<1>2. Distinct(t)
  BY <1>1 DEF Distinct
<1>3. ASSUME NEW y PROVE InSeq(y, t) <=> \E i \in n+1..Len(s) : s[i] = y
  <2>1. ASSUME InSeq(y, t) PROVE \E i \in n+1..Len(s) : s[i] = y
    <3>1. PICK i \in 1..Len(t) : t[i] = y
      BY <2>1 DEF InSeq
    <3>2. i + n \in n+1..Len(s) /\ s[i + n] = y
      BY <1>1, <3>1
    <3> QED
      BY <3>2
  <2>2. ASSUME NEW i \in n+1..Len(s), s[i] = y PROVE InSeq(y, t)
    <3>1. i - n \in 1..Len(t) /\ t[i - n] = y
      BY <1>1, <2>2
    <3> QED
      BY <3>1 DEF InSeq
  <2> QED
    BY <2>1, <2>2
<1> QED
  BY <1>1, <1>2, <1>3 DEF t

LEMMA WithoutKeeps ==
    ASSUME NEW S, NEW s \in Seq(S), Distinct(s), NEW x
    PROVE  /\ Without(s, x) \in Seq(S) /\ Distinct(Without(s, x))
           /\ \A y : InSeq(y, Without(s, x)) <=> InSeq(y, s) /\ y # x
<1>1. CASE ~InSeq(x, s)
  BY <1>1 DEF Without, InSeq
<1>2. CASE InSeq(x, s)
  <2> DEFINE at == CHOOSE i \in 1..Len(s) : s[i] = x
             u == SubSeq(s, 1, at - 1)
             v == SubSeq(s, at + 1, Len(s))
             t == u \o v
  <2>1. at \in 1..Len(s) /\ s[at] = x /\ Len(s) \in Nat
    BY <1>2, LenProperties DEF InSeq
  <2>2. Without(s, x) = t
    BY <1>2 DEF Without
  <2> HIDE DEF at
  <2>3. \A i \in 1..Len(s) : s[i] \in S
    BY ElementOfSeq
  <2>4. u \in Seq(S) /\ Len(u) = at - 1 /\ \A i \in 1..(at - 1) : u[i] = s[i]
    <3>1. /\ u \in Seq(S) /\ Len(u) = IF 1 <= at - 1 THEN at - 1 - 1 + 1 ELSE 0
          /\ \A i \in 1..(at - 1 - 1 + 1) : u[i] = s[1 + i - 1]
      <4>1. 1 \in Int /\ at - 1 \in Int /\ \A i \in 1..(at - 1) : s[i] \in S
        BY <2>1, <2>3
      <4> QED
        BY <4>1, SubSeqProperties
    <3> HIDE DEF u
    <3> QED
      BY <2>1, <3>1
  <2>5. v \in Seq(S) /\ Len(v) = Len(s) - at /\ \A i \in 1..(Len(s) - at) : v[i] = s[at + i]
    <3>1. /\ v \in Seq(S) /\ Len(v) = IF at + 1 <= Len(s) THEN Len(s) - (at + 1) + 1 ELSE 0
          /\ \A i \in 1..(Len(s) - (at + 1) + 1) : v[i] = s[at + 1 + i - 1]
      <4>1. at + 1 \in Int /\ Len(s) \in Int /\ \A i \in at+1..Len(s) : s[i] \in S
        BY <2>1, <2>3
      <4> QED
        BY <4>1, SubSeqProperties
    <3> HIDE DEF v
    <3> QED
      BY <2>1, <3>1
  <2> HIDE DEF u, v
  <2>6. /\ t \in Seq(S) /\ Len(t) = Len(s) - 1
        /\ \A i \in 1..(Len(s) - 1) : t[i] = IF i < at THEN s[i] ELSE s[i + 1]
    <3>1. /\ t \in Seq(S) /\ Len(t) = Len(u) + Len(v)
          /\ \A i \in 1..(Len(u) + Len(v)) : t[i] = IF i <= Len(u) THEN u[i] ELSE v[i - Len(u)]
      BY <2>4, <2>5, ConcatProperties
    <3> HIDE DEF t
    <3>2. Len(t) = Len(s) - 1 /\ Len(u) = at - 1 /\ Len(u) + Len(v) = Len(s) - 1
      BY <2>1, <2>4, <2>5, <3>1
    <3>3. ASSUME NEW i \in 1..(Len(s) - 1)
          PROVE  t[i] = IF i < at THEN s[i] ELSE s[i + 1]
      <4>1. CASE i < at
        BY <2>1, <2>4, <3>1, <3>2, <4>1
      <4>2. CASE i >= at
        <5>1. t[i] = v[i - (at - 1)]
          BY <2>1, <3>1, <3>2, <4>2
        <5>2. i - (at - 1) \in 1..(Len(s) - at) /\ at + (i - (at - 1)) = i + 1
          BY <2>1, <4>2
        <5> QED
          BY <2>1, <2>5, <4>2, <5>1, <5>2
      <4> QED
        BY <2>1, <4>1, <4>2
    <3> QED
      BY <3>1, <3>2, <3>3
  <2> HIDE DEF t
  <2>7. Distinct(t)
    BY <2>1, <2>6, SMTT(30) DEF Distinct
  <2>8. ASSUME NEW y PROVE InSeq(y, t) <=> InSeq(y, s) /\ y # x
    <3>1. ASSUME InSeq(y, t) PROVE InSeq(y, s) /\ y # x
      <4>1. PICK i \in 1..Len(t) : t[i] = y
        BY <3>1 DEF InSeq
      <4> QED
        BY <2>1, <2>6, <4>1 DEF InSeq, Distinct
    <3>2. ASSUME InSeq(y, s), y # x PROVE InSeq(y, t)
      <4>1. PICK i \in 1..Len(s) : s[i] = y
        BY <3>2 DEF InSeq
      <4>2. CASE i < at
        BY <2>1, <2>6, <4>1, <4>2 DEF InSeq
      <4>3. CASE i > at
        <5>1. i - 1 \in 1..Len(t) /\ t[i - 1] = y
          BY <2>1, <2>6, <4>1, <4>3
        <5> QED
          BY <5>1 DEF InSeq
      <4> QED
        BY <2>1, <3>2, <4>1, <4>2, <4>3
    <3> QED
      BY <3>1, <3>2
  <2> QED
    BY <2>2, <2>6, <2>7, <2>8
<1> QED
  BY <1>1, <1>2

LEMMA LeastNumber ==
    ASSUME NEW S, S \subseteq Nat, S # {}
    PROVE  \E m \in S : \A k \in S : m <= k
<1> DEFINE R == OpToRel(<, Nat)
<1>1. IsWellFoundedOn(R, Nat)
  BY NatLessThanWellFounded, Zenon
<1>2. \A x, y \in Nat : <<x, y>> \in R <=> x < y
  BY DEF OpToRel
<1> HIDE DEF R
<1>3. PICK m \in S : \A k \in S : <<k, m>> \notin R
  BY <1>1, WFMin
<1>4. ASSUME NEW k \in S PROVE m <= k
  <2>1. m \in Nat /\ k \in Nat
    OBVIOUS
  <2>2. ~(k < m)
    BY <1>2, <1>3, <2>1
  <2> QED
    BY <2>1, <2>2
<1> QED
  BY <1>4
(***************************************************************************)
(* The inductive invariant, in parts.                                       *)
(***************************************************************************)
\* The map of the connections and the accepted clients are one to one.
Linked == /\ link \in [Clients -> {"new", "backlog", "accepted", "closed"}]
          /\ _connections \in [Fds -> Clients \cup {None}]
          /\ \A fd \in Fds : _connections[fd] # None => Live(_connections[fd])
          /\ \A f, g \in Fds : _connections[f] = _connections[g] /\ _connections[f] # None
                                 => f = g
          /\ \A c \in Clients : Live(c) => \E fd \in Fds : _connections[fd] = c

\* The ready list holds the listener and registered descriptors, each once.
Listed == /\ ready \in Seq(Fds \cup {Listener}) /\ Distinct(ready)
          /\ \A fd \in Fds : InSeq(fd, ready) => _connections[fd] # None

\* An event of the batch is about the connection its descriptor has now; only
\* that of the one being handled may be gone, and its descriptor is free still.
Entry == [fd : Fds \cup {Listener}, of : Clients \cup {None}, in : BOOLEAN, out : BOOLEAN]
Owned(i) == \/ _connections[batch[i].fd] = batch[i].of
            \/ i = 1 /\ _connections[batch[i].fd] = None /\ link[batch[i].of] = "closed"
Batched == /\ batch \in Seq(Entry)
           /\ \A i, j \in 1..Len(batch) : batch[i].fd = batch[j].fd => i = j
           /\ \A i \in 1..Len(batch) : IF batch[i].fd = Listener THEN ~batch[i].out
                                       ELSE batch[i].of \in Clients /\ Owned(i)

Handling == pc \in {"recv", "handle", "send"}
Phased == /\ pc \in {"wait", "dispatch", "accept", "recv", "handle", "send", "aborted"}
          /\ pc = "wait" => batch = <<>>
          /\ pc = "accept" => batch # <<>> /\ Current.fd = Listener
          /\ Handling => batch # <<>> /\ Current.fd # Listener /\ Here = Current.of

\* The connections not accepted yet are as the constructor leaves them.
Fresh == \A c \in Clients : link[c] \in {"new", "backlog"} =>
             inbuffer[c] = 0 /\ handled[c] = 0 /\ outbuffer[c] = <<>>

\* The server will still come to the input of c, to its output.
Reports(c, i) == batch[i].fd # Listener /\ batch[i].of = c
InputDue(c) == \/ InSeq(FdOf(c), ready)
               \/ \E i \in 1..Len(batch) : Reports(c, i) /\ batch[i].in
               \/ pc = "recv" /\ Here = c
OutputDue(c) == \/ InSeq(FdOf(c), ready)
                \/ \E i \in 1..Len(batch) : Reports(c, i) /\ batch[i].out
                \/ pc = "send" /\ Here = c

\* Nothing is forgotten between the kernel and the server: what can be read from
\* a connection will be, no whole message stays in its buffer, and what waits to be
\* sent will be, or will be reported when there is space.
HeardOf(c) == "IN" \in interest[c] /\ (Readable(c) => InputDue(c))
SplitOf(c) == inbuffer[c] < Chunk \/ (pc = "recv" /\ Here = c)
FlushedOf(c) == outbuffer[c] # <<>> =>
                  /\ "OUT" \in interest[c]
                  /\ OutputDue(c) \/ (nospace[c] /\ ~Writable(c, tx[c]))
Attended == \A c \in Clients : Live(c) => HeardOf(c) /\ SplitOf(c) /\ FlushedOf(c)
Welcomed == (\E c \in Clients : link[c] = "backlog") =>
              \/ InSeq(Listener, ready) \/ full \/ pc = "accept"
              \/ \E i \in 1..Len(batch) : batch[i].fd = Listener /\ batch[i].in
Attention == Fresh /\ Attended /\ Welcomed

Switches == /\ limit \in 1..MaxConns
            /\ fin \in [Clients -> BOOLEAN] /\ rst \in [Clients -> BOOLEAN]
            /\ nospace \in [Clients -> BOOLEAN]
            /\ interest \in [Clients -> SUBSET {"IN", "OUT"}]

Wiring == Switches /\ Linked /\ Listed /\ Batched /\ Phased

(***************************************************************************)
(* What the operators of the model give, one lemma each.                    *)
(***************************************************************************)
LEMMA Numbers ==
    /\ Listener \notin Fds /\ Fds \subseteq Nat
    /\ Chunk \in Nat \ {0} /\ TxCap \in Nat \ {0} /\ RecvMax \in Nat \ {0}
    /\ MaxConns \in Nat \ {0} /\ MaxEvents \in Nat \ {0}
BY BoundsAssumption DEF Listener, Fds

LEMMA FdOfLive ==
    ASSUME Linked, NEW c \in Clients, Live(c)
    PROVE  /\ FdOf(c) \in Fds /\ _connections[FdOf(c)] = c
           /\ \A fd \in Fds : _connections[fd] = c => fd = FdOf(c)
<1>1. PICK fd \in Fds : _connections[fd] = c
  BY DEF Linked
<1>2. FdOf(c) \in Fds /\ _connections[FdOf(c)] = c
  BY <1>1 DEF FdOf
<1>3. c # None
  BY BoundsAssumption
<1> QED
  BY <1>2, <1>3 DEF Linked

\* A step may put one registered descriptor, or the listener, on the ready list.
Wakes == \/ ready' = ready
         \/ Edge(Listener)
         \/ \E fd \in Fds : _connections'[fd] # None /\ Edge(fd)

LEMMA WakeWakes ==
    ASSUME Linked, NEW c \in Clients, Wake(c), UNCHANGED _connections
    PROVE  Wakes
<1>1. CASE Live(c)
  <2>1. FdOf(c) \in Fds /\ _connections'[FdOf(c)] # None /\ Edge(FdOf(c))
    BY <1>1, FdOfLive, BoundsAssumption DEF Wake, Live
  <2> QED
    BY <2>1 DEF Wakes
<1>2. CASE ~Live(c)
  BY <1>2 DEF Wake, Live, Wakes
<1> QED
  BY <1>1, <1>2

LEMMA CtrlWakes ==
    ASSUME NEW c \in Clients, NEW fd \in Fds, NEW events, NEW sent,
           CtrlEpoll(c, fd, events, sent), _connections'[fd] # None
    PROVE  Wakes
BY DEF CtrlEpoll, Wakes

LEMMA CtrlSwitches ==
    ASSUME Switches, NEW c \in Clients, NEW fd, NEW events \in SUBSET {"IN", "OUT"}, NEW sent,
           CtrlEpoll(c, fd, events, sent), UNCHANGED <<limit, fin, rst>>
    PROVE  Switches'
<1>1. interest' \in [Clients -> SUBSET {"IN", "OUT"}]
  BY DEF Switches, CtrlEpoll
<1>2. nospace' = [nospace EXCEPT ![c] = @ \/ ~Writable(c, sent)]
  BY DEF CtrlEpoll
<1>3. nospace' \in [Clients -> BOOLEAN]
  BY <1>2, Zenon DEF Switches
<1> QED
  BY <1>1, <1>3 DEF Switches

LEMMA WakesListed ==
    ASSUME Listed, Wakes,
           \A fd \in Fds : _connections[fd] # None => _connections'[fd] # None
    PROVE  Listed'
<1>1. CASE ready' = ready
  BY <1>1 DEF Listed
<1>2. CASE Edge(Listener)
  <2>1. /\ ready' \in Seq(Fds \cup {Listener}) /\ Distinct(ready')
        /\ \A y : InSeq(y, ready') <=> InSeq(y, ready) \/ y = Listener
    BY <1>2, EdgeKeeps DEF Listed
  <2> QED
    BY <2>1, Numbers DEF Listed
<1>3. CASE \E fd \in Fds : _connections'[fd] # None /\ Edge(fd)
  <2>1. PICK fd \in Fds : _connections'[fd] # None /\ Edge(fd)
    BY <1>3
  <2>2. /\ ready' \in Seq(Fds \cup {Listener}) /\ Distinct(ready')
        /\ \A y : InSeq(y, ready') <=> InSeq(y, ready) \/ y = fd
    BY <2>1, EdgeKeeps DEF Listed
  <2> QED
    BY <2>1, <2>2 DEF Listed
<1> QED
  BY <1>1, <1>2, <1>3 DEF Wakes

\* What stays of the batch while the map changes elsewhere.
LEMMA BatchStays ==
    ASSUME Batched, UNCHANGED batch,
           \A c \in Clients : link[c] = "closed" => link'[c] = "closed",
           \A i \in 1..Len(batch) : batch[i].fd # Listener
               => _connections'[batch[i].fd] = _connections[batch[i].fd]
    PROVE  Batched'
<1>1. ASSUME NEW i \in 1..Len(batch), batch[i].fd # Listener, Owned(i) PROVE Owned(i)'
  BY <1>1 DEF Batched, Owned
<1> QED
  BY <1>1 DEF Batched

LEMMA Front ==
    ASSUME Batched, batch # <<>>
    PROVE  /\ Len(batch) \in Nat /\ Len(batch) >= 1
           /\ Current = batch[1] /\ Current \in Entry
BY EmptySeq, ElementOfSeq DEF Batched, Current

LEMMA EntryOf ==
    ASSUME Batched, NEW i \in 1..Len(batch)
    PROVE  /\ batch[i] \in Entry /\ batch[i].fd \in Fds \cup {Listener}
           /\ batch[i].of \in Clients \cup {None}
           /\ batch[i].in \in BOOLEAN /\ batch[i].out \in BOOLEAN
<1>1. batch[i] \in Entry
  BY ElementOfSeq DEF Batched
<1> QED
  BY <1>1 DEF Entry

LEMMA HereIs ==
    ASSUME Wiring, Handling
    PROVE  /\ batch # <<>> /\ Current = batch[1] /\ Len(batch) \in Nat /\ Len(batch) >= 1
           /\ Current.fd \in Fds /\ _connections[Current.fd] = Here
           /\ Here \in Clients /\ Here # None /\ Live(Here) /\ FdOf(Here) = Current.fd
           /\ Here = batch[1].of
<1>1. batch # <<>> /\ Current.fd # Listener /\ Here = Current.of
  BY DEF Wiring, Phased
<1>2. Len(batch) \in Nat /\ Len(batch) >= 1 /\ Current = batch[1] /\ Current \in Entry
  BY <1>1, Front DEF Wiring
<1>3. Current.fd \in Fds
  BY <1>1, <1>2 DEF Entry
<1>4. Here \in Clients
  BY <1>1, <1>2 DEF Wiring, Batched
<1>5. _connections[Current.fd] = Here /\ Here # None
  BY <1>4, BoundsAssumption DEF Here
<1>6. Live(Here)
  BY <1>3, <1>5 DEF Wiring, Linked
<1>7. FdOf(Here) = Current.fd
  BY <1>3, <1>4, <1>5, <1>6, FdOfLive DEF Wiring
<1> QED
  BY <1>1, <1>2, <1>3, <1>4, <1>5, <1>6, <1>7

(***************************************************************************)
(* epoll_wait: the batch is what the first n of the ready list report now.  *)
(***************************************************************************)
LEMMA AscendingIsOnto ==
    ASSUME NEW S, IsFiniteSet(S), S \subseteq Nat, NEW at \in Ascending(S)
    PROVE  /\ Cardinality(S) \in Nat
           /\ \A i \in 1..Cardinality(S) : at[i] \in S
           /\ \A i, j \in 1..Cardinality(S) : at[i] = at[j] => i = j
           /\ \A s \in S : \E i \in 1..Cardinality(S) : at[i] = s
<1> DEFINE m == Cardinality(S)
<1>1. m \in Nat
  BY FS_CardinalityType
<1>2. at \in [1..m -> S] /\ \A i, j \in 1..m : i < j => at[i] < at[j]
  BY DEF Ascending
<1>3. IsFiniteSet(1..m) /\ Cardinality(1..m) = m
  BY <1>1, FS_Interval
<1>4. m = Cardinality(S)
  OBVIOUS
<1> HIDE DEF m
<1>5. \A i, j \in 1..m : at[i] = at[j] => i = j
  <2>1. \A i \in 1..m : at[i] \in Nat
    BY <1>2
  <2> QED
    BY <1>1, <1>2, <2>1
<1>6. at \in Injection(1..m, S)
  BY <1>2, <1>5, Fun_IsInj
<1>7. at \in Surjection(1..m, S)
  BY <1>3, <1>4, <1>6, FS_Injection
<1>8. \A s \in S : \E i \in 1..m : at[i] = s
  BY <1>7 DEF Surjection
<1> QED
  BY <1>1, <1>2, <1>4, <1>5, <1>8

LEMMA EventIs ==
    ASSUME Switches, Linked, Listed, NEW i \in 1..Len(ready)
    PROVE  /\ Event(ready[i]) \in Entry /\ Event(ready[i]).fd = ready[i]
           /\ ready[i] = Listener => ~Event(ready[i]).out
           /\ ready[i] # Listener => /\ ready[i] \in Fds
                                     /\ Event(ready[i]).of = _connections[ready[i]]
                                     /\ Event(ready[i]).of \in Clients
<1>1. ready[i] \in Fds \cup {Listener}
  BY ElementOfSeq DEF Listed
<1>2. CASE ready[i] = Listener
  BY <1>1, <1>2 DEF Event, Entry
<1>3. CASE ready[i] # Listener
  <2> DEFINE c == _connections[ready[i]]
             now == Reported(c, interest[c], tx[c])
  <2>1. ready[i] \in Fds /\ c \in Clients
    BY <1>1, <1>3 DEF Listed, Linked, InSeq
  <2>2. now.in \in BOOLEAN /\ now.out \in BOOLEAN
    BY DEF Reported
  <2>3. Event(ready[i]) = [fd |-> ready[i], of |-> c, in |-> now.in, out |-> now.out]
    BY <1>3 DEF Event
  <2> HIDE DEF now, c
  <2>4. Event(ready[i]) \in Entry
    BY <1>1, <2>1, <2>2, <2>3 DEF Entry
  <2> QED
    BY <1>3, <2>1, <2>3, <2>4 DEF c
<1> QED
  BY <1>2, <1>3

\* The step of epoll_wait, as the proofs use it.
LEMMA WaitEpollStep ==
    ASSUME Switches, Linked, Listed, WaitEpoll
    PROVE  \E n \in 0..Len(ready) :
              /\ ready' = SubSeq(ready, n + 1, Len(ready))
              /\ batch' \in Seq(Entry)
              /\ \A i \in 1..Len(batch') : \E k \in 1..n : batch'[i] = Event(ready[k])
              /\ \A i, j \in 1..Len(batch') : batch'[i].fd = batch'[j].fd => i = j
              /\ \A k \in 1..n : Event(ready[k]).in \/ Event(ready[k]).out
                    => \E i \in 1..Len(batch') : batch'[i] = Event(ready[k])
              /\ nospace' = [c \in Clients |-> \/ nospace[c]
                                             \/ \E k \in 1..n : /\ ready[k] # Listener
                                                               /\ _connections[ready[k]] = c
                                                               /\ ~Writable(c, tx[c])]
<1> DEFINE n == Smaller(Len(ready), MaxEvents)
           hits == {i \in 1..n : Event(ready[i]).in \/ Event(ready[i]).out}
           m == Cardinality(hits)
<1>1. PICK at \in Ascending(hits) : batch' = [i \in 1..m |-> Event(ready[at[i]])]
  BY DEF WaitEpoll
<1>2. Len(ready) \in Nat /\ n \in 0..Len(ready)
  BY Numbers, LenProperties DEF Smaller, Listed
<1>3. /\ m \in Nat /\ \A i \in 1..m : at[i] \in hits
      /\ \A i, j \in 1..m : at[i] = at[j] => i = j
      /\ \A s \in hits : \E i \in 1..m : at[i] = s
  <2>1. hits \subseteq 1..n /\ hits \subseteq Nat
    BY <1>2
  <2>2. IsFiniteSet(hits)
    <3>1. IsFiniteSet(1..n)
      BY <1>2, FS_Interval
    <3> HIDE DEF n, hits
    <3> QED
      BY <2>1, <3>1, FS_Subset
  <2> HIDE DEF n, hits
  <2> QED
    BY <1>1, <2>1, <2>2, AscendingIsOnto, ZenonT(40)
<1>4. ready' = SubSeq(ready, n + 1, Len(ready))
  BY DEF WaitEpoll
<1>5. nospace' = [c \in Clients |-> \/ nospace[c]
                                  \/ \E i \in 1..n : /\ ready[i] # Listener
                                                    /\ _connections[ready[i]] = c
                                                    /\ ~Writable(c, tx[c])]
  BY DEF WaitEpoll
<1> HIDE DEF n, m
<1>6. \A i \in 1..m : at[i] \in 1..n /\ at[i] \in 1..Len(ready)
  BY <1>2, <1>3
<1> USE DEF hits
<1>7. \A s \in 1..n : Event(ready[s]).in \/ Event(ready[s]).out => \E i \in 1..m : at[i] = s
  BY <1>3
<1> HIDE DEF hits
<1>8. \A i \in 1..m : /\ Event(ready[at[i]]) \in Entry
                      /\ Event(ready[at[i]]).fd = ready[at[i]]
  BY <1>6, EventIs
<1>9. batch' \in Seq(Entry) /\ Len(batch') = m /\ \A i \in 1..m : batch'[i] = Event(ready[at[i]])
  <2>1. batch' \in [1..m -> Entry]
    BY <1>1, <1>8
  <2>2. batch' \in Seq(Entry)
    BY <1>3, <2>1, SeqDef
  <2>3. DOMAIN batch' = 1..m
    BY <2>1
  <2>4. Len(batch') \in Nat /\ 1..Len(batch') = 1..m
    BY <2>2, <2>3, LenProperties
  <2>5. Len(batch') = m
    BY <1>3, <2>4
  <2> QED
    BY <1>1, <2>2, <2>5
<1>10. \A i, j \in 1..m : batch'[i].fd = batch'[j].fd => i = j
  <2> TAKE i, j \in 1..m
  <2> HAVE batch'[i].fd = batch'[j].fd
  <2>1. ready[at[i]] = ready[at[j]]
    BY <1>8, <1>9
  <2>2. at[i] = at[j]
    BY <1>6, <2>1 DEF Listed, Distinct
  <2> QED
    BY <1>3, <2>2
<1>11. \A i \in 1..Len(batch') : \E k \in 1..n : batch'[i] = Event(ready[k])
  BY <1>6, <1>9
<1>12. \A i, j \in 1..Len(batch') : batch'[i].fd = batch'[j].fd => i = j
  BY <1>9, <1>10
<1>13. \A k \in 1..n : Event(ready[k]).in \/ Event(ready[k]).out
          => \E i \in 1..Len(batch') : batch'[i] = Event(ready[k])
  <2> TAKE k \in 1..n
  <2> HAVE Event(ready[k]).in \/ Event(ready[k]).out
  <2>1. PICK i \in 1..m : at[i] = k
    BY <1>7
  <2> QED
    BY <1>9, <2>1
<1> QED
  BY <1>2, <1>4, <1>5, <1>9, <1>11, <1>12, <1>13

(***************************************************************************)
(* The wiring of the server is kept by every step.                          *)
(***************************************************************************)
LEMMA Unhooks ==
    ASSUME Wiring, Handling, EXcepter(Here), UNCHANGED batch
    PROVE  Linked' /\ Listed' /\ Batched' /\ interest' \in [Clients -> SUBSET {"IN", "OUT"}]
<1> DEFINE c == Here
           at == Current.fd
<1>1. /\ at \in Fds /\ _connections[at] = c /\ c \in Clients /\ c # None /\ Live(c)
      /\ FdOf(c) = at /\ at = batch[1].fd /\ c = batch[1].of
      /\ Len(batch) \in Nat /\ Len(batch) >= 1
  BY HereIs
<1>2. /\ _connections' = [_connections EXCEPT ![at] = None]
      /\ link' = [link EXCEPT ![c] = "closed"]
      /\ interest' = [interest EXCEPT ![c] = {}]
      /\ ready' = Without(ready, at)
  BY DEF EXcepter
<1> HIDE DEF c, at
<1>3. Linked'
  <2>1. link' \in [Clients -> {"new", "backlog", "accepted", "closed"}]
    BY <1>2 DEF Wiring, Linked
  <2>2. _connections' \in [Fds -> Clients \cup {None}]
    BY <1>2 DEF Wiring, Linked
  <2>3. ASSUME NEW fd \in Fds, _connections'[fd] # None PROVE Live(_connections[fd])'
    <3>1. fd # at /\ _connections'[fd] = _connections[fd] /\ _connections[fd] # c
      BY <1>1, <1>2, <2>3 DEF Wiring, Linked
    <3> QED
      BY <1>1, <1>2, <2>3, <3>1 DEF Wiring, Linked, Live
  <2>4. ASSUME NEW f \in Fds, NEW g \in Fds, _connections'[f] = _connections'[g],
               _connections'[f] # None
        PROVE  f = g
    BY <1>1, <1>2, <2>4 DEF Wiring, Linked
  <2>5. ASSUME NEW d \in Clients, Live(d)' PROVE \E fd \in Fds : _connections'[fd] = d
    <3>1. d # c /\ Live(d)
      BY <1>1, <1>2, <2>5 DEF Wiring, Linked, Live
    <3>2. PICK fd \in Fds : _connections[fd] = d
      BY <3>1 DEF Wiring, Linked
    <3>3. _connections'[fd] = d
      BY <1>1, <1>2, <3>1, <3>2 DEF Wiring, Linked
    <3> QED
      BY <3>3
  <2> QED
    BY <2>1, <2>2, <2>3, <2>4, <2>5 DEF Linked
<1>4. Listed'
  <2>1. /\ ready' \in Seq(Fds \cup {Listener}) /\ Distinct(ready')
        /\ \A y : InSeq(y, ready') <=> InSeq(y, ready) /\ y # at
    BY <1>2, WithoutKeeps DEF Wiring, Listed
  <2> QED
    BY <1>2, <2>1 DEF Wiring, Listed, Linked
<1>5. Batched'
  <2>1. ASSUME NEW i \in 1..Len(batch), batch[i].fd # Listener
        PROVE  batch[i].of \in Clients /\ Owned(i)'
    <3>1. batch[i].of \in Clients /\ Owned(i)
      BY <2>1 DEF Wiring, Batched
    <3>2. batch[i].fd \in Fds
      BY <2>1, EntryOf DEF Wiring
    <3>3. CASE i = 1
      BY <1>1, <1>2, <3>1, <3>3 DEF Owned, Wiring, Linked
    <3>4. CASE i # 1
      <4>1. batch[i].fd # at
        BY <1>1, <3>4 DEF Wiring, Batched
      <4> QED
        BY <1>2, <3>1, <3>2, <3>4, <4>1 DEF Owned, Wiring, Linked
    <3> QED
      BY <3>1, <3>3, <3>4
  <2> QED
    BY <2>1 DEF Wiring, Batched
<1>6. interest' \in [Clients -> SUBSET {"IN", "OUT"}]
  BY <1>2 DEF Wiring, Switches
<1> QED
  BY <1>3, <1>4, <1>5, <1>6

\* accept gives the connection the lowest free descriptor.
LEMMA AcceptHooks ==
    ASSUME Wiring, Accept
    PROVE  \E c \in Clients, fd \in Fds :
              /\ link[c] = "backlog" /\ link' = [link EXCEPT ![c] = "accepted"]
              /\ _connections[fd] = None /\ _connections' = [_connections EXCEPT ![fd] = c]
              /\ CtrlEpoll(c, fd, {"IN"}, tx[c])
<1>1. PICK c \in Clients :
        /\ link[c] = "backlog" /\ FreeFds # {}
        /\ link' = [link EXCEPT ![c] = "accepted"]
        /\ AddConnection(c, CHOOSE fd \in FreeFds : \A other \in FreeFds : fd <= other)
  BY DEF Accept
<1> DEFINE fd == CHOOSE f \in FreeFds : \A other \in FreeFds : f <= other
<1>2. fd \in FreeFds
  <2>1. FreeFds \subseteq Nat
    BY Numbers DEF FreeFds, Fds, Wiring, Switches
  <2>2. \E m \in FreeFds : \A other \in FreeFds : m <= other
    BY <1>1, <2>1, LeastNumber
  <2> QED
    BY <2>2
<1>3. /\ _connections' = [_connections EXCEPT ![fd] = c]
      /\ CtrlEpoll(c, fd, {"IN"}, tx[c])
  BY <1>1 DEF AddConnection
<1>4. fd \in Fds /\ _connections[fd] = None
  BY <1>2, Numbers DEF FreeFds, Fds, Wiring, Switches
<1> QED
  BY <1>1, <1>3, <1>4

LEMMA AcceptKeeps ==
    ASSUME Wiring, Accept
    PROVE  Wiring'
<1>1. PICK c \in Clients, fd \in Fds :
        /\ link[c] = "backlog" /\ link' = [link EXCEPT ![c] = "accepted"]
        /\ _connections[fd] = None /\ _connections' = [_connections EXCEPT ![fd] = c]
        /\ CtrlEpoll(c, fd, {"IN"}, tx[c])
  BY AcceptHooks
<1>3. /\ _connections' = [_connections EXCEPT ![fd] = c]
      /\ CtrlEpoll(c, fd, {"IN"}, tx[c])
  BY <1>1
<1>4. fd \in Fds /\ _connections[fd] = None
  BY <1>1
<1>5. /\ pc = "accept" /\ UNCHANGED <<limit, fin, rst, pc, batch, message, full>>
  BY DEF Accept, loop
<1>6. c # None
  BY BoundsAssumption
<1>7. Switches'
  BY <1>3, <1>5, CtrlSwitches DEF Wiring
<1>8. Linked'
  <2>1. link' \in [Clients -> {"new", "backlog", "accepted", "closed"}]
    BY <1>1 DEF Wiring, Linked
  <2>2. _connections' \in [Fds -> Clients \cup {None}]
    BY <1>3 DEF Wiring, Linked
  <2>3. ASSUME NEW f \in Fds, _connections'[f] # None PROVE Live(_connections[f])'
    BY <1>1, <1>3, <1>4, <2>3 DEF Wiring, Linked, Live
  <2>4. ASSUME NEW f \in Fds, _connections[f] # None PROVE _connections[f] # c
    BY <1>1, <2>4 DEF Wiring, Linked, Live
  <2>5. ASSUME NEW f \in Fds, NEW g \in Fds, _connections'[f] = _connections'[g],
               _connections'[f] # None
        PROVE  f = g
    BY <1>3, <1>4, <1>6, <2>4, <2>5 DEF Wiring, Linked
  <2>6. ASSUME NEW d \in Clients, Live(d)' PROVE \E f \in Fds : _connections'[f] = d
    <3>1. CASE d = c
      <4>1. _connections'[fd] = d
        BY <1>3, <1>4, <3>1 DEF Wiring, Linked
      <4> QED
        BY <1>4, <4>1
    <3>2. CASE d # c
      <4>1. Live(d)
        BY <1>1, <2>6, <3>2 DEF Wiring, Linked, Live
      <4>2. PICK f \in Fds : _connections[f] = d
        BY <4>1 DEF Wiring, Linked
      <4>3. d # None
        BY BoundsAssumption
      <4>4. _connections'[f] = d
        BY <1>3, <1>4, <4>2, <4>3 DEF Wiring, Linked
      <4> QED
        BY <4>4
    <3> QED
      BY <3>1, <3>2
  <2> QED
    BY <2>1, <2>2, <2>3, <2>5, <2>6 DEF Linked
<1>9. Listed'
  <2>1. _connections'[fd] # None
    BY <1>3, <1>4, <1>6 DEF Wiring, Linked
  <2>2. Wakes
    BY <1>3, <1>4, <2>1, CtrlWakes
  <2>3. \A f \in Fds : _connections[f] # None => _connections'[f] # None
    BY <1>3, <1>6 DEF Wiring, Linked
  <2> QED
    BY <2>2, <2>3, WakesListed DEF Wiring
<1>10. batch # <<>> /\ batch[1].fd = Listener /\ Len(batch) >= 1 /\ Len(batch) \in Nat
  BY <1>5, Front DEF Wiring, Phased
<1>11. Batched'
  <2>1. ASSUME NEW i \in 1..Len(batch), batch[i].fd # Listener
        PROVE  _connections'[batch[i].fd] = _connections[batch[i].fd]
    <3>1. i # 1 /\ batch[i].of \in Clients /\ Owned(i)
      BY <1>10, <2>1 DEF Wiring, Batched
    <3>2. batch[i].fd \in Fds
      BY <2>1, EntryOf DEF Wiring
    <3>3. _connections[batch[i].fd] # None
      BY <3>1, BoundsAssumption DEF Owned
    <3> QED
      BY <1>3, <1>4, <3>2, <3>3 DEF Wiring, Linked
  <2>2. \A d \in Clients : link[d] = "closed" => link'[d] = "closed"
    BY <1>1 DEF Wiring, Linked
  <2> QED
    BY <1>5, <2>1, <2>2, BatchStays DEF Wiring
<1>12. Phased'
  BY <1>5 DEF Wiring, Phased, Handling, Current
<1> QED
  BY <1>7, <1>8, <1>9, <1>11, <1>12 DEF Wiring

LEMMA WaitEpollKeeps ==
    ASSUME Wiring, WaitEpoll
    PROVE  Wiring'
<1>1. PICK n \in 0..Len(ready) :
        /\ ready' = SubSeq(ready, n + 1, Len(ready))
        /\ batch' \in Seq(Entry)
        /\ \A i \in 1..Len(batch') : \E k \in 1..n : batch'[i] = Event(ready[k])
        /\ \A i, j \in 1..Len(batch') : batch'[i].fd = batch'[j].fd => i = j
        /\ nospace' = [c \in Clients |-> \/ nospace[c]
                                       \/ \E k \in 1..n : /\ ready[k] # Listener
                                                         /\ _connections[ready[k]] = c
                                                         /\ ~Writable(c, tx[c])]
  BY WaitEpollStep DEF Wiring
<1>2. pc' = "dispatch" /\ UNCHANGED <<limit, link, fin, rst, _connections, interest>>
  BY DEF WaitEpoll, conn
<1>3. Switches'
  <2>1. nospace' \in [Clients -> BOOLEAN]
    BY <1>1
  <2> QED
    BY <1>2, <2>1 DEF Wiring, Switches
<1>4. Linked'
  BY <1>2 DEF Wiring, Linked, Live
<1>5. Listed'
  <2>1. /\ ready' \in Seq(Fds \cup {Listener}) /\ Distinct(ready')
        /\ \A y : InSeq(y, ready') <=> \E i \in n+1..Len(ready) : ready[i] = y
    BY <1>1, SuffixKeeps DEF Wiring, Listed
  <2>2. Len(ready) \in Nat
    BY LenProperties DEF Wiring, Listed
  <2>3. ASSUME NEW y, InSeq(y, ready') PROVE InSeq(y, ready)
    <3>1. PICK i \in n+1..Len(ready) : ready[i] = y
      BY <2>1, <2>3
    <3> QED
      BY <2>2, <3>1 DEF InSeq
  <2> QED
    BY <1>2, <2>1, <2>3 DEF Wiring, Listed
<1>6. Batched'
  <2>1. ASSUME NEW i \in 1..Len(batch')
        PROVE  IF batch'[i].fd = Listener THEN ~batch'[i].out
               ELSE batch'[i].of \in Clients /\ Owned(i)'
    <3>1. PICK k \in 1..n : batch'[i] = Event(ready[k])
      BY <1>1
    <3>2. k \in 1..Len(ready)
      BY LenProperties DEF Wiring, Listed
    <3>3. /\ batch'[i].fd = ready[k]
          /\ ready[k] = Listener => ~batch'[i].out
          /\ ready[k] # Listener => /\ batch'[i].of = _connections[ready[k]]
                                    /\ batch'[i].of \in Clients
      BY <3>1, <3>2, EventIs DEF Wiring
    <3> QED
      BY <1>2, <3>3 DEF Owned
  <2> QED
    BY <1>1, <2>1 DEF Batched
<1>7. Phased'
  BY <1>2 DEF Phased, Handling
<1> QED
  BY <1>3, <1>4, <1>5, <1>6, <1>7 DEF Wiring

LEMMA Steady ==
    ASSUME Wiring, UNCHANGED <<link, _connections, batch>>, Wakes
    PROVE  Linked' /\ Listed' /\ Batched'
<1>1. Linked'
  BY DEF Wiring, Linked, Live
<1>2. Listed'
  BY WakesListed DEF Wiring
<1>3. Batched'
  BY BatchStays DEF Wiring
<1> QED
  BY <1>1, <1>2, <1>3

\* The two ways a dispatch changes the batch: a mark of the first event is taken
\* away, or the event is.
Marked == /\ batch' \in Seq(Entry) /\ Len(batch') = Len(batch)
          /\ \A i \in 1..Len(batch) : /\ batch'[i].fd = batch[i].fd
                                      /\ batch'[i].of = batch[i].of
                                      /\ i # 1 => batch'[i] = batch[i]
Shifted == /\ batch' \in Seq(Entry) /\ Len(batch') = Len(batch) - 1
           /\ \A i \in 1..Len(batch') : batch'[i] = batch[i + 1]

LEMMA DispatchBatch ==
    ASSUME Batched, Dispatch
    PROVE  \/ batch = <<>> /\ batch' = <<>>
           \/ batch # <<>> /\ Current.in /\ Marked /\ batch'[1].out = batch[1].out
           \/ /\ batch # <<>> /\ ~Current.in /\ Current.out /\ Marked
              /\ ~batch'[1].in /\ ~batch'[1].out
           \/ batch # <<>> /\ ~Current.in /\ ~Current.out /\ Shifted
<1>1. CASE batch = <<>>
  BY <1>1 DEF Dispatch
<1>2. CASE batch # <<>> /\ Current.in /\ batch' = [batch EXCEPT ![1].in = FALSE]
  <2> DEFINE e == [batch[1] EXCEPT !.in = FALSE]
  <2>1. Len(batch) \in Nat /\ Len(batch) >= 1 /\ batch[1] \in Entry
    BY <1>2, Front
  <2>2. e \in Entry /\ e.fd = batch[1].fd /\ e.of = batch[1].of /\ e.out = batch[1].out
    BY <2>1 DEF Entry
  <2>3. batch' = [batch EXCEPT ![1] = e]
    BY <1>2
  <2> HIDE DEF e
  <2>4. /\ batch' \in Seq(Entry) /\ Len(batch') = Len(batch)
        /\ \A j \in 1..Len(batch) : batch'[j] = IF j = 1 THEN e ELSE batch[j]
    BY <2>1, <2>2, <2>3, ExceptSeq DEF Batched
  <2>5. Marked
    BY <2>2, <2>4 DEF Marked
  <2>6. batch'[1].out = batch[1].out
    BY <2>1, <2>2, <2>4
  <2> QED
    BY <1>2, <2>5, <2>6
<1>3. CASE batch # <<>> /\ ~Current.in /\ Current.out /\ batch' = [batch EXCEPT ![1].out = FALSE]
  <2> DEFINE e == [batch[1] EXCEPT !.out = FALSE]
  <2>1. Len(batch) \in Nat /\ Len(batch) >= 1 /\ batch[1] \in Entry /\ Current = batch[1]
    BY <1>3, Front
  <2>2. /\ e \in Entry /\ e.fd = batch[1].fd /\ e.of = batch[1].of /\ e.in = batch[1].in
        /\ ~e.out
    BY <2>1 DEF Entry
  <2>3. batch' = [batch EXCEPT ![1] = e]
    BY <1>3
  <2>4. ~e.in
    BY <1>3, <2>1, <2>2
  <2> HIDE DEF e
  <2>5. /\ batch' \in Seq(Entry) /\ Len(batch') = Len(batch)
        /\ \A j \in 1..Len(batch) : batch'[j] = IF j = 1 THEN e ELSE batch[j]
    BY <2>1, <2>2, <2>3, ExceptSeq DEF Batched
  <2>6. Marked
    BY <2>2, <2>5 DEF Marked
  <2>7. batch'[1] = e
    BY <2>1, <2>5
  <2>8. ~batch'[1].in
    BY <2>4, <2>7
  <2>9. ~batch'[1].out
    BY <2>2, <2>7
  <2> QED
    BY <1>3, <2>6, <2>8, <2>9
<1>4. CASE batch # <<>> /\ ~Current.in /\ ~Current.out /\ batch' = Tail(batch)
  <2>1. Shifted
    BY <1>4, HeadTailProperties DEF Batched, Shifted
  <2> QED
    BY <1>4, <2>1
<1> QED
  BY <1>1, <1>2, <1>3, <1>4 DEF Dispatch

LEMMA DispatchKeeps ==
    ASSUME Wiring, Dispatch
    PROVE  Wiring'
<1>1. /\ UNCHANGED <<limit, link, fin, rst, nospace, interest, ready, _connections>>
      /\ pc = "dispatch"
  BY DEF Dispatch, kernel, conn
<1>2. Switches'
  BY <1>1 DEF Wiring, Switches
<1>3. Linked'
  BY <1>1 DEF Wiring, Linked, Live
<1>4. Listed'
  BY <1>1 DEF Wiring, Listed
<1>5. Batched'
  <2>1. CASE batch = <<>> /\ batch' = <<>>
    BY <1>1, <2>1, EmptySeq DEF Wiring, Batched
  <2>2. CASE /\ batch # <<>> /\ Marked
             /\ batch'[1].out = batch[1].out \/ ~batch'[1].out
    <3>1. ASSUME NEW i \in 1..Len(batch) PROVE batch'[i].fd = Listener => ~batch'[i].out
      <4>1. batch[i].fd = Listener => ~batch[i].out
        BY DEF Wiring, Batched
      <4>2. ~batch'[i].out \/ batch'[i].out = batch[i].out
        BY <2>2 DEF Marked
      <4>3. batch'[i].fd = batch[i].fd
        BY <2>2 DEF Marked
      <4> QED
        BY <4>1, <4>2, <4>3
    <3>2. ASSUME NEW i \in 1..Len(batch), batch'[i].fd # Listener
          PROVE  batch'[i].of \in Clients /\ Owned(i)'
      <4>1. batch[i].of \in Clients /\ Owned(i) /\ batch'[i].fd = batch[i].fd
            /\ batch'[i].of = batch[i].of
        BY <2>2, <3>2 DEF Wiring, Batched, Marked
      <4> QED
        BY <1>1, <4>1 DEF Owned
    <3>3. \A i, j \in 1..Len(batch) : batch'[i].fd = batch'[j].fd => i = j
      BY <2>2 DEF Wiring, Batched, Marked
    <3> QED
      BY <2>2, <3>1, <3>2, <3>3 DEF Batched, Marked
  <2>3. CASE batch # <<>> /\ Shifted
    <3>1. Len(batch) \in Nat /\ Len(batch) >= 1
      BY <2>3, Front DEF Wiring
    <3>2. \A i \in 1..Len(batch') : i + 1 \in 1..Len(batch) /\ i + 1 # 1
      BY <2>3, <3>1 DEF Shifted
    <3>3. \A i, j \in 1..Len(batch') : batch'[i].fd = batch'[j].fd => i = j
      <4> TAKE i, j \in 1..Len(batch')
      <4> HAVE batch'[i].fd = batch'[j].fd
      <4>1. i + 1 = j + 1
        BY <2>3, <3>2 DEF Wiring, Batched, Shifted
      <4> QED
        BY <2>3, <3>1, <4>1 DEF Shifted
    <3>4. ASSUME NEW i \in 1..Len(batch')
          PROVE  IF batch'[i].fd = Listener THEN ~batch'[i].out
                 ELSE batch'[i].of \in Clients /\ Owned(i)'
      <4>1. IF batch[i + 1].fd = Listener THEN ~batch[i + 1].out
            ELSE batch[i + 1].of \in Clients /\ Owned(i + 1)
        BY <3>2 DEF Wiring, Batched
      <4>2. batch'[i] = batch[i + 1] /\ i + 1 # 1
        BY <2>3, <3>2 DEF Shifted
      <4> QED
        BY <1>1, <4>1, <4>2 DEF Owned
    <3> QED
      BY <2>3, <3>3, <3>4 DEF Batched, Shifted
  <2> QED
    BY <2>1, <2>2, <2>3, DispatchBatch DEF Wiring
<1>6. Phased'
  <2>5. batch # <<>> => Current = batch[1] /\ Len(batch) \in Nat /\ Len(batch) >= 1
    BY Front DEF Wiring
  <2>1. CASE batch = <<>> /\ pc' = "wait" /\ batch' = batch
    BY <2>1 DEF Phased, Handling
  <2>2. CASE /\ batch # <<>>
             /\ Current.in \/ (~Current.in /\ Current.out /\ batch[1].fd # Listener)
             /\ pc' = IF Current.fd = Listener THEN "accept"
                      ELSE IF IsConnectionExists(Current.fd) THEN IF Current.in THEN "recv" ELSE "send"
                      ELSE "dispatch"
             /\ batch' \in Seq(Entry) /\ Len(batch') = Len(batch)
             /\ batch'[1].fd = batch[1].fd /\ batch'[1].of = batch[1].of
    <3>1. Len(batch) \in Nat /\ Len(batch) >= 1 /\ Current = batch[1]
      BY <2>5, <2>2
    <3>2. batch' # <<>> /\ Current' = batch'[1] /\ Current'.fd = Current.fd /\ Current'.of = Current.of
      BY <2>2, <3>1, EmptySeq DEF Current
    <3>3. Current.fd # Listener => Owned(1)
      BY <3>1 DEF Wiring, Batched
    <3>4. Current.fd # Listener /\ IsConnectionExists(Current.fd) => Here' = Current'.of
      BY <1>1, <3>1, <3>2, <3>3 DEF Owned, Here, IsConnectionExists
    <3> QED
      BY <2>2, <3>2, <3>4 DEF Phased, Handling
  <2>3. CASE pc' = pc
    BY <1>1, <2>3 DEF Phased, Handling
  <2>4. Current.out /\ batch # <<>> => batch[1].fd # Listener
    <3>1. ASSUME batch # <<>> PROVE Current = batch[1] /\ 1 \in 1..Len(batch)
      BY <3>1, Front DEF Wiring
    <3> QED
      BY <3>1 DEF Wiring, Batched
  <2>6. \/ batch = <<>> /\ pc' = "wait" /\ batch' = batch
        \/ /\ batch # <<>> /\ Current.in
           /\ pc' = IF Current.fd = Listener THEN "accept"
                    ELSE IF IsConnectionExists(Current.fd) THEN "recv" ELSE "dispatch"
        \/ /\ batch # <<>> /\ ~Current.in /\ Current.out
           /\ pc' = IF IsConnectionExists(Current.fd) THEN "send" ELSE "dispatch"
        \/ pc' = pc
    BY DEF Dispatch
  <2>7. batch # <<>> /\ (Current.in \/ Current.out)
          => /\ batch' \in Seq(Entry) /\ Len(batch') = Len(batch)
             /\ batch'[1].fd = batch[1].fd /\ batch'[1].of = batch[1].of
    <3>1. batch # <<>> => 1 \in 1..Len(batch)
      BY <2>5
    <3> QED
      BY <3>1, DispatchBatch DEF Wiring, Marked
  <2> QED
    BY <2>5, <2>1, <2>2, <2>3, <2>4, <2>6, <2>7
<1> QED
  BY <1>2, <1>3, <1>4, <1>5, <1>6 DEF Wiring

LEMMA QuietKeeps ==
    ASSUME Wiring, AcceptEnds \/ Recv \/ RecvEagain \/ NetCalEnds
    PROVE  Wiring'
<1>1. UNCHANGED <<limit, link, fin, rst, nospace, interest, ready, _connections, batch>>
  <2>1. ASSUME AcceptEnds PROVE UNCHANGED <<kernel, conn, batch>>
    BY <2>1 DEF AcceptEnds
  <2>2. ASSUME RecvEagain PROVE UNCHANGED <<kernel, _connections, interest, batch>>
    BY <2>2 DEF RecvEagain
  <2>3. ASSUME NetCalEnds PROVE UNCHANGED <<kernel, conn, batch>>
    BY <2>3 DEF NetCalEnds
  <2>4. ASSUME Recv
        PROVE  UNCHANGED <<limit, link, fin, rst, nospace, interest, ready, _connections, batch>>
    BY <2>4 DEF Recv, loop
  <2> QED
    BY <2>1, <2>2, <2>3, <2>4 DEF kernel, conn
<1>2. Switches' /\ Wakes
  BY <1>1 DEF Wiring, Switches, Wakes
<1>3. \/ pc' = "dispatch"
      \/ pc = "recv" /\ pc' \in {"recv", "handle"}
  BY DEF AcceptEnds, Recv, RecvEagain, NetCalEnds, loop
<1>4. Phased'
  BY <1>1, <1>3 DEF Wiring, Phased, Handling, Here, Current
<1> QED
  BY <1>1, <1>2, <1>4, Steady DEF Wiring

LEMMA FailsKeeps ==
    ASSUME Wiring, RecvFails \/ SendFails
    PROVE  Wiring'
<1>1. /\ Handling /\ EXcepter(Here) /\ pc' \in {"dispatch", "aborted"}
      /\ UNCHANGED <<limit, fin, rst, nospace, batch>>
  BY DEF RecvFails, SendFails, Handling
<1>2. Linked' /\ Listed' /\ Batched' /\ interest' \in [Clients -> SUBSET {"IN", "OUT"}]
  BY <1>1, Unhooks
<1>3. Switches'
  BY <1>1, <1>2 DEF Wiring, Switches
<1>4. Phased'
  BY <1>1 DEF Phased, Handling
<1> QED
  BY <1>2, <1>3, <1>4 DEF Wiring

\* A step of the server that may go through epoll_ctl.
LEMMA CtrlKeeps ==
    ASSUME Wiring, Handling, NEW events \in SUBSET {"IN", "OUT"}, NEW sent,
           CtrlEpoll(Here, Current.fd, events, sent),
           UNCHANGED <<limit, link, fin, rst, _connections, batch>>
    PROVE  Switches' /\ Linked' /\ Listed' /\ Batched'
<1>1. /\ Here \in Clients /\ Current.fd \in Fds
      /\ _connections[Current.fd] = Here /\ Here # None
  BY HereIs
<1> DEFINE c == Here
           fd == Current.fd
<1> HIDE DEF c, fd
<1>2. c \in Clients /\ fd \in Fds /\ CtrlEpoll(c, fd, events, sent) /\ _connections'[fd] # None
  BY <1>1 DEF c, fd
<1>3. Switches'
  BY <1>2, CtrlSwitches DEF Wiring
<1>4. Wakes
  BY <1>2, CtrlWakes
<1> QED
  BY <1>3, <1>4, Steady

LEMMA NetCalKeeps ==
    ASSUME Wiring, NetCal
    PROVE  Wiring'
<1>1. /\ pc = "handle" /\ Handling
      /\ UNCHANGED <<limit, link, fin, rst, _connections, batch, pc>>
  BY DEF NetCal, Handling
<1>2. CASE CtrlEpoll(Here, Current.fd, ReadWrite, tx[Here])
  <2>1. ReadWrite \in SUBSET {"IN", "OUT"}
    BY DEF ReadWrite
  <2> QED
    BY <1>1, <1>2, <2>1, CtrlKeeps DEF Wiring, Phased, Handling, Here, Current
<1>3. CASE UNCHANGED <<outbuffer, interest, ready, nospace>>
  <2>1. Switches' /\ Wakes
    BY <1>1, <1>3 DEF Wiring, Switches, Wakes
  <2> QED
    BY <1>1, <2>1, Steady DEF Wiring, Phased, Handling, Here, Current
<1> QED
  BY <1>2, <1>3 DEF NetCal

LEMMA SendKeeps ==
    ASSUME Wiring, Send \/ SendEagain
    PROVE  Wiring'
<1>1. /\ pc = "send" /\ Handling /\ pc' \in {"send", "dispatch"}
      /\ UNCHANGED <<limit, link, fin, rst, _connections, batch>>
  BY DEF Send, SendEagain, Handling
<1>2. Phased'
  BY <1>1 DEF Wiring, Phased, Handling, Here, Current
<1>3. CASE \E sent : CtrlEpoll(Here, Current.fd, {"IN"}, sent)
  <2>1. {"IN"} \in SUBSET {"IN", "OUT"}
    OBVIOUS
  <2> QED
    BY <1>1, <1>2, <1>3, <2>1, CtrlKeeps DEF Wiring
<1>4. CASE \E sent : CtrlEpoll(Here, Current.fd, {"IN", "OUT"}, sent)
  <2>1. {"IN", "OUT"} \in SUBSET {"IN", "OUT"}
    OBVIOUS
  <2> QED
    BY <1>1, <1>2, <1>4, <2>1, CtrlKeeps DEF Wiring
<1>5. CASE UNCHANGED <<interest, ready, nospace>>
  <2>1. Switches' /\ Wakes
    BY <1>1, <1>5 DEF Wiring, Switches, Wakes
  <2> QED
    BY <1>1, <1>2, <2>1, Steady DEF Wiring
<1> QED
  BY <1>3, <1>4, <1>5 DEF Send, SendEagain

LEMMA PeerKeeps ==
    ASSUME Wiring, NEW c \in Clients, Peer(c)
    PROVE  Wiring'
<1>1. UNCHANGED <<limit, interest, _connections, batch, pc>>
  BY DEF Peer, Connect, Write, Shut, Reset, ReadAnswer, conn, loop
<1>2. Phased'
  BY <1>1 DEF Wiring, Phased, Handling, Here, Current
<1>3. CASE Connect(c)
  <2>1. /\ link[c] = "new" /\ link' = [link EXCEPT ![c] = "backlog"]
        /\ Edge(Listener) /\ UNCHANGED <<fin, rst, nospace>>
    BY <1>3 DEF Connect
  <2>2. Switches'
    BY <1>1, <2>1 DEF Wiring, Switches
  <2>3. Linked'
    <3>1. link' \in [Clients -> {"new", "backlog", "accepted", "closed"}]
      BY <2>1 DEF Wiring, Linked
    <3>2. \A d \in Clients : Live(d)' <=> Live(d)
      BY <2>1 DEF Wiring, Linked, Live
    <3>3. \A fd \in Fds : _connections'[fd] # None => Live(_connections[fd])'
      BY <1>1, <3>2 DEF Wiring, Linked
    <3> QED
      BY <1>1, <3>1, <3>2, <3>3 DEF Wiring, Linked
  <2>4. Listed'
    BY <1>1, <2>1, WakesListed DEF Wiring, Wakes
  <2>5. Batched'
    <3>1. \A d \in Clients : link[d] = "closed" => link'[d] = "closed"
      BY <2>1 DEF Wiring, Linked
    <3> QED
      BY <1>1, <3>1, BatchStays DEF Wiring
  <2> QED
    BY <1>2, <2>2, <2>3, <2>4, <2>5 DEF Wiring
<1>4. CASE Write(c) \/ Shut(c) \/ Reset(c) \/ ReadAnswer(c)
  <2>1. /\ UNCHANGED link
        /\ Wake(c) \/ UNCHANGED ready
    BY <1>4 DEF Write, Shut, Reset, ReadAnswer
  <2>2. Wakes
    BY <1>1, <2>1, WakeWakes DEF Wiring, Wakes
  <2>3. /\ fin' \in [Clients -> BOOLEAN]
        /\ rst' \in [Clients -> BOOLEAN]
        /\ nospace' \in [Clients -> BOOLEAN]
    <3>1. /\ fin' = fin \/ fin' = [fin EXCEPT ![c] = TRUE]
          /\ rst' = rst \/ rst' = [rst EXCEPT ![c] = TRUE]
          /\ nospace' = nospace \/ nospace' = [nospace EXCEPT ![c] = FALSE]
      BY <1>4 DEF Write, Shut, Reset, ReadAnswer
    <3> QED
      BY <3>1 DEF Wiring, Switches
  <2>4. Switches'
    BY <1>1, <2>3 DEF Wiring, Switches
  <2> QED
    BY <1>1, <1>2, <2>1, <2>2, <2>4, Steady DEF Wiring
<1> QED
  BY <1>3, <1>4 DEF Peer

LEMMA WiringInit == Init => Wiring
<1> SUFFICES ASSUME Init PROVE Wiring
  OBVIOUS
<1>1. Switches
  BY DEF Init, Switches
<1>2. Linked
  BY BoundsAssumption DEF Init, Linked, Live
<1>3. Listed
  BY EmptySeq DEF Init, Listed, Distinct, InSeq
<1>4. Batched
  BY EmptySeq DEF Init, Batched
<1>5. Phased
  BY DEF Init, Phased, Handling
<1> QED
  BY <1>1, <1>2, <1>3, <1>4, <1>5 DEF Wiring

LEMMA WiringNext == Wiring /\ [Next]_vars => Wiring'
<1> SUFFICES ASSUME Wiring, [Next]_vars PROVE Wiring'
  OBVIOUS
<1>1. CASE Server
  BY <1>1, WaitEpollKeeps, DispatchKeeps, AcceptKeeps, QuietKeeps, FailsKeeps, NetCalKeeps,
     SendKeeps DEF Server
<1>2. CASE \E c \in Clients : Peer(c)
  BY <1>2, PeerKeeps
<1>3. CASE UNCHANGED vars
  BY <1>3 DEF vars, kernel, conn, loop, Wiring, Switches, Linked, Live, Listed, Batched, Owned,
     Phased, Handling, Here, Current
<1> QED
  BY <1>1, <1>2, <1>3 DEF Next

(***************************************************************************)
(* No byte is lost.                                                         *)
(***************************************************************************)
Counts == /\ written \in [Clients -> Nat] /\ rx \in [Clients -> Nat]
          /\ inbuffer \in [Clients -> Nat] /\ handled \in [Clients -> Nat]
          /\ message \in Nat
          /\ \A c \in Clients : written[c] <= Chunk * Len(Script[c])
Counting == Counts /\ NothingMisread

LEMMA ScriptIs ==
    ASSUME NEW c \in Clients
    PROVE  Script[c] \in Seq({"good", "bad"}) /\ Len(Script[c]) \in Nat
<1>1. Script[c] \in Seq({"good", "bad"})
  BY ScriptAssumption
<1> QED
  BY <1>1, LenProperties

LEMMA Whole ==
    ASSUME NEW n \in Nat
    PROVE  /\ n \div Chunk \in Nat /\ n % Chunk \in Nat /\ n % Chunk < Chunk
           /\ n = Chunk * (n \div Chunk) + (n % Chunk)
<1> DEFINE q == n \div Chunk
           r == n % Chunk
<1>1. q \in Int /\ r \in Nat /\ r < Chunk
  BY Numbers
<1>2. n = Chunk * q + r
  BY Numbers
<1> HIDE DEF q, r
<1>3. ASSUME q < 0 PROVE FALSE
  <2>1. -(q + 1) \in Nat /\ q = -1 - (-(q + 1))
    BY <1>1, <1>3
  <2>2. PICK k \in Nat : q = -1 - k
    BY <2>1
  <2>3. Chunk * q = -Chunk - Chunk * k
    BY <2>2, Numbers
  <2>4. Chunk * k \in Nat
    BY Numbers
  <2> QED
    BY <1>1, <1>2, <2>3, <2>4, Numbers
<1>4. q \in Nat
  BY <1>1, <1>3
<1> QED
  BY <1>1, <1>2, <1>4, Zenon DEF q, r

LEMMA Distributes ==
    ASSUME NEW a \in Nat, NEW b \in Nat
    PROVE  Chunk * (a + b) = Chunk * a + Chunk * b /\ Chunk * a \in Nat
BY Numbers

LEMMA FewerThan ==
    ASSUME NEW a \in Nat, NEW b \in Nat, NEW w \in Nat, w + Chunk * a <= Chunk * b
    PROVE  a <= b
<1>1. SUFFICES ASSUME a >= b + 1 PROVE FALSE
  OBVIOUS
<1>2. PICK k \in Nat : a = b + 1 + k
  <2>1. a - (b + 1) \in Nat /\ a = b + 1 + (a - (b + 1))
    BY <1>1
  <2> QED
    BY <2>1
<1>3. Chunk * a = Chunk * b + Chunk + Chunk * k
  BY <1>2, Numbers
<1>4. Chunk * k \in Nat /\ Chunk * b \in Nat
  BY Distributes
<1> QED
  BY <1>3, <1>4, Numbers

\* How far the requests of c are: all its pieces are accounted for.
LEMMA HandledBound ==
    ASSUME Counting, NEW c \in Clients
    PROVE  /\ Cut(c) \in Nat /\ handled[c] + Cut(c) <= Len(Script[c])
           /\ rx[c] <= written[c] /\ inbuffer[c] <= written[c]
<1>1. Cut(c) \in Nat
  BY DEF Cut, Counting, Counts
<1>2. /\ written[c] = rx[c] + inbuffer[c] + Chunk * (handled[c] + Cut(c))
      /\ written[c] \in Nat /\ rx[c] \in Nat /\ inbuffer[c] \in Nat /\ handled[c] \in Nat
      /\ written[c] <= Chunk * Len(Script[c])
  BY DEF Counting, Counts, NothingMisread
<1> DEFINE a == handled[c] + Cut(c)
           b == Len(Script[c])
           w == rx[c] + inbuffer[c]
<1>3. a \in Nat /\ b \in Nat /\ w \in Nat
  <2>1. rx[c] \in Nat /\ inbuffer[c] \in Nat /\ handled[c] \in Nat
    BY <1>2
  <2>2. a \in Nat /\ w \in Nat
    BY <1>1, <2>1
  <2> QED
    BY <2>2, ScriptIs
<1>4. w + Chunk * a <= Chunk * b /\ written[c] = w + Chunk * a
  <2> DEFINE ca == Chunk * a
             cb == Chunk * b
  <2>1. written[c] = rx[c] + inbuffer[c] + ca /\ written[c] <= cb
    BY <1>2
  <2> HIDE DEF ca, cb
  <2>2. w + ca <= cb /\ written[c] = w + ca
    BY <2>1
  <2> QED
    BY <2>2 DEF ca, cb
<1> HIDE DEF a, b, w
<1>5. a <= b /\ Chunk * a \in Nat
  BY <1>3, <1>4, FewerThan, Distributes
<1>6. w <= written[c]
  BY <1>2, <1>3, <1>4, <1>5
<1> QED
  BY <1>1, <1>2, <1>5, <1>6 DEF a, b, w

\* A step that leaves the messages of Recver alone.
LEMMA CutStays ==
    ASSUME NEW c \in Clients,
           \/ UNCHANGED <<pc, message, batch, _connections>>
           \/ pc # "handle" /\ pc' # "handle"
    PROVE  Cut(c)' = Cut(c)
BY DEF Cut, Here, Current

LEMMA SameCounts ==
    ASSUME Counting, UNCHANGED <<written, rx, inbuffer, handled>>, message' = message,
           \A c \in Clients : Cut(c)' = Cut(c)
    PROVE  Counting'
BY DEF Counting, Counts, NothingMisread

\* Of a text everything received is appended.
LEMMA AppendedIs == ASSUME NEW n, Here \in Clients PROVE Appended(n) = n
<1>1. Zeros[Here] = {}
  BY TextAssumption
<1> QED
  BY <1>1 DEF Appended

LEMMA RecvCounts ==
    ASSUME Wiring, Counting, Recv
    PROVE  Counting'
<1> DEFINE c == Here
           n == Smaller(rx[c], RecvMax)
<1>1. c \in Clients
  BY HereIs DEF Recv, Handling
<1>2. /\ rx' = [rx EXCEPT ![c] = @ - n]
      /\ inbuffer' = [inbuffer EXCEPT ![c] = @ + n]
      /\ UNCHANGED <<written, handled, message>>
      /\ pc = "recv" /\ pc' = "recv"
  BY <1>1, AppendedIs DEF Recv, loop, client
<1>3. rx[c] \in Nat /\ n \in 0..rx[c] /\ inbuffer[c] \in Nat
  BY <1>1, Numbers DEF Smaller, Counting, Counts
<1> HIDE DEF n, c
<1>4. Counts'
  BY <1>1, <1>2, <1>3 DEF Counting, Counts
<1>5. ASSUME NEW d \in Clients
      PROVE  written'[d] = rx'[d] + inbuffer'[d] + Chunk * (handled'[d] + Cut(d)')
  <2>1. Cut(d)' = Cut(d)
    BY <1>2, CutStays
  <2>2. written[d] = rx[d] + inbuffer[d] + Chunk * (handled[d] + Cut(d))
    BY DEF Counting, NothingMisread
  <2>3. rx'[d] + inbuffer'[d] = rx[d] + inbuffer[d]
    BY <1>1, <1>2, <1>3 DEF Counting, Counts
  <2> QED
    BY <1>2, <2>1, <2>2, <2>3
<1> QED
  BY <1>4, <1>5 DEF Counting, NothingMisread

LEMMA RecvEagainCounts ==
    ASSUME Wiring, Counting, RecvEagain
    PROVE  Counting'
<1> DEFINE c == Here
<1>1. c \in Clients /\ c = _connections[Current.fd]
  BY HereIs DEF RecvEagain, Handling
<1>2. /\ inbuffer' = [inbuffer EXCEPT ![c] = inbuffer[c] % Chunk]
      /\ message' = inbuffer[c] \div Chunk
      /\ UNCHANGED <<written, rx, handled, _connections, batch>>
      /\ pc = "recv" /\ pc' = "handle"
  BY DEF RecvEagain, LastMessage, client, kernel
<1>3. Here' = c
  BY <1>2 DEF Here, Current
<1> HIDE DEF c
<1>4. inbuffer[c] \in Nat
  BY <1>1 DEF Counting, Counts
<1>5. /\ inbuffer[c] \div Chunk \in Nat /\ inbuffer[c] % Chunk \in Nat
      /\ inbuffer[c] = Chunk * (inbuffer[c] \div Chunk) + (inbuffer[c] % Chunk)
  BY <1>4, Whole
<1> DEFINE q == inbuffer[c] \div Chunk
           r == inbuffer[c] % Chunk
<1>a. inbuffer' = [inbuffer EXCEPT ![c] = r] /\ message' = q
  BY <1>2
<1>b. q \in Nat /\ r \in Nat /\ inbuffer[c] = Chunk * q + r
  BY <1>5, Zenon
<1> HIDE DEF q, r
<1>6. /\ inbuffer' = [inbuffer EXCEPT ![c] = r] /\ message' = q
      /\ q \in Nat /\ r \in Nat /\ inbuffer[c] = Chunk * q + r
  BY <1>a, <1>b
<1>7. Counts'
  BY <1>1, <1>2, <1>6 DEF Counting, Counts
<1>8. ASSUME NEW d \in Clients
      PROVE  written'[d] = rx'[d] + inbuffer'[d] + Chunk * (handled'[d] + Cut(d)')
  <2>1. Cut(d) = 0 /\ Cut(d)' = IF d = c THEN q ELSE 0
    BY <1>2, <1>3, <1>6 DEF Cut
  <2>2. /\ written[d] = rx[d] + inbuffer[d] + Chunk * (handled[d] + Cut(d))
        /\ rx[d] \in Nat /\ inbuffer[d] \in Nat /\ handled[d] \in Nat
    BY DEF Counting, NothingMisread, Counts
  <2>3. CASE d = c
    <3>1. Chunk * (handled[d] + q) = Chunk * handled[d] + Chunk * q
          /\ Chunk * handled[d] \in Nat /\ Chunk * q \in Nat
      BY <1>6, <2>2, Distributes
    <3>2. inbuffer'[d] = r /\ inbuffer[d] = Chunk * q + r
      BY <1>1, <1>6, <2>3 DEF Counting, Counts
    <3>3. Cut(d)' = q /\ handled[d] + Cut(d) = handled[d]
      BY <2>1, <2>2, <2>3
    <3> QED
      BY <1>2, <1>6, <2>2, <3>1, <3>2, <3>3
  <2>4. CASE d # c
    <3>1. inbuffer'[d] = inbuffer[d]
      BY <1>6, <2>4 DEF Counting, Counts
    <3> QED
      BY <1>2, <2>1, <2>2, <2>4, <3>1
  <2> QED
    BY <2>3, <2>4
<1> QED
  BY <1>7, <1>8 DEF Counting, NothingMisread

LEMMA NetCalCounts ==
    ASSUME Wiring, Counting, NetCal
    PROVE  Counting'
<1> DEFINE c == Here
<1>1. c \in Clients /\ Here' = c
  BY HereIs DEF NetCal, Handling, Here, Current
<1>2. /\ handled' = [handled EXCEPT ![c] = @ + 1]
      /\ message > 0 /\ message' = message - 1
      /\ UNCHANGED <<written, rx, inbuffer>>
      /\ pc = "handle" /\ pc' = "handle"
  BY DEF NetCal, client
<1>3. \A d \in Clients : /\ Cut(d) = IF d = c THEN message ELSE 0
                         /\ Cut(d)' = IF d = c THEN message' ELSE 0
  BY <1>1, <1>2 DEF Cut
<1> HIDE DEF c
<1>4. Counts'
  BY <1>1, <1>2 DEF Counting, Counts
<1>5. ASSUME NEW d \in Clients
      PROVE  handled'[d] + Cut(d)' = handled[d] + Cut(d)
  <2>1. handled[d] \in Nat /\ message \in Nat /\ handled'[d] = IF d = c THEN handled[d] + 1 ELSE handled[d]
    BY <1>1, <1>2 DEF Counting, Counts
  <2>2. /\ Cut(d) = IF d = c THEN message ELSE 0
        /\ Cut(d)' = IF d = c THEN message - 1 ELSE 0
    BY <1>2, <1>3
  <2> QED
    BY <2>1, <2>2
<1> QED
  BY <1>2, <1>4, <1>5 DEF Counting, Counts, NothingMisread

LEMMA WriteCounts ==
    ASSUME Wiring, Counting, NEW c \in Clients, Write(c)
    PROVE  Counting'
<1>1. /\ written' = [written EXCEPT ![c] = @ + 1] /\ written[c] < Chunk * Len(Script[c])
      /\ rx' = [rx EXCEPT ![c] = @ + 1]
      /\ UNCHANGED <<inbuffer, handled, message, pc, batch, _connections>>
  BY DEF Write, conn, loop
<1>2. Chunk * Len(Script[c]) \in Nat
  BY ScriptIs, Distributes
<1>3. Counts'
  <2>1. written' \in [Clients -> Nat] /\ rx' \in [Clients -> Nat]
    BY <1>1 DEF Counting, Counts
  <2>2. ASSUME NEW d \in Clients PROVE written'[d] <= Chunk * Len(Script[d])
    <3> DEFINE most == Chunk * Len(Script[d])
    <3>1. most \in Nat
      BY ScriptIs, Distributes
    <3>2. written[d] \in Nat /\ written[d] <= most /\ (d = c => written[d] < most)
      BY <1>1 DEF Counting, Counts
    <3>3. written'[d] = IF d = c THEN written[d] + 1 ELSE written[d]
      BY <1>1 DEF Counting, Counts
    <3> HIDE DEF most
    <3>4. written'[d] <= most
      BY <3>1, <3>2, <3>3
    <3> QED
      BY <3>4 DEF most
  <2> QED
    BY <1>1, <2>1, <2>2 DEF Counting, Counts
<1>4. ASSUME NEW d \in Clients
      PROVE  written'[d] = rx'[d] + inbuffer'[d] + Chunk * (handled'[d] + Cut(d)')
  <2>1. Cut(d)' = Cut(d)
    BY <1>1, CutStays
  <2>2. /\ written[d] = rx[d] + inbuffer[d] + Chunk * (handled[d] + Cut(d))
        /\ rx[d] \in Nat /\ inbuffer[d] \in Nat /\ handled[d] + Cut(d) \in Nat
    <3>1. written[d] = rx[d] + inbuffer[d] + Chunk * (handled[d] + Cut(d))
      BY DEF Counting, NothingMisread
    <3>2. rx[d] \in Nat /\ inbuffer[d] \in Nat /\ handled[d] \in Nat
      BY DEF Counting, Counts
    <3>3. Cut(d) \in Nat
      BY HandledBound
    <3> QED
      BY <3>1, <3>2, <3>3
  <2>3. Chunk * (handled[d] + Cut(d)) \in Nat
    BY <2>2, Distributes
  <2> DEFINE done == Chunk * (handled[d] + Cut(d))
  <2> HIDE DEF done
  <2>4. /\ written[d] = rx[d] + inbuffer[d] + done /\ done \in Nat
        /\ Chunk * (handled'[d] + Cut(d)') = done
    BY <1>1, <2>1, <2>2, <2>3 DEF done
  <2>5. \/ written'[d] = written[d] + 1 /\ rx'[d] = rx[d] + 1
        \/ written'[d] = written[d] /\ rx'[d] = rx[d]
    BY <1>1 DEF Counting, Counts
  <2>6. inbuffer'[d] = inbuffer[d]
    BY <1>1
  <2>7. written'[d] = rx'[d] + inbuffer[d] + done
    <3> DEFINE w == written[d]
               r == rx[d]
               k == inbuffer[d]
    <3>1. w \in Nat /\ r \in Nat /\ k \in Nat /\ done \in Nat /\ w = r + k + done
      BY <2>2, <2>4 DEF Counting, Counts
    <3>2. \/ written'[d] = w + 1 /\ rx'[d] = r + 1
          \/ written'[d] = w /\ rx'[d] = r
      BY <2>5
    <3> HIDE DEF w, r, k
    <3>3. written'[d] = rx'[d] + k + done
      BY <3>1, <3>2
    <3> QED
      BY <3>3 DEF k
  <2> QED
    BY <2>4, <2>6, <2>7
<1> QED
  BY <1>3, <1>4 DEF Counting, NothingMisread

LEMMA CountingInit == Init => Counting
<1> SUFFICES ASSUME Init PROVE Counting
  OBVIOUS
<1>1. Counts
  <2>1. \A c \in Clients : Chunk * Len(Script[c]) \in Nat
    BY ScriptIs, Distributes
  <2> QED
    BY <2>1 DEF Init, Counts
<1>2. NothingMisread
  BY Numbers DEF Init, NothingMisread, Cut
<1> QED
  BY <1>1, <1>2 DEF Counting

LEMMA CountingNext == Wiring /\ Counting /\ [Next]_vars => Counting'
<1> SUFFICES ASSUME Wiring, Counting, [Next]_vars PROVE Counting'
  OBVIOUS
<1>1. CASE Server
  <2>1. CASE Recv
    BY <2>1, RecvCounts
  <2>2. CASE RecvEagain
    BY <2>2, RecvEagainCounts
  <2>3. CASE NetCal
    BY <2>3, NetCalCounts
  <2>4. CASE NetCalEnds
    <3>1. /\ UNCHANGED <<written, rx, inbuffer, handled, message>>
          /\ message = 0 /\ pc' = "dispatch"
      BY <2>4 DEF NetCalEnds, client, kernel, conn
    <3>2. \A c \in Clients : Cut(c)' = Cut(c)
      BY <3>1 DEF Cut
    <3> QED
      BY <3>1, <3>2, SameCounts
  <2>5. CASE \/ WaitEpoll \/ Dispatch \/ Accept \/ AcceptEnds \/ RecvFails \/ Send
             \/ SendEagain \/ SendFails
    <3>1. UNCHANGED <<written, rx, inbuffer, handled, message>>
      BY <2>5 DEF WaitEpoll, Dispatch, Accept, AddConnection, AcceptEnds, RecvFails, Send,
         SendEagain, SendFails, client, kernel, conn, loop
    <3>2. pc # "handle" /\ pc' # "handle"
      BY <2>5 DEF WaitEpoll, Dispatch, Accept, AcceptEnds, RecvFails, Send, SendEagain, SendFails,
         loop
    <3> QED
      BY <3>1, <3>2, CutStays, SameCounts
  <2> QED
    BY <1>1, <2>1, <2>2, <2>3, <2>4, <2>5 DEF Server
<1>2. ASSUME NEW c \in Clients, Peer(c) PROVE Counting'
  <2>1. CASE Write(c)
    BY <2>1, WriteCounts
  <2>2. CASE Connect(c) \/ Shut(c) \/ Reset(c) \/ ReadAnswer(c)
    <3>1. UNCHANGED <<written, rx, inbuffer, handled, message, pc, batch, _connections>>
      BY <2>2 DEF Connect, Shut, Reset, ReadAnswer, client, conn, loop
    <3> QED
      BY <3>1, CutStays, SameCounts
  <2> QED
    BY <1>2, <2>1, <2>2 DEF Peer
<1>3. CASE UNCHANGED vars
  <2>1. UNCHANGED <<written, rx, inbuffer, handled, message, pc, batch, _connections>>
    BY <1>3 DEF vars, client, kernel, conn, loop
  <2> QED
    BY <2>1, CutStays, SameCounts
<1> QED
  BY <1>1, <1>2, <1>3 DEF Next

(***************************************************************************)
(* The answers come in order, each once.                                    *)
(***************************************************************************)
Streams == /\ received \in [Clients -> Seq(Nat)] /\ tx \in [Clients -> Seq(Nat)]
           /\ outbuffer \in [Clients -> Seq(Nat)]
           /\ \A c \in Clients : /\ received[c] \in Seq(Requests(c))
                                 /\ tx[c] \in Seq(Requests(c)) /\ Len(tx[c]) <= TxCap
                                 /\ outbuffer[c] \in Seq(Requests(c))
Ordered(c) == /\ \A i, j \in 1..Len(Answers(c)) : i < j => Answers(c)[i] < Answers(c)[j]
              /\ \A i \in Requests(c) :
                    InSeq(i, Answers(c)) <=> i <= handled[c] /\ Script[c][i] = "good"
Ordering == Streams /\ AnswersInOrder

LEMMA RequestsAreNumbers ==
    ASSUME NEW c \in Clients
    PROVE  Requests(c) \subseteq Nat /\ Seq(Requests(c)) \subseteq Seq(Nat)
<1>1. Requests(c) \subseteq Nat
  BY ScriptIs DEF Requests
<1>2. Seq(Requests(c)) \subseteq Seq(Nat)
  BY <1>1, SeqMonotonic
<1> QED
  BY <1>1, <1>2

\* Moving the first of t to the end of r, or the first n of o to the end of t,
\* leaves the stream as it is.
LEMMA ReadMoves ==
    ASSUME NEW S, NEW r \in Seq(S), NEW t \in Seq(S), t # <<>>
    PROVE  /\ Append(r, Head(t)) \in Seq(S) /\ Tail(t) \in Seq(S) /\ Len(Tail(t)) <= Len(t)
           /\ Append(r, Head(t)) \o Tail(t) = r \o t
<1>1. Head(t) \in S /\ Tail(t) \in Seq(S) /\ Len(Tail(t)) = Len(t) - 1 /\ Len(t) \in Nat
  BY HeadTailProperties, LenProperties
<1> DEFINE h == Head(t)
           rest == Tail(t)
<1>2. <<h>> \in Seq(S) /\ <<h>> \o rest = t
  <2>1. SubSeq(t, 1, Len(t)) = t
    BY SubSeqFull
  <2>2. Len(t) >= 1
    BY <1>1, EmptySeq
  <2>3. SubSeq(t, 1, Len(t)) = <<t[1]>> \o SubSeq(t, 2, Len(t))
    BY <1>1, <2>2, SubSeqRecursiveFirst
  <2>4. Tail(t) = SubSeq(t, 2, Len(t))
    BY TailIsSubSeq
  <2>5. Head(t) = t[1]
    BY <2>1, <2>2, <1>1, HeadTailOfSubSeq
  <2>6. <<h>> \in Seq(S)
    BY <1>1
  <2> QED
    BY <2>1, <2>3, <2>4, <2>5, <2>6
<1>3. Append(r, h) = r \o <<h>> /\ Append(r, h) \in Seq(S)
  BY <1>1, AppendIsConcat, AppendProperties
<1> HIDE DEF h, rest
<1>4. (r \o <<h>>) \o rest = r \o (<<h>> \o rest)
  BY <1>1, <1>2, ConcatAssociative DEF rest
<1>5. Append(r, h) \o rest = r \o t
  BY <1>2, <1>3, <1>4
<1> QED
  BY <1>1, <1>3, <1>5 DEF h, rest

Joined(r, t, o) == r \o t \o o
Sent(t, o, n) == t \o SubSeq(o, 1, n)
Unsent(o, n) == SubSeq(o, n + 1, Len(o))

LEMMA SendMoves ==
    ASSUME NEW S
    PROVE  \A r, t, o \in Seq(S) : \A n \in 0..Len(o) :
               /\ Unsent(o, n) \in Seq(S) /\ Sent(t, o, n) \in Seq(S)
               /\ Len(Sent(t, o, n)) = Len(t) + n
               /\ Joined(r, Sent(t, o, n), Unsent(o, n)) = Joined(r, t, o)
<1>a. \A x, y, z \in Seq(S) : (x \o y) \o z = x \o (y \o z)
  BY ConcatAssociative
<1>b. \A x, y \in Seq(S) : x \o y \in Seq(S) /\ Len(x \o y) = Len(x) + Len(y)
  BY ConcatProperties
<1> TAKE r, t, o \in Seq(S)
<1> TAKE n \in 0..Len(o)
<1> DEFINE first == SubSeq(o, 1, n)
           rest == SubSeq(o, n + 1, Len(o))
<1>1. Len(o) \in Nat /\ n \in Nat /\ \A i \in 1..Len(o) : o[i] \in S
  BY LenProperties, ElementOfSeq
<1>2. first \in Seq(S) /\ Len(first) = n
  <2>1. 1 \in Int /\ n \in Int /\ \A i \in 1..n : o[i] \in S
    BY <1>1
  <2>2. first \in Seq(S) /\ Len(first) = IF 1 <= n THEN n - 1 + 1 ELSE 0
    BY <2>1, SubSeqProperties
  <2> HIDE DEF first
  <2> QED
    BY <1>1, <2>2
<1>3. rest \in Seq(S)
  <2>1. n + 1 \in Int /\ Len(o) \in Int /\ \A i \in n+1..Len(o) : o[i] \in S
    BY <1>1
  <2> QED
    BY <2>1, SubSeqProperties
<1>4. first \o rest = o
  <2>1. 1 \in 1..Len(o)+1 /\ n \in 1-1..Len(o) /\ Len(o) \in n..Len(o)
    BY <1>1
  <2>2. SubSeq(o, 1, n) \o SubSeq(o, n + 1, Len(o)) = SubSeq(o, 1, Len(o))
    BY <2>1, ConcatAdjacentSubSeq
  <2> QED
    BY <2>2, SubSeqFull
<1> HIDE DEF first, rest
<1>5. t \o first \in Seq(S) /\ Len(t \o first) = Len(t) + n
  BY <1>b, <1>2
<1>6. (t \o first) \o rest = t \o o
  <2>1. (t \o first) \o rest = t \o (first \o rest)
    BY <1>a, <1>2, <1>3, ZenonT(40)
  <2> QED
    BY <1>4, <2>1, Zenon
<1>7. (r \o (t \o first)) \o rest = r \o ((t \o first) \o rest)
  BY <1>a, <1>3, <1>5, ZenonT(40)
<1>8. (r \o t) \o o = r \o (t \o o)
  BY <1>a, ZenonT(40)
<1>9. Joined(r, t \o first, rest) = Joined(r, t, o)
  BY <1>6, <1>7, <1>8, Zenon DEF Joined
<1> QED
  BY <1>3, <1>5, <1>9, Zenon DEF first, rest, Sent, Unsent

LEMMA AnswerAppends ==
    ASSUME NEW S, NEW r \in Seq(S), NEW t \in Seq(S), NEW o \in Seq(S), NEW x \in S
    PROVE  /\ Append(o, x) \in Seq(S)
           /\ r \o t \o Append(o, x) = Append(r \o t \o o, x)
<1>1. r \o t \in Seq(S) /\ (r \o t) \o o \in Seq(S) /\ <<x>> \in Seq(S)
  BY ConcatProperties
<1>2. Append(o, x) \in Seq(S) /\ Append(o, x) = o \o <<x>>
  BY AppendProperties, AppendIsConcat
<1>3. (r \o t) \o (o \o <<x>>) = ((r \o t) \o o) \o <<x>>
  BY <1>1, ConcatAssociative
<1>4. Append((r \o t) \o o, x) = ((r \o t) \o o) \o <<x>>
  BY <1>1, AppendIsConcat
<1> QED
  BY <1>2, <1>3, <1>4

LEMMA AnswersAre ==
    ASSUME Streams, NEW c \in Clients
    PROVE  Answers(c) \in Seq(Requests(c)) /\ Len(Answers(c)) \in Nat
<1>1. received[c] \o tx[c] \in Seq(Requests(c))
  BY ConcatProperties DEF Streams
<1>2. Answers(c) \in Seq(Requests(c))
  BY <1>1, ConcatProperties DEF Streams, Answers
<1> QED
  BY <1>2, LenProperties

LEMMA SameAnswers ==
    ASSUME Ordering, UNCHANGED handled, \A c \in Clients : Answers(c)' = Answers(c)
    PROVE  AnswersInOrder'
BY DEF Ordering, AnswersInOrder, InSeq

LEMMA ReadAnswerOrders ==
    ASSUME Ordering, NEW c \in Clients, ReadAnswer(c)
    PROVE  Ordering'
<1>1. /\ tx[c] # <<>>
      /\ received' = [received EXCEPT ![c] = Append(received[c], Head(tx[c]))]
      /\ tx' = [tx EXCEPT ![c] = Tail(tx[c])]
      /\ UNCHANGED <<handled, outbuffer>>
  BY DEF ReadAnswer, conn
<1> DEFINE r == Append(received[c], Head(tx[c]))
           t == Tail(tx[c])
<1>2. /\ r \in Seq(Requests(c)) /\ t \in Seq(Requests(c)) /\ Len(t) <= Len(tx[c])
      /\ r \o t = received[c] \o tx[c]
  BY <1>1, ReadMoves, SMTT(30) DEF Ordering, Streams
<1>3. received' = [received EXCEPT ![c] = r] /\ tx' = [tx EXCEPT ![c] = t]
  BY <1>1
<1>4. Len(t) \in Nat /\ Len(tx[c]) \in Nat /\ r \in Seq(Nat) /\ t \in Seq(Nat)
  <2>1. tx[c] \in Seq(Requests(c)) /\ Seq(Requests(c)) \subseteq Seq(Nat)
    BY RequestsAreNumbers DEF Ordering, Streams
  <2> HIDE DEF r, t
  <2>2. Len(t) \in Nat /\ Len(tx[c]) \in Nat
    BY <1>2, <2>1, LenProperties
  <2>3. r \in Seq(Nat) /\ t \in Seq(Nat)
    BY <1>2, <2>1
  <2> QED
    BY <2>2, <2>3
<1> HIDE DEF r, t
<1>5. Streams'
  <2>1. received' \in [Clients -> Seq(Nat)] /\ tx' \in [Clients -> Seq(Nat)]
    BY <1>3, <1>4 DEF Ordering, Streams
  <2>2. ASSUME NEW d \in Clients
        PROVE  /\ received'[d] \in Seq(Requests(d))
               /\ tx'[d] \in Seq(Requests(d)) /\ Len(tx'[d]) <= TxCap
               /\ outbuffer'[d] \in Seq(Requests(d))
    <3>1. CASE d = c
      BY <1>1, <1>2, <1>3, <1>4, <3>1, Numbers DEF Ordering, Streams
    <3>2. CASE d # c
      BY <1>1, <1>3, <3>2 DEF Ordering, Streams
    <3> QED
      BY <3>1, <3>2
  <2> QED
    BY <1>1, <2>1, <2>2 DEF Ordering, Streams, Requests
<1>6. ASSUME NEW d \in Clients PROVE Answers(d)' = Answers(d)
  BY <1>1, <1>2, <1>3 DEF Answers, Ordering, Streams
<1> QED
  BY <1>1, <1>5, <1>6, SameAnswers DEF Ordering

LEMMA SendOrders ==
    ASSUME Wiring, Ordering, Send, NEW c \in Clients, c = Here
    PROVE  Ordering'
<1> DEFINE n == Smaller(TxCap - Len(tx[c]), Len(outbuffer[c]))
           t == Sent(tx[c], outbuffer[c], n)
           o == Unsent(outbuffer[c], n)
<1>2. /\ Len(tx[c]) < TxCap
      /\ tx' = [tx EXCEPT ![c] = t] /\ outbuffer' = [outbuffer EXCEPT ![c] = o]
      /\ UNCHANGED <<received, handled>>
  BY DEF Send, client, Sent, Unsent
<1>a. /\ received[c] \in Seq(Requests(c)) /\ tx[c] \in Seq(Requests(c))
      /\ outbuffer[c] \in Seq(Requests(c))
  BY DEF Ordering, Streams
<1>3. Len(tx[c]) \in Nat /\ Len(outbuffer[c]) \in Nat
  BY <1>a, LenProperties
<1>4. n \in 0..Len(outbuffer[c]) /\ Len(tx[c]) + n <= TxCap
  <2> DEFINE a == TxCap - Len(tx[c])
             b == Len(outbuffer[c])
  <2>1. a \in Nat /\ b \in Nat /\ Len(tx[c]) + a = TxCap
    BY <1>2, <1>3, Numbers
  <2> HIDE DEF a, b
  <2>2. Smaller(a, b) \in 0..b /\ Smaller(a, b) <= a
    BY <2>1 DEF Smaller
  <2>3. n = Smaller(a, b)
    BY DEF a, b
  <2> HIDE DEF n
  <2> QED
    BY <1>3, <2>1, <2>2, <2>3, Numbers DEF b
<1> HIDE DEF n
<1>5. /\ t \in Seq(Requests(c)) /\ Len(t) = Len(tx[c]) + n /\ o \in Seq(Requests(c))
      /\ Joined(received[c], t, o) = Joined(received[c], tx[c], outbuffer[c])
  <2> DEFINE S == Requests(c)
             r0 == received[c]
             t0 == tx[c]
             o0 == outbuffer[c]
  <2>1. r0 \in Seq(S) /\ t0 \in Seq(S) /\ o0 \in Seq(S) /\ n \in 0..Len(o0)
    BY <1>a, <1>4
  <2> HIDE DEF S, r0, t0, o0
  <2>2. /\ Sent(t0, o0, n) \in Seq(S) /\ Len(Sent(t0, o0, n)) = Len(t0) + n
        /\ Unsent(o0, n) \in Seq(S)
        /\ Joined(r0, Sent(t0, o0, n), Unsent(o0, n)) = Joined(r0, t0, o0)
    BY <2>1, SendMoves
  <2> QED
    BY <2>2 DEF S, r0, t0, o0
<1> HIDE DEF t, o
<1>6. t \in Seq(Nat) /\ o \in Seq(Nat)
  BY <1>5, RequestsAreNumbers
<1>7. Streams'
  <2>1. tx' \in [Clients -> Seq(Nat)] /\ outbuffer' \in [Clients -> Seq(Nat)]
    BY <1>2, <1>6 DEF Ordering, Streams
  <2>2. ASSUME NEW d \in Clients
        PROVE  /\ received'[d] \in Seq(Requests(d))
               /\ tx'[d] \in Seq(Requests(d)) /\ Len(tx'[d]) <= TxCap
               /\ outbuffer'[d] \in Seq(Requests(d))
    <3>1. CASE d = c
      BY <1>2, <1>4, <1>5, <3>1 DEF Ordering, Streams
    <3>2. CASE d # c
      BY <1>2, <3>2 DEF Ordering, Streams
    <3> QED
      BY <3>1, <3>2
  <2> QED
    BY <1>2, <2>1, <2>2 DEF Ordering, Streams, Requests
<1>8. ASSUME NEW d \in Clients PROVE Answers(d)' = Answers(d)
  <2>1. CASE d = c
    <3>1. tx'[c] = t /\ outbuffer'[c] = o /\ received'[c] = received[c]
      BY <1>2 DEF Ordering, Streams
    <3>2. /\ Answers(c) = Joined(received[c], tx[c], outbuffer[c])
          /\ Answers(c)' = Joined(received'[c], tx'[c], outbuffer'[c])
      BY Zenon DEF Answers, Joined
    <3> QED
      BY <1>5, <2>1, <3>1, <3>2
  <2>2. CASE d # c
    BY <1>2, <2>2 DEF Answers, Ordering, Streams
  <2> QED
    BY <2>1, <2>2
<1> QED
  BY <1>2, <1>7, <1>8, SameAnswers DEF Ordering

LEMMA NetCalOrders ==
    ASSUME Wiring, Counting, Ordering, NetCal, NEW c \in Clients, c = Here
    PROVE  Ordering'
<1> DEFINE x == handled[c] + 1
           o == Append(outbuffer[c], x)
<1>2. /\ handled' = [handled EXCEPT ![c] = x]
      /\ UNCHANGED <<received, tx>>
      /\ Script[c][x] = "good" => outbuffer' = [outbuffer EXCEPT ![c] = o]
      /\ Script[c][x] # "good" => UNCHANGED outbuffer
  BY DEF NetCal, Pending, client
<1>3. x \in Requests(c) /\ x \in Nat /\ handled[c] \in Nat
  <2>1. Cut(c) = message /\ message > 0 /\ message \in Nat /\ handled[c] \in Nat
    BY DEF NetCal, Cut, Counting, Counts
  <2>2. handled[c] + Cut(c) <= Len(Script[c]) /\ Len(Script[c]) \in Nat
    BY HandledBound, ScriptIs
  <2> QED
    BY <2>1, <2>2 DEF Requests
<1>4. /\ received[c] \in Seq(Requests(c)) /\ tx[c] \in Seq(Requests(c))
      /\ outbuffer[c] \in Seq(Requests(c))
  BY DEF Ordering, Streams
<1>x. x = handled[c] + 1
  OBVIOUS
<1> HIDE DEF x
<1>a. /\ o \in Seq(Requests(c))
      /\ received[c] \o tx[c] \o o = Append(Answers(c), x)
  <2> DEFINE S == Requests(c)
             r0 == received[c]
             t0 == tx[c]
             o0 == outbuffer[c]
  <2>1. r0 \in Seq(S) /\ t0 \in Seq(S) /\ o0 \in Seq(S) /\ x \in S
    BY <1>3, <1>4
  <2> HIDE DEF S, r0, t0, o0
  <2>2. /\ Append(o0, x) \in Seq(S)
        /\ r0 \o t0 \o Append(o0, x) = Append(r0 \o t0 \o o0, x)
    BY <2>1, AnswerAppends
  <2> QED
    BY <2>2 DEF S, r0, t0, o0, Answers
<1>5. o \in Seq(Requests(c)) /\ o \in Seq(Nat)
  BY <1>a, RequestsAreNumbers
<1>6. handled'[c] = x /\ \A d \in Clients : d # c => handled'[d] = handled[d]
  BY <1>2 DEF Counting, Counts
<1> HIDE DEF o
<1>7. Streams'
  <2>1. outbuffer' \in [Clients -> Seq(Nat)]
    BY <1>2, <1>5 DEF Ordering, Streams
  <2>2. ASSUME NEW d \in Clients PROVE outbuffer'[d] \in Seq(Requests(d))
    BY <1>2, <1>5 DEF Ordering, Streams
  <2> QED
    BY <1>2, <2>1, <2>2 DEF Ordering, Streams, Requests
<1>8. ASSUME NEW d \in Clients PROVE Ordered(d)'
  <2>1. Ordered(d)
    BY DEF Ordering, AnswersInOrder, Ordered
  <2>2. CASE d # c
    <3>1. Answers(d)' = Answers(d) /\ handled'[d] = handled[d]
      BY <1>2, <1>6, <2>2 DEF Answers, Ordering, Streams
    <3> QED
      BY <2>1, <3>1 DEF Ordered, InSeq, Requests
  <2>3. CASE d = c /\ Script[c][x] # "good"
    <3>1. Answers(d)' = Answers(d) /\ handled'[d] = x /\ x = handled[d] + 1
      BY <1>2, <1>6, <1>x, <2>3 DEF Answers
    <3>2. \A i \in Requests(d) : i <= handled'[d] /\ Script[d][i] = "good"
                                   <=> i <= handled[d] /\ Script[d][i] = "good"
      BY <1>3, <2>3, <3>1, RequestsAreNumbers
    <3> QED
      BY <2>1, <3>1, <3>2 DEF Ordered, InSeq, Requests
  <2>4. CASE d = c /\ Script[c][x] = "good"
    <3> DEFINE a == Answers(c)
               b == Append(a, x)
    <3>1. Answers(c)' = b
      <4>1. outbuffer'[c] = o /\ received'[c] = received[c] /\ tx'[c] = tx[c]
        BY <1>2, <2>4 DEF Ordering, Streams
      <4>2. Answers(c)' = received'[c] \o tx'[c] \o outbuffer'[c]
        BY Zenon DEF Answers
      <4> QED
        BY <1>a, <4>1, <4>2
    <3>2. a \in Seq(Requests(c)) /\ Len(a) \in Nat
      BY AnswersAre DEF Ordering
    <3>3. /\ Len(b) = Len(a) + 1 /\ b[Len(a) + 1] = x
          /\ \A i \in 1..Len(a) : b[i] = a[i] /\ a[i] \in Requests(c)
      BY <1>3, <3>2, AppendProperties, ElementOfSeq
    <3>4. Ordered(c)
      BY <2>1, <2>4
    <3> HIDE DEF b
    <3>5. \A i \in 1..Len(a) : a[i] < x /\ a[i] \in Nat
      <4>1. ASSUME NEW i \in 1..Len(a) PROVE a[i] <= handled[c] /\ a[i] \in Nat
        <5>1. a[i] \in Requests(c) /\ InSeq(a[i], a)
          BY <3>3 DEF InSeq
        <5> QED
          BY <3>4, <5>1, RequestsAreNumbers DEF Ordered
      <4> QED
        BY <1>3, <1>x, <4>1
    <3>6. \A i, j \in 1..Len(b) : i < j => b[i] < b[j]
      <4>1. \A i, j \in 1..Len(a) : i < j => a[i] < a[j]
        BY <3>4 DEF Ordered
      <4> HIDE DEF a
      <4> TAKE i, j \in 1..Len(b)
      <4> HAVE i < j
      <4>2. i \in 1..Len(a)
        BY <3>2, <3>3
      <4>3. CASE j \in 1..Len(a)
        BY <3>3, <4>1, <4>2, <4>3
      <4>4. CASE j = Len(a) + 1
        BY <3>3, <3>5, <4>2, <4>4
      <4> QED
        BY <3>2, <3>3, <4>3, <4>4
    <3>7. ASSUME NEW i \in Requests(c)
          PROVE  InSeq(i, b) <=> i <= handled'[c] /\ Script[c][i] = "good"
      <4>1. InSeq(i, a) <=> i <= handled[c] /\ Script[c][i] = "good"
        BY <3>4 DEF Ordered
      <4>2. InSeq(i, b) <=> InSeq(i, a) \/ i = x
        <5> HIDE DEF a
        <5> QED
          BY <3>2, <3>3 DEF InSeq
      <4>3. i \in Nat
        BY RequestsAreNumbers
      <4> QED
        BY <1>3, <1>6, <1>x, <2>4, <4>1, <4>2, <4>3
    <3>8. Ordered(c)'
      <4>1. \A i, j \in 1..Len(Answers(c)') : i < j => (Answers(c)')[i] < (Answers(c)')[j]
        BY <3>1, <3>6
      <4>2. \A i \in Requests(c) :
               InSeq(i, Answers(c)') <=> i <= handled'[c] /\ Script[c][i] = "good"
        BY <3>1, <3>7
      <4> QED
        BY <4>1, <4>2 DEF Ordered, Requests, InSeq
    <3> QED
      BY <2>4, <3>8
  <2> QED
    BY <2>2, <2>3, <2>4
<1> QED
  BY <1>7, <1>8 DEF Ordering, AnswersInOrder, Ordered

LEMMA OrderingInit == Init => Ordering
<1> SUFFICES ASSUME Init PROVE Ordering
  OBVIOUS
<1>1. Streams
  BY EmptySeq, Numbers DEF Init, Streams
<1>2. ASSUME NEW c \in Clients PROVE Answers(c) = <<>>
  <2>1. <<>> \in Seq(Nat)
    BY EmptySeq
  <2> QED
    BY <2>1, ConcatEmptySeq DEF Init, Answers
<1>3. ASSUME NEW c \in Clients PROVE Ordered(c)
  <2>1. Len(Answers(c)) = 0 /\ handled[c] = 0
    BY <1>2, EmptySeq DEF Init
  <2>2. \A i \in Requests(c) : ~(i <= 0)
    BY ScriptIs DEF Requests
  <2> QED
    BY <2>1, <2>2 DEF Ordered, InSeq
<1> QED
  BY <1>1, <1>3 DEF Ordering, AnswersInOrder, Ordered

LEMMA OrderingNext == Wiring /\ Counting /\ Ordering /\ [Next]_vars => Ordering'
<1> SUFFICES ASSUME Wiring, Counting, Ordering, [Next]_vars PROVE Ordering'
  OBVIOUS
<1>1. CASE UNCHANGED <<received, tx, outbuffer, handled>>
  <2>1. Streams'
    BY <1>1 DEF Ordering, Streams, Requests
  <2>2. \A c \in Clients : Answers(c)' = Answers(c)
    BY <1>1 DEF Answers
  <2> QED
    BY <1>1, <2>1, <2>2, SameAnswers DEF Ordering
<1>2. CASE Server
  <2>1. CASE \/ WaitEpoll \/ Dispatch \/ Accept \/ AcceptEnds \/ Recv \/ RecvFails
             \/ RecvEagain \/ NetCalEnds \/ SendEagain \/ SendFails
    <3>1. UNCHANGED <<received, tx, outbuffer, handled>>
      BY <2>1 DEF WaitEpoll, Dispatch, Accept, AddConnection, AcceptEnds, Recv, RecvFails,
         RecvEagain, NetCalEnds, SendEagain, SendFails, client, kernel, conn
    <3> QED
      BY <1>1, <3>1
  <2>2. CASE NetCal \/ Send
    <3>1. PICK c \in Clients : c = Here
      BY <2>2, HereIs DEF NetCal, Send, Handling
    <3> QED
      BY <2>2, <3>1, NetCalOrders, SendOrders
  <2> QED
    BY <1>2, <2>1, <2>2 DEF Server
<1>3. ASSUME NEW c \in Clients, Peer(c) PROVE Ordering'
  <2>1. CASE Connect(c) \/ Write(c) \/ Shut(c) \/ Reset(c)
    <3>1. UNCHANGED <<received, tx, outbuffer, handled>>
      BY <2>1 DEF Connect, Write, Shut, Reset, client, conn
    <3> QED
      BY <1>1, <3>1
  <2> QED
    BY <1>3, <2>1, ReadAnswerOrders DEF Peer
<1>4. CASE UNCHANGED vars
  BY <1>1, <1>4 DEF vars, client, kernel, conn
<1> QED
  BY <1>2, <1>3, <1>4 DEF Next

(***************************************************************************)
(* No edge is lost.                                                         *)
(***************************************************************************)
LEMMA WakesGrow ==
    ASSUME Listed, Wakes, NEW y, InSeq(y, ready)
    PROVE  InSeq(y, ready')
<1>1. CASE ready' = ready
  BY <1>1 DEF InSeq
<1>2. CASE \E x \in Fds \cup {Listener} : Edge(x)
  <2>1. PICK x \in Fds \cup {Listener} : Edge(x)
    BY <1>2
  <2> QED
    BY <2>1, EdgeKeeps DEF Listed
<1> QED
  BY <1>1, <1>2 DEF Wakes

LEMMA EdgeIn ==
    ASSUME Listed, NEW x \in Fds \cup {Listener}, Edge(x)
    PROVE  InSeq(x, ready')
BY EdgeKeeps DEF Listed

LEMMA SameFd ==
    ASSUME Linked, Linked', NEW c \in Clients, Live(c), _connections'[FdOf(c)] = c
    PROVE  FdOf(c)' = FdOf(c)
<1>1. FdOf(c) \in Fds /\ c # None
  BY FdOfLive, BoundsAssumption
<1>2. \A fd \in Fds : _connections'[fd] = c => fd = FdOf(c)
  BY <1>1 DEF Linked
<1>3. FdOf(c)' \in Fds /\ _connections'[FdOf(c)'] = c
  BY <1>1 DEF FdOf
<1> QED
  BY <1>2, <1>3

\* What holds of a client the step does not concern.
Apart(c) == /\ UNCHANGED batch
            /\ FdOf(c)' = FdOf(c)
            /\ InSeq(FdOf(c), ready) => InSeq(FdOf(c), ready')
            /\ pc = "recv" /\ Here = c => (pc = "recv" /\ Here = c)'
            /\ pc = "send" /\ Here = c => (pc = "send" /\ Here = c)'

LEMMA DueStays ==
    ASSUME NEW c, Apart(c)
    PROVE  (InputDue(c) => InputDue(c)') /\ (OutputDue(c) => OutputDue(c)')
<1>1. ASSUME InputDue(c) PROVE InputDue(c)'
  <2>1. CASE InSeq(FdOf(c), ready)
    BY <2>1 DEF Apart, InputDue
  <2>2. CASE \E i \in 1..Len(batch) : Reports(c, i) /\ batch[i].in
    BY <2>2 DEF Apart, InputDue, Reports
  <2>3. CASE pc = "recv" /\ Here = c
    BY <2>3 DEF Apart, InputDue
  <2> QED
    BY <1>1, <2>1, <2>2, <2>3 DEF InputDue
<1>2. ASSUME OutputDue(c) PROVE OutputDue(c)'
  <2>1. CASE InSeq(FdOf(c), ready)
    BY <2>1 DEF Apart, OutputDue
  <2>2. CASE \E i \in 1..Len(batch) : Reports(c, i) /\ batch[i].out
    BY <2>2 DEF Apart, OutputDue, Reports
  <2>3. CASE pc = "send" /\ Here = c
    BY <2>3 DEF Apart, OutputDue
  <2> QED
    BY <1>2, <2>1, <2>2, <2>3 DEF OutputDue
<1> QED
  BY <1>1, <1>2

AttendedOf(c) == HeardOf(c) /\ SplitOf(c) /\ FlushedOf(c)

LEMMA Bystander ==
    ASSUME NEW c, Apart(c), AttendedOf(c),
           interest'[c] = interest[c], inbuffer'[c] = inbuffer[c], outbuffer'[c] = outbuffer[c],
           rx'[c] = rx[c], fin'[c] = fin[c], rst'[c] = rst[c], tx'[c] = tx[c],
           nospace[c] => nospace'[c]
    PROVE  AttendedOf(c)'
<1>1. HeardOf(c)'
  BY DueStays DEF AttendedOf, HeardOf, Readable
<1>2. SplitOf(c)'
  BY DEF AttendedOf, SplitOf, Apart
<1>3. FlushedOf(c)'
  BY DueStays DEF AttendedOf, FlushedOf, Writable
<1> QED
  BY <1>1, <1>2, <1>3 DEF AttendedOf

\* The marks of the batch lead to the handlers.
LEMMA HereDue ==
    ASSUME Wiring, NEW c \in Clients, Live(c), batch # <<>>, Reports(c, 1)
    PROVE  /\ Current.fd # Listener /\ Current.fd \in Fds /\ Here = c
           /\ IsConnectionExists(Current.fd)
<1>1. /\ Len(batch) \in Nat /\ Len(batch) >= 1 /\ Current = batch[1]
  BY Front DEF Wiring
<1>2. Current.fd # Listener /\ Owned(1) /\ batch[1].of = c
  BY <1>1 DEF Reports, Wiring, Batched
<1>3. Current.fd \in Fds
  BY <1>1, <1>2, EntryOf DEF Wiring
<1>4. _connections[Current.fd] = c
  BY <1>1, <1>2 DEF Owned, Live
<1> QED
  BY <1>2, <1>3, <1>4, BoundsAssumption DEF Here, IsConnectionExists

LEMMA DispatchAttends ==
    ASSUME Wiring, Wiring', Attention, Dispatch
    PROVE  Attention'
<1>1. /\ UNCHANGED <<link, rx, tx, fin, rst, nospace, ready, _connections, inbuffer, handled,
                     outbuffer, interest, full>>
      /\ pc = "dispatch"
  BY DEF Dispatch, kernel, conn
<1>2. Fresh'
  BY <1>1 DEF Attention, Fresh
<1>3. batch # <<>> => Current = batch[1] /\ Len(batch) \in Nat /\ Len(batch) >= 1
  BY Front DEF Wiring
<1>4. \/ batch = <<>> /\ pc' = "wait" /\ batch' = batch
      \/ /\ batch # <<>> /\ Current.in
         /\ pc' = IF Current.fd = Listener THEN "accept"
                  ELSE IF IsConnectionExists(Current.fd) THEN "recv" ELSE "dispatch"
      \/ /\ batch # <<>> /\ ~Current.in /\ Current.out
         /\ pc' = IF IsConnectionExists(Current.fd) THEN "send" ELSE "dispatch"
      \/ batch # <<>> /\ ~Current.in /\ ~Current.out /\ pc' = pc
  BY DEF Dispatch
<1>5. ASSUME NEW i \in 2..Len(batch)
      PROVE  \E k \in 1..Len(batch') : batch'[k] = batch[i]
  <2>1. batch # <<>> /\ Len(batch) \in Nat /\ Len(batch) >= 1 /\ i # 1
    BY EmptySeq, <1>3, <1>5 DEF Wiring, Batched
  <2>2. CASE Marked
    <3>1. i \in 1..Len(batch') /\ batch'[i] = batch[i]
      BY <2>1, <2>2 DEF Marked
    <3> QED
      BY <3>1
  <2>3. CASE Shifted
    <3>1. i - 1 \in 1..Len(batch') /\ batch'[i - 1] = batch[i]
      BY <2>1, <2>3 DEF Shifted
    <3> QED
      BY <3>1
  <2> QED
    BY <2>1, <2>2, <2>3, DispatchBatch DEF Wiring
<1>6. ASSUME NEW c \in Clients, Live(c)' PROVE AttendedOf(c)'
  <2>1. Live(c) /\ AttendedOf(c)
    BY <1>1, <1>6 DEF Live, Attention, Attended, AttendedOf
  <2>2. FdOf(c)' = FdOf(c)
    BY <1>1 DEF FdOf
  <2>3. ASSUME InputDue(c) PROVE InputDue(c)'
    <3>1. CASE InSeq(FdOf(c), ready)
      BY <1>1, <2>2, <3>1 DEF InputDue
    <3>2. CASE \E i \in 1..Len(batch) : Reports(c, i) /\ batch[i].in
      <4>1. PICK i \in 1..Len(batch) : Reports(c, i) /\ batch[i].in
        BY <3>2
      <4>2. CASE i = 1
        <5>1. batch # <<>> /\ Current = batch[1] /\ Current.in
          BY <1>3, <4>1, <4>2, EmptySeq DEF Wiring, Batched
        <5>2. pc' = "recv" /\ Here = c /\ Handling'
          BY <1>4, <2>1, <4>1, <4>2, <5>1, HereDue DEF Handling
        <5>4. Here' = c
          <6>1. Len(batch) >= 1 /\ Len(batch) \in Nat
            BY <1>3, <5>1
          <6>2. Marked
            BY <5>1, DispatchBatch DEF Wiring
          <6>3. batch' # <<>> /\ batch'[1].fd = batch[1].fd
            BY <6>1, <6>2, EmptySeq DEF Marked
          <6>4. Current' = batch'[1]
            BY <6>3 DEF Current
          <6> QED
            BY <1>1, <5>1, <5>2, <6>3, <6>4 DEF Here
        <5> QED
          BY <5>2, <5>4 DEF InputDue
      <4>3. CASE i # 1
        <5>1. PICK k \in 1..Len(batch') : batch'[k] = batch[i]
          BY <1>5, <4>3
        <5> QED
          BY <4>1, <5>1 DEF InputDue, Reports
      <4> QED
        BY <4>2, <4>3
    <3> QED
      BY <1>1, <2>3, <3>1, <3>2 DEF InputDue
  <2>4. ASSUME OutputDue(c) PROVE OutputDue(c)'
    <3>1. CASE InSeq(FdOf(c), ready)
      BY <1>1, <2>2, <3>1 DEF OutputDue
    <3>2. CASE \E i \in 1..Len(batch) : Reports(c, i) /\ batch[i].out
      <4>1. PICK i \in 1..Len(batch) : Reports(c, i) /\ batch[i].out
        BY <3>2
      <4>2. CASE i = 1
        <5>1. batch # <<>> /\ Current = batch[1] /\ Current.out
          BY <1>3, <4>1, <4>2, EmptySeq DEF Wiring, Batched
        <5>2. Here = c /\ IsConnectionExists(Current.fd) /\ Len(batch) >= 1 /\ Len(batch) \in Nat
          BY <1>3, <2>1, <4>1, <4>2, <5>1, HereDue
        <5>3. Marked
          BY <5>1, DispatchBatch DEF Wiring
        <5>4. /\ batch' # <<>> /\ batch'[1].fd = batch[1].fd /\ batch'[1].of = batch[1].of
              /\ 1 \in 1..Len(batch')
          BY <5>2, <5>3, EmptySeq DEF Marked
        <5>5. CASE Current.in
          <6>1. batch'[1].out = batch[1].out
            BY <5>1, <5>5, DispatchBatch DEF Wiring
          <6>2. batch'[1].out /\ Reports(c, 1)'
            BY <4>1, <4>2, <5>4, <6>1 DEF Reports
          <6> QED
            BY <5>4, <6>2 DEF OutputDue
        <5>6. CASE ~Current.in
          <6>1. pc' = "send"
            BY <1>4, <5>1, <5>2, <5>6
          <6>2. Current' = batch'[1]
            BY <5>4 DEF Current
          <6>3. Here' = c
            BY <1>1, <5>1, <5>2, <5>4, <6>2 DEF Here
          <6> QED
            BY <6>1, <6>3 DEF OutputDue
        <5> QED
          BY <5>5, <5>6
      <4>3. CASE i # 1
        <5>1. PICK k \in 1..Len(batch') : batch'[k] = batch[i]
          BY <1>5, <4>3
        <5> QED
          BY <4>1, <5>1 DEF OutputDue, Reports
      <4> QED
        BY <4>2, <4>3
    <3> QED
      BY <1>1, <2>4, <3>1, <3>2 DEF OutputDue
  <2>5. HeardOf(c)'
    BY <1>1, <2>1, <2>3 DEF AttendedOf, HeardOf, Readable
  <2>6. SplitOf(c)'
    BY <1>1, <2>1 DEF AttendedOf, SplitOf
  <2>7. FlushedOf(c)'
    BY <1>1, <2>1, <2>4 DEF AttendedOf, FlushedOf, Writable
  <2> QED
    BY <2>5, <2>6, <2>7 DEF AttendedOf
<1>7. Welcomed'
  <2> SUFFICES ASSUME \E c \in Clients : link[c] = "backlog",
                      ~InSeq(Listener, ready), ~full, pc' # "accept"
               PROVE  \E k \in 1..Len(batch') : batch'[k].fd = Listener /\ batch'[k].in
    BY <1>1 DEF Welcomed
  <2>1. PICK i \in 1..Len(batch) : batch[i].fd = Listener /\ batch[i].in
    BY <1>1 DEF Attention, Welcomed
  <2>2. i # 1
    <3>1. ASSUME i = 1 PROVE FALSE
      <4>1. batch # <<>> /\ Current = batch[1] /\ Current.in /\ Current.fd = Listener
        BY <1>3, <2>1, <3>1, EmptySeq DEF Wiring, Batched
      <4> QED
        BY <1>4, <4>1
    <3> QED
      BY <3>1
  <2>3. PICK k \in 1..Len(batch') : batch'[k] = batch[i]
    BY <1>5, <2>2
  <2> QED
    BY <2>1, <2>3
<1> QED
  BY <1>2, <1>6, <1>7 DEF Attention, Attended, AttendedOf

LEMMA WaitEpollAttends ==
    ASSUME Wiring, Wiring', Attention, WaitEpoll
    PROVE  Attention'
<1>1. /\ UNCHANGED <<link, rx, tx, fin, rst, _connections, inbuffer, handled, outbuffer, interest,
                     full>>
      /\ pc = "wait" /\ pc' = "dispatch" /\ batch = <<>> /\ Len(batch) = 0
  BY EmptySeq DEF WaitEpoll, conn, Wiring, Phased
<1>2. PICK n \in 0..Len(ready) :
        /\ ready' = SubSeq(ready, n + 1, Len(ready))
        /\ \A k \in 1..n : Event(ready[k]).in \/ Event(ready[k]).out
              => \E i \in 1..Len(batch') : batch'[i] = Event(ready[k])
        /\ nospace' = [c \in Clients |-> \/ nospace[c]
                                       \/ \E k \in 1..n : /\ ready[k] # Listener
                                                         /\ _connections[ready[k]] = c
                                                         /\ ~Writable(c, tx[c])]
  BY WaitEpollStep DEF Wiring
<1>3. Len(ready) \in Nat
  BY LenProperties DEF Wiring, Listed
<1>4. \A y : InSeq(y, ready') <=> \E i \in n+1..Len(ready) : ready[i] = y
  BY <1>2, SuffixKeeps DEF Wiring, Listed
\* What was ready is still, or has been looked at.
<1>5. ASSUME NEW y, InSeq(y, ready), ~InSeq(y, ready')
      PROVE  \E k \in 1..n : ready[k] = y
  <2>1. PICK k \in 1..Len(ready) : ready[k] = y
    BY <1>5 DEF InSeq
  <2>2. k \notin n+1..Len(ready)
    BY <1>4, <1>5, <2>1
  <2> QED
    BY <1>3, <2>1, <2>2
<1>6. Fresh'
  BY <1>1 DEF Attention, Fresh
<1>7. ASSUME NEW c \in Clients, Live(c)' PROVE AttendedOf(c)'
  <2>1. Live(c) /\ AttendedOf(c) /\ c # None
    BY <1>1, <1>7, BoundsAssumption DEF Live, Attention, Attended, AttendedOf
  <2>2. FdOf(c)' = FdOf(c) /\ FdOf(c) \in Fds /\ _connections[FdOf(c)] = c /\ FdOf(c) # Listener
    BY <1>1, <2>1, FdOfLive, Numbers DEF FdOf, Wiring
  <2>3. ASSUME ~InSeq(FdOf(c), ready'), InSeq(FdOf(c), ready)
        PROVE  \E k \in 1..n : /\ ready[k] = FdOf(c)
                               /\ Event(ready[k]).fd # Listener /\ Event(ready[k]).of = c
                               /\ Event(ready[k]).in = Reported(c, interest[c], tx[c]).in
                               /\ Event(ready[k]).out = Reported(c, interest[c], tx[c]).out
    <3>1. PICK k \in 1..n : ready[k] = FdOf(c)
      BY <1>5, <2>3
    <3> QED
      BY <2>2, <3>1 DEF Event
  <2>4. HeardOf(c)'
    <3>1. CASE InSeq(FdOf(c), ready')
      BY <1>1, <2>1, <2>2, <3>1 DEF AttendedOf, HeardOf, InputDue
    <3>2. CASE ~Readable(c)
      BY <1>1, <2>1, <3>2 DEF AttendedOf, HeardOf, Readable
    <3>3. CASE ~InSeq(FdOf(c), ready') /\ Readable(c)
      <4>1. InSeq(FdOf(c), ready) /\ "IN" \in interest[c]
        BY <1>1, <2>1, <3>3 DEF AttendedOf, HeardOf, InputDue
      <4>2. PICK k \in 1..n : /\ Event(ready[k]).fd # Listener /\ Event(ready[k]).of = c
                              /\ Event(ready[k]).in = Reported(c, interest[c], tx[c]).in
        BY <2>3, <3>3, <4>1
      <4>3. Event(ready[k]).in
        BY <3>3, <4>1, <4>2 DEF Reported
      <4>4. PICK i \in 1..Len(batch') : batch'[i] = Event(ready[k])
        BY <1>2, <4>3
      <4>5. Reports(c, i)' /\ batch'[i].in
        BY <4>2, <4>3, <4>4 DEF Reports
      <4>6. InputDue(c)'
        BY <4>5 DEF InputDue
      <4> QED
        BY <1>1, <4>1, <4>6 DEF HeardOf
    <3> QED
      BY <3>1, <3>2, <3>3
  <2>5. SplitOf(c)'
    BY <1>1, <2>1 DEF AttendedOf, SplitOf
  <2>6. FlushedOf(c)'
    <3>1. CASE outbuffer[c] = <<>>
      BY <1>1, <3>1 DEF FlushedOf
    <3>2. CASE InSeq(FdOf(c), ready')
      BY <1>1, <2>1, <2>2, <3>2 DEF AttendedOf, FlushedOf, OutputDue
    <3>3. CASE nospace[c] /\ ~Writable(c, tx[c])
      <4>1. nospace'[c]
        BY <1>2, <3>3
      <4> QED
        BY <1>1, <2>1, <3>3, <4>1 DEF AttendedOf, FlushedOf, Writable
    <3>4. CASE outbuffer[c] # <<>> /\ ~InSeq(FdOf(c), ready')
               /\ ~(nospace[c] /\ ~Writable(c, tx[c]))
      <4>1. InSeq(FdOf(c), ready) /\ "OUT" \in interest[c]
        BY <1>1, <2>1, <3>4 DEF AttendedOf, FlushedOf, OutputDue
      <4>2. PICK k \in 1..n : /\ ready[k] = FdOf(c)
                              /\ Event(ready[k]).fd # Listener /\ Event(ready[k]).of = c
                              /\ Event(ready[k]).out = Reported(c, interest[c], tx[c]).out
        BY <2>3, <3>4, <4>1
      <4>3. CASE Writable(c, tx[c])
        <5>1. Event(ready[k]).out
          BY <4>1, <4>2, <4>3 DEF Reported
        <5>2. PICK i \in 1..Len(batch') : batch'[i] = Event(ready[k])
          BY <1>2, <5>1
        <5>3. Reports(c, i)' /\ batch'[i].out
          BY <4>2, <5>1, <5>2 DEF Reports
        <5>4. OutputDue(c)'
          BY <5>3 DEF OutputDue
        <5> QED
          BY <1>1, <4>1, <5>4 DEF FlushedOf
      <4>4. CASE ~Writable(c, tx[c])
        <5>1. ready[k] # Listener /\ _connections[ready[k]] = c
          BY <2>2, <4>2
        <5>2. nospace'[c]
          BY <1>2, <4>4, <5>1
        <5> QED
          BY <1>1, <4>1, <4>4, <5>2 DEF FlushedOf, Writable
      <4> QED
        BY <4>3, <4>4
    <3> QED
      BY <3>1, <3>2, <3>3, <3>4
  <2> QED
    BY <2>4, <2>5, <2>6 DEF AttendedOf
<1>8. Welcomed'
  <2> SUFFICES ASSUME \E c \in Clients : link[c] = "backlog",
                      ~InSeq(Listener, ready'), ~full
               PROVE  \E i \in 1..Len(batch') : batch'[i].fd = Listener /\ batch'[i].in
    BY <1>1 DEF Welcomed
  <2>1. InSeq(Listener, ready)
    BY <1>1 DEF Attention, Welcomed
  <2>2. PICK k \in 1..n : ready[k] = Listener
    BY <1>5, <2>1
  <2>3. Event(ready[k]).fd = Listener /\ Event(ready[k]).in
    BY <2>2 DEF Event
  <2> QED
    BY <1>2, <2>3
<1> QED
  BY <1>6, <1>7, <1>8 DEF Attention, Attended, AttendedOf

LEMMA AcceptAttends ==
    ASSUME Wiring, Wiring', Counting, Attention, Accept
    PROVE  Attention'
<1>1. PICK c \in Clients, fd \in Fds :
        /\ link[c] = "backlog" /\ link' = [link EXCEPT ![c] = "accepted"]
        /\ _connections[fd] = None /\ _connections' = [_connections EXCEPT ![fd] = c]
        /\ CtrlEpoll(c, fd, {"IN"}, tx[c])
  BY AcceptHooks
<1>2. /\ pc = "accept"
      /\ UNCHANGED <<rx, tx, fin, rst, inbuffer, handled, outbuffer, pc, batch, full>>
  BY DEF Accept, AddConnection, loop
<1>3. c # None /\ _connections'[fd] = c
  BY <1>1, BoundsAssumption DEF Wiring, Linked
<1>4. Wakes
  BY <1>1, <1>3, CtrlWakes
<1>5. /\ interest' = [interest EXCEPT ![c] = {"IN"}]
      /\ nospace' = [nospace EXCEPT ![c] = nospace[c] \/ ~Writable(c, tx[c])]
      /\ Reported(c, {"IN"}, tx[c]).in => Edge(fd)
  BY <1>1 DEF CtrlEpoll
<1>6. Fresh'
  BY <1>1, <1>2 DEF Attention, Fresh, Wiring, Linked
<1>7. ASSUME NEW d \in Clients, Live(d)' PROVE AttendedOf(d)'
  <2>1. CASE d = c
    <3>1. FdOf(c)' = fd
      <4>1. FdOf(c)' \in Fds /\ _connections'[FdOf(c)'] = c
        BY <1>3 DEF FdOf
      <4> QED
        BY <1>3, <4>1 DEF Wiring, Linked
    <3>2. interest'[c] = {"IN"} /\ inbuffer'[c] = 0 /\ outbuffer'[c] = <<>>
      BY <1>1, <1>2, <1>5 DEF Wiring, Switches, Attention, Fresh
    <3>3. Readable(c)' => InputDue(c)'
      <4>1. ASSUME Readable(c) PROVE InSeq(fd, ready')
        <5>1. Edge(fd)
          BY <1>5, <4>1 DEF Reported
        <5> QED
          BY <5>1, EdgeIn DEF Wiring
      <4> QED
        BY <1>2, <3>1, <4>1 DEF Readable, InputDue
    <3> QED
      BY <2>1, <3>2, <3>3, Numbers DEF AttendedOf, HeardOf, SplitOf, FlushedOf
  <2>2. CASE d # c
    <3>1. Live(d) /\ AttendedOf(d) /\ d # None
      BY <1>1, <1>7, <2>2, BoundsAssumption
         DEF Live, Attention, Attended, AttendedOf, Wiring, Linked
    <3>2. FdOf(d) \in Fds /\ _connections[FdOf(d)] = d
      BY <3>1, FdOfLive DEF Wiring
    <3>3. _connections'[FdOf(d)] = d
      BY <1>1, <3>1, <3>2 DEF Wiring, Linked
    <3>4. FdOf(d)' = FdOf(d)
      BY <3>1, <3>3, SameFd DEF Wiring
    <3>5. Apart(d)
      BY <1>2, <1>4, <3>4, WakesGrow DEF Apart, Wiring
    <3>6. interest'[d] = interest[d] /\ nospace'[d] = nospace[d]
      BY <1>5, <2>2 DEF Wiring, Switches
    <3> QED
      BY <1>2, <3>1, <3>5, <3>6, Bystander
  <2> QED
    BY <2>1, <2>2
<1>8. Welcomed'
  BY <1>2 DEF Welcomed
<1> QED
  BY <1>6, <1>7, <1>8 DEF Attention, Attended, AttendedOf

LEMMA AcceptEndsAttends ==
    ASSUME Wiring, Attention, AcceptEnds
    PROVE  Attention'
<1>1. /\ pc = "accept" /\ pc' = "dispatch"
      /\ UNCHANGED <<link, rx, tx, fin, rst, nospace, ready, _connections, inbuffer, handled,
                     outbuffer, interest, batch>>
      /\ Drained \/ full'
  BY DEF AcceptEnds, kernel, conn
<1>2. Fresh'
  BY <1>1 DEF Attention, Fresh
<1>3. ASSUME NEW d \in Clients, Live(d)' PROVE AttendedOf(d)'
  <2>1. AttendedOf(d)
    BY <1>1, <1>3 DEF Live, Attention, Attended, AttendedOf
  <2>2. Apart(d)
    BY <1>1 DEF Apart, FdOf
  <2> QED
    BY <1>1, <2>1, <2>2, Bystander
<1>4. Welcomed'
  BY <1>1 DEF Welcomed, Drained
<1> QED
  BY <1>2, <1>3, <1>4 DEF Attention, Attended, AttendedOf

\* What holds of a client whose connection and events are as they were.
Kept(c) == /\ UNCHANGED batch
           /\ FdOf(c)' = FdOf(c)
           /\ InSeq(FdOf(c), ready) => InSeq(FdOf(c), ready')

LEMMA KeptDue ==
    ASSUME NEW c, Kept(c)
    PROVE  /\ pc # "recv" /\ InputDue(c) => InputDue(c)'
           /\ pc # "send" /\ OutputDue(c) => OutputDue(c)'
<1>1. ASSUME pc # "recv", InputDue(c) PROVE InputDue(c)'
  <2>1. CASE InSeq(FdOf(c), ready)
    BY <2>1 DEF Kept, InputDue
  <2>2. CASE \E i \in 1..Len(batch) : Reports(c, i) /\ batch[i].in
    BY <2>2 DEF Kept, InputDue, Reports
  <2> QED
    BY <1>1, <2>1, <2>2 DEF InputDue
<1>2. ASSUME pc # "send", OutputDue(c) PROVE OutputDue(c)'
  <2>1. CASE InSeq(FdOf(c), ready)
    BY <2>1 DEF Kept, OutputDue
  <2>2. CASE \E i \in 1..Len(batch) : Reports(c, i) /\ batch[i].out
    BY <2>2 DEF Kept, OutputDue, Reports
  <2> QED
    BY <1>2, <2>1, <2>2 DEF OutputDue
<1> QED
  BY <1>1, <1>2

\* A step of a handler of Here touches no other client.
Untouched(d) == /\ interest'[d] = interest[d] /\ inbuffer'[d] = inbuffer[d]
                /\ outbuffer'[d] = outbuffer[d] /\ handled'[d] = handled[d]
                /\ rx'[d] = rx[d] /\ tx'[d] = tx[d]
                /\ nospace[d] => nospace'[d]
Stays == UNCHANGED <<link, fin, rst, _connections, batch, full>>

LEMMA StaysKept ==
    ASSUME Wiring, Stays, Wakes, NEW c
    PROVE  Kept(c) /\ Here' = Here
BY WakesGrow DEF Wiring, Stays, Kept, FdOf, Here, Current

LEMMA HandlerAttends ==
    ASSUME Wiring, Attention, Handling, Stays, Wakes, NEW c \in Clients, c = Here,
           \A d \in Clients \ {c} : Untouched(d), AttendedOf(c)'
    PROVE  Attention'
<1>1. Live(c)
  BY HereIs
<1>2. Fresh'
  <2> SUFFICES ASSUME NEW d \in Clients, link'[d] \in {"new", "backlog"}
               PROVE  inbuffer'[d] = 0 /\ handled'[d] = 0 /\ outbuffer'[d] = <<>>
    BY DEF Fresh
  <2>1. d # c
    BY <1>1 DEF Live, Stays
  <2> QED
    BY <2>1 DEF Attention, Fresh, Stays, Untouched
<1>3. ASSUME NEW d \in Clients \ {c}, Live(d)' PROVE AttendedOf(d)'
  <2>1. AttendedOf(d)
    BY <1>3 DEF Stays, Live, Attention, Attended, AttendedOf
  <2>2. Apart(d)
    BY StaysKept DEF Kept, Apart
  <2> QED
    BY <2>1, <2>2, Bystander DEF Untouched, Stays
<1>4. Welcomed'
  <2>1. InSeq(Listener, ready) => InSeq(Listener, ready')
    BY WakesGrow DEF Wiring
  <2> QED
    BY <2>1 DEF Attention, Welcomed, Stays, Handling
<1> QED
  BY <1>2, <1>3, <1>4 DEF Attention, Attended, AttendedOf

LEMMA RecvAttends ==
    ASSUME Wiring, Attention, Recv, NEW c \in Clients, c = Here
    PROVE  Attention'
<1>1. /\ pc = "recv" /\ pc' = "recv" /\ Handling /\ Stays /\ Wakes
      /\ UNCHANGED <<tx, nospace, ready, handled, outbuffer, interest>>
      /\ \E n : rx' = [rx EXCEPT ![c] = n]
      /\ \E n : inbuffer' = [inbuffer EXCEPT ![c] = n]
  BY DEF Recv, Handling, Stays, Wakes, loop
<1>2. \A d \in Clients \ {c} : Untouched(d)
  BY <1>1 DEF Untouched
<1>3. AttendedOf(c)'
  <2>1. Live(c) /\ AttendedOf(c)
    BY <1>1, HereIs DEF Attention, Attended, AttendedOf
  <2>2. Kept(c) /\ Here' = c
    BY <1>1, StaysKept
  <2>3. HeardOf(c)' /\ SplitOf(c)'
    BY <1>1, <2>1, <2>2 DEF AttendedOf, HeardOf, SplitOf, InputDue
  <2>4. FlushedOf(c)'
    BY <1>1, <2>1, <2>2, KeptDue DEF AttendedOf, FlushedOf, Writable, Stays
  <2> QED
    BY <2>3, <2>4 DEF AttendedOf
<1> QED
  BY <1>1, <1>2, <1>3, HandlerAttends

LEMMA RecvEagainAttends ==
    ASSUME Wiring, Counting, Attention, RecvEagain, NEW c \in Clients, c = Here
    PROVE  Attention'
<1>1. /\ pc = "recv" /\ pc' = "handle" /\ Handling /\ Stays /\ Wakes
      /\ UNCHANGED <<rx, tx, nospace, ready, handled, outbuffer, interest>>
      /\ ~Readable(c)
      /\ inbuffer' = [inbuffer EXCEPT ![c] = LastMessage]
  BY DEF RecvEagain, Exhausted, Handling, Stays, Wakes, kernel
<1>2. \A d \in Clients \ {c} : Untouched(d)
  BY <1>1 DEF Untouched
<1>3. AttendedOf(c)'
  <2>1. Live(c) /\ AttendedOf(c)
    BY <1>1, HereIs DEF Attention, Attended, AttendedOf
  <2>2. Kept(c)
    BY <1>1, StaysKept
  <2>3. HeardOf(c)'
    BY <1>1, <2>1 DEF AttendedOf, HeardOf, Readable, Stays
  <2>4. SplitOf(c)'
    <3>1. inbuffer'[c] = LastMessage /\ inbuffer[c] \in Nat
      BY <1>1 DEF Counting, Counts
    <3>2. LastMessage < Chunk
      BY <3>1, Whole DEF LastMessage
    <3> QED
      BY <3>1, <3>2 DEF SplitOf
  <2>5. FlushedOf(c)'
    BY <1>1, <2>1, <2>2, KeptDue DEF AttendedOf, FlushedOf, Writable, Stays
  <2> QED
    BY <2>3, <2>4, <2>5 DEF AttendedOf
<1> QED
  BY <1>1, <1>2, <1>3, HandlerAttends

\* epoll_ctl polls: a connection with space is reported, one without is noted.
LEMMA CtrlAttends ==
    ASSUME Wiring, Handling, NEW c \in Clients, c = Here, NEW events, NEW sent,
           CtrlEpoll(c, Current.fd, events, sent), UNCHANGED _connections
    PROVE  /\ Wakes
           /\ interest' = [interest EXCEPT ![c] = events] /\ interest'[c] = events
           /\ \A d \in Clients \ {c} : nospace'[d] = nospace[d]
           /\ "OUT" \in events =>
                 InSeq(FdOf(c), ready') \/ (nospace'[c] /\ ~Writable(c, sent))
<1>1. Current.fd \in Fds /\ FdOf(c) = Current.fd /\ _connections[Current.fd] # None
  BY HereIs
<1>2. Wakes
  BY <1>1, CtrlWakes
<1>3. /\ interest' = [interest EXCEPT ![c] = events]
      /\ nospace' = [nospace EXCEPT ![c] = nospace[c] \/ ~Writable(c, sent)]
      /\ Reported(c, events, sent).out => Edge(Current.fd)
  BY DEF CtrlEpoll
<1>4. interest'[c] = events /\ \A d \in Clients \ {c} : nospace'[d] = nospace[d]
  BY <1>3 DEF Wiring, Switches
<1>5. CASE Writable(c, sent) /\ "OUT" \in events
  <2>1. Edge(Current.fd)
    BY <1>3, <1>5 DEF Reported
  <2> QED
    BY <1>1, <1>2, <1>3, <1>4, <2>1, EdgeIn DEF Wiring
<1>6. CASE ~Writable(c, sent)
  <2>1. nospace'[c]
    BY <1>3, <1>6 DEF Wiring, Switches
  <2> QED
    BY <1>2, <1>3, <1>4, <1>6, <2>1
<1> QED
  BY <1>2, <1>3, <1>4, <1>5, <1>6

LEMMA NetCalAttends ==
    ASSUME Wiring, Attention, NetCal, NEW c \in Clients, c = Here
    PROVE  Attention'
<1>1. /\ pc = "handle" /\ pc' = "handle" /\ Handling /\ Stays
      /\ UNCHANGED <<rx, tx, inbuffer>>
      /\ \E n : handled' = [handled EXCEPT ![c] = n]
      /\ \/ /\ \E out : outbuffer' = [outbuffer EXCEPT ![c] = out]
            /\ CtrlEpoll(c, Current.fd, ReadWrite, tx[c])
         \/ UNCHANGED <<outbuffer, interest, ready, nospace>>
  BY DEF NetCal, Handling, Stays
<1>2. Live(c) /\ AttendedOf(c)
  BY <1>1, HereIs DEF Attention, Attended, AttendedOf
<1>3. CASE UNCHANGED <<outbuffer, interest, ready, nospace>>
  <2>1. Wakes
    BY <1>3 DEF Wakes
  <2>2. Apart(c)
    BY <1>1, <2>1, StaysKept DEF Kept, Apart
  <2>3. AttendedOf(c)'
    BY <1>1, <1>2, <1>3, <2>2, Bystander DEF Stays
  <2>4. \A d \in Clients \ {c} : Untouched(d)
    BY <1>1, <1>3 DEF Untouched
  <2> QED
    BY <1>1, <2>1, <2>3, <2>4, HandlerAttends
<1>4. CASE /\ \E out : outbuffer' = [outbuffer EXCEPT ![c] = out]
           /\ CtrlEpoll(c, Current.fd, ReadWrite, tx[c])
  <2>1. /\ Wakes
        /\ interest' = [interest EXCEPT ![c] = ReadWrite] /\ interest'[c] = ReadWrite
        /\ \A d \in Clients \ {c} : nospace'[d] = nospace[d]
        /\ "IN" \in ReadWrite /\ "OUT" \in ReadWrite
        /\ InSeq(FdOf(c), ready') \/ (nospace'[c] /\ ~Writable(c, tx[c]))
    BY <1>1, <1>4, CtrlAttends DEF ReadWrite, Stays
  <2>2. \A d \in Clients \ {c} : Untouched(d)
    BY <1>1, <1>4, <2>1 DEF Untouched
  <2>3. Kept(c)
    BY <1>1, <2>1, StaysKept
  <2>4. HeardOf(c)'
    BY <1>1, <1>2, <2>1, <2>3, KeptDue DEF AttendedOf, HeardOf, Readable, Stays
  <2>5. SplitOf(c)'
    BY <1>1, <1>2 DEF AttendedOf, SplitOf
  <2>6. FlushedOf(c)'
    BY <1>1, <2>1, <2>3 DEF Kept, FlushedOf, OutputDue, Writable, Stays
  <2>7. AttendedOf(c)'
    BY <2>4, <2>5, <2>6 DEF AttendedOf
  <2> QED
    BY <1>1, <2>1, <2>2, <2>7, HandlerAttends
<1> QED
  BY <1>1, <1>3, <1>4

LEMMA NetCalEndsAttends ==
    ASSUME Wiring, Attention, NetCalEnds, NEW c \in Clients, c = Here
    PROVE  Attention'
<1>1. /\ pc = "handle" /\ Handling /\ Stays /\ Wakes
      /\ UNCHANGED <<rx, tx, nospace, ready, inbuffer, handled, outbuffer, interest>>
  BY DEF NetCalEnds, Handling, Stays, Wakes, kernel, conn
<1>2. Live(c) /\ AttendedOf(c)
  BY <1>1, HereIs DEF Attention, Attended, AttendedOf
<1>3. Apart(c)
  BY <1>1, StaysKept DEF Kept, Apart
<1>4. AttendedOf(c)'
  BY <1>1, <1>2, <1>3, Bystander DEF Stays
<1>5. \A d \in Clients \ {c} : Untouched(d)
  BY <1>1 DEF Untouched
<1> QED
  BY <1>1, <1>4, <1>5, HandlerAttends

LEMMA SendAttends ==
    ASSUME Wiring, Counting, Ordering, Attention, Send, NEW c \in Clients, c = Here
    PROVE  Attention'
<1> DEFINE n == Smaller(TxCap - Len(tx[c]), Len(outbuffer[c]))
           rest == SubSeq(outbuffer[c], n + 1, Len(outbuffer[c]))
           sent == tx[c] \o SubSeq(outbuffer[c], 1, n)
<1>1. /\ pc = "send" /\ Handling /\ Stays
      /\ UNCHANGED <<rx, inbuffer, handled>>
      /\ tx' = [tx EXCEPT ![c] = sent]
      /\ outbuffer' = [outbuffer EXCEPT ![c] = rest]
      /\ \/ rest = <<>> /\ CtrlEpoll(c, Current.fd, {"IN"}, sent) /\ pc' = "dispatch"
         \/ rest # <<>> /\ UNCHANGED <<interest, ready, nospace, pc>>
  BY DEF Send, Handling, Stays
<1>2. outbuffer'[c] = rest
  BY <1>1 DEF Ordering, Streams
<1>3. outbuffer[c] = <<>> => rest = <<>>
  <2> SUFFICES ASSUME outbuffer[c] = <<>> PROVE rest = <<>>
    OBVIOUS
  <2>1. Len(outbuffer[c]) = 0 /\ Len(tx[c]) \in Nat
    BY EmptySeq, LenProperties DEF Ordering, Streams
  <2>2. n = 0
    BY <1>1, <2>1, Numbers DEF Smaller, Send
  <2> QED
    BY <2>1, <2>2, SubSeqEmpty
<1> HIDE DEF n, rest, sent
<1>4. Live(c) /\ AttendedOf(c)
  BY <1>1, HereIs DEF Attention, Attended, AttendedOf
<1>5. CASE rest = <<>> /\ CtrlEpoll(c, Current.fd, {"IN"}, sent)
  <2>1. /\ Wakes
        /\ interest' = [interest EXCEPT ![c] = {"IN"}] /\ interest'[c] = {"IN"}
        /\ \A d \in Clients \ {c} : nospace'[d] = nospace[d]
    BY <1>1, <1>5, CtrlAttends DEF Stays
  <2>2. \A d \in Clients \ {c} : Untouched(d)
    BY <1>1, <2>1 DEF Untouched
  <2>3. Kept(c)
    BY <1>1, <2>1, StaysKept
  <2>4. HeardOf(c)'
    BY <1>1, <1>4, <2>1, <2>3, KeptDue DEF AttendedOf, HeardOf, Readable, Stays
  <2>5. SplitOf(c)' /\ FlushedOf(c)'
    BY <1>1, <1>2, <1>4, <1>5 DEF AttendedOf, SplitOf, FlushedOf
  <2>6. AttendedOf(c)'
    BY <2>4, <2>5 DEF AttendedOf
  <2> QED
    BY <1>1, <2>1, <2>2, <2>6, HandlerAttends
<1>6. CASE rest # <<>> /\ UNCHANGED <<interest, ready, nospace, pc>>
  <2>1. Wakes /\ \A d \in Clients \ {c} : Untouched(d)
    BY <1>1, <1>6 DEF Wakes, Untouched
  <2>2. Kept(c) /\ Here' = c
    BY <1>1, <2>1, StaysKept
  <2>3. HeardOf(c)'
    BY <1>1, <1>4, <1>6, <2>2, KeptDue DEF AttendedOf, HeardOf, Readable, Stays
  <2>4. SplitOf(c)'
    BY <1>1, <1>4 DEF AttendedOf, SplitOf
  <2>5. FlushedOf(c)'
    BY <1>1, <1>3, <1>4, <1>6, <2>2 DEF AttendedOf, FlushedOf, OutputDue
  <2>6. AttendedOf(c)'
    BY <2>3, <2>4, <2>5 DEF AttendedOf
  <2> QED
    BY <1>1, <2>1, <2>6, HandlerAttends
<1> QED
  BY <1>1, <1>5, <1>6

LEMMA SendEagainAttends ==
    ASSUME Wiring, Counting, Ordering, Attention, SendEagain, NEW c \in Clients, c = Here
    PROVE  Attention'
<1>1. /\ pc = "send" /\ Handling /\ Stays
      /\ UNCHANGED <<rx, tx, inbuffer, handled, outbuffer>>
      /\ ~rst[c] /\ Len(tx[c]) = TxCap
      /\ CtrlEpoll(c, Current.fd, {"IN", "OUT"}, tx[c])
  BY DEF SendEagain, Handling, Stays
<1>2. Live(c) /\ AttendedOf(c)
  BY <1>1, HereIs DEF Attention, Attended, AttendedOf
<1>3. ~Writable(c, tx[c])
  BY <1>1, Numbers DEF Writable
<1>4. /\ Wakes
      /\ interest' = [interest EXCEPT ![c] = {"IN", "OUT"}] /\ interest'[c] = {"IN", "OUT"}
      /\ \A d \in Clients \ {c} : nospace'[d] = nospace[d]
      /\ InSeq(FdOf(c), ready') \/ nospace'[c]
  BY <1>1, CtrlAttends DEF Stays
<1>5. \A d \in Clients \ {c} : Untouched(d)
  BY <1>1, <1>4 DEF Untouched
<1>6. Kept(c)
  BY <1>1, <1>4, StaysKept
<1>7. HeardOf(c)'
  BY <1>1, <1>2, <1>4, <1>6, KeptDue DEF AttendedOf, HeardOf, Readable, Stays
<1>8. SplitOf(c)'
  BY <1>1, <1>2 DEF AttendedOf, SplitOf
<1>9. FlushedOf(c)'
  BY <1>1, <1>3, <1>4, <1>6 DEF Kept, FlushedOf, OutputDue, Writable, Stays
<1>10. AttendedOf(c)'
  BY <1>7, <1>8, <1>9 DEF AttendedOf
<1> QED
  BY <1>1, <1>4, <1>5, <1>10, HandlerAttends

\* EXcepter takes its own descriptor off the ready list, and no other.
LEMMA FailsAttends ==
    ASSUME Wiring, Wiring', Attention, RecvFails \/ SendFails, NEW c \in Clients, c = Here
    PROVE  Attention'
<1>1. /\ Handling /\ pc # "accept"
      /\ UNCHANGED <<rx, tx, fin, rst, nospace, inbuffer, handled, outbuffer, batch, full>>
      /\ _connections' = [_connections EXCEPT ![Current.fd] = None]
      /\ link' = [link EXCEPT ![c] = "closed"]
      /\ interest' = [interest EXCEPT ![c] = {}]
      /\ ready' = Without(ready, Current.fd)
  BY DEF RecvFails, SendFails, EXcepter, Handling
<1>2. Current.fd \in Fds /\ FdOf(c) = Current.fd /\ Current.fd # Listener
  BY <1>1, HereIs, Numbers
<1>3. \A y : InSeq(y, ready) /\ y # Current.fd => InSeq(y, ready')
  BY <1>1, WithoutKeeps DEF Wiring, Listed
<1>4. link'[c] = "closed" /\ \A d \in Clients \ {c} : link'[d] = link[d]
  BY <1>1 DEF Wiring, Linked
<1>5. Fresh'
  BY <1>1, <1>4 DEF Attention, Fresh
<1>6. ASSUME NEW d \in Clients, Live(d)' PROVE AttendedOf(d)'
  <2>1. d # c /\ Live(d) /\ AttendedOf(d) /\ d # None
    BY <1>4, <1>6, BoundsAssumption DEF Live, Attention, Attended, AttendedOf
  <2>2. FdOf(d) \in Fds /\ _connections[FdOf(d)] = d
    BY <2>1, FdOfLive DEF Wiring
  <2>3. FdOf(d) # Current.fd
    BY <1>1, <2>1, <2>2, HereIs
  <2>4. _connections'[FdOf(d)] = d
    BY <1>1, <2>2, <2>3 DEF Wiring, Linked
  <2>5. FdOf(d)' = FdOf(d)
    BY <2>1, <2>4, SameFd DEF Wiring
  <2>6. Apart(d)
    BY <1>1, <1>3, <2>1, <2>3, <2>5 DEF Apart
  <2>7. interest'[d] = interest[d]
    BY <1>1, <2>1
  <2> QED
    BY <1>1, <2>1, <2>6, <2>7, Bystander
<1>7. Welcomed'
  <2>1. (\E d \in Clients : link'[d] = "backlog") => \E d \in Clients : link[d] = "backlog"
    BY <1>4
  <2> QED
    BY <1>1, <1>2, <1>3, <2>1 DEF Attention, Welcomed
<1> QED
  BY <1>5, <1>6, <1>7 DEF Attention, Attended, AttendedOf

\* A client that does anything wakes the epoll for its connection.
LEMMA PeerApart ==
    ASSUME Wiring, UNCHANGED <<batch, pc, _connections>>, Wakes, NEW d
    PROVE  Apart(d)
BY WakesGrow DEF Wiring, Apart, FdOf, Here, Current

LEMMA WakeDue ==
    ASSUME Wiring, NEW c \in Clients, Live(c), Wake(c), UNCHANGED _connections
    PROVE  InputDue(c)' /\ OutputDue(c)'
<1>1. FdOf(c) \in Fds /\ Edge(FdOf(c)) /\ FdOf(c)' = FdOf(c)
  BY FdOfLive DEF Wiring, Wake, Live, FdOf
<1>2. InSeq(FdOf(c), ready')
  BY <1>1, EdgeIn DEF Wiring
<1> QED
  BY <1>1, <1>2 DEF InputDue, OutputDue

LEMMA ArrivalAttends ==
    ASSUME Wiring, Counting, Attention, NEW c \in Clients, Write(c) \/ Shut(c) \/ Reset(c)
    PROVE  Attention'
<1>1. /\ UNCHANGED <<link, tx, nospace, _connections, inbuffer, handled, outbuffer, interest>>
      /\ UNCHANGED <<pc, batch, full>> /\ Wake(c)
      /\ rx' = rx \/ \E n : rx' = [rx EXCEPT ![c] = n]
      /\ fin' = fin \/ fin' = [fin EXCEPT ![c] = TRUE]
      /\ rst' = rst \/ rst' = [rst EXCEPT ![c] = TRUE]
  BY DEF Write, Shut, Reset, conn, loop
<1>2. Wakes
  BY <1>1, WakeWakes DEF Wiring
<1>3. Fresh'
  BY <1>1 DEF Attention, Fresh
<1>4. ASSUME NEW d \in Clients, Live(d)' PROVE AttendedOf(d)'
  <2>1. Live(d) /\ AttendedOf(d) /\ Apart(d)
    BY <1>1, <1>2, <1>4, PeerApart DEF Live, Attention, Attended, AttendedOf
  <2>2. CASE d = c
    <3>1. InputDue(c)' /\ OutputDue(c)'
      BY <1>1, <2>1, <2>2, WakeDue
    <3>2. HeardOf(c)'
      BY <1>1, <2>1, <2>2, <3>1 DEF AttendedOf, HeardOf
    <3>3. SplitOf(c)'
      BY <1>1, <2>1, <2>2 DEF AttendedOf, SplitOf, Here, Current
    <3>4. FlushedOf(c)'
      BY <1>1, <2>1, <2>2, <3>1 DEF AttendedOf, FlushedOf
    <3> QED
      BY <2>2, <3>2, <3>3, <3>4 DEF AttendedOf
  <2>3. CASE d # c
    <3>1. rx'[d] = rx[d]
      BY <1>1, <2>3 DEF Counting, Counts
    <3>2. fin'[d] = fin[d] /\ rst'[d] = rst[d]
      BY <1>1, <2>3 DEF Wiring, Switches
    <3> QED
      BY <1>1, <2>1, <3>1, <3>2, Bystander
  <2> QED
    BY <2>2, <2>3
<1>5. Welcomed'
  <2>1. InSeq(Listener, ready) => InSeq(Listener, ready')
    BY <1>2, WakesGrow DEF Wiring
  <2> QED
    BY <1>1, <2>1 DEF Attention, Welcomed
<1> QED
  BY <1>3, <1>4, <1>5 DEF Attention, Attended, AttendedOf

LEMMA ReadAnswerAttends ==
    ASSUME Wiring, Attention, NEW c \in Clients, ReadAnswer(c)
    PROVE  Attention'
<1>1. /\ UNCHANGED <<link, rx, fin, rst, _connections, inbuffer, handled, outbuffer, interest>>
      /\ UNCHANGED <<pc, batch, full>>
      /\ tx' = [tx EXCEPT ![c] = Tail(@)]
      /\ nospace' = [nospace EXCEPT ![c] = FALSE]
      /\ IF nospace[c] /\ "OUT" \in interest[c] THEN Wake(c) ELSE UNCHANGED ready
  BY DEF ReadAnswer, conn, loop
<1>2. Wakes
  BY <1>1, WakeWakes DEF Wiring, Wakes
<1>3. Fresh'
  BY <1>1 DEF Attention, Fresh
<1>4. ASSUME NEW d \in Clients, Live(d)' PROVE AttendedOf(d)'
  <2>1. Live(d) /\ AttendedOf(d) /\ Apart(d)
    BY <1>1, <1>2, <1>4, PeerApart DEF Live, Attention, Attended, AttendedOf
  <2>2. CASE d = c
    <3>1. HeardOf(c)' /\ SplitOf(c)'
      BY <1>1, <2>1, <2>2, DueStays DEF AttendedOf, HeardOf, SplitOf, Readable, Here, Current
    <3>2. FlushedOf(c)'
      <4> SUFFICES ASSUME outbuffer[c] # <<>> PROVE OutputDue(c)'
        BY <1>1, <2>1, <2>2 DEF AttendedOf, FlushedOf
      <4>1. "OUT" \in interest[c] /\ (OutputDue(c) \/ nospace[c])
        BY <2>1, <2>2 DEF AttendedOf, FlushedOf
      <4>2. CASE OutputDue(c)
        BY <2>1, <2>2, <4>2, DueStays
      <4>3. CASE nospace[c]
        BY <1>1, <2>1, <2>2, <4>1, <4>3, WakeDue
      <4> QED
        BY <4>1, <4>2, <4>3
    <3> QED
      BY <2>2, <3>1, <3>2 DEF AttendedOf
  <2>3. CASE d # c
    <3>1. tx'[d] = tx[d] /\ nospace'[d] = nospace[d]
      BY <1>1, <2>3 DEF Wiring, Switches
    <3> QED
      BY <1>1, <2>1, <3>1, Bystander
  <2> QED
    BY <2>2, <2>3
<1>5. Welcomed'
  <2>1. InSeq(Listener, ready) => InSeq(Listener, ready')
    BY <1>2, WakesGrow DEF Wiring
  <2> QED
    BY <1>1, <2>1 DEF Attention, Welcomed
<1> QED
  BY <1>3, <1>4, <1>5 DEF Attention, Attended, AttendedOf

LEMMA ConnectAttends ==
    ASSUME Wiring, Attention, NEW c \in Clients, Connect(c)
    PROVE  Attention'
<1>1. /\ UNCHANGED <<rx, tx, fin, rst, nospace, _connections, inbuffer, handled, outbuffer>>
      /\ UNCHANGED <<interest, pc, batch, full>>
      /\ link[c] = "new" /\ link' = [link EXCEPT ![c] = "backlog"] /\ Edge(Listener)
  BY DEF Connect, conn, loop
<1>2. Wakes
  BY <1>1 DEF Wakes
<1>3. link'[c] = "backlog" /\ \A d \in Clients \ {c} : link'[d] = link[d]
  BY <1>1 DEF Wiring, Linked
<1>4. Fresh'
  BY <1>1, <1>3 DEF Attention, Fresh
<1>5. ASSUME NEW d \in Clients, Live(d)' PROVE AttendedOf(d)'
  <2>1. AttendedOf(d) /\ Apart(d)
    BY <1>1, <1>2, <1>3, <1>5, PeerApart DEF Live, Attention, Attended, AttendedOf
  <2> QED
    BY <1>1, <2>1, Bystander
<1>6. Welcomed'
  <2>1. InSeq(Listener, ready')
    BY <1>1, EdgeIn DEF Wiring
  <2> QED
    BY <2>1 DEF Welcomed
<1> QED
  BY <1>4, <1>5, <1>6 DEF Attention, Attended, AttendedOf

LEMMA AttentionInit == Init => Attention
<1> SUFFICES ASSUME Init PROVE Attention
  OBVIOUS
<1>1. Fresh /\ Welcomed
  BY DEF Init, Fresh, Welcomed
<1>2. Attended
  BY DEF Init, Attended, Live
<1> QED
  BY <1>1, <1>2 DEF Attention

LEMMA AttentionNext ==
    Wiring /\ Wiring' /\ Counting /\ Ordering /\ Attention /\ [Next]_vars => Attention'
<1> SUFFICES ASSUME Wiring, Wiring', Counting, Ordering, Attention, [Next]_vars
             PROVE  Attention'
  OBVIOUS
<1>1. CASE Server
  <2>1. CASE WaitEpoll \/ Dispatch \/ Accept \/ AcceptEnds
    BY <2>1, WaitEpollAttends, DispatchAttends, AcceptAttends, AcceptEndsAttends
  <2>2. CASE \/ Recv \/ RecvFails \/ RecvEagain \/ NetCal \/ NetCalEnds \/ Send \/ SendEagain
             \/ SendFails
    <3>1. PICK c \in Clients : c = Here
      BY <2>2, HereIs DEF Recv, RecvFails, RecvEagain, NetCal, NetCalEnds, Send, SendEagain,
         SendFails, Handling
    <3>2. CASE Recv \/ RecvEagain \/ NetCal \/ NetCalEnds
      BY <3>1, <3>2, RecvAttends, RecvEagainAttends, NetCalAttends, NetCalEndsAttends
    <3>3. CASE Send \/ SendEagain \/ RecvFails \/ SendFails
      BY <3>1, <3>3, SendAttends, SendEagainAttends, FailsAttends
    <3> QED
      BY <2>2, <3>2, <3>3
  <2> QED
    BY <1>1, <2>1, <2>2 DEF Server
<1>2. ASSUME NEW c \in Clients, Peer(c) PROVE Attention'
  BY <1>2, ConnectAttends, ArrivalAttends, ReadAnswerAttends DEF Peer
<1>3. CASE UNCHANGED vars
  <2>1. UNCHANGED <<link, rx, tx, fin, rst, nospace, ready, _connections, inbuffer, handled,
                    outbuffer, interest, pc, batch, full>>
    BY <1>3 DEF vars, kernel, conn, loop
  <2>2. Fresh' /\ Welcomed' /\ Wakes
    BY <2>1 DEF Attention, Fresh, Welcomed, Wakes
  <2>3. ASSUME NEW d \in Clients, Live(d)' PROVE AttendedOf(d)'
    <3>1. AttendedOf(d) /\ Apart(d)
      BY <2>1, <2>2, <2>3, PeerApart DEF Live, Attention, Attended, AttendedOf
    <3> QED
      BY <2>1, <3>1, Bystander
  <2> QED
    BY <2>2, <2>3 DEF Attention, Attended, AttendedOf
<1> QED
  BY <1>1, <1>2, <1>3 DEF Next

(***************************************************************************)
(* The theorems.                                                            *)
(***************************************************************************)
Invariant == Wiring /\ Counting /\ Ordering /\ Attention /\ full \in BOOLEAN

LEMMA FullNext == full \in BOOLEAN /\ [Next]_vars => full' \in BOOLEAN
<1> SUFFICES ASSUME full \in BOOLEAN, [Next]_vars PROVE full' \in BOOLEAN
  OBVIOUS
<1>1. full' = full \/ full' = TRUE
  <2>1. CASE Server
    <3>1. CASE AcceptEnds
      BY <3>1 DEF AcceptEnds
    <3>2. CASE \/ WaitEpoll \/ Dispatch \/ Accept \/ Recv \/ RecvFails \/ RecvEagain \/ NetCal
               \/ NetCalEnds \/ Send \/ SendEagain \/ SendFails
      BY <3>2 DEF WaitEpoll, Dispatch, Accept, Recv, RecvFails, RecvEagain, NetCal, NetCalEnds,
         Send, SendEagain, SendFails, loop
    <3> QED
      BY <2>1, <3>1, <3>2 DEF Server
  <2>2. CASE \E c \in Clients : Peer(c)
    BY <2>2 DEF Peer, Connect, Write, Shut, Reset, ReadAnswer, loop
  <2>3. CASE UNCHANGED vars
    BY <2>3 DEF vars, loop
  <2> QED
    BY <2>1, <2>2, <2>3 DEF Next
<1> QED
  BY <1>1

LEMMA InvariantHolds == SafeSpec => []Invariant
<1>1. Init => Invariant
  <2>1. Init => full \in BOOLEAN
    BY DEF Init
  <2> QED
    BY <2>1, WiringInit, CountingInit, OrderingInit, AttentionInit DEF Invariant
<1>2. Invariant /\ [Next]_vars => Invariant'
  <2> SUFFICES ASSUME Invariant, [Next]_vars PROVE Invariant'
    OBVIOUS
  <2>1. Wiring /\ Counting /\ Ordering /\ Attention /\ full \in BOOLEAN
    BY DEF Invariant
  <2>2. Wiring' /\ Counting' /\ Ordering'
    BY <2>1, WiringNext, CountingNext, OrderingNext
  <2>3. Attention' /\ full' \in BOOLEAN
    BY <2>1, <2>2, AttentionNext, FullNext
  <2> QED
    BY <2>2, <2>3 DEF Invariant
<1> QED
  BY <1>1, <1>2, PTL DEF SafeSpec

\* The state has its type: no buffer grows beyond what the client has written, no
\* request is handled that the client's script does not hold, and the answers are
\* numbers of its requests.
THEOREM TypeCorrect == SafeSpec => []TypeOK
<1>1. Invariant => TypeOK
  <2> SUFFICES ASSUME Invariant PROVE TypeOK
    OBVIOUS
  <2>1. Wiring /\ Counting /\ Ordering /\ full \in BOOLEAN
    BY DEF Invariant
  <2>2. ASSUME NEW c \in Clients
        PROVE  /\ written[c] \in 0..(Chunk * Len(Script[c]))
               /\ rx[c] \in 0..written[c]
               /\ inbuffer[c] \in 0..written[c]
               /\ handled[c] \in 0..Len(Script[c])
    <3>1. /\ written[c] \in Nat /\ rx[c] \in Nat /\ inbuffer[c] \in Nat /\ handled[c] \in Nat
          /\ written[c] <= Chunk * Len(Script[c])
      BY <2>1 DEF Counting, Counts
    <3>2. /\ rx[c] <= written[c] /\ inbuffer[c] <= written[c]
          /\ Cut(c) \in Nat /\ handled[c] + Cut(c) <= Len(Script[c])
      BY <2>1, HandledBound
    <3>3. Len(Script[c]) \in Nat /\ Chunk * Len(Script[c]) \in Nat
      BY ScriptIs, Distributes
    <3> DEFINE most == Chunk * Len(Script[c])
    <3>4. written[c] \in 0..most
      <4>1. most \in Nat /\ written[c] <= most
        BY <3>1, <3>3
      <4> HIDE DEF most
      <4> QED
        BY <3>1, <4>1
    <3> HIDE DEF most
    <3>5. rx[c] \in 0..written[c] /\ inbuffer[c] \in 0..written[c] /\ handled[c] \in 0..Len(Script[c])
      BY <3>1, <3>2, <3>3
    <3> QED
      BY <3>4, <3>5 DEF most
  <2>3. ASSUME NEW c \in Clients
        PROVE  /\ tx[c] \in Seq(Requests(c)) /\ Len(tx[c]) <= TxCap
               /\ received[c] \in Seq(Requests(c))
               /\ outbuffer[c] \in Seq(Requests(c))
    BY <2>1 DEF Ordering, Streams
  <2>4. {fin, rst, nospace} \subseteq [Clients -> BOOLEAN]
    BY <2>1, Zenon DEF Wiring, Switches
  <2>5. /\ limit \in 1..MaxConns
        /\ interest \in [Clients -> SUBSET {"IN", "OUT"}]
        /\ link \in [Clients -> {"new", "backlog", "accepted", "closed"}]
        /\ _connections \in [Fds -> Clients \cup {None}]
        /\ ready \in Seq(Fds \cup {Listener})
        /\ pc \in {"wait", "dispatch", "accept", "recv", "handle", "send", "aborted"}
        /\ message \in Nat
    BY <2>1 DEF Wiring, Switches, Linked, Listed, Phased, Counting, Counts
  <2> QED
    BY <2>1, <2>2, <2>3, <2>4, <2>5 DEF TypeOK
<1> QED
  BY <1>1, InvariantHolds, PTL

\* Recver, NetCal and Sender work on the connection the event was reported for:
\* a descriptor that was closed and given to another client within one batch is
\* never taken for the old one (TcpServer.hpp, Dispatcher and LoopOnce).
THEOREM EventsReachTheirOwner == SafeSpec => []EventForOwner
<1>1. Invariant => EventForOwner
  BY DEF Invariant, Wiring, Phased, Handling, EventForOwner
<1> QED
  BY <1>1, InvariantHolds, PTL

\* Of clients that send text (TextAssumption), whatever the pieces in which recv
\* delivers the stream: Recver and SpliteMessage keep each of them until it is part of a
\* message passed to NetCal.
THEOREM NothingIsMisread == SafeSpec => []NothingMisread
<1>1. Invariant => NothingMisread
  BY DEF Invariant, Counting
<1> QED
  BY <1>1, InvariantHolds, PTL

\* The answers reach the client in the order of the requests, each once and none
\* missing, though Sender writes them in parts and NetCal appends while an earlier
\* part is still unsent.
THEOREM AnswersKeepOrder == SafeSpec => []AnswersInOrder
<1>1. Invariant => AnswersInOrder
  BY DEF Invariant, Ordering
<1> QED
  BY <1>1, InvariantHolds, PTL

LEMMA EdgesKept == Invariant => NoLostEdge
<1> SUFFICES ASSUME Invariant, pc = "wait" PROVE NoLostEdge
  BY DEF NoLostEdge
<1>1. Wiring /\ Ordering /\ Attention /\ batch = <<>> /\ Len(batch) = 0
  BY EmptySeq DEF Invariant, Wiring, Phased
<1>2. ASSUME NEW c \in Clients, Live(c), ~InSeq(FdOf(c), ready)
      PROVE  /\ ~Readable(c) /\ inbuffer[c] < Chunk
             /\ outbuffer[c] # <<>> =>
                  "OUT" \in interest[c] /\ nospace[c] /\ Len(tx[c]) = TxCap
  <2>1. HeardOf(c) /\ SplitOf(c) /\ FlushedOf(c)
    BY <1>1, <1>2 DEF Attention, Attended
  <2>2. ~InputDue(c) /\ ~OutputDue(c)
    BY <1>1, <1>2 DEF InputDue, OutputDue
  <2>3. Len(tx[c]) \in Nat /\ Len(tx[c]) <= TxCap
    BY <1>1, LenProperties DEF Ordering, Streams
  <2>4. ~Writable(c, tx[c]) => Len(tx[c]) = TxCap
    BY <2>3, Numbers DEF Writable
  <2> QED
    BY <2>1, <2>2, <2>4 DEF HeardOf, SplitOf, FlushedOf
<1>3. (\E c \in Clients : link[c] = "backlog") => InSeq(Listener, ready) \/ full
  BY <1>1 DEF Attention, Welcomed
<1> QED
  BY <1>2, <1>3 DEF NoLostEdge

\* The edge-triggered contract: the loop does not go to sleep over input, output
\* or a pending connection that no edge will report any more.
THEOREM NoEdgeIsLost == SafeSpec => []NoLostEdge
<1> QED
  BY EdgesKept, InvariantHolds, PTL

(***************************************************************************)
(* Rest. What the edge-triggered contract is for: with nothing to be        *)
(* reported and nothing in the sockets, every whole request is answered.    *)
(***************************************************************************)
Parted == \A c \in Clients : /\ link[c] = "new" => written[c] = 0
                             /\ link[c] = "closed" => fin[c] \/ rst[c]

LEMMA PartedStays ==
    ASSUME Parted, UNCHANGED <<link, written, fin, rst>>
    PROVE  Parted'
BY DEF Parted

LEMMA PartedNext ==
    ASSUME Wiring, Counting, Parted, [Next]_vars
    PROVE  Parted'
<1>0. /\ link \in [Clients -> {"new", "backlog", "accepted", "closed"}]
      /\ fin \in [Clients -> BOOLEAN] /\ rst \in [Clients -> BOOLEAN]
      /\ written \in [Clients -> Nat]
  BY DEF Wiring, Switches, Linked, Counting, Counts
<1>1. CASE \/ WaitEpoll \/ Dispatch \/ AcceptEnds \/ Recv \/ RecvEagain \/ NetCal \/ NetCalEnds
           \/ Send \/ SendEagain \/ UNCHANGED vars \/ \E c \in Clients : ReadAnswer(c)
  <2>1. UNCHANGED <<link, written, fin, rst>>
    BY <1>1 DEF WaitEpoll, Dispatch, AcceptEnds, Recv, RecvEagain, NetCal, NetCalEnds, Send,
       SendEagain, ReadAnswer, vars, client, kernel
  <2> QED
    BY <2>1, PartedStays
<1>2. CASE Accept
  <2>1. PICK c \in Clients : link' = [link EXCEPT ![c] = "accepted"]
    BY <1>2 DEF Accept
  <2>2. UNCHANGED <<written, fin, rst>>
    BY <1>2 DEF Accept, client
  <2> QED
    BY <1>0, <2>1, <2>2 DEF Parted
<1>3. CASE RecvFails \/ SendFails
  <2>1. link' = [link EXCEPT ![Here] = "closed"] /\ UNCHANGED <<written, fin, rst>>
        /\ (fin[Here] \/ rst[Here])
    BY <1>3 DEF RecvFails, SendFails, EXcepter, client
  <2> QED
    BY <1>0, <2>1 DEF Parted
<1>4. ASSUME NEW c \in Clients, Connect(c) PROVE Parted'
  <2>1. link[c] = "new" /\ link' = [link EXCEPT ![c] = "backlog"] /\ UNCHANGED <<written, fin, rst>>
    BY <1>4 DEF Connect, client
  <2> QED
    BY <1>0, <2>1 DEF Parted
<1>5. ASSUME NEW c \in Clients, Write(c) PROVE Parted'
  <2>1. link[c] # "new" /\ written' = [written EXCEPT ![c] = @ + 1] /\ UNCHANGED <<link, fin, rst>>
    BY <1>5 DEF Write
  <2> QED
    BY <1>0, <2>1 DEF Parted
<1>6. ASSUME NEW c \in Clients, Shut(c) \/ Reset(c) PROVE Parted'
  <2>1. /\ UNCHANGED <<link, written>>
        /\ fin' = fin \/ fin' = [fin EXCEPT ![c] = TRUE]
        /\ rst' = rst \/ rst' = [rst EXCEPT ![c] = TRUE]
    BY <1>6 DEF Shut, Reset, client
  <2>2. \A d \in Clients : (fin[d] => fin'[d]) /\ (rst[d] => rst'[d])
    BY <1>0, <2>1
  <2> QED
    BY <2>1, <2>2 DEF Parted
<1> QED
  BY <1>1, <1>2, <1>3, <1>4, <1>5, <1>6 DEF Next, Server, Peer

\* What is cut from w pieces when less than a request is left.
LEMMA WholeRequests ==
    ASSUME NEW i \in Nat, NEW h \in Nat, NEW b \in Nat, b < Chunk,
           NEW w \in Nat, w = b + Chunk * h, w >= Chunk * i
    PROVE  i <= h
<1> SUFFICES ASSUME i >= h + 1 PROVE FALSE
  OBVIOUS
<1>1. PICK k \in Nat : i = h + 1 + k
  <2>1. i - (h + 1) \in Nat /\ i = h + 1 + (i - (h + 1))
    OBVIOUS
  <2> QED
    BY <2>1
<1>2. Chunk * i = Chunk * h + Chunk + Chunk * k
  BY <1>1, Numbers
<1>3. Chunk * k \in Nat /\ Chunk * h \in Nat /\ Chunk * i \in Nat
  BY Distributes
<1> QED
  BY <1>2, <1>3, Numbers

\* The reactor sleeps only over clients it owes nothing: no request that arrived whole
\* is left in a buffer, and no answer unsent, without an edge that will report it
\* (LoopOnce, Recver and Sender with EPOLLET).
THEOREM ReactorRestsDone == SafeSpec => []RestIsDone
<1>1. ASSUME Invariant, Parted PROVE RestIsDone
  <2> SUFFICES ASSUME Resting, pc # "aborted", ~full, NEW c \in Clients, NEW i \in Requests(c),
                      Script[c][i] = "good", written[c] >= Chunk * i, ~fin[c], ~rst[c]
               PROVE  InSeq(i, received[c])
    BY DEF RestIsDone
  <2>1. pc = "wait" /\ ready = <<>> /\ tx[c] = <<>> /\ Len(ready) = 0
    BY EmptySeq DEF Resting
  <2>2. /\ Wiring /\ Counts /\ NothingMisread /\ Streams /\ AnswersInOrder /\ NoLostEdge
    BY <1>1, EdgesKept DEF Invariant, Counting, Ordering
  <2>3. \A x : ~InSeq(x, ready)
    BY <2>1 DEF InSeq
  <2>4. i \in Nat /\ i >= 1 /\ Chunk * i \in Nat /\ Chunk * i > 0
    <3>1. i \in Nat /\ i >= 1
      BY ScriptIs DEF Requests
    <3>2. PICK k \in Nat : i = k + 1
      BY <3>1
    <3>3. Chunk * i = Chunk * k + Chunk /\ Chunk * k \in Nat
      BY <3>2, Numbers, Distributes
    <3> QED
      BY <3>1, <3>3, Numbers
  <2>5. link[c] # "new" /\ link[c] # "closed"
    BY <1>1, <2>4 DEF Parted
  <2>6. link[c] # "backlog"
    BY <2>1, <2>2, <2>3 DEF NoLostEdge
  <2>7. Live(c)
    BY <2>2, <2>5, <2>6 DEF Live, Wiring, Linked
  <2>8. ~Readable(c) /\ inbuffer[c] < Chunk /\ outbuffer[c] = <<>>
    <3>1. Len(tx[c]) # TxCap
      BY <2>1, EmptySeq, Numbers
    <3> QED
      BY <2>1, <2>2, <2>3, <2>7, <3>1 DEF NoLostEdge
  <2>9. rx[c] = 0 /\ rx[c] \in Nat /\ inbuffer[c] \in Nat /\ handled[c] \in Nat /\ written[c] \in Nat
    BY <2>2, <2>8 DEF Readable, Counts
  <2>10. written[c] = inbuffer[c] + Chunk * handled[c]
    <3>1. Cut(c) = 0
      BY <2>1 DEF Cut
    <3>2. written[c] = rx[c] + inbuffer[c] + Chunk * (handled[c] + Cut(c))
      BY <2>2 DEF NothingMisread
    <3>3. handled[c] + Cut(c) = handled[c]
      BY <2>9, <3>1
    <3>4. written[c] = rx[c] + inbuffer[c] + Chunk * handled[c] /\ Chunk * handled[c] \in Nat
      BY <2>9, <3>2, <3>3, Distributes
    <3> QED
      BY <2>9, <3>4
  <2>11. i <= handled[c]
    BY <2>4, <2>8, <2>9, <2>10, WholeRequests
  <2>12. InSeq(i, Answers(c))
    BY <2>2, <2>11 DEF AnswersInOrder
  <2>13. Answers(c) = received[c]
    <3>1. received[c] \in Seq(Requests(c))
      BY <2>2 DEF Streams
    <3>2. received[c] \o <<>> = received[c]
      BY <3>1, ConcatEmptySeq
    <3> QED
      BY <2>1, <2>8, <3>2 DEF Answers
  <2> QED
    BY <2>12, <2>13
<1>2. Init => Parted
  BY DEF Init, Parted
<1>3. Invariant /\ Parted /\ [Next]_vars => Parted'
  BY PartedNext DEF Invariant
<1> QED
  BY <1>1, <1>2, <1>3, InvariantHolds, PTL DEF SafeSpec

(***************************************************************************)
(* The refinement of Calculator: the last piece of a request is Ask, the    *)
(* client's read is Answer, and the reactor's own steps nobody sees.        *)
(***************************************************************************)
LEMMA HeadIsNext ==
    ASSUME Invariant, NEW c \in Clients, tx[c] # <<>>
    PROVE  LET i == Head(tx[c])
           IN  /\ i \in Requests(c) /\ Script[c][i] = "good" /\ i <= handled[c]
               /\ \A k \in 1..Len(received[c]) : received[c][k] # i
               /\ \A j \in Requests(c) :
                     /\ Script[c][j] = "good"
                     /\ \A k \in 1..Len(received[c]) : received[c][k] # j
                     => i <= j
<1> DEFINE r == received[c]
           t == tx[c]
           o == outbuffer[c]
           a == Answers(c)
           S == Requests(c)
           n == Len(r) + 1
<1>1. r \in Seq(S) /\ t \in Seq(S) /\ o \in Seq(S) /\ S \subseteq Nat /\ handled[c] \in Nat
  BY RequestsAreNumbers DEF Invariant, Ordering, Streams, Counting, Counts
<1>2. /\ \A i, j \in 1..Len(a) : i < j => a[i] < a[j]
      /\ \A i \in S : InSeq(i, a) <=> i <= handled[c] /\ Script[c][i] = "good"
  BY DEF Invariant, Ordering, AnswersInOrder
<1>3. a = (r \o t) \o o
  BY DEF Answers
<1>4. t # <<>>
  OBVIOUS
<1> HIDE DEF r, t, o, a, S
<1>5. /\ Len(r) \in Nat /\ Len(t) \in Nat /\ Len(t) >= 1 /\ Len(o) \in Nat
      /\ Head(t) = t[1] /\ t[1] \in S
  BY <1>1, <1>4, EmptySeq, LenProperties, HeadTailProperties, ElementOfSeq
<1>6. /\ r \o t \in Seq(S) /\ Len(r \o t) = Len(r) + Len(t)
      /\ \A k \in 1..(Len(r) + Len(t)) : (r \o t)[k] = IF k <= Len(r) THEN r[k] ELSE t[k - Len(r)]
  BY <1>1, ConcatProperties
<1>7. /\ a \in Seq(S) /\ Len(a) = Len(r) + Len(t) + Len(o)
      /\ \A k \in 1..(Len(r) + Len(t)) : a[k] = (r \o t)[k]
  <2> DEFINE u == r \o t
  <2>1. u \in Seq(S) /\ Len(u) = Len(r) + Len(t)
    BY <1>6
  <2>2. a = u \o o
    BY <1>3
  <2> HIDE DEF u
  <2>3. /\ u \o o \in Seq(S) /\ Len(u \o o) = Len(u) + Len(o)
        /\ \A k \in 1..(Len(u) + Len(o)) : (u \o o)[k] = IF k <= Len(u) THEN u[k] ELSE o[k - Len(u)]
    <3>1. u \in Seq(S) /\ o \in Seq(S)
      BY <1>1, <2>1
    <3> QED
      BY <3>1, ConcatProperties
  <2>4. /\ a \in Seq(S) /\ Len(a) = Len(u) + Len(o)
        /\ \A k \in 1..(Len(u) + Len(o)) : a[k] = IF k <= Len(u) THEN u[k] ELSE o[k - Len(u)]
    BY <2>2, <2>3
  <2>5. \A k \in 1..(Len(r) + Len(t)) : a[k] = u[k]
    BY <1>5, <2>1, <2>4
  <2> QED
    BY <1>5, <2>1, <2>4, <2>5 DEF u
<1>8. n \in 1..Len(a) /\ a[n] = t[1] /\ \A k \in 1..Len(r) : k \in 1..Len(a) /\ k < n /\ a[k] = r[k]
  <2>1. n \in 1..(Len(r) + Len(t)) /\ ~(n <= Len(r)) /\ n - Len(r) = 1
    BY <1>5
  <2>2. \A k \in 1..Len(r) : k \in 1..(Len(r) + Len(t)) /\ k <= Len(r) /\ k < n
    BY <1>5
  <2>3. n \in 1..Len(a) /\ \A k \in 1..Len(r) : k \in 1..Len(a)
    BY <1>5, <1>7
  <2>4. a[n] = t[1]
    BY <1>6, <1>7, <2>1
  <2>5. \A k \in 1..Len(r) : a[k] = r[k]
    BY <1>6, <1>7, <2>2
  <2> QED
    BY <2>2, <2>3, <2>4, <2>5
<1> HIDE DEF n
<1>9. \A k \in 1..Len(a) : a[k] \in S /\ a[k] \in Nat
  BY <1>1, <1>7, ElementOfSeq
<1>10. InSeq(t[1], a)
  BY <1>8 DEF InSeq
<1>11. t[1] \in S /\ Script[c][t[1]] = "good" /\ t[1] <= handled[c]
  BY <1>2, <1>5, <1>10
<1>12. \A k \in 1..Len(r) : r[k] # t[1]
  <2> SUFFICES ASSUME NEW k \in 1..Len(r) PROVE r[k] # t[1]
    OBVIOUS
  <2>1. a[k] < a[n] /\ a[k] = r[k] /\ a[n] = t[1] /\ a[k] \in Nat /\ a[n] \in Nat
    BY <1>2, <1>8, <1>9
  <2> QED
    BY <2>1
<1>13. ASSUME NEW j \in S, Script[c][j] = "good", \A k \in 1..Len(r) : r[k] # j
       PROVE  t[1] <= j
  <2>0. j \in Nat /\ t[1] \in Nat /\ handled[c] \in Nat /\ t[1] <= handled[c]
    BY <1>1, <1>11
  <2> SUFFICES ASSUME j < t[1] PROVE FALSE
    BY <2>0
  <2>6. j <= handled[c]
    BY <2>0
  <2>1. InSeq(j, a)
    BY <1>2, <1>13, <2>6
  <2>2. PICK p \in 1..Len(a) : a[p] = j
    BY <2>1 DEF InSeq
  <2>3. p \notin 1..Len(r)
    BY <1>8, <1>13, <2>2
  <2>4. p >= n
    BY <1>5, <1>7, <2>3 DEF n
  <2>5. CASE p = n
    <3>1. j = t[1]
      BY <1>8, <2>2, <2>5
    <3> QED
      BY <2>0, <3>1
  <2>7. CASE n < p
    <3>1. a[n] < a[p]
      BY <1>2, <1>8, <2>7
    <3>2. t[1] < j
      BY <1>8, <2>2, <3>1
    <3> QED
      BY <2>0, <3>2
  <2> QED
    BY <1>5, <1>7, <2>4, <2>5, <2>7 DEF n
<1>14. Head(tx[c]) = t[1]
  BY <1>5 DEF t
<1> QED
  BY <1>11, <1>12, <1>13, <1>14 DEF r, S

LEMMA WholeAndRest ==
    ASSUME NEW n \in Nat
    PROVE  /\ n \div Chunk \in Nat /\ n % Chunk \in Nat /\ n % Chunk < Chunk
           /\ n = (n % Chunk) + Chunk * (n \div Chunk)
<1> DEFINE q == n \div Chunk
           b == n % Chunk
<1>1. q \in Nat /\ b \in Nat /\ b < Chunk /\ n = Chunk * q + b
  BY Whole
<1> HIDE DEF q, b
<1>2. Chunk * q \in Nat
  BY <1>1, Distributes
<1>3. n = b + Chunk * q
  BY <1>1, <1>2
<1> QED
  BY <1>1, <1>3 DEF q, b

\* One piece more is at most one request more.
LEMMA PieceAsks ==
    ASSUME NEW w \in Nat
    PROVE  (w + 1) \div Chunk \in {w \div Chunk, (w \div Chunk) + 1}
<1> DEFINE q == w \div Chunk
           p == (w + 1) \div Chunk
           x == w % Chunk
           y == (w + 1) % Chunk
<1>0. w + 1 \in Nat
  OBVIOUS
<1>1. q \in Nat /\ x \in Nat /\ x < Chunk /\ w = x + Chunk * q
  BY WholeAndRest, Zenon
<1>2. p \in Nat /\ y \in Nat /\ y < Chunk /\ w + 1 = y + Chunk * p
  BY <1>0, WholeAndRest, Zenon
<1> HIDE DEF q, p, x, y
<1>3. Chunk * q \in Nat /\ Chunk * p \in Nat /\ Chunk * (q + 1) = Chunk * q + Chunk
      /\ Chunk * (q + 1) \in Nat /\ q + 1 \in Nat
  <2>0. 1 \in Nat /\ q \in Nat
    BY <1>1
  <2>1. Chunk * (q + 1) = Chunk * q + Chunk * 1
    BY <2>0, Distributes, Zenon
  <2>2. Chunk * q \in Nat /\ Chunk * p \in Nat
    BY <1>1, <1>2, Distributes
  <2>3. Chunk \in Nat /\ Chunk * 1 = Chunk /\ q + 1 \in Nat
    BY <1>1, Numbers
  <2> QED
    BY <2>1, <2>2, <2>3
<1>4. q <= p
  BY <1>1, <1>2, <1>3, WholeRequests
<1>5. p <= q + 1
  <2>1. CASE x + 1 < Chunk
    <3>1. w + 1 = (x + 1) + Chunk * q /\ w + 1 >= Chunk * p /\ x + 1 \in Nat /\ w + 1 \in Nat
      BY <1>1, <1>2, <1>3
    <3>2. p <= q
      BY <1>1, <1>2, <2>1, <3>1, WholeRequests
    <3> QED
      BY <1>1, <1>2, <3>2
  <2>2. CASE ~(x + 1 < Chunk)
    <3>1. w + 1 = 0 + Chunk * (q + 1) /\ w + 1 >= Chunk * p /\ w + 1 \in Nat /\ 0 < Chunk
      BY <1>1, <1>2, <1>3, <2>2, Numbers
    <3> QED
      BY <1>1, <1>2, <1>3, <3>1, WholeRequests
  <2> QED
    BY <2>1, <2>2
<1> QED
  BY <1>1, <1>2, <1>4, <1>5 DEF p, q

LEMMA CalcSteps ==
    ASSUME Invariant, [Next]_vars
    PROVE  [Calc!Next]_(Calc!vars)
<1> DEFINE asked == [d \in Clients |-> written[d] \div Chunk]
<1>0. /\ written \in [Clients -> Nat] /\ received \in [Clients -> Seq(Nat)]
      /\ handled \in [Clients -> Nat] /\ inbuffer \in [Clients -> Nat] /\ rx \in [Clients -> Nat]
  BY DEF Invariant, Counting, Counts, Ordering, Streams
<1>1. ASSUME NEW c \in Clients, Write(c) PROVE [Calc!Next]_(Calc!vars)
  <2>1. written' = [written EXCEPT ![c] = @ + 1] /\ received' = received
    BY <1>1 DEF Write
  <2>2. written'[c] = written[c] + 1 /\ \A d \in Clients : d # c => written'[d] = written[d]
    BY <1>0, <2>1
  <2>3. (written[c] + 1) \div Chunk \in {written[c] \div Chunk, (written[c] \div Chunk) + 1}
    BY <1>0, PieceAsks
  <2>4. CASE (written[c] + 1) \div Chunk = written[c] \div Chunk
    <3>1. \A d \in Clients : written'[d] \div Chunk = written[d] \div Chunk
      BY <2>2, <2>4
    <3>2. asked' = asked
      BY <3>1
    <3> QED
      BY <2>1, <3>2 DEF Calc!vars
  <2>5. CASE (written[c] + 1) \div Chunk = (written[c] \div Chunk) + 1
    <3>1. asked' = [asked EXCEPT ![c] = @ + 1]
      BY <2>2, <2>5
    <3> QED
      BY <2>1, <3>1 DEF Calc!Next, Calc!Ask
  <2> QED
    BY <2>3, <2>4, <2>5
<1>2. ASSUME NEW c \in Clients, ReadAnswer(c) PROVE [Calc!Next]_(Calc!vars)
  <2>1. /\ tx[c] # <<>> /\ received' = [received EXCEPT ![c] = Append(@, Head(tx[c]))]
        /\ written' = written
    BY <1>2 DEF ReadAnswer
  <2> DEFINE i == Head(tx[c])
  <2>2. /\ i \in Requests(c) /\ Script[c][i] = "good" /\ i <= handled[c]
        /\ \A k \in 1..Len(received[c]) : received[c][k] # i
        /\ \A j \in Requests(c) :
              /\ Script[c][j] = "good"
              /\ \A k \in 1..Len(received[c]) : received[c][k] # j
              => i <= j
    BY <2>1, HeadIsNext
  <2>3. received' = [received EXCEPT ![c] = Append(@, i)]
    BY <2>1
  <2> HIDE DEF i
  <2>4. i <= written[c] \div Chunk
    <3> DEFINE q == written[c] \div Chunk
               b == written[c] % Chunk
               h == handled[c]
    <3>0. written[c] \in Nat
      BY <1>0
    <3>1. q \in Nat /\ b \in Nat /\ b < Chunk /\ written[c] = b + Chunk * q
      BY <3>0, WholeAndRest, Zenon
    <3>2. h \in Nat /\ Chunk * h \in Nat /\ written[c] \in Nat
      BY <1>0, Distributes
    <3>3. written[c] >= Chunk * h
      <4>1. Cut(c) \in Nat /\ written[c] = rx[c] + inbuffer[c] + Chunk * (h + Cut(c))
        BY HandledBound DEF Invariant, Counting, NothingMisread
      <4>2. Chunk * (h + Cut(c)) = Chunk * h + Chunk * Cut(c) /\ Chunk * Cut(c) \in Nat
        BY <3>2, <4>1, Distributes
      <4>3. rx[c] \in Nat /\ inbuffer[c] \in Nat
        BY <1>0
      <4> QED
        BY <3>2, <4>1, <4>2, <4>3
    <3>4. i \in Nat
      BY <2>2, RequestsAreNumbers
    <3>5. i <= h
      BY <2>2
    <3> HIDE DEF q, b, h
    <3>6. h <= q
      BY <3>1, <3>2, <3>3, WholeRequests
    <3>7. i <= q
      BY <3>1, <3>2, <3>4, <3>5, <3>6
    <3> QED
      BY <3>7 DEF q
  <2>5. i \in Calc!Open(c) /\ \A j \in Calc!Open(c) : i <= j
    BY <2>2, <2>4 DEF Calc!Open
  <2>6. Calc!Answer(c)
    BY <2>1, <2>3, <2>5 DEF Calc!Answer
  <2> QED
    BY <2>6 DEF Calc!Next
<1>3. ASSUME UNCHANGED <<written, received>> PROVE [Calc!Next]_(Calc!vars)
  BY <1>3 DEF Calc!vars
<1>4. CASE Server \/ UNCHANGED vars
  <2>1. UNCHANGED <<written, received>>
    BY <1>4 DEF Server, WaitEpoll, Dispatch, Accept, AcceptEnds, Recv, RecvFails, RecvEagain,
       NetCal, NetCalEnds, Send, SendEagain, SendFails, vars, client
  <2> QED
    BY <1>3, <2>1
<1>5. ASSUME NEW c \in Clients, Connect(c) \/ Shut(c) \/ Reset(c) PROVE [Calc!Next]_(Calc!vars)
  <2>1. UNCHANGED <<written, received>>
    BY <1>5 DEF Connect, Shut, Reset, client
  <2> QED
    BY <1>3, <2>1
<1> QED
  BY <1>1, <1>2, <1>4, <1>5 DEF Next, Peer

\* To its clients the reactor is the calculator: each reads the answers to its own
\* requests that parse, in their order, each once, and none before the request is there.
THEOREM ReactorIsCalculator == SafeSpec => CalcSpec
<1>1. Init => Calc!Init
  <2>1. 0 \div Chunk = 0
    BY Numbers
  <2> QED
    BY <2>1 DEF Init, Calc!Init
<1> QED
  BY <1>1, CalcSteps, InvariantHolds, PTL DEF SafeSpec, CalcSpec, Calc!SafeSpec
==============================================================================

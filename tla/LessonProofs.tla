----------------------------- MODULE LessonProofs -----------------------------
(***************************************************************************)
(* Safety of two of the programs that the lessons on threads lead to, the   *)
(* network calculator of lesson31 and the ticket sale of lesson25: of the   *)
(* calculator for any number of clients, requests under way and descriptors, *)
(* of the sale for any number of tickets and threads.                       *)
(***************************************************************************)
EXTENDS NetCal, TLAPS, SequenceTheorems, WellFoundedInduction

(***************************************************************************)
(* The calculator. The five places a request and its answer can be in are   *)
(* read as one long stream: what the client has printed, its buffer, the    *)
(* stream to it, the buffer of the thread, the stream to the server.        *)
(***************************************************************************)
\* What stands at place p of the stream of all messages.
Place(x, p) == \E k \in Nat : \/ p = 3 * k + 1 /\ x = [part |-> "length", of |-> k + 1]
                              \/ p = 3 * k + 2 /\ x = [part |-> "payload", of |-> k + 1]
                              \/ p = 3 * k + 3 /\ x = [part |-> "end", of |-> k + 1]

\* s is the part of that stream which begins after the first b places.
Run(s, b) == s \in Seq(Pieces) /\ \A i \in 1..Len(s) : Place(s[i], b + i)

\* The five places of one client, laid end to end; h messages have been answered.
Answers(done, got, coming, h) ==
    /\ done \in Seq(Pieces)
    /\ \A i \in 1..Len(done) : done[i] = [part |-> "payload", of |-> i]
    /\ Run(got, 3 * Len(done)) /\ Run(coming, 3 * Len(done) + Len(got))
    /\ h \in Nat /\ 3 * Len(done) + Len(got) + Len(coming) = 3 * h
Asked(read, going, h, n) ==
    /\ Run(read, 3 * h) /\ Run(going, 3 * h + Len(read))
    /\ n \in 0..Requests /\ 3 * h + Len(read) + Len(going) = 3 * n
Chain(done, got, coming, read, going, n, w) ==
    /\ \E h \in 0..n : Answers(done, got, coming, h) /\ Asked(read, going, h, n)
    /\ n <= Len(done) + w

Chained == \A c \in Clients :
    Chain(shown[c], buffer[c], toClient[c], inbuffer[c], toServer[c], sent[c], Window[c])

\* A thread that still has something to do has a descriptor, and it is its own.
Attached ==
    /\ link \in [Clients -> {"new", "backlog", "served", "orphan", "closed"}]
    /\ tpc \in [Clients -> {"none", "recv", "decode", "close", "ended"}]
    /\ file \in [Fds -> Clients \cup {None}] /\ sock_ \in [Clients -> Fds \cup {0}]
    /\ \A t \in Clients : tpc[t] \in {"recv", "decode", "close"} =>
                            sock_[t] \in Fds /\ file[sock_[t]] = t
    /\ \A fd \in Fds : file[fd] # None => link[file[fd]] \in {"served", "orphan"}
    /\ \A f, g \in Fds : file[f] = file[g] /\ file[f] # None => f = g

\* The variables are functions on the clients.
Framed == /\ ended \in [Clients -> BOOLEAN] /\ sent \in [Clients -> Nat]
          /\ DOMAIN shown = Clients /\ DOMAIN buffer = Clients /\ DOMAIN inbuffer = Clients
          /\ DOMAIN toClient = Clients /\ DOMAIN toServer = Clients

Invariant == Attached /\ Framed /\ Chained

(***************************************************************************)
(* Runs of the stream, cut and put together.                                *)
(***************************************************************************)
LEMMA Prefix ==
    ASSUME NEW s, NEW b \in Nat, Run(s, b), NEW n \in 0..Len(s)
    PROVE  Run(SubSeq(s, 1, n), b) /\ Len(SubSeq(s, 1, n)) = n
<1> DEFINE a == SubSeq(s, 1, n)
<1>1. Len(s) \in Nat /\ n \in Nat /\ n <= Len(s) /\ \A i \in 1..Len(s) : s[i] \in Pieces
  BY LenProperties, ElementOfSeq DEF Run
<1>2. \A i \in 1..n : s[i] \in Pieces
  BY <1>1
<1>3. /\ a \in Seq(Pieces) /\ Len(a) = IF 1 <= n THEN n - 1 + 1 ELSE 0
      /\ \A i \in 1..(n - 1 + 1) : a[i] = s[1 + i - 1]
  BY <1>1, <1>2, SubSeqProperties
<1> HIDE DEF a
<1>4. Len(a) = n /\ \A i \in 1..n : a[i] = s[i] /\ i \in 1..Len(s)
  BY <1>1, <1>3
<1>5. Run(a, b)
  BY <1>3, <1>4 DEF Run
<1> QED
  BY <1>4, <1>5 DEF a

LEMMA Suffix ==
    ASSUME NEW s, NEW b \in Nat, Run(s, b), NEW n \in 0..Len(s)
    PROVE  Run(SubSeq(s, n + 1, Len(s)), b + n) /\ Len(SubSeq(s, n + 1, Len(s))) = Len(s) - n
<1> DEFINE L == Len(s)
           a == SubSeq(s, n + 1, L)
<1>1. L \in Nat /\ n \in Nat /\ n <= L /\ \A i \in 1..L : s[i] \in Pieces /\ Place(s[i], b + i)
  BY LenProperties, ElementOfSeq DEF Run
<1> HIDE DEF L
<1>2. \A i \in (n + 1)..L : s[i] \in Pieces
  BY <1>1
<1>3. /\ a \in Seq(Pieces) /\ Len(a) = IF n + 1 <= L THEN L - (n + 1) + 1 ELSE 0
      /\ \A i \in 1..(L - (n + 1) + 1) : a[i] = s[(n + 1) + i - 1]
  BY <1>1, <1>2, SubSeqProperties
<1> HIDE DEF a
<1>4. Len(a) = L - n
  BY <1>1, <1>3
<1>5. ASSUME NEW i \in 1..Len(a) PROVE Place(a[i], (b + n) + i)
  <2>1. i \in 1..(L - n) /\ n + i \in 1..L /\ a[i] = s[n + i] /\ b + (n + i) = (b + n) + i
    BY <1>1, <1>3, <1>4
  <2>2. Place(s[n + i], b + (n + i))
    BY <1>1, <2>1
  <2> QED
    BY <2>1, <2>2
<1>6. Run(a, b + n)
  BY <1>3, <1>5 DEF Run
<1> QED
  BY <1>4, <1>6 DEF a, L

LEMMA Joined ==
    ASSUME NEW s, NEW t, NEW b \in Nat, Run(s, b), Run(t, b + Len(s))
    PROVE  Run(s \o t, b) /\ Len(s \o t) = Len(s) + Len(t)
<1> DEFINE r == s \o t
<1>1. s \in Seq(Pieces) /\ t \in Seq(Pieces) /\ Len(s) \in Nat /\ Len(t) \in Nat
  BY LenProperties DEF Run
<1>2. /\ r \in Seq(Pieces) /\ Len(r) = Len(s) + Len(t)
      /\ \A i \in 1..(Len(s) + Len(t)) : r[i] = IF i <= Len(s) THEN s[i] ELSE t[i - Len(s)]
  BY <1>1, ConcatProperties
<1> HIDE DEF r
<1>3. ASSUME NEW i \in 1..Len(r) PROVE Place(r[i], b + i)
  <2>1. CASE i <= Len(s)
    <3>1. r[i] = s[i] /\ i \in 1..Len(s)
      BY <1>1, <1>2, <2>1
    <3> QED
      BY <3>1 DEF Run
  <2>2. CASE ~(i <= Len(s))
    <3>1. /\ r[i] = t[i - Len(s)] /\ i - Len(s) \in 1..Len(t)
          /\ (b + Len(s)) + (i - Len(s)) = b + i
      BY <1>1, <1>2, <2>2
    <3>2. Place(t[i - Len(s)], (b + Len(s)) + (i - Len(s)))
      BY <3>1 DEF Run
    <3> QED
      BY <3>1, <3>2
  <2> QED
    BY <2>1, <2>2
<1>4. Run(r, b)
  BY <1>2, <1>3 DEF Run
<1> QED
  BY <1>2, <1>4 DEF r

\* A message occupies the three places that its number says ...
LEMMA Message ==
    ASSUME NEW i \in 1..Requests
    PROVE  Run(Encode(i), 3 * (i - 1)) /\ Len(Encode(i)) = 3
<1> DEFINE e == Encode(i)
<1>1. Requests \in Nat /\ i \in Nat /\ i - 1 \in Nat /\ (i - 1) + 1 = i
  BY BoundsAssumption
<1>2. /\ e[1] = [part |-> "length", of |-> i] /\ e[2] = [part |-> "payload", of |-> i]
      /\ e[3] = [part |-> "end", of |-> i] /\ Len(e) = 3
  BY DEF Encode
<1>3. e \in Seq(Pieces)
  BY DEF Encode, Pieces
<1> HIDE DEF e
<1>4. \A j \in 1..Len(e) : Place(e[j], 3 * (i - 1) + j)
  <2>1. Place(e[1], 3 * (i - 1) + 1)
    BY <1>1, <1>2 DEF Place
  <2>2. Place(e[2], 3 * (i - 1) + 2)
    BY <1>1, <1>2 DEF Place
  <2>3. Place(e[3], 3 * (i - 1) + 3)
    BY <1>1, <1>2 DEF Place
  <2>4. \A j \in 1..Len(e) : j = 1 \/ j = 2 \/ j = 3
    BY <1>2
  <2> QED
    BY <2>1, <2>2, <2>3, <2>4
<1>5. Run(e, 3 * (i - 1))
  BY <1>3, <1>4 DEF Run
<1> QED
  BY <1>2, <1>5 DEF e

\* ... and what Decode takes from a run that begins with a message is that message.
LEMMA First ==
    ASSUME NEW s, NEW h \in Nat, Run(s, 3 * h), Len(s) >= 3
    PROVE  s[2] = [part |-> "payload", of |-> h + 1] /\ s[2] \in Pieces
<1>1. 2 \in 1..Len(s) /\ s \in Seq(Pieces)
  BY LenProperties DEF Run
<1>2. Place(s[2], 3 * h + 2)
  BY <1>1 DEF Run
<1>3. s[2] = [part |-> "payload", of |-> h + 1]
  BY <1>2 DEF Place
<1> QED
  BY <1>1, <1>3, ElementOfSeq

(***************************************************************************)
(* What each operation does to the chain of one client.                     *)
(***************************************************************************)
Sizes(done, got, coming, read, going, h, n) ==
    /\ Len(done) \in Nat /\ Len(got) \in Nat /\ Len(coming) \in Nat
    /\ Len(read) \in Nat /\ Len(going) \in Nat /\ h \in Nat /\ n \in Nat
    /\ 3 * Len(done) + Len(got) + Len(coming) = 3 * h
    /\ 3 * h + Len(read) + Len(going) = 3 * n

LEMMA Lengths ==
    ASSUME NEW done, NEW got, NEW coming, NEW read, NEW going, NEW h, NEW n,
           Answers(done, got, coming, h), Asked(read, going, h, n)
    PROVE  Sizes(done, got, coming, read, going, h, n)
<1>1. done \in Seq(Pieces) /\ got \in Seq(Pieces) /\ coming \in Seq(Pieces)
  BY DEF Answers, Run
<1>2. read \in Seq(Pieces) /\ going \in Seq(Pieces)
  BY DEF Asked, Run
<1>3. h \in Nat /\ n \in Nat
  BY BoundsAssumption DEF Answers, Asked
<1>4. Len(done) \in Nat /\ Len(got) \in Nat /\ Len(coming) \in Nat
  BY <1>1, LenProperties
<1>5. Len(read) \in Nat /\ Len(going) \in Nat
  BY <1>2, LenProperties
<1> QED
  BY <1>3, <1>4, <1>5 DEF Answers, Asked, Sizes

LEMMA ChainSends ==
    ASSUME NEW done, NEW got, NEW coming, NEW read, NEW going, NEW n, NEW w \in Nat,
           Chain(done, got, coming, read, going, n, w), n < Requests, n < Len(done) + w
    PROVE  Chain(done, got, coming, read, going \o Encode(n + 1), n + 1, w)
<1> DEFINE e == Encode(n + 1)
<1>1. PICK h \in 0..n : Answers(done, got, coming, h) /\ Asked(read, going, h, n)
  BY DEF Chain
<1>2. /\ Len(done) \in Nat /\ Len(read) \in Nat /\ Len(going) \in Nat /\ h \in Nat /\ n \in Nat
      /\ 3 * h + Len(read) + Len(going) = 3 * n /\ Requests \in Nat
  <2>1. Sizes(done, got, coming, read, going, h, n)
    BY <1>1, Lengths
  <2> QED
    BY <2>1, BoundsAssumption DEF Sizes
<1>3. n + 1 \in 1..Requests /\ 3 * ((n + 1) - 1) = (3 * h + Len(read)) + Len(going)
      /\ 3 * h + Len(read) \in Nat
  BY <1>2
<1>4. Run(e, (3 * h + Len(read)) + Len(going)) /\ Len(e) = 3
  BY <1>3, Message
<1> HIDE DEF e
<1>5. Run(going \o e, 3 * h + Len(read)) /\ Len(going \o e) = Len(going) + 3
  <2>1. Run(going, 3 * h + Len(read))
    BY <1>1 DEF Asked
  <2> QED
    BY <1>3, <1>4, <2>1, Joined
<1>6. Asked(read, going \o e, h, n + 1)
  <2>1. n + 1 \in 0..Requests /\ 3 * h + Len(read) + Len(going \o e) = 3 * (n + 1)
    BY <1>2, <1>3, <1>5
  <2> QED
    BY <1>1, <1>5, <2>1 DEF Asked
<1>7. h \in 0..(n + 1) /\ n + 1 <= Len(done) + w
  BY <1>2
<1> QED
  BY <1>1, <1>6, <1>7 DEF Chain, e

LEMMA ChainReads ==
    ASSUME NEW done, NEW got, NEW coming, NEW read, NEW going, NEW n, NEW w \in Nat,
           Chain(done, got, coming, read, going, n, w), NEW m \in 1..Len(going)
    PROVE  Chain(done, got, coming, read \o SubSeq(going, 1, m),
                 SubSeq(going, m + 1, Len(going)), n, w)
<1> DEFINE a == SubSeq(going, 1, m)
           b == SubSeq(going, m + 1, Len(going))
           r == read \o a
<1>1. PICK h \in 0..n : Answers(done, got, coming, h) /\ Asked(read, going, h, n)
  BY DEF Chain
<1>2. /\ Len(read) \in Nat /\ Len(going) \in Nat /\ h \in Nat /\ n \in Nat
      /\ 3 * h + Len(read) + Len(going) = 3 * n
  <2>1. Sizes(done, got, coming, read, going, h, n)
    BY <1>1, Lengths
  <2> QED
    BY <2>1 DEF Sizes
<1> DEFINE from == 3 * h + Len(read)
<1>3. from \in Nat /\ Run(going, from) /\ Run(read, 3 * h) /\ 3 * h \in Nat /\ m \in 0..Len(going)
  BY <1>1, <1>2 DEF Asked
<1>4. Run(a, from) /\ Len(a) = m /\ Run(b, from + m) /\ Len(b) = Len(going) - m
  BY <1>3, Prefix, Suffix
<1> HIDE DEF a, b
<1>5. Run(r, 3 * h) /\ Len(r) = Len(read) + m
  BY <1>3, <1>4, Joined
<1> HIDE DEF r
<1>6. 3 * h + Len(r) = from + m /\ 3 * h + Len(r) + Len(b) = 3 * n
  BY <1>2, <1>3, <1>4, <1>5
<1> HIDE DEF from
<1>7. Asked(r, b, h, n)
  BY <1>1, <1>4, <1>5, <1>6 DEF Asked
<1> QED
  BY <1>1, <1>7 DEF Chain, r, a, b

LEMMA ChainCalculates ==
    ASSUME NEW done, NEW got, NEW coming, NEW read, NEW going, NEW n, NEW w \in Nat,
           Chain(done, got, coming, read, going, n, w), Len(read) >= 3
    PROVE  Chain(done, got, coming \o Encode(read[2].of), SubSeq(read, 4, Len(read)), going, n, w)
<1>1. PICK h \in 0..n : Answers(done, got, coming, h) /\ Asked(read, going, h, n)
  BY DEF Chain
<1>2. /\ Len(done) \in Nat /\ Len(got) \in Nat /\ Len(coming) \in Nat /\ Len(read) \in Nat
      /\ Len(going) \in Nat /\ h \in Nat /\ n \in Nat
      /\ 3 * Len(done) + Len(got) + Len(coming) = 3 * h
      /\ 3 * h + Len(read) + Len(going) = 3 * n
  <2>1. Sizes(done, got, coming, read, going, h, n)
    BY <1>1, Lengths
  <2> QED
    BY <2>1 DEF Sizes
<1>3. h + 1 \in 1..Requests /\ h + 1 \in 0..n
  <2>1. n <= Requests /\ Requests \in Nat
    BY <1>1, <1>2, BoundsAssumption DEF Asked
  <2>2. 3 * n >= 3 * h + 3
    BY <1>2
  <2> QED
    BY <1>2, <2>1, <2>2
<1>4. read[2].of = h + 1
  <2>1. Run(read, 3 * h)
    BY <1>1 DEF Asked
  <2>2. read[2] = [part |-> "payload", of |-> h + 1]
    BY <1>2, <2>1, First
  <2> QED
    BY <2>2
<1> DEFINE e == Encode(h + 1)
           c == coming \o e
           b == SubSeq(read, 4, Len(read))
           from == 3 * Len(done) + Len(got)
<1>5. from \in Nat /\ from + Len(coming) = 3 * ((h + 1) - 1) /\ 3 * Len(done) \in Nat
  BY <1>2
<1>6. Run(e, from + Len(coming)) /\ Len(e) = 3
  BY <1>3, <1>5, Message
<1> HIDE DEF e
<1>7. Run(c, from) /\ Len(c) = Len(coming) + 3
  <2>1. Run(coming, from)
    BY <1>1 DEF Answers
  <2> HIDE DEF from
  <2> QED
    BY <1>5, <1>6, <2>1, Joined
<1> HIDE DEF c
<1>8. Answers(done, got, c, h + 1)
  <2>1. h + 1 \in Nat /\ 3 * Len(done) + Len(got) + Len(c) = 3 * (h + 1)
    <3>1. Len(c) = Len(coming) + 3 /\ 3 * (h + 1) = 3 * h + 3
      BY <1>2, <1>7
    <3> QED
      BY <1>2, <3>1
  <2> QED
    BY <1>1, <1>7, <2>1 DEF Answers
<1>9. Run(b, 3 * h + 3) /\ Len(b) = Len(read) - 3
  <2>1. 3 \in 0..Len(read) /\ 3 * h \in Nat /\ Run(read, 3 * h) /\ 3 + 1 = 4
    BY <1>1, <1>2 DEF Asked
  <2> QED
    BY <2>1, Suffix
<1> HIDE DEF b
<1>10. Asked(b, going, h + 1, n)
  <2>1. /\ 3 * h + 3 = 3 * (h + 1) /\ 3 * (h + 1) + Len(b) = 3 * h + Len(read)
        /\ 3 * (h + 1) + Len(b) + Len(going) = 3 * n
    <3>1. h \in Nat /\ Len(read) \in Nat /\ Len(b) = Len(read) - 3
      BY <1>2, <1>9
    <3>2. 3 * h + 3 = 3 * (h + 1)
      BY <3>1
    <3>3. 3 * (h + 1) + Len(b) = 3 * h + Len(read)
      BY <3>1, <3>2
    <3> QED
      BY <1>2, <3>2, <3>3
  <2> QED
    BY <1>1, <1>9, <2>1 DEF Asked
<1> QED
  BY <1>3, <1>4, <1>8, <1>10 DEF Chain, c, b, e

LEMMA ChainAnswers ==
    ASSUME NEW done, NEW got, NEW coming, NEW read, NEW going, NEW n, NEW w \in Nat,
           Chain(done, got, coming, read, going, n, w), NEW m \in 1..Len(coming)
    PROVE  LET all == got \o SubSeq(coming, 1, m)
               rest == SubSeq(coming, m + 1, Len(coming))
           IN  /\ Len(all) >= 3 => Chain(Append(done, all[2]), SubSeq(all, 4, Len(all)), rest,
                                         read, going, n, w)
               /\ ~(Len(all) >= 3) => Chain(done, all, rest, read, going, n, w)
<1> DEFINE a == SubSeq(coming, 1, m)
           rest == SubSeq(coming, m + 1, Len(coming))
           all == got \o a
           b == SubSeq(all, 4, Len(all))
           d == Append(done, all[2])
<1>1. PICK h \in 0..n : Answers(done, got, coming, h) /\ Asked(read, going, h, n)
  BY DEF Chain
<1>2. /\ Len(done) \in Nat /\ Len(got) \in Nat /\ Len(coming) \in Nat /\ h \in Nat /\ n \in Nat
      /\ 3 * Len(done) + Len(got) + Len(coming) = 3 * h /\ n <= Len(done) + w
  <2>1. Sizes(done, got, coming, read, going, h, n)
    BY <1>1, Lengths
  <2> QED
    BY <2>1 DEF Sizes, Chain
<1> DEFINE from == 3 * Len(done) + Len(got)
<1>3. /\ from \in Nat /\ 3 * Len(done) \in Nat /\ m \in 0..Len(coming)
      /\ Run(got, 3 * Len(done)) /\ Run(coming, from)
  BY <1>1, <1>2 DEF Answers
<1>4. Run(a, from) /\ Len(a) = m /\ Run(rest, from + m) /\ Len(rest) = Len(coming) - m
  BY <1>3, Prefix, Suffix
<1> HIDE DEF a, rest
<1>5. Run(all, 3 * Len(done)) /\ Len(all) = Len(got) + m
  BY <1>3, <1>4, Joined
<1> HIDE DEF all
<1>6. 3 * Len(done) + Len(all) = from + m /\ 3 * Len(done) + Len(all) + Len(rest) = 3 * h
  <2>1. Len(all) = Len(got) + m /\ Len(rest) = Len(coming) - m /\ m \in Nat
    BY <1>2, <1>3, <1>4, <1>5
  <2>2. 3 * Len(done) + Len(all) = from + m
    BY <1>2, <2>1
  <2> QED
    BY <1>2, <2>1, <2>2
<1> HIDE DEF from
<1>7. ASSUME ~(Len(all) >= 3) PROVE Chain(done, all, rest, read, going, n, w)
  <2>1. Answers(done, all, rest, h)
    BY <1>1, <1>4, <1>5, <1>6 DEF Answers
  <2> QED
    BY <1>1, <1>2, <2>1 DEF Chain
<1>8. ASSUME Len(all) >= 3 PROVE Chain(d, b, rest, read, going, n, w)
  <2>1. all[2] = [part |-> "payload", of |-> Len(done) + 1] /\ all[2] \in Pieces
    BY <1>2, <1>5, <1>8, First
  <2>2. done \in Seq(Pieces) /\ \A i \in 1..Len(done) : done[i] = [part |-> "payload", of |-> i]
    BY <1>1 DEF Answers
  <2>3. /\ d \in Seq(Pieces) /\ Len(d) = Len(done) + 1
        /\ \A i \in 1..Len(done) : d[i] = done[i]
        /\ d[Len(done) + 1] = all[2]
    BY <2>1, <2>2, AppendProperties
  <2> HIDE DEF d
  <2>4. \A i \in 1..Len(d) : d[i] = [part |-> "payload", of |-> i]
    <3> SUFFICES ASSUME NEW i \in 1..Len(d) PROVE d[i] = [part |-> "payload", of |-> i]
      OBVIOUS
    <3>1. i \in 1..Len(done) \/ i = Len(done) + 1
      BY <1>2, <2>3
    <3> QED
      BY <2>1, <2>2, <2>3, <3>1
  <2>5. Run(b, 3 * Len(done) + 3) /\ Len(b) = Len(all) - 3
    <3>1. 3 \in 0..Len(all) /\ 3 + 1 = 4
      BY <1>2, <1>4, <1>5, <1>8
    <3> QED
      BY <1>3, <1>5, <3>1, Suffix
  <2> HIDE DEF b
  <2>6. /\ 3 * Len(d) = 3 * Len(done) + 3 /\ 3 * Len(d) + Len(b) = 3 * Len(done) + Len(all)
        /\ 3 * Len(d) + Len(b) + Len(rest) = 3 * h
    <3>1. Len(all) \in Nat /\ Len(rest) \in Nat
      BY <1>4, <1>5, LenProperties DEF Run
    <3>2. Len(d) = Len(done) + 1 /\ Len(b) = Len(all) - 3 /\ Len(done) \in Nat /\ h \in Nat
      BY <1>2, <2>3, <2>5
    <3>3. 3 * Len(done) + Len(all) + Len(rest) = 3 * h
      BY <1>6
    <3>4. 3 * Len(d) = 3 * Len(done) + 3
      BY <3>2
    <3>5. 3 * Len(d) + Len(b) = 3 * Len(done) + Len(all)
      BY <3>1, <3>2, <3>4
    <3> QED
      BY <3>3, <3>4, <3>5
  <2>7. Answers(d, b, rest, h)
    BY <1>1, <1>4, <1>6, <2>3, <2>4, <2>5, <2>6 DEF Answers
  <2>8. n <= Len(d) + w
    BY <1>2, <2>3
  <2> QED
    BY <1>1, <2>7, <2>8 DEF Chain
<1> QED
  BY <1>7, <1>8 DEF d, b, all, a, rest

\* No more is in the buffer of the thread than its client has under way.
LEMMA ChainBounds ==
    ASSUME NEW done, NEW got, NEW coming, NEW read, NEW going, NEW n, NEW w \in Nat,
           Chain(done, got, coming, read, going, n, w)
    PROVE  /\ {done, got, coming, read, going} \subseteq Seq(Pieces)
           /\ n \in 0..Requests /\ Len(read) <= 3 * w
<1>1. PICK h \in 0..n : Answers(done, got, coming, h) /\ Asked(read, going, h, n)
  BY DEF Chain
<1>2. {done, got, coming, read, going} \subseteq Seq(Pieces) /\ n \in 0..Requests
  BY <1>1 DEF Answers, Asked, Run
<1>3. /\ Len(done) \in Nat /\ Len(got) \in Nat /\ Len(coming) \in Nat
      /\ Len(read) \in Nat /\ Len(going) \in Nat /\ h \in Nat /\ n \in Nat
      /\ 3 * Len(done) + Len(got) + Len(coming) = 3 * h
      /\ 3 * h + Len(read) + Len(going) = 3 * n
  <2>1. Sizes(done, got, coming, read, going, h, n)
    BY <1>1, Lengths
  <2> QED
    BY <2>1 DEF Sizes
<1>4. n <= Len(done) + w
  BY DEF Chain
<1>5. Len(read) <= 3 * w
  BY <1>3, <1>4
<1> QED
  BY <1>2, <1>5

(***************************************************************************)
(* Every step keeps the descriptors and the chains in order.                *)
(***************************************************************************)
LEMMA FreeIs == FreeFds # {} => Lowest(FreeFds) \in Fds /\ file[Lowest(FreeFds)] = None
<1> SUFFICES ASSUME FreeFds # {} PROVE Lowest(FreeFds) \in FreeFds
  BY DEF FreeFds
<1> DEFINE S == FreeFds
           R == OpToRel(<, Nat)
<1>1. S # {} /\ S \subseteq Nat
  BY BoundsAssumption DEF FreeFds, Fds
<1>2. IsWellFoundedOn(R, Nat)
  BY NatLessThanWellFounded, Zenon
<1>3. \A x, y \in Nat : <<x, y>> \in R <=> x < y
  BY DEF OpToRel
<1> HIDE DEF R, S
<1>4. PICK m \in S : \A k \in S : <<k, m>> \notin R
  BY <1>1, <1>2, WFMin
<1>5. ASSUME NEW k \in S PROVE m <= k
  <2>1. m \in Nat /\ k \in Nat
    BY <1>1
  <2>2. ~(k < m)
    BY <1>3, <1>4, <2>1
  <2> QED
    BY <2>1, <2>2
<1>6. \E m1 \in S : \A k \in S : m1 <= k
  BY <1>5
<1> QED
  BY <1>6, Zenon DEF Lowest, S

LEMMA AttachedStays ==
    ASSUME Attached, UNCHANGED <<link, file, tpc, sock_>>
    PROVE  Attached'
BY DEF Attached

\* A thread at work uses the connection it was created for.
LEMMA PeerIs ==
    ASSUME Attached, NEW t \in Clients, tpc[t] \in {"recv", "decode", "close"}
    PROVE  Peer(t) = t /\ Peer(t) # None /\ sock_[t] \in Fds /\ file[sock_[t]] = t
BY BoundsAssumption DEF Attached, Peer

\* A thread that goes on, or to its end, without touching a descriptor.
LEMMA GoesOn ==
    ASSUME Attached, NEW t \in Clients, tpc[t] \in {"recv", "decode"},
           NEW label \in {"recv", "decode", "close"}, Goto(t, label),
           UNCHANGED <<link, file, sock_>>
    PROVE  Attached'
<1>1. /\ tpc' \in [Clients -> {"none", "recv", "decode", "close", "ended"}]
      /\ \A u \in Clients : tpc'[u] = IF u = t THEN label ELSE tpc[u]
  BY DEF Attached, Goto
<1>2. \A u \in Clients : tpc'[u] \in {"recv", "decode", "close"} =>
                           sock_[u] \in Fds /\ file[sock_[u]] = u
  BY <1>1 DEF Attached
<1> QED
  BY <1>1, <1>2 DEF Attached

LEMMA AttachedNext ==
    ASSUME Attached, Next
    PROVE  Attached'
<1> PICK c \in Clients : \/ Connect(c) \/ SendRequest(c) \/ RecvAnswer(c) \/ Quit(c)
                         \/ Accept(c) \/ Thread(c)
  BY DEF Next
<1>1. CASE Connect(c)
  <2>1. /\ link[c] = "new" /\ link' = [link EXCEPT ![c] = "backlog"]
        /\ UNCHANGED <<file, tpc, sock_>>
    BY <1>1 DEF Connect, thread
  <2>2. \A fd \in Fds : file[fd] # None => file[fd] \in Clients /\ file[fd] # c
    BY <2>1 DEF Attached
  <2>3. link' \in [Clients -> {"new", "backlog", "served", "orphan", "closed"}]
    BY <2>1 DEF Attached
  <2>4. \A fd \in Fds : file[fd] # None => link'[file[fd]] \in {"served", "orphan"}
    BY <2>1, <2>2 DEF Attached
  <2> QED
    BY <2>1, <2>3, <2>4 DEF Attached
<1>2. CASE SendRequest(c) \/ RecvAnswer(c) \/ Quit(c)
  <2>1. UNCHANGED <<link, file, tpc, sock_>>
    BY <1>2 DEF SendRequest, RecvAnswer, Quit, thread
  <2> QED
    BY <2>1, AttachedStays
<1>3. CASE Accept(c)
  <2> DEFINE fd == Lowest(FreeFds)
  <2>1. /\ link[c] = "backlog" /\ file' = [file EXCEPT ![fd] = c]
        /\ \/ /\ tpc' = [tpc EXCEPT ![c] = "recv"] /\ sock_' = [sock_ EXCEPT ![c] = fd]
              /\ link' = [link EXCEPT ![c] = "served"]
           \/ link' = [link EXCEPT ![c] = "orphan"] /\ UNCHANGED <<tpc, sock_>>
    BY <1>3 DEF Accept
  <2>2. fd \in Fds /\ file[fd] = None
    BY <1>3, FreeIs DEF Accept
  <2> HIDE DEF fd
  <2>3. /\ file' \in [Fds -> Clients \cup {None}]
        /\ \A f \in Fds : file'[f] = IF f = fd THEN c ELSE file[f]
    BY <2>1 DEF Attached
  <2>4. /\ link' \in [Clients -> {"new", "backlog", "served", "orphan", "closed"}]
        /\ link'[c] \in {"served", "orphan"}
        /\ \A d \in Clients : d # c => link'[d] = link[d]
    BY <2>1 DEF Attached
  <2>5. /\ tpc' \in [Clients -> {"none", "recv", "decode", "close", "ended"}]
        /\ sock_' \in [Clients -> Fds \cup {0}]
        /\ \A d \in Clients : d # c => tpc'[d] = tpc[d] /\ sock_'[d] = sock_[d]
        /\ (tpc'[c] = tpc[c] /\ sock_'[c] = sock_[c]) \/ sock_'[c] = fd
    BY <2>1, <2>2 DEF Attached
  <2>6. \A f \in Fds : file[f] # None => file[f] \in Clients /\ file[f] # c
    BY <2>1 DEF Attached
  <2>7. \A t \in Clients : tpc'[t] \in {"recv", "decode", "close"} =>
                             sock_'[t] \in Fds /\ file'[sock_'[t]] = t
    <3> SUFFICES ASSUME NEW t \in Clients, tpc'[t] \in {"recv", "decode", "close"}
                 PROVE  sock_'[t] \in Fds /\ file'[sock_'[t]] = t
      OBVIOUS
    <3>1. CASE sock_'[t] = fd /\ t = c
      BY <2>2, <2>3, <3>1
    <3>2. CASE ~(sock_'[t] = fd /\ t = c)
      <4>1. tpc'[t] = tpc[t] /\ sock_'[t] = sock_[t]
        BY <2>5, <3>2
      <4>2. sock_[t] \in Fds /\ file[sock_[t]] = t /\ t # None
        BY <4>1, BoundsAssumption DEF Attached
      <4> QED
        BY <2>2, <2>3, <4>1, <4>2
    <3> QED
      BY <3>1, <3>2
  <2>8. \A f \in Fds : file'[f] # None => link'[file'[f]] \in {"served", "orphan"}
    BY <2>3, <2>4, <2>6 DEF Attached
  <2>9. \A f, g \in Fds : file'[f] = file'[g] /\ file'[f] # None => f = g
    BY <2>3, <2>6, BoundsAssumption DEF Attached
  <2> QED
    BY <2>3, <2>4, <2>5, <2>7, <2>8, <2>9 DEF Attached
<1>4. CASE Thread(c)
  <2>1. CASE Recv(c)
    BY <2>1, GoesOn DEF Recv
  <2>2. CASE RecvEnds(c)
    BY <2>2, GoesOn DEF RecvEnds
  <2>3. CASE Calculate(c)
    BY <2>3, GoesOn DEF Calculate
  <2>4. CASE Close(c)
    <3>1. /\ tpc[c] = "close" /\ Peer(c) = c /\ sock_[c] \in Fds /\ file[sock_[c]] = c
      BY <2>4, PeerIs DEF Close
    <3>2. /\ file' = [file EXCEPT ![sock_[c]] = None]
          /\ link' = [d \in Clients |-> IF d = c THEN "closed" ELSE link[d]]
          /\ tpc' = [tpc EXCEPT ![c] = "ended"] /\ sock_' = sock_
      BY <2>4, <3>1 DEF Close, Goto
    <3>3. /\ file' \in [Fds -> Clients \cup {None}]
          /\ \A f \in Fds : file'[f] = IF f = sock_[c] THEN None ELSE file[f]
          /\ link' \in [Clients -> {"new", "backlog", "served", "orphan", "closed"}]
          /\ tpc' \in [Clients -> {"none", "recv", "decode", "close", "ended"}]
          /\ \A d \in Clients : tpc'[d] = IF d = c THEN "ended" ELSE tpc[d]
      BY <3>2 DEF Attached
    <3>4. \A f \in Fds : f # sock_[c] => file[f] # c
      BY <3>1, BoundsAssumption DEF Attached
    <3>5. \A t \in Clients : tpc'[t] \in {"recv", "decode", "close"} =>
                               sock_[t] \in Fds /\ file'[sock_[t]] = t
      <4> SUFFICES ASSUME NEW t \in Clients, tpc'[t] \in {"recv", "decode", "close"}
                   PROVE  sock_[t] \in Fds /\ file'[sock_[t]] = t
        OBVIOUS
      <4>1. t # c /\ tpc'[t] = tpc[t]
        BY <3>3
      <4>2. sock_[t] \in Fds /\ file[sock_[t]] = t
        BY <4>1 DEF Attached
      <4> QED
        BY <3>1, <3>3, <4>1, <4>2
    <3>6. \A f \in Fds : file'[f] # None => link'[file'[f]] \in {"served", "orphan"}
      <4> SUFFICES ASSUME NEW f \in Fds, file'[f] # None
                   PROVE  link'[file'[f]] \in {"served", "orphan"}
        OBVIOUS
      <4>1. f # sock_[c] /\ file'[f] = file[f] /\ file[f] # c /\ file[f] \in Clients
        BY <3>3, <3>4 DEF Attached
      <4>2. link[file[f]] \in {"served", "orphan"}
        BY <4>1, BoundsAssumption DEF Attached
      <4> QED
        BY <3>2, <4>1, <4>2
    <3>7. \A f, g \in Fds : file'[f] = file'[g] /\ file'[f] # None => f = g
      BY <3>3 DEF Attached
    <3> QED
      BY <3>2, <3>3, <3>5, <3>6, <3>7 DEF Attached
  <2> QED
    BY <1>4, <2>1, <2>2, <2>3, <2>4 DEF Thread
<1> QED
  BY <1>1, <1>2, <1>3, <1>4

\* What the steps do to the seven places of a client.
LEMMA ChainedStays ==
    ASSUME Chained, UNCHANGED <<shown, buffer, toClient, inbuffer, toServer, sent>>
    PROVE  Chained'
BY DEF Chained

LEMMA ChainedOne ==
    ASSUME Chained, NEW c \in Clients,
           \A d \in Clients : d # c =>
              /\ shown'[d] = shown[d] /\ buffer'[d] = buffer[d] /\ toClient'[d] = toClient[d]
              /\ inbuffer'[d] = inbuffer[d] /\ toServer'[d] = toServer[d] /\ sent'[d] = sent[d],
           Chain(shown'[c], buffer'[c], toClient'[c], inbuffer'[c], toServer'[c], sent'[c],
                 Window[c])
    PROVE  Chained'
<1> SUFFICES ASSUME NEW d \in Clients
             PROVE  Chain(shown'[d], buffer'[d], toClient'[d], inbuffer'[d], toServer'[d],
                          sent'[d], Window[d])
  BY DEF Chained
<1>1. CASE d = c
  BY <1>1
<1>2. CASE d # c
  <2>1. Chain(shown[d], buffer[d], toClient[d], inbuffer[d], toServer[d], sent[d], Window[d])
    BY DEF Chained
  <2> QED
    BY <1>2, <2>1
<1> QED
  BY <1>1, <1>2

LEMMA SendRequestChains ==
    ASSUME Invariant, NEW c \in Clients, SendRequest(c)
    PROVE  Framed' /\ Chained'
<1>1. /\ sent[c] < Requests /\ sent[c] - Len(shown[c]) < Window[c]
      /\ sent' = [sent EXCEPT ![c] = @ + 1]
      /\ toServer' = [toServer EXCEPT ![c] = @ \o Encode(sent[c] + 1)]
      /\ UNCHANGED <<ended, shown, buffer, toClient, inbuffer>>
  BY DEF SendRequest, Send, thread
<1>2. sent[c] \in Nat /\ Window[c] \in Nat /\ Framed /\ Chained
  BY WindowAssumption DEF Invariant, Framed
<1>3. Chain(shown[c], buffer[c], toClient[c], inbuffer[c], toServer[c], sent[c], Window[c])
  BY <1>2 DEF Chained
<1>4. sent[c] < Len(shown[c]) + Window[c]
  <2>1. Len(shown[c]) \in Nat
    BY <1>3, LenProperties DEF Chain, Answers
  <2> QED
    BY <1>1, <1>2, <2>1
<1>5. Chain(shown[c], buffer[c], toClient[c], inbuffer[c],
            toServer[c] \o Encode(sent[c] + 1), sent[c] + 1, Window[c])
  BY <1>1, <1>2, <1>3, <1>4, ChainSends
<1>6. sent'[c] = sent[c] + 1 /\ toServer'[c] = toServer[c] \o Encode(sent[c] + 1)
  BY <1>1, <1>2 DEF Framed
<1>7. \A d \in Clients : d # c => sent'[d] = sent[d] /\ toServer'[d] = toServer[d]
  BY <1>1, <1>2 DEF Framed
<1>8. Chain(shown'[c], buffer'[c], toClient'[c], inbuffer'[c], toServer'[c], sent'[c], Window[c])
  BY <1>1, <1>5, <1>6
<1>9. Chained'
  BY <1>1, <1>2, <1>7, <1>8, ChainedOne
<1>10. Framed'
  BY <1>1, <1>2 DEF Framed
<1> QED
  BY <1>9, <1>10

LEMMA RecvAnswerChains ==
    ASSUME Invariant, NEW c \in Clients, RecvAnswer(c)
    PROVE  Framed' /\ Chained'
<1>1. PICK n \in 1..Len(toClient[c]) :
         LET got == Appended(buffer[c], SubSeq(toClient[c], 1, n))
         IN  /\ toClient' = [toClient EXCEPT ![c] = SubSeq(@, n + 1, Len(@))]
             /\ IF Complete(got)
                  THEN /\ shown' = [shown EXCEPT ![c] = Append(@, Package(got))]
                       /\ buffer' = [buffer EXCEPT ![c] = Erased(got)]
                  ELSE buffer' = [buffer EXCEPT ![c] = got] /\ UNCHANGED shown
  BY DEF RecvAnswer
<1>2. UNCHANGED <<ended, sent, toServer, inbuffer>>
  BY DEF RecvAnswer, thread
<1>3. Framed /\ Chained /\ Window[c] \in Nat
  BY WindowAssumption DEF Invariant
<1>4. Chain(shown[c], buffer[c], toClient[c], inbuffer[c], toServer[c], sent[c], Window[c])
  BY <1>3 DEF Chained
<1> DEFINE got == buffer[c] \o SubSeq(toClient[c], 1, n)
           rest == SubSeq(toClient[c], n + 1, Len(toClient[c]))
<1>5. /\ Len(got) >= 3 => Chain(Append(shown[c], got[2]), SubSeq(got, 4, Len(got)), rest,
                                inbuffer[c], toServer[c], sent[c], Window[c])
      /\ ~(Len(got) >= 3) => Chain(shown[c], got, rest, inbuffer[c], toServer[c], sent[c],
                                   Window[c])
  BY <1>3, <1>4, ChainAnswers
<1>6. toClient' = [toClient EXCEPT ![c] = rest]
  BY <1>1
<1>7. IF Len(got) >= 3 THEN /\ shown' = [shown EXCEPT ![c] = Append(@, got[2])]
                            /\ buffer' = [buffer EXCEPT ![c] = SubSeq(got, 4, Len(got))]
                       ELSE buffer' = [buffer EXCEPT ![c] = got] /\ shown' = shown
  BY <1>1 DEF Appended, Complete, Package, Erased
<1> HIDE DEF got, rest
<1>8. \A d \in Clients : d # c => /\ shown'[d] = shown[d] /\ buffer'[d] = buffer[d]
                                  /\ toClient'[d] = toClient[d]
  BY <1>3, <1>6, <1>7 DEF Framed
<1>9. Chain(shown'[c], buffer'[c], toClient'[c], inbuffer'[c], toServer'[c], sent'[c], Window[c])
  <2>1. toClient'[c] = rest
    BY <1>3, <1>6 DEF Framed
  <2>2. CASE Len(got) >= 3
    <3>1. shown'[c] = Append(shown[c], got[2]) /\ buffer'[c] = SubSeq(got, 4, Len(got))
      BY <1>3, <1>7, <2>2 DEF Framed
    <3> QED
      BY <1>2, <1>5, <2>1, <2>2, <3>1
  <2>3. CASE ~(Len(got) >= 3)
    <3>1. shown'[c] = shown[c] /\ buffer'[c] = got
      BY <1>3, <1>7, <2>3 DEF Framed
    <3> QED
      BY <1>2, <1>5, <2>1, <2>3, <3>1
  <2> QED
    BY <2>2, <2>3
<1>10. Chained'
  BY <1>2, <1>3, <1>8, <1>9, ChainedOne
<1>11. Framed'
  BY <1>2, <1>3, <1>6, <1>7 DEF Framed
<1> QED
  BY <1>10, <1>11

LEMMA RecvChains ==
    ASSUME Invariant, NEW c \in Clients, Recv(c)
    PROVE  Framed' /\ Chained'
<1>1. Peer(c) = c
  BY PeerIs DEF Recv, Invariant
<1>2. PICK n \in 1..Len(toServer[c]) :
         /\ inbuffer' = [inbuffer EXCEPT ![c] = @ \o SubSeq(toServer[c], 1, n)]
         /\ toServer' = [toServer EXCEPT ![c] = SubSeq(@, n + 1, Len(@))]
  BY <1>1 DEF Recv, Appended
<1>3. UNCHANGED <<ended, sent, shown, buffer, toClient>>
  BY DEF Recv, client
<1>4. Framed /\ Chained /\ Window[c] \in Nat
  BY WindowAssumption DEF Invariant
<1>5. Chain(shown[c], buffer[c], toClient[c], inbuffer[c], toServer[c], sent[c], Window[c])
  BY <1>4 DEF Chained
<1>6. Chain(shown[c], buffer[c], toClient[c], inbuffer[c] \o SubSeq(toServer[c], 1, n),
            SubSeq(toServer[c], n + 1, Len(toServer[c])), sent[c], Window[c])
  BY <1>4, <1>5, ChainReads
<1>7. /\ inbuffer'[c] = inbuffer[c] \o SubSeq(toServer[c], 1, n)
      /\ toServer'[c] = SubSeq(toServer[c], n + 1, Len(toServer[c]))
      /\ \A d \in Clients : d # c => inbuffer'[d] = inbuffer[d] /\ toServer'[d] = toServer[d]
  BY <1>2, <1>4 DEF Framed
<1>8. Chain(shown'[c], buffer'[c], toClient'[c], inbuffer'[c], toServer'[c], sent'[c], Window[c])
  BY <1>3, <1>6, <1>7
<1>9. Chained'
  BY <1>3, <1>4, <1>7, <1>8, ChainedOne
<1>10. Framed'
  BY <1>2, <1>3, <1>4 DEF Framed
<1> QED
  BY <1>9, <1>10

LEMMA CalculateChains ==
    ASSUME Invariant, NEW c \in Clients, Calculate(c)
    PROVE  Framed' /\ Chained'
<1>1. Peer(c) = c /\ Peer(c) # None
  BY PeerIs DEF Calculate, Invariant
<1>2. UNCHANGED <<ended, sent, shown, buffer, toServer>>
  BY DEF Calculate, client
<1>3. Framed /\ Chained /\ Window[c] \in Nat
  BY WindowAssumption DEF Invariant
<1>4. CASE ~(Len(inbuffer[c]) >= 3)
  <2>1. UNCHANGED <<toClient, inbuffer>>
    BY <1>4 DEF Calculate, Complete
  <2> QED
    BY <1>2, <1>3, <2>1, ChainedStays DEF Framed
<1>5. CASE Len(inbuffer[c]) >= 3
  <2>1. /\ toClient' = [toClient EXCEPT ![c] = @ \o Encode(inbuffer[c][2].of)]
        /\ inbuffer' = [inbuffer EXCEPT ![c] = SubSeq(@, 4, Len(@))]
    BY <1>1, <1>5 DEF Calculate, Complete, Package, Erased
  <2>2. Chain(shown[c], buffer[c], toClient[c], inbuffer[c], toServer[c], sent[c], Window[c])
    BY <1>3 DEF Chained
  <2>3. Chain(shown[c], buffer[c], toClient[c] \o Encode(inbuffer[c][2].of),
              SubSeq(inbuffer[c], 4, Len(inbuffer[c])), toServer[c], sent[c], Window[c])
    BY <1>3, <1>5, <2>2, ChainCalculates
  <2>4. /\ toClient'[c] = toClient[c] \o Encode(inbuffer[c][2].of)
        /\ inbuffer'[c] = SubSeq(inbuffer[c], 4, Len(inbuffer[c]))
        /\ \A d \in Clients : d # c => inbuffer'[d] = inbuffer[d] /\ toClient'[d] = toClient[d]
    BY <1>3, <2>1 DEF Framed
  <2>5. Chain(shown'[c], buffer'[c], toClient'[c], inbuffer'[c], toServer'[c], sent'[c],
              Window[c])
    BY <1>2, <2>3, <2>4
  <2>6. Chained'
    BY <1>2, <1>3, <2>4, <2>5, ChainedOne
  <2>7. Framed'
    BY <1>2, <1>3, <2>1 DEF Framed
  <2> QED
    BY <2>6, <2>7
<1> QED
  BY <1>4, <1>5

LEMMA ChainedNext ==
    ASSUME Invariant, Next
    PROVE  Framed' /\ Chained'
<1> PICK c \in Clients : \/ Connect(c) \/ SendRequest(c) \/ RecvAnswer(c) \/ Quit(c)
                         \/ Accept(c) \/ Thread(c)
  BY DEF Next
<1>1. CASE Connect(c) \/ Quit(c) \/ Accept(c) \/ RecvEnds(c) \/ Close(c)
  <2>1. /\ UNCHANGED <<shown, buffer, toClient, inbuffer, toServer, sent>>
        /\ ended' = ended \/ ended' = [ended EXCEPT ![c] = TRUE]
    BY <1>1 DEF Connect, Quit, Accept, RecvEnds, Close, client, thread
  <2>2. Framed /\ Chained
    BY DEF Invariant
  <2>3. ended' \in [Clients -> BOOLEAN]
    BY <2>1, <2>2 DEF Framed
  <2> QED
    BY <2>1, <2>2, <2>3, ChainedStays DEF Framed
<1> QED
  BY <1>1, SendRequestChains, RecvAnswerChains, RecvChains, CalculateChains DEF Thread

LEMMA InvariantInit == Init => Invariant
<1> SUFFICES ASSUME Init PROVE Invariant
  OBVIOUS
<1>1. Attached
  BY DEF Init, Attached
<1>2. Framed
  BY DEF Init, Framed
<1>3. ASSUME NEW c \in Clients
      PROVE  Chain(<<>>, <<>>, <<>>, <<>>, <<>>, 0, Window[c])
  <2>1. Len(<<>>) = 0 /\ <<>> \in Seq(Pieces) /\ Window[c] \in Nat /\ Requests \in Nat
    BY EmptySeq, WindowAssumption, BoundsAssumption
  <2>2. \A b : Run(<<>>, b)
    BY <2>1 DEF Run
  <2>3. Answers(<<>>, <<>>, <<>>, 0) /\ Asked(<<>>, <<>>, 0, 0)
    BY <2>1, <2>2 DEF Answers, Asked
  <2> QED
    BY <2>1, <2>3 DEF Chain
<1>4. Chained
  BY <1>3 DEF Init, Chained
<1> QED
  BY <1>1, <1>2, <1>4 DEF Invariant

LEMMA InvariantHolds == SafeSpec => []Invariant
<1>1. Invariant /\ [Next]_vars => Invariant'
  <2>1. ASSUME Invariant, Next PROVE Invariant'
    BY <2>1, AttachedNext, ChainedNext DEF Invariant
  <2>2. ASSUME Invariant, UNCHANGED vars PROVE Invariant'
    <3>1. UNCHANGED <<link, file, tpc, sock_, ended, shown, buffer, toClient, inbuffer, toServer,
                      sent>>
      BY <2>2 DEF vars, client, thread
    <3>2. Attached' /\ Chained'
      BY <2>2, <3>1, AttachedStays, ChainedStays DEF Invariant
    <3>3. Framed'
      BY <2>2, <3>1 DEF Invariant, Framed
    <3> QED
      BY <3>2, <3>3 DEF Invariant
  <2> QED
    BY <2>1, <2>2
<1> QED
  BY <1>1, InvariantInit, PTL DEF SafeSpec

\* The state of the calculator keeps its type, and the buffer of a thread, which
\* Recv appends to and Decode cuts, never holds more than the requests its client may
\* have under way.
THEOREM CalculatorTypeCorrect == SafeSpec => []TypeOK
<1>1. Invariant => TypeOK
  <2> SUFFICES ASSUME Invariant PROVE TypeOK
    OBVIOUS
  <2>1. ASSUME NEW c \in Clients
        PROVE  /\ {shown[c], buffer[c], toServer[c], toClient[c]} \subseteq Seq(Pieces)
               /\ inbuffer[c] \in Seq(Pieces) /\ Len(inbuffer[c]) <= 3 * Window[c]
               /\ sent[c] \in 0..Requests
    <3>1. Chain(shown[c], buffer[c], toClient[c], inbuffer[c], toServer[c], sent[c], Window[c])
      BY DEF Invariant, Chained
    <3>2. Window[c] \in Nat
      BY WindowAssumption
    <3> QED
      BY <3>1, <3>2, ChainBounds
  <2>2. sent \in [Clients -> 0..Requests]
    BY <2>1 DEF Invariant, Framed
  <2> QED
    BY <2>1, <2>2 DEF TypeOK, Invariant, Attached, Framed
<1> QED
  BY <1>1, InvariantHolds, PTL

\* What a client prints are the answers to its own requests, in their order, however
\* Recv cuts the streams and whichever thread gets a descriptor next.
THEOREM AnswersAreTheirs == SafeSpec => []AnswersMatch
<1>1. Invariant => AnswersMatch
  <2> SUFFICES ASSUME Invariant, NEW c \in Clients
               PROVE  shown[c] = [i \in 1..Len(shown[c]) |-> [part |-> "payload", of |-> i]]
    BY DEF AnswersMatch
  <2>1. Chain(shown[c], buffer[c], toClient[c], inbuffer[c], toServer[c], sent[c], Window[c])
    BY DEF Invariant, Chained
  <2>2. /\ shown[c] \in Seq(Pieces)
        /\ \A i \in 1..Len(shown[c]) : shown[c][i] = [part |-> "payload", of |-> i]
    BY <2>1 DEF Chain, Answers
  <2>3. shown[c] \in [1..Len(shown[c]) -> Pieces]
    BY <2>2, LenProperties
  <2> QED
    BY <2>2, <2>3
<1> QED
  BY <1>1, InvariantHolds, PTL

-------------------------------------------------------------------------------
(***************************************************************************)
(* Rest. With one request under way no more than one message is anywhere, so *)
(* that a recv is followed by one Decode only leaves nothing behind: between *)
(* two recv the buffers hold less than a message. A connection is closed    *)
(* only after its client has ended.                                         *)
(***************************************************************************)
Waits(c) == /\ link[c] = "new" => sent[c] = 0
            /\ link[c] = "served" => tpc[c] \in {"recv", "decode", "close"}
            /\ link[c] = "closed" \/ tpc[c] = "close" => ended[c]
            /\ Window[c] = 1 => /\ Len(buffer[c]) < 3
                                /\ tpc[c] # "decode" => Len(inbuffer[c]) < 3
Waiting == \A c \in Clients : Waits(c)

LEMMA UnderWay ==
    ASSUME NEW done, NEW got, NEW coming, NEW read, NEW going, NEW n, NEW w \in Nat,
           Chain(done, got, coming, read, going, n, w)
    PROVE  /\ Len(got) + Len(coming) <= 3 * w /\ Len(done) <= n
           /\ Run(got, 3 * Len(done)) /\ Run(coming, 3 * Len(done) + Len(got))
           /\ Len(done) \in Nat /\ Len(got) \in Nat /\ Len(coming) \in Nat
           /\ Len(read) \in Nat /\ Len(going) \in Nat /\ n \in Nat
           /\ Len(read) < 3 /\ Len(going) = 0 /\ Len(got) < 3 /\ Len(coming) = 0 =>
                Len(done) = n
<1>1. PICK h \in 0..n : Answers(done, got, coming, h) /\ Asked(read, going, h, n)
  BY DEF Chain
<1>2. Run(got, 3 * Len(done)) /\ Run(coming, 3 * Len(done) + Len(got))
  BY <1>1 DEF Answers
<1>3. /\ Len(done) \in Nat /\ Len(got) \in Nat /\ Len(coming) \in Nat
      /\ Len(read) \in Nat /\ Len(going) \in Nat /\ h \in Nat /\ n \in Nat
      /\ 3 * Len(done) + Len(got) + Len(coming) = 3 * h
      /\ 3 * h + Len(read) + Len(going) = 3 * n
  <2>1. Sizes(done, got, coming, read, going, h, n)
    BY <1>1, Lengths
  <2> QED
    BY <2>1 DEF Sizes
<1>4. n <= Len(done) + w
  BY DEF Chain
<1>5. Len(got) + Len(coming) <= 3 * w /\ Len(done) <= n
  BY <1>3, <1>4
<1>6. Len(read) < 3 /\ Len(going) = 0 /\ Len(got) < 3 /\ Len(coming) = 0 => Len(done) = n
  BY <1>3
<1> QED
  BY <1>2, <1>3, <1>5, <1>6

\* What Decode leaves of one message.
LEMMA NothingLeft ==
    ASSUME NEW s \in Seq(Pieces), Len(s) = 3
    PROVE  Len(SubSeq(s, 4, Len(s))) = 0
BY SubSeqEmpty

\* One request under way is one message at most.
LEMMA OneMessage ==
    ASSUME NEW a \in Nat, NEW b \in Nat, NEW w \in Nat, a + b <= 3 * w, w = 1
    PROVE  a + b <= 3
OBVIOUS

\* What the client's Recv appends.
LEMMA ReceivedSize ==
    ASSUME NEW old, NEW coming, NEW b \in Nat, Run(old, b), Run(coming, b + Len(old)),
           NEW n \in 1..Len(coming)
    PROVE  /\ old \o SubSeq(coming, 1, n) \in Seq(Pieces)
           /\ Len(old \o SubSeq(coming, 1, n)) \in Nat
           /\ Len(old \o SubSeq(coming, 1, n)) <= Len(old) + Len(coming)
           /\ Len(old) + Len(coming) <= 3 => Len(old \o SubSeq(coming, 1, n)) <= 3
<1> DEFINE a == SubSeq(coming, 1, n)
<1>1. Len(old) \in Nat /\ Len(coming) \in Nat
  BY LenProperties DEF Run
<1>2. n \in 0..Len(coming) /\ n <= Len(coming) /\ b + Len(old) \in Nat
  BY <1>1
<1>3. Run(a, b + Len(old)) /\ Len(a) = n
  BY <1>2, Prefix
<1> HIDE DEF a
<1>4. Run(old \o a, b) /\ Len(old \o a) = Len(old) + Len(a)
  BY <1>3, Joined
<1>5. old \o a \in Seq(Pieces)
  BY <1>4 DEF Run
<1>6. Len(old \o a) \in Nat /\ Len(old \o a) <= Len(old) + Len(coming)
  BY <1>1, <1>2, <1>3, <1>4
<1> QED
  BY <1>5, <1>6 DEF a

LEMMA WaitingInit == Init => Waiting
BY EmptySeq DEF Init, Waiting, Waits

LEMMA WaitingNext ==
    ASSUME Invariant, Waiting, Next
    PROVE  Waiting'
<1> PICK c \in Clients : \/ Connect(c) \/ SendRequest(c) \/ RecvAnswer(c) \/ Quit(c)
                         \/ Accept(c) \/ Thread(c)
  BY DEF Next
<1> USE DEF Waiting, Waits, client, thread
<1>0. /\ link \in [Clients -> {"new", "backlog", "served", "orphan", "closed"}]
      /\ tpc \in [Clients -> {"none", "recv", "decode", "close", "ended"}]
      /\ ended \in [Clients -> BOOLEAN] /\ sent \in [Clients -> Nat]
      /\ DOMAIN shown = Clients /\ DOMAIN buffer = Clients /\ DOMAIN inbuffer = Clients
      /\ DOMAIN toClient = Clients /\ DOMAIN toServer = Clients
  BY DEF Invariant, Attached, Framed
<1>00. /\ Chain(shown[c], buffer[c], toClient[c], inbuffer[c], toServer[c], sent[c], Window[c])
       /\ Window[c] \in Nat
  BY WindowAssumption DEF Invariant, Chained
<1>1. CASE Connect(c)
  BY <1>0, <1>1 DEF Connect
<1>2. CASE SendRequest(c)
  BY <1>0, <1>2 DEF SendRequest, Send, Connected
<1>3. CASE RecvAnswer(c)
  <2>1. UNCHANGED <<link, ended, sent, tpc, inbuffer>>
    BY <1>3 DEF RecvAnswer
  <2>2. PICK n \in 1..Len(toClient[c]) :
           LET got == Appended(buffer[c], SubSeq(toClient[c], 1, n))
           IN  IF Complete(got) THEN buffer' = [buffer EXCEPT ![c] = Erased(got)]
                                ELSE buffer' = [buffer EXCEPT ![c] = got]
    BY <1>3 DEF RecvAnswer
  <2> DEFINE got == buffer[c] \o SubSeq(toClient[c], 1, n)
  <2>3. IF Len(got) >= 3 THEN buffer' = [buffer EXCEPT ![c] = SubSeq(got, 4, Len(got))]
                         ELSE buffer' = [buffer EXCEPT ![c] = got]
    BY <2>2 DEF Appended, Complete, Erased
  <2>4. got \in Seq(Pieces) /\ Len(got) \in Nat /\ (Window[c] = 1 => Len(got) <= 3)
    <3>1. /\ Run(buffer[c], 3 * Len(shown[c]))
          /\ Run(toClient[c], 3 * Len(shown[c]) + Len(buffer[c]))
          /\ Len(shown[c]) \in Nat /\ Len(buffer[c]) \in Nat /\ Len(toClient[c]) \in Nat
          /\ Len(buffer[c]) + Len(toClient[c]) <= 3 * Window[c]
      BY <1>00, UnderWay
    <3>2. 3 * Len(shown[c]) \in Nat
      BY <3>1
    <3>3. /\ got \in Seq(Pieces) /\ Len(got) \in Nat
          /\ Len(buffer[c]) + Len(toClient[c]) <= 3 => Len(got) <= 3
      BY <3>1, <3>2, ReceivedSize
    <3> HIDE DEF got
    <3>4. Window[c] = 1 => Len(got) <= 3
      <4> SUFFICES ASSUME Window[c] = 1 PROVE Len(got) <= 3
        OBVIOUS
      <4>1. Len(buffer[c]) + Len(toClient[c]) <= 3
        BY <1>00, <3>1, OneMessage
      <4> QED
        BY <3>3, <4>1
    <3> QED
      BY <3>3, <3>4
  <2> HIDE DEF got
  <2>5. Window[c] = 1 => Len(buffer'[c]) < 3
    <3> SUFFICES ASSUME Window[c] = 1 PROVE Len(buffer'[c]) < 3
      OBVIOUS
    <3>1. CASE Len(got) >= 3
      <4>1. buffer'[c] = SubSeq(got, 4, Len(got))
        BY <1>0, <2>3, <3>1
      <4>2. Len(SubSeq(got, 4, Len(got))) = 0
        BY <2>4, <3>1, NothingLeft
      <4> QED
        BY <4>1, <4>2
    <3>2. CASE ~(Len(got) >= 3)
      <4>1. buffer'[c] = got
        BY <1>0, <2>3, <3>2
      <4> QED
        BY <2>4, <3>2, <4>1
    <3> QED
      BY <3>1, <3>2
  <2>6. \A d \in Clients : d # c => buffer'[d] = buffer[d]
    BY <1>0, <2>3
  <2> QED
    BY <2>1, <2>5, <2>6
<1>4. CASE Quit(c)
  BY <1>0, <1>4 DEF Quit
<1>5. CASE Accept(c)
  <2>1. /\ link[c] = "backlog" /\ UNCHANGED <<client, inbuffer>>
        /\ \/ tpc' = [tpc EXCEPT ![c] = "recv"] /\ link' = [link EXCEPT ![c] = "served"]
           \/ UNCHANGED tpc /\ link' = [link EXCEPT ![c] = "orphan"]
    BY <1>5 DEF Accept
  <2>2. tpc[c] # "decode"
    <3> SUFFICES ASSUME tpc[c] = "decode" PROVE FALSE
      OBVIOUS
    <3>1. Attached
      BY DEF Invariant
    <3>2. sock_[c] \in Fds /\ file[sock_[c]] = c /\ c # None
      BY <3>1, BoundsAssumption, PeerIs
    <3>3. link[c] \in {"served", "orphan"}
      BY <3>1, <3>2 DEF Attached
    <3> QED
      BY <2>1, <3>3
  <2> QED
    BY <1>0, <2>1, <2>2
<1>6. CASE Recv(c)
  <2>1. /\ tpc[c] = "recv" /\ tpc' = [tpc EXCEPT ![c] = "decode"]
        /\ UNCHANGED <<link, client>>
        /\ inbuffer' = [inbuffer EXCEPT ![c] = inbuffer'[c]]
    BY <1>0, <1>6 DEF Recv, Goto
  <2>2. \A d \in Clients : d # c => inbuffer'[d] = inbuffer[d] /\ tpc'[d] = tpc[d]
    BY <1>0, <2>1
  <2>3. tpc'[c] = "decode"
    BY <1>0, <2>1
  <2> QED
    BY <2>1, <2>2, <2>3
<1>7. CASE RecvEnds(c)
  <2>1. ended[c]
    BY <1>7, PeerIs DEF RecvEnds, Invariant
  <2> QED
    BY <1>0, <1>7, <2>1 DEF RecvEnds, Goto
<1>8. CASE Calculate(c)
  <2>1. Len(inbuffer[c]) \in Nat /\ inbuffer[c] \in Seq(Pieces) /\ Len(inbuffer[c]) <= 3 * Window[c]
    BY <1>00, ChainBounds, LenProperties
  <2>2. Window[c] = 1 => Len(inbuffer'[c]) < 3
    <3> SUFFICES ASSUME Window[c] = 1 PROVE Len(inbuffer'[c]) < 3
      OBVIOUS
    <3>1. CASE Len(inbuffer[c]) >= 3
      <4>1. inbuffer'[c] = SubSeq(inbuffer[c], 4, Len(inbuffer[c]))
        BY <1>0, <1>8, <3>1 DEF Calculate, Complete, Erased
      <4>2. Len(SubSeq(inbuffer[c], 4, Len(inbuffer[c]))) = 0
        BY <2>1, <3>1, NothingLeft
      <4> QED
        BY <4>1, <4>2
    <3>2. CASE ~(Len(inbuffer[c]) >= 3)
      <4>1. inbuffer' = inbuffer
        BY <1>8, <3>2 DEF Calculate, Complete
      <4> QED
        BY <2>1, <3>2, <4>1
    <3> QED
      BY <3>1, <3>2
  <2>3. \A d \in Clients : d # c => inbuffer'[d] = inbuffer[d]
    BY <1>0, <1>8 DEF Calculate
  <2> QED
    BY <1>0, <1>8, <2>2, <2>3 DEF Calculate, Goto
<1>9. CASE Close(c)
  <2>1. Peer(c) = c
    BY <1>9, PeerIs DEF Close, Invariant
  <2> QED
    BY <1>0, <1>9, <2>1 DEF Close, Goto
<1> QED
  BY <1>1, <1>2, <1>3, <1>4, <1>5, <1>6, <1>7, <1>8, <1>9 DEF Thread

\* CalClient and its thread never wait for each other: where both wait and nothing is
\* on its way, every request sent has been answered, unless the client quit or the
\* connection got no thread or no descriptor. For a client that does not wait this
\* is false: two messages received together are not decoded together.
THEOREM CalculatorRestsDone == SafeSpec => []RestIsDone
<1>1. ASSUME Invariant, Waiting PROVE RestIsDone
  <2> SUFFICES ASSUME NEW c \in Clients, Window[c] = 1, Resting(c),
                      ~ended[c], link[c] # "orphan", link[c] # "backlog"
               PROVE  Len(shown[c]) = sent[c]
    BY DEF RestIsDone, Resting
  <2>1. Chain(shown[c], buffer[c], toClient[c], inbuffer[c], toServer[c], sent[c], 1)
    BY <1>1 DEF Invariant, Chained
  <2>2. /\ Len(shown[c]) \in Nat /\ sent[c] \in Nat /\ Len(shown[c]) <= sent[c]
        /\ Len(toServer[c]) = 0 /\ Len(toClient[c]) = 0 /\ Len(buffer[c]) < 3
           /\ Len(inbuffer[c]) < 3 => Len(shown[c]) = sent[c]
    BY <2>1, UnderWay
  <2>3. Waits(c)
    BY <1>1 DEF Waiting
  <2>4. CASE link[c] = "new"
    BY <2>2, <2>3, <2>4 DEF Waits
  <2>5. CASE link[c] = "served"
    <3>1. tpc[c] = "recv" /\ toServer[Peer(c)] = <<>>
      BY <2>3, <2>5 DEF Waits, Resting
    <3>2. Peer(c) = c
      BY <1>1, <3>1, PeerIs DEF Invariant
    <3>3. Len(toServer[c]) = 0 /\ Len(inbuffer[c]) < 3 /\ Len(buffer[c]) < 3
      BY <2>3, <3>1, <3>2, EmptySeq DEF Waits
    <3>4. Len(shown[c]) < sent[c] => Len(toClient[c]) = 0
      BY <2>5, EmptySeq DEF Resting, Connected
    <3> QED
      BY <2>2, <3>3, <3>4
  <2>6. link[c] # "closed"
    BY <2>3 DEF Waits
  <2> QED
    BY <1>1, <2>4, <2>5, <2>6 DEF Invariant, Attached
<1>2. Waiting /\ UNCHANGED vars => Waiting'
  BY DEF Waiting, Waits, vars, client, thread
<1>3. Invariant /\ Waiting /\ [Next]_vars => Waiting'
  BY <1>2, WaitingNext
<1> QED
  BY <1>1, <1>3, WaitingInit, InvariantHolds, PTL DEF SafeSpec

(***************************************************************************)
(* The refinement of Calculator. What a client has read are the numbers of  *)
(* its first requests, so a request sent is Ask, an answer printed is       *)
(* Answer, and what the threads and the streams do nobody sees.             *)
(***************************************************************************)
UpTo(n) == [k \in 1..n |-> k]

LEMMA UpToIs ==
    ASSUME NEW n \in Nat
    PROVE  /\ UpTo(n) \in Seq(Nat) /\ Len(UpTo(n)) = n
           /\ \A k \in 1..n : UpTo(n)[k] = k
BY DEF UpTo

LEMMA UpToOn ==
    ASSUME NEW n \in Nat
    PROVE  Append(UpTo(n), n + 1) = UpTo(n + 1)
<1> DEFINE a == Append(UpTo(n), n + 1)
<1>1. /\ a \in Seq(Nat) /\ Len(a) = n + 1
      /\ \A k \in 1..n : a[k] = k
      /\ a[n + 1] = n + 1
  <2>1. n + 1 \in Nat
    OBVIOUS
  <2> QED
    BY <2>1, UpToIs, AppendProperties
<1> HIDE DEF a
<1>2. a \in [1..(n + 1) -> Nat]
  BY <1>1, LenProperties
<1>3. \A k \in 1..(n + 1) : a[k] = k
  <2> SUFFICES ASSUME NEW k \in 1..(n + 1) PROVE a[k] = k
    OBVIOUS
  <2>1. k \in 1..n \/ k = n + 1
    OBVIOUS
  <2> QED
    BY <1>1, <2>1
<1>4. a = UpTo(n + 1)
  BY <1>2, <1>3 DEF UpTo
<1> QED
  BY <1>4 DEF a

\* How far the client is, and what it has read then.
ReadsOn == \A c \in Clients :
    /\ Len(shown[c]) \in Nat /\ sent[c] \in Nat
    /\ Len(shown[c]) <= sent[c] /\ sent[c] <= Requests
    /\ [k \in 1..Len(shown[c]) |-> shown[c][k].of] = UpTo(Len(shown[c]))

LEMMA ReadSoFar == Invariant /\ AnswersMatch => ReadsOn
<1> SUFFICES ASSUME Invariant, AnswersMatch, NEW c \in Clients
             PROVE  /\ Len(shown[c]) \in Nat /\ sent[c] \in Nat
                    /\ Len(shown[c]) <= sent[c] /\ sent[c] <= Requests
                    /\ [k \in 1..Len(shown[c]) |-> shown[c][k].of] = UpTo(Len(shown[c]))
  BY DEF ReadsOn
<1>1. Chain(shown[c], buffer[c], toClient[c], inbuffer[c], toServer[c], sent[c], Window[c])
  BY DEF Invariant, Chained
<1>2. Window[c] \in Nat
  BY WindowAssumption
<1>3. Len(shown[c]) \in Nat /\ sent[c] \in Nat /\ Len(shown[c]) <= sent[c]
  BY <1>1, <1>2, UnderWay
<1>4. sent[c] \in 0..Requests
  BY <1>1, <1>2, ChainBounds
<1>5. sent[c] <= Requests
  BY <1>4, BoundsAssumption
<1>6. \A k \in 1..Len(shown[c]) : shown[c][k].of = k
  <2> DEFINE L == Len(shown[c])
  <2>1. shown[c] = [i \in 1..L |-> [part |-> "payload", of |-> i]]
    BY DEF AnswersMatch
  <2> HIDE DEF L
  <2>2. \A k \in 1..L : shown[c][k].of = k
    BY <2>1
  <2> QED
    BY <2>2 DEF L
<1> QED
  BY <1>3, <1>5, <1>6 DEF UpTo

LEMMA CalcSteps ==
    ASSUME Invariant, ReadsOn, ReadsOn', [Next]_vars
    PROVE  [Calc!Next]_(Calc!vars)
<1> DEFINE read == [c \in Clients |-> [k \in 1..Len(shown[c]) |-> shown[c][k].of]]
<1>1. /\ sent \in [Clients -> Nat] /\ DOMAIN shown = Clients
  BY DEF Invariant, Framed
<1>2. ASSUME NEW c \in Clients, SendRequest(c) PROVE [Calc!Next]_(Calc!vars)
  <2>1. sent' = [sent EXCEPT ![c] = @ + 1] /\ shown' = shown
    BY <1>2 DEF SendRequest
  <2>2. Calc!Ask(c)
    BY <2>1 DEF Calc!Ask
  <2> QED
    BY <2>2 DEF Calc!Next
<1>3. ASSUME UNCHANGED <<sent, shown>> PROVE [Calc!Next]_(Calc!vars)
  BY <1>3 DEF Calc!vars
<1>4. ASSUME NEW c \in Clients, RecvAnswer(c) PROVE [Calc!Next]_(Calc!vars)
  <2>1. /\ sent' = sent
        /\ \/ shown' = shown
           \/ \E x : shown' = [shown EXCEPT ![c] = Append(@, x)]
    BY <1>4 DEF RecvAnswer
  <2>2. CASE shown' = shown
    BY <1>3, <2>1, <2>2
  <2>3. ASSUME NEW x, shown' = [shown EXCEPT ![c] = Append(@, x)]
        PROVE  [Calc!Next]_(Calc!vars)
    <3> DEFINE L == Len(shown[c])
    <3>1. /\ shown'[c] = Append(shown[c], x)
          /\ \A d \in Clients : d # c => shown'[d] = shown[d]
      BY <1>1, <2>3
    <3>2. Len(shown'[c]) = L + 1
      <4>1. shown[c] \in Seq(Pieces)
        <5>1. Chain(shown[c], buffer[c], toClient[c], inbuffer[c], toServer[c], sent[c], Window[c])
          BY DEF Invariant, Chained
        <5> QED
          BY <5>1 DEF Chain, Answers
      <4> QED
        BY <3>1, <4>1
    <3>3. /\ L \in Nat /\ sent[c] \in Nat /\ sent[c] <= Requests
          /\ [k \in 1..L |-> shown[c][k].of] = UpTo(L)
      BY DEF ReadsOn
    <3>4. /\ Len(shown'[c]) <= sent'[c]
          /\ [k \in 1..Len(shown'[c]) |-> shown'[c][k].of] = UpTo(Len(shown'[c]))
      BY DEF ReadsOn
    <3>5. L + 1 <= sent[c]
      BY <2>1, <3>2, <3>4
    <3>6. read[c] = UpTo(L) /\ read'[c] = Append(read[c], L + 1)
      <4>1. read'[c] = UpTo(L + 1)
        BY <3>2, <3>4
      <4> QED
        BY <3>3, <4>1, UpToOn
    <3>7. \A d \in Clients : d # c => read'[d] = read[d]
      BY <3>1
    <3> HIDE DEF L
    <3>8. read' = [read EXCEPT ![c] = Append(@, L + 1)]
      BY <3>6, <3>7
    <3>9. /\ Len(read[c]) = L /\ \A k \in 1..L : read[c][k] = k
      <4> HIDE DEF read
      <4> QED
        BY <3>3, <3>6, UpToIs
    <3>10. L + 1 \in 1..Requests /\ \A k \in 1..L : k # L + 1
      BY <3>3, <3>5, BoundsAssumption
    <3>11. \A j \in 1..Requests :
             (\A k \in 1..L : k # j) => L + 1 <= j
      <4> SUFFICES ASSUME NEW j \in 1..Requests, \A k \in 1..L : k # j PROVE L + 1 <= j
        OBVIOUS
      <4>1. j \notin 1..L /\ j \in Nat /\ j >= 1
        OBVIOUS
      <4> QED
        BY <3>3, <4>1
    <3>12. \A j : j \in Calc!Open(c) <=>
              j \in 1..Requests /\ j <= sent[c] /\ \A k \in 1..L : k # j
      BY <3>9 DEF Calc!Open
    <3>13. L + 1 \in Calc!Open(c) /\ \A j \in Calc!Open(c) : L + 1 <= j
      BY <3>5, <3>10, <3>11, <3>12
    <3>14. Calc!Answer(c)
      BY <2>1, <3>8, <3>13 DEF Calc!Answer
    <3> QED
      BY <3>14 DEF Calc!Next
  <2> QED
    BY <2>1, <2>2, <2>3
<1>5. ASSUME NEW c \in Clients, Connect(c) \/ Quit(c) \/ Accept(c) \/ Thread(c)
      PROVE  [Calc!Next]_(Calc!vars)
  <2>1. UNCHANGED <<sent, shown>>
    BY <1>5 DEF Connect, Quit, Accept, Thread, Recv, RecvEnds, Calculate, Close, client
  <2> QED
    BY <1>3, <2>1
<1>6. CASE UNCHANGED vars
  <2>1. UNCHANGED <<sent, shown>>
    BY <1>6 DEF vars, client
  <2> QED
    BY <1>3, <2>1
<1> QED
  BY <1>2, <1>4, <1>5, <1>6 DEF Next

\* To its clients the server is the calculator, whatever their windows: each reads
\* the answers to its own requests in their order, each once, and none before the
\* request is there.
THEOREM ServerIsCalculator == SafeSpec => CalcSpec
<1>1. Init => Calc!Init
  <2> SUFFICES ASSUME Init PROVE Calc!Init
    OBVIOUS
  <2>1. [c \in Clients |-> [k \in 1..Len(shown[c]) |-> shown[c][k].of]] =
          [c \in Clients |-> <<>>]
    <3> SUFFICES ASSUME NEW c \in Clients
                 PROVE  [k \in 1..Len(shown[c]) |-> shown[c][k].of] = <<>>
      OBVIOUS
    <3>1. shown[c] = <<>> /\ Len(shown[c]) = 0
      BY DEF Init
    <3> QED
      BY <3>1
  <2> QED
    BY <2>1 DEF Init, Calc!Init
<1>2. Invariant /\ ReadsOn /\ ReadsOn' /\ [Next]_vars => [Calc!Next]_(Calc!vars)
  BY CalcSteps
<1> QED
  BY <1>1, <1>2, ReadSoFar, InvariantHolds, AnswersAreTheirs, PTL DEF SafeSpec, CalcSpec, Calc!SafeSpec

-------------------------------------------------------------------------------
(***************************************************************************)
(* The ticket sale, which shares nothing with the calculator.               *)
(***************************************************************************)
CONSTANTS Count, N
VARIABLES tickets, mtx, pc, created, joined

Sale == INSTANCE Tickets

\* What is inductive: the type, and who is inside the mutex.
SaleInvariant == Sale!TypeOK /\ Sale!Held

LEMMA SaleInit == ASSUME Sale!Bounds PROVE Sale!Init => SaleInvariant
  BY DEF Sale!Bounds, Sale!Init, SaleInvariant, Sale!TypeOK, Sale!Held, Sale!Threads

LEMMA SaleNext == ASSUME Sale!Bounds PROVE SaleInvariant /\ [Sale!Next]_(Sale!vars) => SaleInvariant'
<1> SUFFICES ASSUME SaleInvariant, [Sale!Next]_(Sale!vars) PROVE SaleInvariant'
  OBVIOUS
<1> USE DEF Sale!Bounds, SaleInvariant, Sale!TypeOK, Sale!Held, Sale!Threads, Sale!Goto
<1>1. CASE Sale!Create
  BY <1>1 DEF Sale!Create
<1>2. CASE Sale!Join
  BY <1>2 DEF Sale!Join
<1>3. ASSUME NEW t \in Sale!Threads, Sale!Thread(t) PROVE SaleInvariant'
  <2>1. CASE Sale!Lock(t)
    BY <2>1 DEF Sale!Lock
  <2>2. CASE Sale!FindTicket(t)
    BY <2>2 DEF Sale!FindTicket
  <2>3. CASE Sale!Sell(t)
    BY <2>3 DEF Sale!Sell
  <2>4. CASE Sale!Unlock(t)
    BY <2>4 DEF Sale!Unlock
  <2>5. CASE Sale!SoldOut(t)
    BY <2>5 DEF Sale!SoldOut
  <2> QED
    BY <1>3, <2>1, <2>2, <2>3, <2>4, <2>5 DEF Sale!Thread
<1>4. CASE UNCHANGED Sale!vars
  BY <1>4 DEF Sale!vars
<1> QED
  BY <1>1, <1>2, <1>3, <1>4 DEF Sale!Next

\* Why main hangs: the one thread that finds no ticket left keeps the mutex for
\* ever, and no other thread ends.
THEOREM AtMostOneEnds == ASSUME Sale!Bounds PROVE Sale!Spec => []Sale!OneEnds
<1>1. SaleInvariant => Sale!OneEnds
  <2> SUFFICES ASSUME SaleInvariant PROVE Sale!OneEnds
    OBVIOUS
  <2>1. \A t, u \in Sale!Threads : pc[t] = "ended" /\ pc[u] = "ended" => t = u
    BY DEF SaleInvariant, Sale!Held
  <2>2. joined > 1 => pc[1] = "ended" /\ pc[2] = "ended" /\ {1, 2} \subseteq Sale!Threads
    BY DEF Sale!Bounds, SaleInvariant, Sale!TypeOK, Sale!Held, Sale!Threads
  <2> QED
    BY <2>1, <2>2 DEF Sale!Bounds, Sale!OneEnds, SaleInvariant, Sale!TypeOK
<1> QED
  BY <1>1, SaleInit, SaleNext, PTL DEF Sale!Spec
==============================================================================

---------------------------- MODULE ReadLineProofs ----------------------------
(***************************************************************************)
(* Safety of the line reader, proved for streams of any length, however     *)
(* their bytes arrive and whenever the client closes.                       *)
(***************************************************************************)
EXTENDS ReadLine, TLAPS, FiniteSetTheorems, SequenceTheorems, WellFoundedInduction

Text == Seq({"x"})

\* t begins with s, and ends no line of s later than s does.
Continues(s, t) == /\ Len(s) <= Len(t)
                   /\ \A i \in 1..Len(s) : t[i] = s[i]
                   /\ Len(s) \in 1..(Len(t) - 1) /\ s[Len(s)] = "CR" => t[Len(s) + 1] # "LF"

\* o is what s has after its last line.
Remains(s, o) == \E k \in {0} \cup LineEnds(s) :
                   /\ \A j \in LineEnds(s) : j <= k
                   /\ Len(o) = Len(s) - k
                   /\ \A i \in 1..Len(o) : o[i] = s[k + i]

\* Line ends are positions of the stream, finitely many.
LEMMA EndsInBounds == ASSUME NEW s \in Seq(Bytes)
                      PROVE  /\ LineEnds(s) \subseteq 1..Len(s)
                             /\ IsFiniteSet(LineEnds(s))
<1>1. LineEnds(s) \subseteq 1..Len(s)
  BY DEF LineEnds
<1>2. IsFiniteSet(1..Len(s))
  BY FS_Interval
<1>3. LineEnds(s) \in SUBSET (1..Len(s))
  BY <1>1
<1> QED
  BY <1>1, <1>2, <1>3, FS_Subset

\* A set of numbers up to n has a greatest one.
LEMMA Greatest == ASSUME NEW n \in Nat, NEW S \in SUBSET (0..n), 0 \in S
                  PROVE  Max(S) \in S /\ \A j \in S : j <= Max(S)
<1> DEFINE R == OpToRel(<, Nat)
           T == {m \in Nat : n - m \in S}
<1>1. n \in T /\ T \subseteq Nat
  OBVIOUS
<1>2. IsWellFoundedOn(R, Nat)
  BY NatLessThanWellFounded, Zenon
<1>3. \A x, y \in Nat : <<x, y>> \in R <=> x < y
  BY DEF OpToRel
<1>4. \A m \in T : n - m \in S
  OBVIOUS
<1>5. \A j \in S : n - j \in T
  OBVIOUS
<1> HIDE DEF R, T
<1>6. PICK m \in T : \A k \in T : <<k, m>> \notin R
  BY <1>1, <1>2, WFMin
<1>7. ASSUME NEW j \in S PROVE n - m >= j
  <2>1. n - j \in T /\ n - j \in Nat /\ m \in Nat
    BY <1>1, <1>5
  <2>2. ~(n - j < m)
    BY <1>3, <1>6, <2>1
  <2> QED
    BY <2>1, <2>2
<1>8. \E x \in S : \A j \in S : x >= j
  BY <1>4, <1>7
<1>9. Max(S) \in S /\ \A j \in S : Max(S) >= j
  BY <1>8, Zenon DEF Max
<1> QED
  BY <1>9

\* A line starts behind the line end before it.
LEMMA Starts == ASSUME NEW s \in Seq(Bytes), NEW i \in LineEnds(s)
                PROVE  /\ LineStart(s, i) \in 0..(i - 1)
                       /\ LineStart(s, i) \in {0} \cup LineEnds(s)
                       /\ \A j \in LineEnds(s) : j < i => j <= LineStart(s, i)
<1> DEFINE S == {0} \cup {j \in LineEnds(s) : j < i}
<1>1. i \in 1..Len(s) /\ Len(s) \in Nat /\ LineEnds(s) \subseteq 1..Len(s)
  BY EndsInBounds
<1>2. S \in SUBSET (0..(i - 1)) /\ 0 \in S /\ i - 1 \in Nat
  BY <1>1
<1>3. /\ \A j \in S : j \in {0} \cup LineEnds(s)
      /\ \A j \in LineEnds(s) : j < i => j \in S
      /\ LineStart(s, i) = Max(S)
  BY DEF LineStart
<1> HIDE DEF S
<1>4. Max(S) \in S /\ \A j \in S : j <= Max(S)
  BY <1>2, Greatest
<1> QED
  BY <1>2, <1>3, <1>4

\* What follows s moves no line end of s ...
LEMMA Earlier == ASSUME NEW s \in Seq(Bytes), NEW t \in Seq(Bytes), Continues(s, t)
                 PROVE  LineEnds(s) = {i \in LineEnds(t) : i <= Len(s)}
<1>0. Len(s) \in Nat /\ Len(t) \in Nat
  OBVIOUS
<1>1. ASSUME NEW i \in 1..Len(s)
      PROVE  i \in LineEnds(s) <=> i \in LineEnds(t)
  <2>1. i \in 1..Len(t) /\ t[i] = s[i]
    BY <1>0 DEF Continues
  <2>2. CASE i < Len(s)
    <3>1. i + 1 \in 1..Len(s) /\ t[i + 1] = s[i + 1] /\ i # Len(s) /\ i # Len(t)
      BY <1>0, <2>2 DEF Continues
    <3> QED
      BY <2>1, <3>1 DEF LineEnds
  <2>3. CASE i = Len(s)
    <3>1. s[i] = "CR" /\ i # Len(t) => t[i + 1] # "LF"
      BY <1>0, <2>3, <2>1 DEF Continues
    <3> QED
      BY <2>1, <2>3, <3>1 DEF LineEnds
  <2> QED
    BY <1>0, <2>2, <2>3
<1> QED
  BY <1>0, <1>1, EndsInBounds

\* ... and changes no line of s and no line's number.
LEMMA EarlierLines ==
    ASSUME NEW s \in Seq(Bytes), NEW t \in Seq(Bytes), Continues(s, t), NEW i \in LineEnds(s)
    PROVE  Line(t, i) = Line(s, i) /\ Number(t, i) = Number(s, i)
<1>0. i \in 1..Len(s) /\ Len(s) \in Nat /\ Len(t) \in Nat /\ Len(s) <= Len(t)
  BY EndsInBounds DEF Continues
<1>1. LineEnds(s) = {j \in LineEnds(t) : j <= Len(s)}
  BY Earlier
<1>2. /\ {j \in LineEnds(s) : j < i} = {j \in LineEnds(t) : j < i}
      /\ {j \in LineEnds(s) : j <= i} = {j \in LineEnds(t) : j <= i}
  BY <1>0, <1>1, EndsInBounds
<1>3. /\ LineStart(s, i) = LineStart(t, i)
      /\ Number(s, i) = Number(t, i)
  BY <1>2 DEF LineStart, Number
<1>4. Terminator(s, i) = Terminator(t, i) /\ Terminator(s, i) \in Nat
  <2>1. t[i] = s[i] /\ (i > 1 => t[i - 1] = s[i - 1])
    BY <1>0 DEF Continues
  <2> QED
    BY <2>1 DEF Terminator
<1>5. LineStart(s, i) \in 0..(i - 1)
  BY Starts
<1> DEFINE a == LineStart(s, i) + 1
           b == i - Terminator(s, i)
<1>6. SubSeq(s, a, b) = SubSeq(t, a, b)
  <2>1. a \in 1..i /\ b \in Int /\ b <= i
    BY <1>0, <1>4, <1>5
  <2> HIDE DEF a, b
  <2>2. \A j \in a..b : s[j] = t[j]
    BY <1>0, <2>1 DEF Continues
  <2>3. CASE a <= b
    <3>1. /\ SubSeq(s, a, b) \in Seq(Bytes) /\ Len(SubSeq(s, a, b)) = b - a + 1
          /\ \A j \in 1..(b - a + 1) : SubSeq(s, a, b)[j] = s[a + j - 1]
      BY <1>0, <2>1, <2>3, SubSeqProperties
    <3>2. /\ SubSeq(t, a, b) \in Seq(Bytes) /\ Len(SubSeq(t, a, b)) = b - a + 1
          /\ \A j \in 1..(b - a + 1) : SubSeq(t, a, b)[j] = t[a + j - 1]
      BY <1>0, <2>1, <2>3, SubSeqProperties
    <3>3. \A j \in 1..(b - a + 1) : a + j - 1 \in a..b
      BY <2>1
    <3> QED
      BY <3>1, <3>2, <3>3, <2>2, SeqEqual
  <2>4. CASE b < a
    BY <2>1, <2>4, SubSeqEmpty
  <2> QED
    BY <2>1, <2>3, <2>4
<1>7. Line(s, i) = SubSeq(s, a, b) /\ Line(t, i) = SubSeq(t, a, b)
  BY <1>3, <1>4 DEF Line
<1> QED
  BY <1>3, <1>6, <1>7

\* The number of a line is an index of the lines there are.
LEMMA Numbers == ASSUME NEW s \in Seq(Bytes), NEW i \in LineEnds(s)
                 PROVE  Number(s, i) \in 1..Cardinality(LineEnds(s))
<1> DEFINE E == LineEnds(s)
           F == {j \in LineEnds(s) : j <= i}
<1>1. IsFiniteSet(E) /\ F \in SUBSET E /\ i \in F
  <2>1. i \in Nat
    BY EndsInBounds
  <2> QED
    BY <2>1, EndsInBounds
<1>2. Number(s, i) = Cardinality(F)
  BY DEF Number
<1> HIDE DEF F
<1>3. IsFiniteSet(F) /\ Cardinality(F) <= Cardinality(E)
  BY <1>1, FS_Subset
<1>4. Cardinality(F) \in Nat /\ Cardinality(E) \in Nat /\ Cardinality(F) # 0
  BY <1>1, <1>3, FS_CardinalityType, FS_EmptySet
<1> QED
  BY <1>2, <1>3, <1>4

\* More bytes that end no line change no line.
LEMMA SameLines ==
    ASSUME NEW s \in Seq(Bytes), NEW t \in Seq(Bytes), Continues(s, t),
           LineEnds(t) = LineEnds(s)
    PROVE  /\ \A ls : AreLines(ls, s) => AreLines(ls, t)
           /\ HeadEnds(t) = HeadEnds(s)
  BY EarlierLines DEF AreLines, HeadEnds

\* The line that ends at the end of t is what was left of s.
LEMMA NewLine ==
    ASSUME NEW s \in Seq(Bytes), NEW t \in Seq(Bytes), Continues(s, t), Len(s) < Len(t),
           LineEnds(t) = LineEnds(s) \cup {Len(t)},
           Len(t) - Terminator(t, Len(t)) = Len(s),
           NEW o \in Text, Remains(s, o)
    PROVE  Line(t, Len(t)) = o
<1> DEFINE e == Len(t)
<1>1. /\ LineEnds(s) \subseteq 1..Len(s)
      /\ Len(s) \in Nat /\ Len(t) \in Nat /\ Len(o) \in Nat
  BY EndsInBounds
<1>2. PICK k \in {0} \cup LineEnds(s) :
            /\ \A j \in LineEnds(s) : j <= k
            /\ Len(o) = Len(s) - k
            /\ \A i \in 1..Len(o) : o[i] = s[k + i]
  BY DEF Remains
<1>3. LineStart(t, e) = k
  <2> DEFINE x == LineStart(t, e)
  <2>1. /\ x \in 0..(e - 1)
        /\ x \in {0} \cup LineEnds(t)
        /\ \A j \in LineEnds(t) : j < e => j <= x
    BY Starts
  <2> HIDE DEF x
  <2>2. x \in {0} \cup LineEnds(s) /\ (k # 0 => k \in LineEnds(t) /\ k < e)
    BY <1>1, <1>2, <2>1
  <2> QED
    BY <1>1, <1>2, <2>1, <2>2 DEF x
<1>4. Line(t, e) = SubSeq(t, k + 1, Len(s))
  BY <1>3 DEF Line
<1>5. k \in 0..Len(s)
  BY <1>1, <1>2
<1>6. \A i \in 1..(Len(s) - k) : t[k + i] = o[i]
  <2> SUFFICES ASSUME NEW i \in 1..(Len(s) - k) PROVE t[k + i] = o[i]
    OBVIOUS
  <2>1. k + i \in 1..Len(s) /\ i \in 1..Len(o)
    BY <1>1, <1>2, <1>5
  <2> QED
    BY <1>2, <2>1 DEF Continues
<1>7. CASE k = Len(s)
  <2>1. SubSeq(t, k + 1, Len(s)) = <<>> /\ Len(o) = 0
    BY <1>1, <1>2, <1>5, <1>7, SubSeqEmpty
  <2>2. o = <<>>
    BY <2>1, EmptySeq DEF Text
  <2> QED
    BY <1>4, <2>1, <2>2
<1>8. CASE k < Len(s)
  <2> DEFINE l == SubSeq(t, k + 1, Len(s))
  <2>1. /\ k + 1 \in Int /\ k + 1 <= Len(s) /\ Len(s) \in Int
        /\ \A j \in (k + 1)..Len(s) : t[j] \in Bytes
    BY <1>1, <1>5, <1>8
  <2>2. /\ l \in Seq(Bytes) /\ Len(l) = Len(s) - k
        /\ \A j \in 1..(Len(s) - k) : l[j] = t[k + j]
    <3>1. /\ l \in Seq(Bytes) /\ Len(l) = Len(s) - (k + 1) + 1
          /\ \A j \in 1..(Len(s) - (k + 1) + 1) : l[j] = t[(k + 1) + j - 1]
      BY <2>1, SubSeqProperties
    <3> HIDE DEF l
    <3> QED
      BY <1>1, <1>5, <3>1
  <2> HIDE DEF l
  <2>3. \A j \in 1..Len(l) : l[j] = o[j]
    BY <1>6, <2>2
  <2>4. o \in Seq(Bytes)
    <3>1. {"x"} \subseteq Bytes
      BY DEF Bytes
    <3>2. o \in Seq({"x"})
      BY DEF Text
    <3> QED
      BY <3>1, <3>2, SeqMonotonic
  <2>5. l = o
    BY <1>2, <2>2, <2>3, <2>4, SeqEqual
  <2> QED
    BY <1>4, <2>5 DEF l
<1> QED
  BY <1>5, <1>7, <1>8

\* The end of a line adds it to the lines; a blank one that is not the first ends
\* the head.
LEMMA OneMoreLine ==
    ASSUME NEW s \in Seq(Bytes), NEW t \in Seq(Bytes), Continues(s, t), Len(s) < Len(t),
           LineEnds(t) = LineEnds(s) \cup {Len(t)},
           Len(t) - Terminator(t, Len(t)) = Len(s),
           NEW o \in Text, Remains(s, o), NEW ls \in Seq(Text), AreLines(ls, s)
    PROVE  /\ AreLines(Append(ls, o), t)
           /\ Remains(t, <<>>)
           /\ HeadEnds(t) = HeadEnds(s) \cup
                                     (IF o = <<>> /\ ls # <<>> THEN {Len(t)} ELSE {})
<1> DEFINE e == Len(t)
           E == LineEnds(s)
<1>1. /\ E \subseteq 1..Len(s) /\ IsFiniteSet(E) /\ e \notin E
      /\ Len(s) \in Nat /\ e \in Nat /\ LineEnds(t) = E \cup {e}
      /\ \A j \in E : j < e
  BY EndsInBounds
<1>2. /\ Len(ls) = Cardinality(E) /\ Cardinality(E \cup {e}) = Cardinality(E) + 1
      /\ Cardinality(E) \in Nat /\ (E = {} <=> ls = <<>>)
  <2>1. Len(ls) = Cardinality(E)
    BY DEF AreLines
  <2>2. Cardinality(E) \in Nat /\ (Cardinality(E) = 0 <=> E = {})
    BY <1>1, FS_CardinalityType, FS_EmptySet
  <2>3. Cardinality(E \cup {e}) = Cardinality(E) + 1
    BY <1>1, FS_AddElement
  <2>4. Len(ls) = 0 <=> ls = <<>>
    BY EmptySeq
  <2> QED
    BY <2>1, <2>2, <2>3, <2>4
<1>3. Line(t, e) = o
  BY NewLine
<1>4. Number(t, e) = Len(ls) + 1
  <2>1. {j \in LineEnds(t) : j <= e} = E \cup {e}
    BY <1>1
  <2>2. Number(t, e) = Cardinality(E \cup {e})
    BY <2>1 DEF Number
  <2> QED
    BY <1>2, <2>2
<1>5. ASSUME NEW i \in E
      PROVE  /\ Number(t, i) \in 1..Len(ls) /\ ls[Number(t, i)] = Line(t, i)
  <2>1. /\ Number(t, i) = Number(s, i) /\ Line(t, i) = Line(s, i)
        /\ Number(s, i) \in 1..Cardinality(E)
    BY EarlierLines, Numbers
  <2> QED
    BY <2>1 DEF AreLines
<1>6. AreLines(Append(ls, o), t)
  <2>1. /\ Len(Append(ls, o)) = Len(ls) + 1 /\ Append(ls, o)[Len(ls) + 1] = o
        /\ \A n \in 1..Len(ls) : Append(ls, o)[n] = ls[n]
    BY AppendProperties
  <2>2. Len(Append(ls, o)) = Cardinality(LineEnds(t))
    BY <1>1, <1>2, <2>1
  <2>3. ASSUME NEW i \in LineEnds(t)
        PROVE  Append(ls, o)[Number(t, i)] = Line(t, i)
    <3>1. CASE i \in E
      BY <1>5, <2>1, <3>1
    <3>2. CASE i = e
      BY <1>3, <1>4, <2>1, <3>2
    <3> QED
      BY <1>1, <3>1, <3>2
  <2> QED
    BY <2>2, <2>3 DEF AreLines
<1>7. Remains(t, <<>>)
  <2>1. /\ e \in {0} \cup LineEnds(t) /\ \A j \in LineEnds(t) : j <= e
        /\ Len(<<>>) = Len(t) - e /\ \A i \in 1..Len(<<>>) : <<>>[i] = t[e + i]
    BY <1>1
  <2> QED
    BY <2>1 DEF Remains
<1>8. ASSUME NEW i \in E PROVE i \in HeadEnds(t) <=> i \in HeadEnds(s)
  BY <1>1, EarlierLines DEF HeadEnds
<1>9. e \in HeadEnds(t) <=> o = <<>> /\ ls # <<>>
  BY <1>1, <1>2, <1>3 DEF HeadEnds
<1>10. HeadEnds(s) \subseteq E /\ HeadEnds(t) \subseteq E \cup {e}
  BY <1>1 DEF HeadEnds
<1> QED
  BY <1>1, <1>6, <1>7, <1>8, <1>9, <1>10

\* A shorter prefix of a stream is continued by a longer one, unless it was cut
\* between a carriage return and its line feed.
LEMMA Prefixes ==
    ASSUME NEW s \in Seq(Bytes), NEW q \in 0..Len(s), NEW p \in 0..q,
           p \in 1..(q - 1) /\ s[p] = "CR" => s[p + 1] # "LF"
    PROVE  /\ SubSeq(s, 1, p) \in Seq(Bytes) /\ Len(SubSeq(s, 1, p)) = p
           /\ SubSeq(s, 1, q) \in Seq(Bytes) /\ Len(SubSeq(s, 1, q)) = q
           /\ \A i \in 1..p : SubSeq(s, 1, p)[i] = s[i]
           /\ \A i \in 1..q : SubSeq(s, 1, q)[i] = s[i]
           /\ Continues(SubSeq(s, 1, p), SubSeq(s, 1, q))
<1>0. Len(s) \in Nat
  OBVIOUS
<1>1. ASSUME NEW n \in 0..Len(s)
      PROVE  /\ SubSeq(s, 1, n) \in Seq(Bytes) /\ Len(SubSeq(s, 1, n)) = n
             /\ \A i \in 1..n : SubSeq(s, 1, n)[i] = s[i]
  <2>1. \A i \in 1..n : s[i] \in Bytes
    BY <1>0
  <2>2. /\ SubSeq(s, 1, n) \in Seq(Bytes) /\ Len(SubSeq(s, 1, n)) = IF 1 <= n THEN n - 1 + 1 ELSE 0
        /\ \A i \in 1..(n - 1 + 1) : SubSeq(s, 1, n)[i] = s[1 + i - 1]
    BY <2>1, SubSeqProperties
  <2> QED
    BY <2>2
<1> DEFINE u == SubSeq(s, 1, p)
           v == SubSeq(s, 1, q)
<1>2. /\ u \in Seq(Bytes) /\ Len(u) = p /\ \A i \in 1..p : u[i] = s[i]
      /\ v \in Seq(Bytes) /\ Len(v) = q /\ \A i \in 1..q : v[i] = s[i]
  BY <1>0, <1>1
<1> HIDE DEF u, v
<1>3. Continues(u, v)
  BY <1>0, <1>2 DEF Continues
<1> QED
  BY <1>2, <1>3 DEF u, v

(***************************************************************************)
(* What is inductive. Place is how far the lines and the line being read    *)
(* go: a carriage return whose successor is not decided yet is beyond it.   *)
(* No line feed will follow a carriage return before it (Positions), so its *)
(* line ends do not move when more bytes arrive.                            *)
(***************************************************************************)
Place == IF pc \in {"peek", "take"} THEN consumed - 1 ELSE consumed
Read == SubSeq(stream, 1, Place)
Positions == /\ pc \in {"peek", "take"} => consumed > 0 /\ stream[consumed] = "CR"
             /\ pc = "take" => consumed < sent /\ stream[consumed + 1] = "LF"
             /\ Place > 0 /\ stream[Place] = "CR" =>
                  \/ Place < Len(stream) /\ stream[Place + 1] # "LF"
                  \/ closed /\ sent = Place
             /\ pc = "complete" => out = <<>>
Lined == AreLines(lines, Read) /\ Remains(Read, out)
Headed == HeadEnds(Read) = IF pc = "complete" THEN {Place} ELSE {}
ReaderInvariant == TypeOK /\ Positions /\ Lined /\ Headed

\* The lines of no bytes are none.
LEMMA ReaderInit == Init => ReaderInvariant
<1> SUFFICES ASSUME Init PROVE ReaderInvariant
  OBVIOUS
<1>1. stream \in Seq(Bytes) /\ Len(stream) \in Nat /\ Place = 0 /\ consumed = 0
  BY StreamsAssumption DEF Init, Place
<1>2. TypeOK /\ Positions
  <2>1. closed \in BOOLEAN
    BY Zenon DEF Init
  <2>2. /\ stream \in Streams /\ sent = 0 /\ consumed = 0 /\ pc = "recv"
        /\ out = <<>> /\ lines = <<>>
    BY DEF Init
  <2>3. TypeOK
    BY <1>1, <2>1, <2>2 DEF TypeOK
  <2>4. Positions
    BY <1>1, <2>2 DEF Positions
  <2> QED
    BY <2>3, <2>4
<1>3. Read = <<>>
  BY <1>1, SubSeqEmpty DEF Read
<1>4. LineEnds(<<>>) = {}
  BY DEF LineEnds
<1>5. Lined
  <2>1. AreLines(<<>>, <<>>)
    BY <1>4, FS_EmptySet DEF AreLines
  <2>2. Remains(<<>>, <<>>)
    BY <1>4 DEF Remains
  <2> QED
    BY <1>3, <2>1, <2>2 DEF Lined, Init
<1>6. Headed
  BY <1>3, <1>4 DEF Headed, HeadEnds, Init
<1> QED
  BY <1>2, <1>5, <1>6 DEF ReaderInvariant

\* A line returned: the bytes up to q end a line that those up to p do not.
LEMMA Returned ==
    ASSUME stream \in Seq(Bytes), NEW q \in 0..Len(stream), NEW p \in 0..(q - 1),
           p \in 1..(q - 1) /\ stream[p] = "CR" => stream[p + 1] # "LF",
           LineEnds(SubSeq(stream, 1, q)) = LineEnds(SubSeq(stream, 1, p)) \cup {q},
           q - Terminator(SubSeq(stream, 1, q), q) = p,
           out \in Text, lines \in Seq(Text), AreLines(lines, SubSeq(stream, 1, p)),
           Remains(SubSeq(stream, 1, p), out), HeadEnds(SubSeq(stream, 1, p)) = {},
           ReturnLine
    PROVE  /\ out' = <<>> /\ out' \in Text /\ lines' \in Seq(Text) /\ pc' \in {"recv", "complete"}
           /\ AreLines(lines', SubSeq(stream, 1, q)) /\ Remains(SubSeq(stream, 1, q), out')
           /\ HeadEnds(SubSeq(stream, 1, q)) = IF pc' = "complete" THEN {q} ELSE {}
<1> DEFINE s == SubSeq(stream, 1, p)
           t == SubSeq(stream, 1, q)
<1>1. s \in Seq(Bytes) /\ t \in Seq(Bytes) /\ Continues(s, t) /\ Len(s) = p /\ Len(t) = q /\ p < q
  BY Prefixes
<1>2. /\ lines' = Append(lines, out) /\ out' = <<>>
      /\ pc' = IF out = <<>> /\ lines # <<>> THEN "complete" ELSE "recv"
  BY DEF ReturnLine
<1>3. out' \in Text /\ lines' \in Seq(Text)
  BY <1>2, AppendProperties DEF Text
<1>4. /\ LineEnds(t) = LineEnds(s) \cup {Len(t)}
      /\ Len(t) - Terminator(t, Len(t)) = Len(s)
      /\ Remains(s, out) /\ AreLines(lines, s) /\ HeadEnds(s) = {}
  BY <1>1
<1> HIDE DEF s, t
<1>5. /\ AreLines(Append(lines, out), t) /\ Remains(t, <<>>)
      /\ HeadEnds(t) = HeadEnds(s) \cup
                                (IF out = <<>> /\ lines # <<>> THEN {q} ELSE {})
  <2>1. Len(s) < Len(t) /\ Len(t) = q
    BY <1>1
  <2>2. /\ AreLines(Append(lines, out), t) /\ Remains(t, <<>>)
        /\ HeadEnds(t) = HeadEnds(s) \cup
                                  (IF out = <<>> /\ lines # <<>> THEN {Len(t)} ELSE {})
    BY <1>1, <1>4, <2>1, OneMoreLine, Zenon
  <2> QED
    BY <2>1, <2>2
<1>6. HeadEnds(t) = IF pc' = "complete" THEN {q} ELSE {}
  BY <1>2, <1>4, <1>5
<1>7. AreLines(lines', t) /\ Remains(t, out')
  BY <1>2, <1>5
<1>8. pc' \in {"recv", "complete"} /\ out' = <<>>
  BY <1>2
<1> QED
  BY <1>3, <1>6, <1>7, <1>8 DEF s, t

\* The line ends of a longer prefix, and the terminator of its last line.
LEMMA MoreEnds ==
    ASSUME NEW s \in Seq(Bytes), NEW q \in 0..Len(s), NEW p \in 0..q,
           p \in 1..(q - 1) /\ s[p] = "CR" => s[p + 1] # "LF"
    PROVE  /\ LineEnds(SubSeq(s, 1, q)) =
                LineEnds(SubSeq(s, 1, p)) \cup
                {i \in (p + 1)..q : s[i] = "LF" \/ (s[i] = "CR" /\ (i = q \/ s[i + 1] # "LF"))}
           /\ q > 0 => Terminator(SubSeq(s, 1, q), q) =
                          IF q > 1 /\ s[q] = "LF" /\ s[q - 1] = "CR" THEN 2 ELSE 1
<1> DEFINE u == SubSeq(s, 1, p)
           v == SubSeq(s, 1, q)
<1>1. /\ u \in Seq(Bytes) /\ v \in Seq(Bytes) /\ Len(u) = p /\ Len(v) = q /\ Continues(u, v)
      /\ \A i \in 1..q : v[i] = s[i]
  BY Prefixes
<1> HIDE DEF u, v
<1>2. LineEnds(u) = {i \in LineEnds(v) : i <= p}
  BY <1>1, Earlier
<1>3. LineEnds(v) = {i \in 1..q : s[i] = "LF" \/ (s[i] = "CR" /\ (i = q \/ s[i + 1] # "LF"))}
  <2>1. ASSUME NEW i \in 1..q PROVE v[i] = s[i] /\ (i # q => v[i + 1] = s[i + 1])
    <3>1. i # q => i + 1 \in 1..q
      OBVIOUS
    <3> QED
      BY <1>1, <3>1
  <2>2. ASSUME NEW i \in 1..q
        PROVE  i \in LineEnds(v) <=> s[i] = "LF" \/ (s[i] = "CR" /\ (i = q \/ s[i + 1] # "LF"))
    <3>1. i \in LineEnds(v) <=> v[i] = "LF" \/ (v[i] = "CR" /\ (i = q \/ v[i + 1] # "LF"))
      BY <1>1 DEF LineEnds
    <3> QED
      BY <2>1, <3>1
  <2>3. LineEnds(v) \subseteq 1..q
    BY <1>1, EndsInBounds
  <2> QED
    BY <2>2, <2>3
<1>4. q > 0 => Terminator(v, q) = IF q > 1 /\ s[q] = "LF" /\ s[q - 1] = "CR" THEN 2 ELSE 1
  BY <1>1 DEF Terminator
<1>5. LineEnds(v) = LineEnds(u) \cup
                {i \in (p + 1)..q : s[i] = "LF" \/ (s[i] = "CR" /\ (i = q \/ s[i + 1] # "LF"))}
  BY <1>2, <1>3
<1> QED
  BY <1>4, <1>5 DEF u, v

\* One more byte of text is one more byte of what is left.
LEMMA MoreText ==
    ASSUME NEW s \in Seq(Bytes), NEW q \in 1..Len(s), s[q] = "x", NEW o \in Text,
           Remains(SubSeq(s, 1, q - 1), o)
    PROVE  /\ Append(o, "x") \in Text /\ Remains(SubSeq(s, 1, q), Append(o, "x"))
           /\ \A ls : AreLines(ls, SubSeq(s, 1, q - 1)) => AreLines(ls, SubSeq(s, 1, q))
           /\ HeadEnds(SubSeq(s, 1, q)) = HeadEnds(SubSeq(s, 1, q - 1))
<1> DEFINE u == SubSeq(s, 1, q - 1)
           v == SubSeq(s, 1, q)
<1>0. q \in 0..Len(s) /\ q - 1 \in 0..q /\ Len(s) \in Nat /\ s[(q - 1) + 1] # "LF" /\ (q - 1) + 1 = q
  OBVIOUS
<1>1. /\ u \in Seq(Bytes) /\ v \in Seq(Bytes) /\ Len(u) = q - 1 /\ Len(v) = q /\ Continues(u, v)
      /\ \A i \in 1..q : v[i] = s[i]
  BY <1>0, Prefixes
<1>2. LineEnds(v) = LineEnds(u)
  <2>1. {i \in ((q - 1) + 1)..q : s[i] = "LF" \/ (s[i] = "CR" /\ (i = q \/ s[i + 1] # "LF"))} = {}
    BY <1>0
  <2>2. LineEnds(v) = LineEnds(u) \cup
          {i \in ((q - 1) + 1)..q : s[i] = "LF" \/ (s[i] = "CR" /\ (i = q \/ s[i + 1] # "LF"))}
    BY <1>0, MoreEnds
  <2> QED
    BY <2>1, <2>2
<1>3. Remains(u, o)
  OBVIOUS
<1> HIDE DEF u, v
<1>4. Append(o, "x") \in Text
  BY AppendProperties DEF Text
<1>5. Remains(v, Append(o, "x"))
  <2>1. PICK k \in {0} \cup LineEnds(u) :
              /\ \A j \in LineEnds(u) : j <= k
              /\ Len(o) = Len(u) - k
              /\ \A i \in 1..Len(o) : o[i] = u[k + i]
    BY <1>3 DEF Remains
  <2>2. /\ k \in 0..(q - 1) /\ Len(o) = q - 1 - k
    BY <1>1, <2>1, EndsInBounds
  <2>3. /\ Len(Append(o, "x")) = Len(o) + 1 /\ Append(o, "x")[Len(o) + 1] = "x"
        /\ \A i \in 1..Len(o) : Append(o, "x")[i] = o[i]
    BY AppendProperties DEF Text
  <2>4. Len(Append(o, "x")) = Len(v) - k
    BY <1>1, <2>2, <2>3
  <2>5. ASSUME NEW i \in 1..Len(Append(o, "x")) PROVE Append(o, "x")[i] = v[k + i]
    <3>1. CASE i = Len(o) + 1
      <4>1. k + i = q
        BY <2>2, <3>1
      <4> QED
        BY <1>1, <2>3, <3>1, <4>1
    <3>2. CASE i \in 1..Len(o)
      <4>1. k + i \in 1..(q - 1)
        BY <2>2, <3>2
      <4>2. u[k + i] = v[k + i]
        BY <1>1, <4>1 DEF Continues
      <4> QED
        BY <2>1, <2>3, <3>2, <4>2
    <3> QED
      BY <2>2, <2>3, <3>1, <3>2
  <2>6. /\ k \in {0} \cup LineEnds(v) /\ \A j \in LineEnds(v) : j <= k
    BY <1>2, <2>1
  <2> QED
    BY <2>4, <2>5, <2>6 DEF Remains
<1>6. /\ \A ls : AreLines(ls, u) => AreLines(ls, v)
      /\ HeadEnds(v) = HeadEnds(u)
  BY <1>1, <1>2, SameLines
<1> QED
  BY <1>4, <1>5, <1>6 DEF u, v

\* A step that moves neither Place nor what was read.
LEMMA Kept ==
    ASSUME Lined, Headed, stream' = stream, Place' = Place, out' = out, lines' = lines,
           pc' = "complete" <=> pc = "complete"
    PROVE  Lined' /\ Headed'
<1>1. Read' = Read
  BY DEF Read
<1>2. AreLines(lines', Read') /\ Remains(Read', out')
  BY <1>1 DEF Lined
<1>3. HeadEnds(Read') = IF pc' = "complete" THEN {Place'} ELSE {}
  BY <1>1 DEF Headed
<1> QED
  BY <1>2, <1>3 DEF Lined, Headed

\* The state after a line was returned at q.
LEMMA Resumed ==
    ASSUME stream' = stream, stream \in Streams, stream \in Seq(Bytes), NEW q \in 1..Len(stream),
           consumed' = q, sent' = sent, sent \in q..Len(stream), closed' = closed, closed \in BOOLEAN,
           out' = <<>>, out' \in Text, lines' \in Seq(Text), pc' \in {"recv", "complete"},
           AreLines(lines', SubSeq(stream, 1, q)), Remains(SubSeq(stream, 1, q), out'),
           HeadEnds(SubSeq(stream, 1, q)) = IF pc' = "complete" THEN {q} ELSE {},
           stream[q] = "CR" => \/ q < Len(stream) /\ stream[q + 1] # "LF"
                               \/ closed /\ sent = q
    PROVE  ReaderInvariant'
<1>0. Len(stream) \in Nat
  OBVIOUS
<1>1. Place' = q
  BY DEF Place
<1>2. Read' = SubSeq(stream, 1, q)
  BY <1>1 DEF Read
<1>3. closed' \in BOOLEAN
  BY Zenon
<1>4. TypeOK'
  BY <1>0, <1>3 DEF TypeOK, Text
<1>5. Positions'
  BY <1>0, <1>1 DEF Positions
<1>6. Lined'
  BY <1>2 DEF Lined
<1>7. Headed'
  BY <1>1, <1>2 DEF Headed
<1> QED
  BY <1>4, <1>5, <1>6, <1>7 DEF ReaderInvariant

\* Every step keeps the invariant: a line ends in Recv, Peek or Take.
LEMMA ReaderStep == ReaderInvariant /\ [Next]_vars => ReaderInvariant'
<1> SUFFICES ASSUME ReaderInvariant, [Next]_vars PROVE ReaderInvariant'
  OBVIOUS
<1>0. TypeOK /\ Positions /\ Lined /\ Headed
  BY DEF ReaderInvariant
<1>1. /\ stream \in Streams /\ stream \in Seq(Bytes) /\ Len(stream) \in Nat
      /\ sent \in 0..Len(stream) /\ consumed \in 0..sent /\ out \in Text /\ lines \in Seq(Text)
      /\ pc \in {"recv", "peek", "take", "complete", "stop"}
  BY <1>0, StreamsAssumption DEF TypeOK, Text
<1>2. CASE Send
  <2>1. /\ sent < Len(stream) /\ ~closed /\ sent' = sent + 1 /\ stream' = stream
        /\ consumed' = consumed /\ pc' = pc /\ out' = out /\ lines' = lines /\ closed' = closed
    BY <1>2 DEF Send
  <2>2. Place' = Place
    BY <2>1 DEF Place
  <2>3. TypeOK'
    BY <1>0, <1>1, <2>1 DEF TypeOK
  <2>4. Positions'
    BY <1>0, <1>1, <2>1, <2>2 DEF Positions
  <2> QED
    BY <1>0, <2>1, <2>2, <2>3, <2>4, Kept DEF ReaderInvariant
<1>3. CASE Shut
  <2>1. /\ sent' = sent /\ stream' = stream
        /\ consumed' = consumed /\ pc' = pc /\ out' = out /\ lines' = lines /\ closed' = TRUE
    BY <1>3 DEF Shut
  <2>2. Place' = Place
    BY <2>1 DEF Place
  <2>3. TypeOK'
    BY <1>0, <1>1, <2>1 DEF TypeOK
  <2>4. Positions'
    BY <1>0, <1>1, <2>1, <2>2 DEF Positions
  <2> QED
    BY <1>0, <2>1, <2>2, <2>3, <2>4, Kept DEF ReaderInvariant
<1>4. CASE RecvClosed
  <2>1. /\ pc = "recv" /\ pc' = "stop" /\ sent' = sent /\ stream' = stream
        /\ consumed' = consumed /\ out' = out /\ lines' = lines /\ closed' = closed
    BY <1>4 DEF RecvClosed
  <2>2. Place' = Place
    BY <2>1 DEF Place
  <2>3. TypeOK'
    BY <1>0, <1>1, <2>1 DEF TypeOK
  <2>4. Positions'
    BY <1>0, <1>1, <2>1, <2>2 DEF Positions
  <2> QED
    BY <1>0, <2>1, <2>2, <2>3, <2>4, Kept DEF ReaderInvariant
<1>5. CASE UNCHANGED vars
  <2>1. /\ pc' = pc /\ sent' = sent /\ stream' = stream
        /\ consumed' = consumed /\ out' = out /\ lines' = lines /\ closed' = closed
    BY <1>5 DEF vars
  <2>2. Place' = Place
    BY <2>1 DEF Place
  <2>3. TypeOK'
    BY <1>0, <2>1 DEF TypeOK
  <2>4. Positions'
    BY <1>0, <2>1, <2>2 DEF Positions
  <2> QED
    BY <1>0, <2>1, <2>2, <2>3, <2>4, Kept DEF ReaderInvariant
<1>6. CASE Recv
  <2>1. /\ pc = "recv" /\ consumed < sent /\ consumed' = consumed + 1
        /\ sent' = sent /\ stream' = stream /\ closed' = closed
    BY <1>6 DEF Recv
  <2>2. Place = consumed /\ consumed + 1 \in 1..Len(stream) /\ stream[consumed + 1] \in Bytes
    BY <1>1, <2>1 DEF Place
  <2>3. closed' \in BOOLEAN
    BY <1>0, <2>1, Zenon DEF TypeOK
  <2>4. consumed \in 1..consumed /\ stream[consumed] = "CR" => stream[consumed + 1] # "LF"
    BY <1>0, <1>1, <2>1, <2>2 DEF Positions
  <2>5. /\ AreLines(lines, SubSeq(stream, 1, consumed))
        /\ Remains(SubSeq(stream, 1, consumed), out)
        /\ HeadEnds(SubSeq(stream, 1, consumed)) = {}
    BY <1>0, <2>1, <2>2 DEF Lined, Headed, Read
  <2>9. closed \in BOOLEAN
    BY <1>0, Zenon DEF TypeOK
  <2>6. CASE stream[consumed + 1] = "LF"
    <3>1. ReturnLine
      BY <1>6, <2>1, <2>6 DEF Recv
    <3> DEFINE q == consumed + 1
               p == consumed
    <3>2. /\ q \in 0..Len(stream) /\ q \in 1..Len(stream) /\ p \in 0..(q - 1) /\ p \in 0..q
          /\ stream[q] = "LF" /\ q > 0 /\ sent \in q..Len(stream)
          /\ (p \in 1..(q - 1) /\ stream[p] = "CR" => stream[p + 1] # "LF")
          /\ ~(q > 1 /\ stream[q] = "LF" /\ stream[q - 1] = "CR")
          /\ {i \in (p + 1)..q : stream[i] = "LF" \/ (stream[i] = "CR" /\ (i = q \/ stream[i + 1] # "LF"))} = {q}
          /\ q - 1 = p
      BY <1>1, <2>1, <2>2, <2>4, <2>6
    <3> HIDE DEF q, p
    <3>3. /\ LineEnds(SubSeq(stream, 1, q)) = LineEnds(SubSeq(stream, 1, p)) \cup {q}
          /\ Terminator(SubSeq(stream, 1, q), q) = 1
      BY <1>1, <3>2, MoreEnds
    <3>4. /\ AreLines(lines, SubSeq(stream, 1, p)) /\ Remains(SubSeq(stream, 1, p), out)
          /\ HeadEnds(SubSeq(stream, 1, p)) = {} /\ consumed' = q
      BY <2>1, <2>5 DEF p, q
    <3>5. /\ out' = <<>> /\ out' \in Text /\ lines' \in Seq(Text) /\ pc' \in {"recv", "complete"}
          /\ AreLines(lines', SubSeq(stream, 1, q)) /\ Remains(SubSeq(stream, 1, q), out')
          /\ HeadEnds(SubSeq(stream, 1, q)) = IF pc' = "complete" THEN {q} ELSE {}
      BY <1>1, <3>1, <3>2, <3>3, <3>4, Returned
    <3> QED
      BY <1>1, <2>1, <2>9, <3>2, <3>4, <3>5, Resumed
  <2>7. CASE stream[consumed + 1] = "CR"
    <3>1. pc' = "peek" /\ out' = out /\ lines' = lines
      BY <1>6, <2>1, <2>7 DEF Recv
    <3>2. Place' = Place
      BY <1>1, <2>1, <2>2, <3>1 DEF Place
    <3>3. TypeOK'
      BY <1>0, <1>1, <2>1, <2>3, <3>1 DEF TypeOK, Text
    <3>4. Positions'
      BY <1>0, <1>1, <2>1, <2>2, <2>7, <3>1, <3>2 DEF Positions
    <3> QED
      BY <1>0, <2>1, <3>1, <3>2, <3>3, <3>4, Kept DEF ReaderInvariant
  <2>8. CASE stream[consumed + 1] = "x"
    <3>1. pc' = pc /\ out' = Append(out, "x") /\ lines' = lines
      BY <1>6, <2>1, <2>8 DEF Recv
    <3>2. (consumed + 1) - 1 = consumed /\ Place' = consumed + 1
      BY <1>1, <2>1, <3>1 DEF Place
    <3>3. /\ out' \in Text /\ Remains(SubSeq(stream, 1, consumed + 1), out')
          /\ AreLines(lines', SubSeq(stream, 1, consumed + 1))
          /\ HeadEnds(SubSeq(stream, 1, consumed + 1)) = {}
      BY <1>1, <2>2, <2>5, <2>8, <3>1, <3>2, MoreText
    <3>4. TypeOK'
      BY <1>0, <1>1, <2>1, <2>3, <3>1, <3>3 DEF TypeOK, Text
    <3>5. Positions'
      BY <1>0, <1>1, <2>1, <2>2, <2>8, <3>1, <3>2 DEF Positions
    <3>6. Read' = SubSeq(stream, 1, consumed + 1)
      BY <2>1, <3>2 DEF Read
    <3>7. Lined' /\ Headed'
      BY <2>1, <3>1, <3>3, <3>6 DEF Lined, Headed
    <3> QED
      BY <3>4, <3>5, <3>7 DEF ReaderInvariant
  <2> QED
    BY <2>2, <2>6, <2>7, <2>8 DEF Bytes
<1>7. CASE Peek
  <2>1. /\ pc = "peek" /\ consumed' = consumed /\ consumed > 0 /\ stream[consumed] = "CR"
        /\ sent' = sent /\ stream' = stream /\ closed' = closed /\ closed \in BOOLEAN
    <3>1. closed \in BOOLEAN
      BY <1>0, Zenon DEF TypeOK
    <3> QED
      BY <1>0, <1>7, <3>1 DEF Peek, Positions
  <2>2. Place = consumed - 1
    BY <2>1 DEF Place
  <2>3. /\ AreLines(lines, SubSeq(stream, 1, consumed - 1))
        /\ Remains(SubSeq(stream, 1, consumed - 1), out)
        /\ HeadEnds(SubSeq(stream, 1, consumed - 1)) = {}
    BY <1>0, <2>1, <2>2 DEF Lined, Headed, Read
  <2>4. CASE consumed < sent /\ stream[consumed + 1] = "LF"
    <3>1. pc' = "take" /\ out' = out /\ lines' = lines
      BY <1>7, <2>4 DEF Peek
    <3>2. Place' = Place
      BY <2>1, <3>1 DEF Place
    <3>3. TypeOK'
      BY <1>0, <1>1, <2>1, <3>1 DEF TypeOK, Text
    <3>4. Positions'
      BY <1>0, <1>1, <2>1, <2>2, <2>4, <3>1, <3>2 DEF Positions
    <3> QED
      BY <1>0, <2>1, <3>1, <3>2, <3>3, <3>4, Kept DEF ReaderInvariant
  <2>5. CASE ~(consumed < sent /\ stream[consumed + 1] = "LF")
    <3>1. /\ ReturnLine
          /\ \/ consumed < sent /\ stream[consumed + 1] # "LF"
             \/ ~(consumed < sent) /\ closed
      BY <1>7, <2>5 DEF Peek
    <3> DEFINE q == consumed
               p == consumed - 1
    <3>2. /\ q \in 0..Len(stream) /\ q \in 1..Len(stream) /\ p \in 0..(q - 1) /\ p \in 0..q
          /\ stream[q] = "CR" /\ q > 0 /\ sent \in q..Len(stream)
          /\ (p \in 1..(q - 1) /\ stream[p] = "CR" => stream[p + 1] # "LF")
          /\ ~(q > 1 /\ stream[q] = "LF" /\ stream[q - 1] = "CR")
          /\ {i \in (p + 1)..q : stream[i] = "LF" \/ (stream[i] = "CR" /\ (i = q \/ stream[i + 1] # "LF"))} = {q}
          /\ q - 1 = p
      BY <1>1, <2>1
    <3>6. (q < Len(stream) /\ stream[q + 1] # "LF") \/ (closed /\ sent = q)
      BY <1>1, <3>1
    <3> HIDE DEF q, p
    <3>3. /\ LineEnds(SubSeq(stream, 1, q)) = LineEnds(SubSeq(stream, 1, p)) \cup {q}
          /\ Terminator(SubSeq(stream, 1, q), q) = 1
      BY <1>1, <3>2, MoreEnds
    <3>4. /\ AreLines(lines, SubSeq(stream, 1, p)) /\ Remains(SubSeq(stream, 1, p), out)
          /\ HeadEnds(SubSeq(stream, 1, p)) = {} /\ consumed' = q
      BY <2>1, <2>3 DEF p, q
    <3>5. /\ out' = <<>> /\ out' \in Text /\ lines' \in Seq(Text) /\ pc' \in {"recv", "complete"}
          /\ AreLines(lines', SubSeq(stream, 1, q)) /\ Remains(SubSeq(stream, 1, q), out')
          /\ HeadEnds(SubSeq(stream, 1, q)) = IF pc' = "complete" THEN {q} ELSE {}
      BY <1>1, <3>1, <3>2, <3>3, <3>4, Returned
    <3> QED
      BY <1>1, <2>1, <3>2, <3>4, <3>5, <3>6, Resumed
  <2> QED
    BY <2>4, <2>5
<1>8. CASE Take
  <2>1. /\ pc = "take" /\ consumed' = consumed + 1 /\ consumed > 0 /\ stream[consumed] = "CR"
        /\ consumed < sent /\ stream[consumed + 1] = "LF" /\ ReturnLine
        /\ sent' = sent /\ stream' = stream /\ closed' = closed /\ closed \in BOOLEAN
    <3>1. closed \in BOOLEAN
      BY <1>0, Zenon DEF TypeOK
    <3> QED
      BY <1>0, <1>8, <3>1 DEF Take, Positions
  <2>2. Place = consumed - 1
    BY <2>1 DEF Place
  <2>3. /\ AreLines(lines, SubSeq(stream, 1, consumed - 1))
        /\ Remains(SubSeq(stream, 1, consumed - 1), out)
        /\ HeadEnds(SubSeq(stream, 1, consumed - 1)) = {}
    BY <1>0, <2>1, <2>2 DEF Lined, Headed, Read
  <2>4. ReaderInvariant'
    <3>1. ReturnLine
      BY <2>1
    <3> DEFINE q == consumed + 1
               p == consumed - 1
    <3>2. /\ q \in 0..Len(stream) /\ q \in 1..Len(stream) /\ p \in 0..(q - 1) /\ p \in 0..q
          /\ stream[q] = "LF" /\ q > 0 /\ sent \in q..Len(stream)
          /\ (p \in 1..(q - 1) /\ stream[p] = "CR" => stream[p + 1] # "LF")
          /\ q > 1 /\ stream[q] = "LF" /\ stream[q - 1] = "CR"
          /\ {i \in (p + 1)..q : stream[i] = "LF" \/ (stream[i] = "CR" /\ (i = q \/ stream[i + 1] # "LF"))} = {q}
          /\ q - 2 = p
      BY <1>1, <2>1
    <3> HIDE DEF q, p
    <3>3. /\ LineEnds(SubSeq(stream, 1, q)) = LineEnds(SubSeq(stream, 1, p)) \cup {q}
          /\ Terminator(SubSeq(stream, 1, q), q) = 2
      BY <1>1, <3>2, MoreEnds
    <3>4. /\ AreLines(lines, SubSeq(stream, 1, p)) /\ Remains(SubSeq(stream, 1, p), out)
          /\ HeadEnds(SubSeq(stream, 1, p)) = {} /\ consumed' = q
      BY <2>1, <2>3 DEF p, q
    <3>5. /\ out' = <<>> /\ out' \in Text /\ lines' \in Seq(Text) /\ pc' \in {"recv", "complete"}
          /\ AreLines(lines', SubSeq(stream, 1, q)) /\ Remains(SubSeq(stream, 1, q), out')
          /\ HeadEnds(SubSeq(stream, 1, q)) = IF pc' = "complete" THEN {q} ELSE {}
      BY <1>1, <3>1, <3>2, <3>3, <3>4, Returned
    <3> QED
      BY <1>1, <2>1, <3>2, <3>4, <3>5, Resumed
  <2> QED
    BY <2>4
<1> QED
  BY <1>2, <1>3, <1>4, <1>5, <1>6, <1>7, <1>8 DEF Next, Server

\* The invariant holds throughout.
LEMMA ReaderInvariantHolds == SafeSpec => []ReaderInvariant
  BY ReaderInit, ReaderStep, PTL DEF SafeSpec

\* The line reader keeps its type, for streams of any length.
THEOREM LineReaderTypeCorrect == SafeSpec => []TypeOK
<1>1. ReaderInvariant => TypeOK
  BY DEF ReaderInvariant
<1> QED
  BY <1>1, ReaderInvariantHolds, PTL

\* However the bytes trickle in, the lines ReadLine has returned are those of the
\* reference definition: no terminator is counted twice and none is missed.
THEOREM LinesAreThose == SafeSpec => []LinesMatch
<1>1. ReaderInvariant => LinesMatch
  <2> SUFFICES ASSUME ReaderInvariant, pc \in {"recv", "complete"}
               PROVE  AreLines(lines, SubSeq(stream, 1, consumed))
    BY DEF LinesMatch
  <2>1. Place = consumed
    BY DEF Place
  <2> QED
    BY <2>1 DEF ReaderInvariant, Lined, Read
<1> QED
  BY <1>1, ReaderInvariantHolds, PTL

\* The head ends at its first blank line, and no byte behind it is consumed,
\* whatever the client sends after the head and whenever it closes.
THEOREM BodyIsUntouched == SafeSpec => []BodyUntouched
<1>1. ASSUME ReaderInvariant, pc = "complete"
      PROVE  /\ consumed \in HeadEnds(Arriving)
             /\ \A i \in HeadEnds(Arriving) : consumed <= i
  <2>1. /\ stream \in Seq(Bytes) /\ Len(stream) \in Nat /\ sent \in 0..Len(stream)
        /\ consumed \in 0..sent
    BY <1>1, StreamsAssumption DEF ReaderInvariant, TypeOK
  <2>2. Place = consumed
    BY <1>1 DEF Place
  <2> DEFINE n == IF closed THEN sent ELSE Len(stream)
             s == SubSeq(stream, 1, consumed)
             t == SubSeq(stream, 1, n)
  <2>3. /\ n \in 0..Len(stream) /\ consumed \in 0..n
        /\ (consumed \in 1..(n - 1) /\ stream[consumed] = "CR" => stream[consumed + 1] # "LF")
    BY <1>1, <2>1, <2>2 DEF ReaderInvariant, Positions
  <2>4. Arriving = t
    BY <2>1, SubSeqFull DEF Arriving
  <2>5. HeadEnds(s) = {consumed}
    BY <1>1, <2>2 DEF ReaderInvariant, Headed, Read
  <2> HIDE DEF n
  <2>6. s \in Seq(Bytes) /\ t \in Seq(Bytes) /\ Continues(s, t) /\ Len(s) = consumed
    BY <2>1, <2>3, Prefixes
  <2> HIDE DEF s, t
  <2>7. /\ LineEnds(s) = {i \in LineEnds(t) : i <= consumed}
        /\ \A i \in LineEnds(s) : Line(t, i) = Line(s, i)
        /\ LineEnds(t) \subseteq Nat
    <3>1. LineEnds(s) = {i \in LineEnds(t) : i <= Len(s)}
      BY <2>6, Earlier
    <3>2. \A i \in LineEnds(s) : Line(t, i) = Line(s, i)
      BY <2>6, EarlierLines
    <3>3. LineEnds(t) \subseteq Nat
      BY <2>6, EndsInBounds
    <3> QED
      BY <2>6, <3>1, <3>2, <3>3
  <2>8. consumed \in HeadEnds(t)
    BY <2>5, <2>7 DEF HeadEnds
  <2>9. ASSUME NEW i \in HeadEnds(t) PROVE consumed <= i
    <3>1. /\ i \in LineEnds(t) /\ i \in Nat /\ Line(t, i) = <<>>
          /\ \E j \in LineEnds(t) : j < i
      BY <2>7 DEF HeadEnds
    <3>2. ASSUME i < consumed PROVE FALSE
      <4>1. i \in LineEnds(s) /\ Line(s, i) = <<>>
        BY <2>1, <2>7, <3>1, <3>2
      <4>2. \E j \in LineEnds(s) : j < i
        BY <2>1, <2>7, <3>1, <3>2
      <4>3. i \in HeadEnds(s)
        BY <4>1, <4>2 DEF HeadEnds
      <4> QED
        BY <2>1, <2>5, <3>1, <3>2, <4>3
    <3> QED
      BY <2>1, <3>1, <3>2
  <2> QED
    BY <2>4, <2>8, <2>9
<1>2. ReaderInvariant => BodyUntouched
  BY <1>1 DEF BodyUntouched
<1> QED
  BY <1>2, ReaderInvariantHolds, PTL

\* The reader stops only at the end of what was sent.
Stopped == pc = "stop" => closed /\ consumed = sent

LEMMA StoppedStep == Stopped /\ [Next]_vars => Stopped'
<1> SUFFICES ASSUME Stopped, [Next]_vars PROVE Stopped'
  OBVIOUS
<1> USE DEF Stopped
<1>1. CASE Send
  BY <1>1 DEF Send
<1>2. CASE Shut
  BY <1>2 DEF Shut
<1>3. CASE Recv
  BY <1>3 DEF Recv, ReturnLine
<1>4. CASE RecvClosed
  BY <1>4 DEF RecvClosed
<1>5. CASE Peek
  BY <1>5 DEF Peek, ReturnLine
<1>6. CASE Take
  BY <1>6 DEF Take, ReturnLine
<1>7. CASE UNCHANGED vars
  BY <1>7 DEF vars
<1> QED
  BY <1>1, <1>2, <1>3, <1>4, <1>5, <1>6, <1>7 DEF Next, Server

\* ReadLine never sleeps on a head that is there: when recv has nothing more for it
\* and the client has sent a head that ends in a line feed, the head is complete.
\* The prefix up to that line feed has the head's lines whatever follows, the
\* reader has gone past it, and of what it has gone past only the end is a head.
THEOREM ReaderRestsDone == SafeSpec => []RestIsDone
<1>1. ASSUME ReaderInvariant, Stopped, Resting, pc # "complete",
             NEW i \in HeadEnds(stream), sent >= i, stream[i] = "LF"
      PROVE  FALSE
  <2>1. /\ stream \in Seq(Bytes) /\ Len(stream) \in Nat /\ sent \in 0..Len(stream)
        /\ i \in LineEnds(stream) /\ i \in 1..Len(stream) /\ consumed = sent
    <3>1. stream \in Seq(Bytes) /\ sent \in 0..Len(stream)
      BY <1>1, StreamsAssumption DEF ReaderInvariant, TypeOK
    <3>2. i \in LineEnds(stream)
      BY DEF HeadEnds
    <3>3. consumed = sent
      BY <1>1 DEF Stopped, Resting
    <3> QED
      BY <3>1, <3>2, <3>3, EndsInBounds
  <2>2. Place \in 0..Len(stream) /\ i <= Place
    <3>1. CASE pc \in {"peek", "take"}
      <4>1. consumed > 0 /\ stream[consumed] = "CR" /\ Place = consumed - 1
        BY <1>1, <3>1 DEF ReaderInvariant, Positions, Place
      <4>2. i # consumed
        BY <1>1, <4>1
      <4> QED
        BY <1>1, <2>1, <4>1, <4>2
    <3>2. CASE pc \notin {"peek", "take"}
      BY <1>1, <2>1, <3>2 DEF Place
    <3> QED
      BY <3>1, <3>2
  <2> DEFINE s == SubSeq(stream, 1, i)
             n == Len(stream)
             t == SubSeq(stream, 1, n)
             u == SubSeq(stream, 1, Place)
  <2>3. s \in Seq(Bytes) /\ t \in Seq(Bytes) /\ Len(s) = i /\ Continues(s, t)
    <3>1. n \in 0..Len(stream) /\ i \in 0..n /\ stream[i] # "CR"
      BY <1>1, <2>1
    <3> HIDE DEF n
    <3> QED
      BY <2>1, <3>1, Prefixes
  <2>4. u \in Seq(Bytes) /\ Continues(s, u)
    <3>1. i \in 0..Place /\ stream[i] # "CR"
      BY <1>1, <2>1, <2>2
    <3> QED
      BY <2>1, <2>2, <3>1, Prefixes
  <2>5. t = stream
    BY <2>1, SubSeqFull
  <2> HIDE DEF s, t, u
  <2>6. i \in HeadEnds(s)
    <3>1. LineEnds(s) = {j \in LineEnds(stream) : j <= i}
      BY <2>3, <2>5, Earlier
    <3>2. i \in LineEnds(s)
      BY <2>1, <3>1
    <3>3. Line(s, i) = <<>>
      BY <2>3, <2>5, <3>2, EarlierLines DEF HeadEnds
    <3>4. PICK j \in LineEnds(stream) : j < i
      BY DEF HeadEnds
    <3>5. j \in Nat
      BY <2>1, EndsInBounds
    <3>6. j \in LineEnds(s)
      BY <2>1, <3>1, <3>4, <3>5
    <3> QED
      BY <3>2, <3>3, <3>4, <3>6 DEF HeadEnds
  <2>7. i \in HeadEnds(u)
    <3>1. LineEnds(s) = {j \in LineEnds(u) : j <= i}
      BY <2>3, <2>4, Earlier
    <3>2. Line(u, i) = <<>>
      BY <2>3, <2>4, <2>6, EarlierLines DEF HeadEnds
    <3> QED
      BY <2>6, <3>1, <3>2 DEF HeadEnds
  <2>8. HeadEnds(u) = {}
    BY <1>1 DEF ReaderInvariant, Headed, Read, u
  <2> QED
    BY <2>7, <2>8
<1>2. ReaderInvariant /\ Stopped => RestIsDone
  BY <1>1 DEF RestIsDone
<1>3. Init => Stopped
  BY DEF Init, Stopped
<1> QED
  BY <1>2, <1>3, ReaderInvariantHolds, StoppedStep, PTL DEF SafeSpec
===============================================================================

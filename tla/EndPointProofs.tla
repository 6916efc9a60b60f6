---------------------------- MODULE EndPointProofs ----------------------------
(***************************************************************************)
(* Safety of a connection of myHttp, proved for all requests, all contents  *)
(* of wwwroot, any number of changes to it, any socket buffer and any width *)
(* of int, off_t and size_t.                                                *)
(***************************************************************************)
EXTENDS EndPoint, TLAPS

(***************************************************************************)
(* Types. www is looked up under path, so its type needs to know which name *)
(* path is at each step.                                                    *)
(***************************************************************************)
Route == /\ pc = "stat" => path = IF client.path = "dir" THEN "dir" ELSE Chosen(client.path)
         /\ pc = "stat_index" => client.path = "dir" /\ path = "index"
         /\ pc = "serve" => path = Chosen(client.path)

\* An off_t stored in an int: what fits is kept, and what does not, gets smaller.
LEMMA NarrowIs == ASSUME NEW n \in Int
                  PROVE  /\ Narrow(n) \in Ints
                         /\ n >= 0 => Narrow(n) <= n
                         /\ n >= 0 /\ n <= MaxInt => Narrow(n) = n
<1> DEFINE w == 2 * MaxInt + 2
           m == n + MaxInt + 1
           q == m \div w
           r == m % w
<1>1. w \in Nat /\ w > 0 /\ m \in Int /\ MaxInt \in Nat
  BY SizesAssumption
<1>2. q \in Int /\ r \in 0..(w - 1) /\ m = w * q + r
  BY <1>1
<1>3. Narrow(n) = r - (MaxInt + 1) /\ m = n + MaxInt + 1 /\ w = 2 * MaxInt + 2
  BY DEF Narrow
<1> HIDE DEF w, m, q, r
<1>4. ASSUME n >= 0 PROVE r <= m /\ (n <= MaxInt => r = m)
  <2>1. q >= 0
    <3>1. ASSUME q <= -1 PROVE FALSE
      <4>1. PICK k \in Nat : q = -1 - k
        BY <1>2, <3>1
      <4>2. w * q = -w - w * k /\ w * k \in Nat
        BY <1>1, <4>1
      <4> QED
        BY <1>1, <1>2, <1>3, <1>4, <4>2
    <3> QED
      BY <1>2, <3>1
  <2>2. w * q \in Nat
    BY <1>1, <1>2, <2>1
  <2>3. ASSUME n <= MaxInt PROVE q = 0
    <3>1. ASSUME q >= 1 PROVE FALSE
      <4>1. PICK k \in Nat : q = 1 + k
        BY <1>2, <3>1
      <4>2. w * q = w + w * k /\ w * k \in Nat
        BY <1>1, <4>1
      <4> QED
        BY <1>1, <1>2, <1>3, <2>3, <4>2
    <3> QED
      BY <1>2, <2>1, <3>1
  <2>4. q = 0 => w * q = 0
    BY <1>1
  <2> QED
    BY <1>1, <1>2, <2>2, <2>3, <2>4
<1> QED
  BY <1>1, <1>2, <1>3, <1>4 DEF Ints

\* The step back of a failed send: the -1 of send added to a size_t.
LEMMA StepsBack == ASSUME total \in 0..(SizeT - 1)
                   PROVE  StepBack = IF total = 0 THEN SizeT - 1 ELSE total - 1
<1>1. CASE total = 0
  BY <1>1, SizesAssumption DEF StepBack
<1>2. CASE total # 0
  <2> DEFINE n == total + SizeT - 1
             q == n \div SizeT
             r == n % SizeT
  <2>1. q \in Nat /\ r \in 0..(SizeT - 1) /\ n = SizeT * q + r
    BY <1>2, SizesAssumption
  <2> HIDE DEF q, r
  <2>2. q # 0
    BY <1>2, <2>1, SizesAssumption
  <2>3. ASSUME q >= 2 PROVE FALSE
    <3>1. PICK k \in Nat : q = 2 + k
      BY <2>1, <2>3
    <3>2. SizeT * q = 2 * SizeT + SizeT * k /\ SizeT * k \in Nat
      BY <3>1, SizesAssumption
    <3> QED
      BY <2>1, <3>2, SizesAssumption
  <2>4. q = 1
    BY <2>1, <2>2, <2>3
  <2>5. r = total - 1
    BY <2>1, <2>4, SizesAssumption
  <2> QED
    BY <1>2, <2>5 DEF StepBack, r
<1> QED
  BY <1>1, <1>2

LEMMA TypeInit == Init => TypeOK /\ Route
<1>1. Init => FlagsOK
  BY DEF Init, FlagsOK
<1>2. Init => ValuesOK /\ Route
  BY ClientsAssumption, SizesAssumption
     DEF Init, ValuesOK, Route, Pieces, Names, Receiving, Deciding, Decided, Chosen
<1> QED
  BY <1>1, <1>2 DEF TypeOK

LEMMA TypeStep == TypeOK /\ Route /\ [Next]_vars => TypeOK' /\ Route'
<1> SUFFICES ASSUME TypeOK, Route, [Next]_vars PROVE FlagsOK' /\ ValuesOK' /\ Route'
  BY DEF TypeOK
<1>0. FlagsOK /\ ValuesOK
  BY DEF TypeOK
<1> USE <1>0, ClientsAssumption, EntriesAssumption, SizesAssumption
    DEF FlagsOK, ValuesOK, Route, Pieces, Names, Receiving, Deciding, Decided, Chosen,
        request, files, parsed, sending, response, opened, history, Goto, Receive, Stopped, AfterStop
<1>1. CASE RecvHttpRequestLine
  BY <1>1 DEF RecvHttpRequestLine
<1>2. CASE RecvHttpRequestHeader
  BY <1>2 DEF RecvHttpRequestHeader
<1>3. CASE RecvHttpRequestBody
  BY <1>3 DEF RecvHttpRequestBody
<1>4. CASE ChoosePath
  <2>1. FlagsOK'
    BY <1>4, ZenonT(40) DEF ChoosePath, SetsCgi
  <2>2. ValuesOK' /\ Route'
    BY <1>4, SMTT(30) DEF ChoosePath
  <2> QED
    BY <2>1, <2>2
<1>5. CASE Stat
  BY <1>5, NarrowIs DEF Stat, UseStat
<1>6. CASE StatIndex
  BY <1>6, NarrowIs DEF StatIndex, UseStat, Directory
<1>7. CASE ProcessNonCgi
  <2>0. path \in Names /\ UNCHANGED <<request, files, got, content_length, parsed, announced, body,
                                     sending, seen>>
    BY <1>7 DEF ProcessNonCgi
  <2>1. CASE Opens(path) /\ code' = 200 /\ Goto("ok")
    <3>1. FlagsOK'
      BY <1>7, <2>0, <2>1 DEF ProcessNonCgi, Opens
    <3>2. ValuesOK' /\ Route'
      BY <1>7, <2>0, <2>1 DEF ProcessNonCgi, Opens
    <3> QED
      BY <3>1, <3>2
  <2>2. CASE OpenFails(path) /\ code' = 404 /\ Goto("error_open")
    <3>1. FlagsOK'
      BY <2>0, <2>2 DEF OpenFails
    <3>2. ValuesOK' /\ Route'
      BY <2>0, <2>2 DEF OpenFails
    <3> QED
      BY <3>1, <3>2
  <2> QED
    BY <1>7, <2>1, <2>2 DEF ProcessNonCgi
<1>8. CASE ProcessCgi
  BY <1>8 DEF ProcessCgi
<1>9. CASE BuildOkResponse
  BY <1>9 DEF BuildOkResponse
<1>10. CASE HandlerErrorOpen
  <2>0. /\ UNCHANGED <<request, files, got, content_length, size, response, seen>>
        /\ cgi' = FALSE /\ path' = "404" /\ pc = "error_open"
    BY <1>10 DEF HandlerErrorOpen, CgiOfError
  <2>1. CASE Opens("404") /\ Goto("error_stat")
    <3>1. FlagsOK'
      BY <2>0, <2>1 DEF Opens
    <3>2. ValuesOK' /\ Route'
      BY <2>0, <2>1 DEF Opens
    <3> QED
      BY <3>1, <3>2
  <2>2. CASE OpenFails("404") /\ Goto("send")
    <3>1. FlagsOK'
      BY <2>0, <2>2 DEF OpenFails
    <3>2. ValuesOK' /\ Route'
      BY <2>0, <2>2 DEF OpenFails
    <3> QED
      BY <3>1, <3>2
  <2> QED
    BY <1>10, <2>1, <2>2 DEF HandlerErrorOpen
<1>11. CASE HandlerErrorStat
  BY <1>11, NarrowIs DEF HandlerErrorStat, Offs
<1>12. CASE SendFile \/ SendFileEnds
  <2>1. CASE SendFile
    <3>1. FlagsOK'
      BY <2>1 DEF SendFile
    <3>2. ValuesOK' /\ Route'
      BY <2>1 DEF SendFile, Room
    <3> QED
      BY <3>1, <3>2
  <2>2. CASE SendFileEnds
    <3>0. cgi' = cgi /\ linked' = FALSE
      BY <2>2 DEF SendFileEnds
    <3>1. FlagsOK'
      BY <3>0
    <3>2. ValuesOK' /\ Route'
      BY <2>2 DEF SendFileEnds
    <3> QED
      BY <3>1, <3>2
  <2> QED
    BY <1>12, <2>1, <2>2
<1>13. CASE SendBody
  BY <1>13, StepsBack DEF SendBody, Rest, Room, Smaller
<1>14. CASE SendBodyEnds
  BY <1>14 DEF SendBodyEnds
<1>15. CASE Delete
  BY <1>15 DEF Delete
<1>16. CASE ClientSend \/ ClientRead
  <2>1. CASE ClientSend
    BY <2>1 DEF ClientSend
  <2>2. CASE ClientRead
    <3>1. FlagsOK'
      BY <2>2 DEF ClientRead
    <3>2. ValuesOK' /\ Route'
      BY <2>2 DEF ClientRead
    <3> QED
      BY <3>1, <3>2
  <2> QED
    BY <1>16, <2>1, <2>2
<1>17. CASE ClientClose
  BY <1>17 DEF ClientClose
<1>18. ASSUME NEW name \in Names, NEW inplace \in BOOLEAN, Change(name, inplace)
       PROVE  FlagsOK' /\ ValuesOK' /\ Route'
  BY <1>18 DEF Change
<1>19. CASE UNCHANGED vars
  BY <1>19 DEF vars
<1> QED
  BY <1>1, <1>2, <1>3, <1>4, <1>5, <1>6, <1>7, <1>8, <1>9,
     <1>10, <1>11, <1>12, <1>13, <1>14, <1>15, <1>16, <1>17, <1>18, <1>19 DEF Next, Worker

\* The state has its type.
THEOREM TypeCorrect == SafeSpec => [](TypeOK /\ Route)
  BY TypeInit, TypeStep, PTL DEF SafeSpec

-------------------------------------------------------------------------------
(***************************************************************************)
(* Receiving: at every step got counts exactly what was asked of the        *)
(* client, and content_length what is still missing.                        *)
(***************************************************************************)
Counting == /\ pc = "line" => got = 0
            /\ pc = "header" => got = 1
            /\ pc = "body" => got + content_length = Needed

LEMMA CountingInit == Init => Counting /\ WholeRequest
  BY DEF Init, Counting, WholeRequest, Receiving

LEMMA CountingStep ==
    TypeOK /\ Counting /\ WholeRequest /\ [Next]_vars => Counting' /\ WholeRequest'
<1> SUFFICES ASSUME ValuesOK, Counting, WholeRequest, [Next]_vars
             PROVE  Counting' /\ WholeRequest'
  BY DEF TypeOK
<1> USE ClientsAssumption
    DEF ValuesOK, Counting, WholeRequest, Needed, Receiving, Pieces,
        request, files, parsed, sending, response, opened, history, Goto, Receive, Stopped, AfterStop
<1>1. CASE RecvHttpRequestLine
  BY <1>1 DEF RecvHttpRequestLine
<1>2. CASE RecvHttpRequestHeader
  BY <1>2 DEF RecvHttpRequestHeader
<1>3. CASE RecvHttpRequestBody
  BY <1>3 DEF RecvHttpRequestBody
<1>4. CASE ChoosePath
  BY <1>4 DEF ChoosePath
<1>5. CASE Stat
  BY <1>5 DEF Stat, UseStat
<1>6. CASE StatIndex
  BY <1>6 DEF StatIndex, UseStat
<1>7. CASE ProcessNonCgi
  BY <1>7 DEF ProcessNonCgi, Opens, OpenFails
<1>8. CASE ProcessCgi
  BY <1>8 DEF ProcessCgi
<1>9. CASE BuildOkResponse
  BY <1>9 DEF BuildOkResponse
<1>10. CASE HandlerErrorOpen
  BY <1>10 DEF HandlerErrorOpen, Opens, OpenFails
<1>11. CASE HandlerErrorStat
  BY <1>11 DEF HandlerErrorStat
<1>12. CASE SendFile \/ SendFileEnds
  BY <1>12 DEF SendFile, SendFileEnds
<1>13. CASE SendBody
  BY <1>13 DEF SendBody
<1>14. CASE SendBodyEnds
  BY <1>14 DEF SendBodyEnds
<1>15. CASE Delete
  BY <1>15 DEF Delete
<1>16. CASE ClientSend \/ ClientRead
  BY <1>16 DEF ClientSend, ClientRead
<1>17. CASE ClientClose
  BY <1>17 DEF ClientClose
<1>18. ASSUME NEW name \in Names, NEW inplace \in BOOLEAN, Change(name, inplace)
       PROVE  Counting' /\ WholeRequest'
  BY <1>18 DEF Change
<1>19. CASE UNCHANGED vars
  BY <1>19 DEF vars
<1> QED
  BY <1>1, <1>2, <1>3, <1>4, <1>5, <1>6, <1>7, <1>8, <1>9,
     <1>10, <1>11, <1>12, <1>13, <1>14, <1>15, <1>16, <1>17, <1>18, <1>19 DEF Next, Worker

\* The worker never builds from half a request, whatever the client sends, announces
\* or closes: for every announced length, negative ones too.
THEOREM RequestIsWhole == SafeSpec => []WholeRequest
  BY TypeCorrect, CountingInit, CountingStep, PTL DEF SafeSpec

-------------------------------------------------------------------------------
(***************************************************************************)
(* Sending: what the file descriptor, the announced length and the loop's   *)
(* counters are worth at each step. Sendfile is asked for no more than was  *)
(* announced, since an int never has more of an off_t than there is; only   *)
(* an error whose page is not open is sent with nothing announced.          *)
(***************************************************************************)
Descriptor == /\ linked => fd # None
              /\ pc \in {"serve", "ok"} => size # None
              /\ pc = "ok" /\ ~cgi => fd # None
              /\ pc = "error_stat" => fd # None /\ ~cgi
              /\ pc \notin {"ok", "error_stat", "send"} => fd = None
              /\ cgi => fd = None

Promise == /\ pc \notin {"send", "sent", "answered"} =>
                announced = None /\ delivered = 0 /\ total = 0
           /\ pc = "send" /\ cgi => /\ announced = body
                                    /\ delivered <= body
                                    /\ closed # "gone" => total = delivered
           /\ pc = "send" /\ ~cgi =>
                /\ announced = None => fd = None
                /\ announced # None => size # None /\ (announced >= 0 => size <= announced)
           /\ announced = None => delivered = 0
           /\ announced # None /\ announced >= 0 => delivered <= announced

LEMMA PromiseInit == Init => Descriptor /\ Promise /\ SendStaysInBody
  BY DEF Init, Descriptor, Promise, SendStaysInBody

LEMMA PromiseStep ==
    TypeOK /\ Route /\ Descriptor /\ Promise /\ SendStaysInBody /\ [Next]_vars =>
      Descriptor' /\ Promise' /\ SendStaysInBody'
<1> SUFFICES ASSUME ValuesOK, Route, Descriptor, Promise, SendStaysInBody, [Next]_vars
             PROVE  Descriptor' /\ Promise' /\ SendStaysInBody'
  BY DEF TypeOK
<1> USE EntriesAssumption, SizesAssumption, NoneAssumption
    DEF ValuesOK, Route, Descriptor, Promise, SendStaysInBody, Receiving, Deciding, Decided,
        Names, Chosen, request, files, parsed, sending, response, opened, history,
        Goto, Receive, Stopped, AfterStop
<1>1. CASE RecvHttpRequestLine
  BY <1>1 DEF RecvHttpRequestLine
<1>2. CASE RecvHttpRequestHeader
  BY <1>2 DEF RecvHttpRequestHeader
<1>3. CASE RecvHttpRequestBody
  BY <1>3 DEF RecvHttpRequestBody
<1>4. CASE ChoosePath
  BY <1>4 DEF ChoosePath, SetsCgi
<1>5. CASE Stat
  <2>1. CASE path = "dir"
    BY <1>5, <2>1 DEF Stat
  <2>2. CASE path # "dir" /\ www[path] = Missing
    BY <1>5, <2>2 DEF Stat
  <2>3. CASE path # "dir" /\ www[path] # Missing
    <3>1. www[path].size \in Int /\ Narrow(www[path].size) \in Int
      BY <1>5, <2>3, NarrowIs DEF Stat, Ints
    <3>2. /\ pc = "stat" /\ pc' = "serve" /\ size' # None
          /\ UNCHANGED <<request, files, code, announced, body, sending, opened>>
      BY <1>5, <2>3, <3>1 DEF Stat, UseStat
    <3> QED
      BY <3>2
  <2> QED
    BY <2>1, <2>2, <2>3
<1>6. CASE StatIndex
  BY <1>6, NarrowIs DEF StatIndex, UseStat, Directory
<1>7. CASE ProcessNonCgi
  BY <1>7 DEF ProcessNonCgi, Opens, OpenFails
<1>8. CASE ProcessCgi
  BY <1>8 DEF ProcessCgi
<1>9. CASE BuildOkResponse
  BY <1>9 DEF BuildOkResponse, Ints
<1>10. CASE HandlerErrorOpen
  BY <1>10 DEF HandlerErrorOpen, CgiOfError, Opens, OpenFails
<1>11. CASE HandlerErrorStat
  BY <1>11, NarrowIs DEF HandlerErrorStat, Offs, Ints
<1>12. CASE SendFile \/ SendFileEnds
  BY <1>12 DEF SendFile, SendFileEnds, Full, Smaller, Room, Ints
<1>13. CASE SendBody
  BY <1>13, StepsBack DEF SendBody, Rest, Room, Smaller
<1>14. CASE SendBodyEnds
  BY <1>14 DEF SendBodyEnds
<1>15. CASE Delete
  BY <1>15 DEF Delete
<1>16. CASE ClientSend \/ ClientRead
  BY <1>16 DEF ClientSend, ClientRead
<1>17. CASE ClientClose
  BY <1>17 DEF ClientClose
<1>18. ASSUME NEW name \in Names, NEW inplace \in BOOLEAN, Change(name, inplace)
       PROVE  Descriptor' /\ Promise' /\ SendStaysInBody'
  BY <1>18 DEF Change
<1>19. CASE UNCHANGED vars
  BY <1>19 DEF vars
<1> QED
  BY <1>1, <1>2, <1>3, <1>4, <1>5, <1>6, <1>7, <1>8, <1>9,
     <1>10, <1>11, <1>12, <1>13, <1>14, <1>15, <1>16, <1>17, <1>18, <1>19 DEF Next, Worker

\* The send loop of a CGI response never reads past the body, though its counter is
\* a size_t that failed sends drive below zero.
THEOREM SendStays == SafeSpec => []SendStaysInBody
  BY TypeCorrect, PromiseInit, PromiseStep, PTL DEF SafeSpec

-------------------------------------------------------------------------------
(***************************************************************************)
(* Giving up: the worker drops only a client that has closed before it had  *)
(* sent what it announced, and never asks for more than that.               *)
(***************************************************************************)
Giving == /\ pc = "body" /\ Needed >= 2 => content_length >= 0
          /\ pc \in {"delete", "dropped"} =>
               sent = got /\ closed # "open" /\ (Needed >= 2 => got < Needed)

LEMMA GivingStep == TypeOK /\ Counting /\ Giving /\ [Next]_vars => Giving'
<1> SUFFICES ASSUME ValuesOK, Counting, Giving, [Next]_vars PROVE Giving'
  BY DEF TypeOK
<1> USE ClientsAssumption
    DEF ValuesOK, Counting, Giving, Needed, Receiving, Deciding, Decided, Pieces,
        request, files, parsed, sending, response, opened, history, Goto, Receive, Stopped, AfterStop
<1>1. CASE RecvHttpRequestLine
  BY <1>1 DEF RecvHttpRequestLine
<1>2. CASE RecvHttpRequestHeader
  BY <1>2 DEF RecvHttpRequestHeader
<1>3. CASE RecvHttpRequestBody
  BY <1>3 DEF RecvHttpRequestBody
<1>4. CASE ChoosePath
  BY <1>4 DEF ChoosePath
<1>5. CASE Stat
  BY <1>5 DEF Stat, UseStat
<1>6. CASE StatIndex
  BY <1>6 DEF StatIndex, UseStat
<1>7. CASE ProcessNonCgi
  BY <1>7 DEF ProcessNonCgi, Opens, OpenFails
<1>8. CASE ProcessCgi
  BY <1>8 DEF ProcessCgi
<1>9. CASE BuildOkResponse
  BY <1>9 DEF BuildOkResponse
<1>10. CASE HandlerErrorOpen
  BY <1>10 DEF HandlerErrorOpen, Opens, OpenFails
<1>11. CASE HandlerErrorStat
  BY <1>11 DEF HandlerErrorStat
<1>12. CASE SendFile \/ SendFileEnds
  BY <1>12 DEF SendFile, SendFileEnds
<1>13. CASE SendBody
  BY <1>13 DEF SendBody
<1>14. CASE SendBodyEnds
  BY <1>14 DEF SendBodyEnds
<1>15. CASE Delete
  BY <1>15 DEF Delete
<1>16. CASE ClientSend \/ ClientRead
  BY <1>16 DEF ClientSend, ClientRead
<1>17. CASE ClientClose
  BY <1>17 DEF ClientClose
<1>18. ASSUME NEW name \in Names, NEW inplace \in BOOLEAN, Change(name, inplace)
       PROVE  Giving'
  BY <1>18 DEF Change
<1>19. CASE UNCHANGED vars
  BY <1>19 DEF vars
<1> QED
  BY <1>1, <1>2, <1>3, <1>4, <1>5, <1>6, <1>7, <1>8, <1>9,
     <1>10, <1>11, <1>12, <1>13, <1>14, <1>15, <1>16, <1>17, <1>18, <1>19 DEF Next, Worker

\* No connection is left hanging but by a program that never ends or by a client that
\* stays and does not read: where the worker waits otherwise and the client has sent
\* all it announced, it is answered; where it has closed, it is answered or dropped.
\* While recv finds nothing the client owes something, and the send loop, whose counter
\* leaves delivered behind only when the client is gone, waits for room alone.
THEOREM WorkerRestsDone == SafeSpec => []RestIsDone
<1>1. ASSUME TypeOK, Counting, Promise, Giving, Resting, ~Held
      PROVE  /\ sent >= Needed /\ Needed >= 2 => pc = "answered"
             /\ closed # "open" => pc \in {"answered", "dropped"}
  <2>0. ValuesOK
    BY <1>1 DEF TypeOK
  <2>1. pc # "hung" /\ pc # "send"
    BY <1>1 DEF Promise, Resting, Held, Unread
  <2>2. CASE pc \in {"line", "header", "body"} /\ sent = got /\ closed = "open"
    <3>1. Needed \in Int /\ got \in Nat
      BY <2>0, ClientsAssumption DEF ValuesOK, Needed, Pieces
    <3>2. Needed >= 2 => got < Needed
      <4>1. CASE pc = "body"
        BY <1>1, <2>0, <2>2, <3>1, <4>1 DEF Counting, Giving, Resting, ValuesOK
      <4>2. CASE pc # "body"
        BY <1>1, <2>2, <3>1, <4>2 DEF Counting
      <4> QED
        BY <4>1, <4>2
    <3> QED
      BY <2>2, <3>1, <3>2
  <2>3. CASE pc \in {"answered", "dropped"}
    <3>1. Needed \in Int /\ got \in Nat
      BY <2>0, ClientsAssumption DEF ValuesOK, Needed, Pieces
    <3> QED
      BY <1>1, <2>3, <3>1 DEF Giving
  <2> QED
    BY <1>1, <2>1, <2>2, <2>3 DEF Resting
<1>2. Init => Giving
  BY DEF Init, Giving
<1>3. TypeOK /\ Counting /\ Promise /\ Giving => RestIsDone
  BY <1>1 DEF RestIsDone
<1> QED
  BY <1>2, <1>3, TypeCorrect, CountingInit, CountingStep, PromiseInit, PromiseStep, GivingStep, PTL
  DEF SafeSpec

-------------------------------------------------------------------------------
(***************************************************************************)
(* A quiet wwwroot: as long as nothing there has changed, what stat said is *)
(* still true at open and at sendfile.                                      *)
(***************************************************************************)
NoPage == www["404"] = Missing \/ "404" \in refused
Quiet == changes = 0 =>
    /\ pc = "serve" /\ ~cgi => www[path] # Missing /\ size = Narrow(www[path].size)
    /\ pc = "ok" /\ ~cgi => www[path] # Missing /\ fd = www[path].size /\ size = Narrow(fd)
    /\ pc = "error_stat" => path = "404" /\ www["404"] # Missing /\ fd = www["404"].size
    /\ pc \in {"error_open", "error_stat"} => code # 200
    /\ pc = "send" /\ ~cgi =>
         IF announced = None
           THEN code # 200 /\ NoPage
           ELSE /\ www[path] # Missing /\ fd = www[path].size
                /\ fd <= SendMax => announced = fd /\ size = fd
    /\ pc \in {"sent", "answered"} /\ closed # "gone" =>
         IF announced = None
           THEN code # 200 /\ NoPage
           ELSE \/ delivered = announced /\ (~cgi => announced = www[path].size)
                \/ ~cgi /\ www[path].size > SendMax

LEMMA QuietInit == Init => Quiet
  BY DEF Init, Quiet

LEMMA QuietStep ==
    TypeOK /\ Route /\ Descriptor /\ Promise /\ SendStaysInBody /\ Quiet /\ [Next]_vars => Quiet'
<1> SUFFICES ASSUME ValuesOK, Route, Descriptor, Promise, SendStaysInBody, Quiet, [Next]_vars
             PROVE  Quiet'
  BY DEF TypeOK
<1> USE EntriesAssumption, SizesAssumption, NoneAssumption
    DEF ValuesOK, Route, Descriptor, Promise, SendStaysInBody, Quiet, NoPage, Receiving, Deciding,
        Decided, Names, Chosen, request, files, parsed, sending, response, opened, history,
        Goto, Receive, Stopped, AfterStop
<1>1. CASE RecvHttpRequestLine
  BY <1>1 DEF RecvHttpRequestLine
<1>2. CASE RecvHttpRequestHeader
  BY <1>2 DEF RecvHttpRequestHeader
<1>3. CASE RecvHttpRequestBody
  BY <1>3 DEF RecvHttpRequestBody
<1>4. CASE ChoosePath
  BY <1>4 DEF ChoosePath, SetsCgi
<1>5. CASE Stat
  BY <1>5, NarrowIs DEF Stat, UseStat
<1>6. CASE StatIndex
  BY <1>6, NarrowIs DEF StatIndex, UseStat, Directory
<1>7. CASE ProcessNonCgi
  BY <1>7 DEF ProcessNonCgi, Opens, OpenFails
<1>8. CASE ProcessCgi
  BY <1>8 DEF ProcessCgi
<1>9. CASE BuildOkResponse
  BY <1>9, NarrowIs DEF BuildOkResponse
<1>10. CASE HandlerErrorOpen
  BY <1>10 DEF HandlerErrorOpen, CgiOfError, Opens, OpenFails
<1>11. CASE HandlerErrorStat
  BY <1>11, NarrowIs DEF HandlerErrorStat
<1>12. CASE SendFile \/ SendFileEnds
  BY <1>12 DEF SendFile, SendFileEnds, Full, Smaller, Room, Ints
<1>13. CASE SendBody
  BY <1>13, StepsBack DEF SendBody, Rest, Room, Smaller
<1>14. CASE SendBodyEnds
  BY <1>14 DEF SendBodyEnds
<1>15. CASE Delete
  BY <1>15 DEF Delete
<1>16. CASE ClientSend \/ ClientRead
  BY <1>16 DEF ClientSend, ClientRead
<1>17. CASE ClientClose
  BY <1>17 DEF ClientClose
<1>18. ASSUME NEW name \in Names, NEW inplace \in BOOLEAN, Change(name, inplace)
       PROVE  Quiet'
  BY <1>18 DEF Change
<1>19. CASE UNCHANGED vars
  BY <1>19 DEF vars
<1> HIDE DEF ValuesOK, Route, Descriptor, Promise, SendStaysInBody, Quiet, NoPage, Receiving,
             Deciding, Decided, Names, Chosen, request, files, parsed, sending, response,
             opened, history, Goto, Receive, Stopped, AfterStop
<1> QED
  BY <1>1, <1>2, <1>3, <1>4, <1>5, <1>6, <1>7, <1>8, <1>9,
     <1>10, <1>11, <1>12, <1>13, <1>14, <1>15, <1>16, <1>17, <1>18, <1>19 DEF Next, Worker

\* The client is never sent more than was announced, whatever was announced, and all of
\* the file, up to what sendfile and an int can take, when it stays and wwwroot does not
\* change.
THEOREM BodyIsAsAnnounced == SafeSpec => []BodyAsAnnounced
<1>1. TypeOK /\ Promise /\ Quiet => BodyAsAnnounced
  BY DEF TypeOK, ValuesOK, Promise, Quiet, NoPage, Stayed, BodyAsAnnounced
<1> QED
  BY <1>1, TypeCorrect, PromiseInit, PromiseStep, QuietInit, QuietStep, PTL DEF SafeSpec

-------------------------------------------------------------------------------
(***************************************************************************)
(* The status: a request is refused only with an excuse, one its method or  *)
(* its query gave or one that some moment of the name's history gave; a     *)
(* plain answer has a size the name had at some moment.                     *)
(***************************************************************************)
Name == Chosen(client.path)
Excused == \/ client.method = "OTHER" \/ SetsCgi
           \/ seen \cap (Executable \cup {Missing}) # {}
SizeSeen == \E e \in seen \ {Missing} : size = Narrow(e.size)
Witness ==
    /\ pc \in Receiving \cup Deciding \cup {"build", "ok"} => code = 200 /\ refused = {}
    /\ pc \in {"error_open", "error_stat"} =>
         code # 200 /\ (Excused \/ (Name \in refused /\ code = 404 /\ ~cgi))
    /\ pc \in Deciding => www[Name] \in seen /\ client.method # "OTHER"
    /\ pc \in {"stat", "stat_index"} => cgi = SetsCgi
    /\ pc \in {"serve", "ok"} => IF cgi THEN Excused ELSE ~SetsCgi /\ SizeSeen
    /\ pc \in Decided /\ code = 200 => IF cgi THEN seen \cap Executable # {}
                                              ELSE seen # {Missing}
    /\ pc \in {"send", "sent", "answered"} /\ ~Excused =>
         /\ ~cgi
         /\ IF Name \in refused
              THEN code = 404
              ELSE /\ code = 200
                   /\ announced # None => \E e \in seen \ {Missing} : announced = Narrow(e.size)

LEMMA WitnessInit == Init => Witness
  BY DEF Init, Witness, Receiving, Deciding, Decided

LEMMA WitnessStep ==
    TypeOK /\ Route /\ Descriptor /\ Promise /\ Witness /\ [Next]_vars => Witness'
<1> SUFFICES ASSUME ValuesOK, Route, Descriptor, Promise, Witness, [Next]_vars
             PROVE  Witness'
  BY DEF TypeOK
<1> USE ClientsAssumption, EntriesAssumption, SizesAssumption, NoneAssumption
    DEF ValuesOK, Route, Descriptor, Promise, Witness, Name, Excused, SizeSeen, SetsCgi, Executable,
        Receiving, Deciding, Decided, Names, Chosen, request, files, parsed, sending, response, opened, history,
        Goto, Receive, Stopped, AfterStop
<1>1. CASE RecvHttpRequestLine
  BY <1>1 DEF RecvHttpRequestLine
<1>2. CASE RecvHttpRequestHeader
  BY <1>2 DEF RecvHttpRequestHeader
<1>3. CASE RecvHttpRequestBody
  BY <1>3 DEF RecvHttpRequestBody
<1>4. CASE ChoosePath
  BY <1>4 DEF ChoosePath
<1>5. CASE Stat
  <2>1. CASE path = "dir"
    BY <1>5, <2>1 DEF Stat
  <2>2. CASE path # "dir" /\ www[path] = Missing
    BY <1>5, <2>2 DEF Stat
  <2>3. CASE path # "dir" /\ www[path] # Missing
    <3>1. path = Chosen(client.path) /\ www[path] \in seen \ {Missing}
      BY <1>5, <2>3 DEF Stat
    <3>2. /\ pc = "stat" /\ pc' = "serve"
          /\ cgi' = (cgi \/ www[path].exec) /\ size' = Narrow(www[path].size)
          /\ UNCHANGED <<path, code, client, seen, www, refused>>
      BY <1>5, <2>3 DEF Stat, UseStat
    <3> QED
      BY <3>1, <3>2
  <2> QED
    BY <2>1, <2>2, <2>3
<1>6. CASE StatIndex
  BY <1>6 DEF StatIndex, UseStat, Directory
<1>7. CASE ProcessNonCgi
  BY <1>7 DEF ProcessNonCgi, Opens, OpenFails
<1>8. CASE ProcessCgi
  BY <1>8 DEF ProcessCgi
<1>9. CASE BuildOkResponse
  BY <1>9 DEF BuildOkResponse
<1>10. CASE HandlerErrorOpen
  BY <1>10 DEF HandlerErrorOpen, CgiOfError, Opens, OpenFails
<1>11. CASE HandlerErrorStat
  BY <1>11 DEF HandlerErrorStat
<1>12. CASE SendFile \/ SendFileEnds
  BY <1>12 DEF SendFile, SendFileEnds, Room
<1>13. CASE SendBody
  BY <1>13, StepsBack DEF SendBody, Rest, Room, Smaller
<1>14. CASE SendBodyEnds
  BY <1>14 DEF SendBodyEnds
<1>15. CASE Delete
  BY <1>15 DEF Delete
<1>16. CASE ClientSend \/ ClientRead
  BY <1>16 DEF ClientSend, ClientRead
<1>17. CASE ClientClose
  BY <1>17 DEF ClientClose
<1>18. ASSUME NEW name \in Names, NEW inplace \in BOOLEAN, Change(name, inplace)
       PROVE  Witness'
  BY <1>18 DEF Change
<1>19. CASE UNCHANGED vars
  BY <1>19 DEF vars
<1> HIDE DEF ValuesOK, Route, Descriptor, Promise, Witness, Name, Excused, SizeSeen, SetsCgi, Executable,
             Receiving, Deciding, Decided, Names, Chosen, request, files, parsed, sending, response, opened, history,
             Goto, Receive, Stopped, AfterStop
<1> QED
  BY <1>1, <1>2, <1>3, <1>4, <1>5, <1>6, <1>7, <1>8, <1>9,
     <1>10, <1>11, <1>12, <1>13, <1>14, <1>15, <1>16, <1>17, <1>18, <1>19 DEF Next, Worker

\* The status is true of some moment of the handling.
THEOREM StatusTrue == SafeSpec => []StatusIsTrue
<1>1. ASSUME TypeOK, Promise, Witness PROVE StatusIsTrue
  <2>1. pc \in Decided /\ code = 200 => IF cgi THEN seen \cap Executable # {}
                                              ELSE seen # {Missing}
    BY <1>1 DEF Witness
  <2>2. ASSUME pc \in Decided, client.method = "GET", ~client.query,
               seen \cap (Executable \cup {Missing}) = {}
        PROVE  /\ ~cgi
               /\ IF Name \in refused
                    THEN code = 404
                    ELSE /\ code = 200
                         /\ announced # None => announced \in {Narrow(e.size) : e \in seen}
    <3>1. ~Excused
      BY <2>2 DEF Excused, SetsCgi
    <3>2. CASE pc = "ok"
      BY <1>1, <3>1, <3>2 DEF Promise, Witness
    <3>3. CASE pc \in {"error_open", "error_stat"}
      BY <1>1, <3>1, <3>3 DEF Witness, Descriptor
    <3>4. CASE pc \in {"send", "sent", "answered"}
      BY <1>1, <3>1, <3>4 DEF Witness
    <3> QED
      BY <2>2, <3>2, <3>3, <3>4 DEF Decided
  <2> QED
    BY <2>1, <2>2 DEF StatusIsTrue, Name
<1> QED
  BY <1>1, TypeCorrect, PromiseInit, PromiseStep, WitnessInit, WitnessStep, PTL DEF SafeSpec
==============================================================================

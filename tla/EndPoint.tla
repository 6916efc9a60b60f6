------------------------------- MODULE EndPoint -------------------------------
(***************************************************************************)
(* One connection of myHttp from accept to close: EndPoint and CallBack in  *)
(* src/myHttp/Protocol.hpp. The client sends its request piece by piece and *)
(* may stop anywhere; meanwhile files under wwwroot are changed, so what    *)
(* stat said may be stale at open, and what open found at sendfile.         *)
(*                                                                          *)
(* The stream is counted in pieces: the request line, the headers with the  *)
(* blank line, and the blocks of the body. Sizes are counted in blocks.     *)
(***************************************************************************)
EXTENDS Integers, FiniteSets

CONSTANTS Clients,     \* the requests a client may send, records
          Entries,     \* what a name under wwwroot may be: Missing or a file
          Missing,     \* what stat fails for
          MaxChanges,  \* how often wwwroot changes during one connection
          MaxOutput,   \* bound of what a program prints, in blocks
          SendBuf,     \* blocks the socket holds that the client has not read
          MaxInt,      \* the greatest int
          MaxOff,      \* the greatest off_t
          SendMax,     \* the most one call of sendfile transfers
          SizeT,       \* how many values a size_t has
          None

\* A request: its method, whether the URI has a query, the path it names, the
\* Content-Length it announces (None without the header) and the blocks it sends.
ASSUME ClientsAssumption ==
    \A c \in Clients : /\ c.method \in {"GET", "POST", "OTHER"}
                       /\ c.query \in BOOLEAN
                       /\ c.path \in {"page", "dir", "dir/"}
                       /\ c.length \in Int \cup {None}
                       /\ c.blocks \in Nat
\* A file: its size and whether one of its x bits is set.
ASSUME EntriesAssumption ==
    /\ Missing \in Entries
    /\ \A e \in Entries \ {Missing} : e.size \in 0..MaxOff /\ e.exec \in BOOLEAN

ASSUME SizesAssumption ==
    /\ MaxOutput \in Nat /\ SizeT \in Nat /\ MaxOutput + 1 < SizeT
    /\ MaxInt \in Nat /\ SendMax \in 1..MaxInt
    /\ MaxOff \in Nat /\ MaxOutput <= MaxOff
    /\ SendBuf \in Nat \ {0} /\ MaxChanges \in Nat
\* None is no number.
ASSUME NoneAssumption == None \notin Int

Names == {"page", "index", "404"}
Executable == {e \in Entries \ {Missing} : e.exec}
Directory == [size |-> 0, exec |-> TRUE]    \* what stat says of "dir", its size unused

Ints == -(MaxInt + 1)..MaxInt
Offs == -(MaxOff + 1)..MaxOff
\* An off_t stored in an int.
Narrow(n) == ((n + MaxInt + 1) % (2 * MaxInt + 2)) - (MaxInt + 1)

VARIABLES client,          \* the request of this connection
          sent,            \* pieces the client has sent
          closed,          \* "open", "half" (client sends no more), "gone"
          www,             \* www[name]: the entry under wwwroot now
          changes,         \* how often wwwroot changed
          pc,              \* the next step of the worker
          got,             \* pieces received
          content_length,  \* what is left of the body to receive
          path,            \* http_request.path
          cgi, size, code, \* http_request.cgi and size (None: uninitialised), status_code
          fd,              \* http_response.fd: None, or the size of the open file
          linked,          \* whether fd's file still is the one its name denotes
          announced,       \* the Content-Length of the response, None before
          body,            \* http_response.response_body in blocks
          delivered,       \* body blocks the socket took
          buffered,        \* those of them the client has not read
          total,           \* the size_t of the send loop
          seen,            \* history: what the requested name was, from the first
                           \* stat until the status was decided
          refused          \* history: the names whose open failed though they exist

request == <<client, sent, closed>>
files == <<www, changes>>
parsed == <<path, cgi, size>>
sending == <<delivered, buffered, total>>
response == <<code, announced, body, sending>>
opened == <<fd, linked>>
history == <<seen, refused>>
vars == <<request, files, pc, got, content_length, parsed, response, opened, history>>

Pieces == 2 + client.blocks
Deciding == {"stat", "stat_index", "serve"}
Chosen(p) == IF p = "page" THEN "page" ELSE "index"

Init == /\ client \in Clients
        /\ sent = 0 /\ closed = "open"
        /\ www \in [Names -> Entries] /\ changes = 0
        /\ pc = "line" /\ got = 0 /\ content_length = 0
        /\ path = None /\ cgi = FALSE /\ size = None /\ code = 200
        /\ fd = None /\ linked = FALSE
        /\ announced = None /\ body = 0
        /\ delivered = 0 /\ buffered = 0 /\ total = 0
        /\ seen = {} /\ refused = {}

(***************************************************************************)
(* The client, and whoever maintains wwwroot.                               *)
(***************************************************************************)
ClientSend == /\ closed = "open"
              /\ sent < Pieces
              /\ sent' = sent + 1
              /\ UNCHANGED <<client, closed, files, pc, got, content_length, parsed,
                             response, opened, history>>

ClientRead == /\ closed # "gone"
              /\ buffered > 0
              /\ buffered' = buffered - 1
              /\ UNCHANGED <<request, files, pc, got, content_length, parsed, code,
                             announced, body, delivered, total, opened, history>>

ClientClose == /\ closed # "gone"
               /\ closed' \in {"half", "gone"} \ {closed}
               /\ UNCHANGED <<client, sent, files, pc, got, content_length, parsed,
                              response, opened, history>>

\* A name is rewritten in place (an open descriptor sees it) or replaced or
\* removed (an open descriptor keeps the old file).
Change(name, inplace) ==
    /\ changes < MaxChanges
    /\ changes' = changes + 1
    /\ \E e \in Entries \ {www[name]} :
         /\ inplace => e # Missing /\ www[name] # Missing
         /\ www' = [www EXCEPT ![name] = e]
         /\ IF linked /\ path = name
              THEN /\ fd' = IF inplace THEN e.size ELSE fd
                   /\ linked' = inplace
              ELSE UNCHANGED opened
         /\ seen' = IF pc \in Deciding /\ name = Chosen(client.path)
                      THEN seen \cup {e} ELSE seen
    /\ UNCHANGED <<request, pc, got, content_length, parsed, response, refused>>

(***************************************************************************)
(* Receiving. A recv that finds the connection closed sets stop, and a      *)
(* stopped EndPoint builds and sends nothing.                               *)
(***************************************************************************)
Receive == sent > got /\ got' = got + 1
Stopped == sent = got /\ closed # "open"
Goto(label) == pc' = label

\* Mutant: what was received so far is enough when the client stops.
BuildsAnyway == "build"

\* "Recv No Error, Begin Build And Send" is skipped.
AfterStop == "delete"

RecvHttpRequestLine ==
    /\ pc = "line"
    /\ \/ Receive /\ Goto("header")
       \/ Stopped /\ Goto(AfterStop) /\ UNCHANGED got
    /\ UNCHANGED <<request, files, content_length, parsed, response, opened, history>>

\* RecvHttpRequestHeader, both parsers, and IsNeedRecvHttpRequestBody.
RecvHttpRequestHeader ==
    /\ pc = "header"
    /\ \/ /\ Receive
          /\ content_length' = IF client.method = "POST" /\ client.length # None
                                 THEN client.length ELSE 0
          /\ Goto("body")
       \/ Stopped /\ Goto(AfterStop) /\ UNCHANGED <<got, content_length>>
    /\ UNCHANGED <<request, files, parsed, response, opened, history>>

\* while(content_length): a negative number does not reach zero.
RecvHttpRequestBody ==
    /\ pc = "body"
    /\ \/ /\ content_length # 0 /\ Receive
          /\ content_length' = content_length - 1
          /\ UNCHANGED pc
       \/ content_length # 0 /\ Stopped /\ Goto(AfterStop) /\ UNCHANGED <<got, content_length>>
       \/ content_length = 0 /\ Goto("build") /\ UNCHANGED <<got, content_length>>
    /\ UNCHANGED <<request, files, parsed, response, opened, history>>

(***************************************************************************)
(* BuildHttpResponse.                                                       *)
(***************************************************************************)
\* Mutant: find('?') used as a truth value, which npos is too.
NposIsTrue == TRUE

SetsCgi == client.method = "POST" \/ client.query

ChoosePath ==
    /\ pc = "build"
    /\ IF client.method = "OTHER"
         THEN code' = 400 /\ Goto("error_open") /\ UNCHANGED <<parsed, seen>>
         ELSE /\ cgi' = SetsCgi
              /\ path' = IF client.path = "dir" THEN "dir" ELSE Chosen(client.path)
              /\ seen' = {www[Chosen(client.path)]}
              /\ Goto("stat")
              /\ UNCHANGED <<size, code>>
    /\ UNCHANGED <<request, files, got, content_length, announced, body, sending, opened, refused>>

\* A file or a directory; x bits of either make it CGI. The size is an int.
UseStat(entry) == /\ cgi' = (cgi \/ entry.exec)
                  /\ size' = Narrow(entry.size)
                  /\ Goto("serve")

Stat ==
    /\ pc = "stat"
    /\ CASE path = "dir" -> path' = "index" /\ Goto("stat_index") /\ UNCHANGED <<cgi, size, code>>
         [] path # "dir" /\ www[path] = Missing ->
              code' = 404 /\ Goto("error_open") /\ UNCHANGED parsed
         [] OTHER -> UseStat(www[path]) /\ UNCHANGED <<path, code>>
    /\ UNCHANGED <<request, files, got, content_length, announced, body, sending, opened, history>>

\* The second stat's result is not tested: without an index the directory's
\* own attributes stay, and directories have x bits.
StatIndex ==
    /\ pc = "stat_index"
    /\ UseStat(IF www["index"] = Missing THEN Directory ELSE www["index"])
    /\ UNCHANGED <<request, files, got, content_length, path, response, opened, history>>

\* open may refuse a file that is there, for want of a permission or a descriptor.
Opens(name) == /\ www[name] # Missing
               /\ fd' = www[name].size /\ linked' = TRUE
               /\ UNCHANGED refused
OpenFails(name) == /\ refused' = IF www[name] = Missing THEN refused ELSE refused \cup {name}
                   /\ UNCHANGED opened

ProcessNonCgi ==
    /\ pc = "serve" /\ ~cgi
    /\ \/ Opens(path) /\ code' = 200 /\ Goto("ok")
       \/ OpenFails(path) /\ code' = 404 /\ Goto("error_open")
    /\ UNCHANGED <<request, files, got, content_length, parsed, announced, body, sending, seen>>

\* ProcessCgi as module Cgi leaves it: a program that cannot be executed is a
\* 400; one that can ends in any way; pipe or fork may fail; and a program that
\* never ends, of this request or of one that holds its pipe ends, keeps the worker.
ProcessCgi ==
    /\ pc = "serve" /\ cgi
    /\ \/ Goto("hung") /\ UNCHANGED <<code, body>>
       \/ /\ \/ /\ www[path] \in Executable
                /\ code' \in {200, 400, 500}
                /\ body' \in 0..MaxOutput
             \/ www[path] \notin Executable /\ code' = 400 /\ UNCHANGED body
             \/ code' \in {404, 500} /\ UNCHANGED body
          /\ Goto(IF code' = 200 THEN "ok" ELSE "error_open")
    /\ UNCHANGED <<request, files, got, content_length, parsed, announced, sending, opened, history>>

BuildOkResponse ==
    /\ pc = "ok"
    /\ announced' = IF cgi THEN body ELSE size
    /\ Goto("send")
    /\ UNCHANGED <<request, files, got, content_length, parsed, code, body, sending, opened, history>>

\* Mutant: http_request.cgi is not reset.
CgiKept == cgi

CgiOfError == FALSE

\* HandlerError, up to the open of the page every error shares.
HandlerErrorOpen ==
    /\ pc = "error_open"
    /\ cgi' = CgiOfError
    /\ path' = "404"
    /\ \/ Opens("404") /\ Goto("error_stat")
       \/ OpenFails("404") /\ Goto("send")
    /\ UNCHANGED <<request, files, got, content_length, size, response, seen>>

\* The stat after it, whose result is not tested: st may stay uninitialised. Its
\* st_size is announced as it is and kept as an int.
HandlerErrorStat ==
    /\ pc = "error_stat"
    /\ \E st_size \in IF www["404"] = Missing THEN Offs ELSE {www["404"].size} :
         announced' = st_size /\ size' = Narrow(st_size)
    /\ Goto("send")
    /\ UNCHANGED <<request, files, got, content_length, path, cgi, code, body, sending, opened, history>>

(***************************************************************************)
(* SendHttpResponse. The socket takes blocks while the client has room for  *)
(* them and blocks the worker while it has not; the head always fits. Once  *)
(* the client is gone sends fail, sooner or later and then for good. The    *)
(* result of sendfile is not looked at; that of send is kept in a size_t,   *)
(* where the -1 of a failure is positive: the loop steps back by one until  *)
(* total wraps past every size.                                             *)
(***************************************************************************)
Smaller(a, b) == IF a <= b THEN a ELSE b
Room == SendBuf - buffered

\* What sendfile transfers in all: at most size, SendMax and what the file has now,
\* and nothing (EBADF, EINVAL) without a descriptor or with a negative size.
Full == IF fd = None \/ size <= 0 THEN 0 ELSE Smaller(Smaller(size, SendMax), fd)

\* sendfile moves a block.
SendFile ==
    /\ pc = "send" /\ ~cgi
    /\ delivered < Full /\ Room > 0
    /\ delivered' = delivered + 1 /\ buffered' = buffered + 1
    /\ UNCHANGED <<request, files, pc, got, content_length, parsed, code, announced, body, total,
                   opened, history>>

SendFileEnds ==
    /\ pc = "send" /\ ~cgi
    /\ delivered >= Full \/ closed = "gone"
    /\ fd' = None /\ linked' = FALSE
    /\ Goto("sent")
    /\ UNCHANGED <<request, files, got, content_length, parsed, response, history>>

\* Mutants: total in a signed integer; total clamped at zero; every send passes
\* the whole size.
Signed == total - 1
Clamped == IF total = 0 THEN 0 ELSE total - 1
WholeSize == body

StepBack == (total + SizeT - 1) % SizeT
Rest == body - total

SendBody ==
    /\ pc = "send" /\ cgi
    /\ total < body
    /\ \/ /\ total = delivered     \* no send succeeds after one that failed
          /\ \E n \in 1..Smaller(Rest, Room) :
               total' = total + n /\ delivered' = delivered + n /\ buffered' = buffered + n
       \/ /\ closed = "gone"
          /\ total' = StepBack
          /\ UNCHANGED <<delivered, buffered>>
    /\ UNCHANGED <<request, files, pc, got, content_length, parsed, code, announced, body, opened,
                   history>>

SendBodyEnds ==
    /\ pc = "send" /\ cgi
    /\ total >= body
    /\ Goto("sent")
    /\ UNCHANGED <<request, files, got, content_length, parsed, response, opened, history>>

\* ~EndPoint closes the connection.
Delete ==
    /\ pc \in {"sent", "delete"}
    /\ Goto(IF pc = "sent" THEN "answered" ELSE "dropped")
    /\ UNCHANGED <<request, files, got, content_length, parsed, response, opened, history>>

Worker == \/ RecvHttpRequestLine \/ RecvHttpRequestHeader \/ RecvHttpRequestBody
          \/ ChoosePath \/ Stat \/ StatIndex \/ ProcessNonCgi \/ ProcessCgi
          \/ BuildOkResponse \/ HandlerErrorOpen \/ HandlerErrorStat
          \/ SendFile \/ SendFileEnds \/ SendBody \/ SendBodyEnds \/ Delete
Next == \/ Worker
        \/ ClientSend \/ ClientRead \/ ClientClose
        \/ \E name \in Names, inplace \in BOOLEAN : Change(name, inplace)

SafeSpec == Init /\ [][Next]_vars

\* The worker runs; the client need not send, read or close, nor anybody touch
\* wwwroot.
Spec == SafeSpec /\ WF_vars(Worker)

(***************************************************************************)
(* Properties.                                                              *)
(***************************************************************************)
Receiving == {"line", "header", "body"}
Decided == {"ok", "error_open", "error_stat", "send", "sent", "answered"}
Needed == 2 + IF client.method = "POST" /\ client.length # None THEN client.length ELSE 0

\* The type of the state.
FlagsOK == cgi \in BOOLEAN /\ linked \in BOOLEAN
ValuesOK == /\ client \in Clients
            /\ sent \in 0..Pieces /\ got \in 0..sent
            /\ closed \in {"open", "half", "gone"}
            /\ www \in [Names -> Entries] /\ changes \in 0..MaxChanges
            /\ pc \in Receiving \cup Deciding \cup Decided
                        \cup {"build", "hung", "delete", "dropped"}
            /\ content_length \in Int
            /\ path \in Names \cup {"dir", None}
            /\ size \in Ints \cup {None}
            /\ code \in {200, 400, 404, 500}
            /\ fd \in 0..MaxOff \cup {None}
            /\ announced \in Int \cup {None}
            /\ body \in 0..MaxOutput /\ delivered \in Nat
            /\ buffered \in 0..SendBuf /\ total \in 0..(SizeT - 1)
            /\ seen \subseteq Entries /\ refused \subseteq Names
TypeOK == FlagsOK /\ ValuesOK

\* Nothing is built from half a request: when the worker starts to build it has
\* received the headers and exactly the body they announce, which a negative
\* Content-Length never lets it.
WholeRequest == pc \notin Receiving \cup {"delete", "dropped"} =>
                  got = Needed /\ content_length = 0

\* The headers are true of the body. The client is never sent more than the length
\* they announce (a negative number is none), nor anything when they announce none,
\* however stat, open and sendfile raced with changes, though an uninitialised size
\* may have been announced, and also when a failed program had printed something.
\* If wwwroot did not change and the client stayed, it is sent exactly what was
\* announced, and of a file all there is, up to what one sendfile transfers and an int
\* counts; only an error whose page cannot be opened has no body.
Stayed == changes = 0 /\ closed # "gone"
BodyAsAnnounced ==
    /\ announced = None => delivered = 0
    /\ announced # None /\ announced >= 0 => delivered <= announced
    /\ pc = "answered" /\ Stayed =>
         IF announced = None
           THEN code # 200 /\ (www["404"] = Missing \/ "404" \in refused)
           ELSE \/ delivered = announced /\ (~cgi => announced = www[path].size)
                \/ ~cgi /\ www[path].size > SendMax

\* The status is true of some moment of the handling: 200 only for a name that
\* was there (and executable, if a program answered), and a plain GET of a file
\* that stayed a plain file all the time is a 200 with one of its sizes, as an int
\* has it, or a 404 if the file would not open.
StatusIsTrue ==
    pc \in Decided =>
      /\ code = 200 => IF cgi THEN seen \cap Executable # {} ELSE seen # {Missing}
      /\ (/\ client.method = "GET" /\ ~client.query
          /\ seen \cap (Executable \cup {Missing}) = {}) =>
            /\ ~cgi
            /\ IF Chosen(client.path) \in refused
                 THEN code = 404
                 ELSE /\ code = 200
                      /\ announced # None => announced \in {Narrow(e.size) : e \in seen}

\* The send loop reads only from the body: total is within it, or the loop is over.
SendStaysInBody == pc = "send" /\ cgi => total <= body \/ total = SizeT - 1

\* The worker is in a send that a client holds who stays and does not read.
Unsent == IF cgi THEN total < body ELSE delivered < Full
Unread == pc = "send" /\ Unsent /\ Room = 0 /\ closed # "gone"

\* Liveness: a client that has sent all it announced is answered, also when it
\* then closes; one that closes early is dropped; no failed send loops for ever.
\* Only a program that never ends, or a client that stays and stops reading for
\* good, keeps the worker.
Completes == /\ (sent >= Needed /\ Needed >= 2) ~> (pc \in {"answered", "hung"} \/ []Unread)
             /\ (closed # "open") ~> (pc \in {"answered", "dropped", "hung"} \/ []Unread)

\* The safety half of Completes: the worker comes to rest where recv has nothing for
\* it, or the socket no room while the client stays; then a client that has sent
\* all it announced is answered, and one that has closed is answered or dropped,
\* unless a program or the client's not reading holds the worker.
Resting == \/ pc \in {"answered", "dropped", "hung"}
           \/ /\ pc \in {"line", "header"} \/ (pc = "body" /\ content_length # 0)
              /\ sent = got /\ closed = "open"
           \/ /\ pc = "send" /\ Unsent /\ closed # "gone"
              /\ Room = 0 \/ (cgi /\ total # delivered)
Held == pc = "hung" \/ Unread
RestIsDone == Resting => \/ Held
                         \/ /\ sent >= Needed /\ Needed >= 2 => pc = "answered"
                            /\ closed # "open" => pc \in {"answered", "dropped"}
==============================================================================

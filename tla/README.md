# A verification development of Linux_basic

The repository is a course on Linux system programming: some forty directories
of exercises, and a handful of servers with real concurrency. This directory
models the parts where interleavings, partial data, full buffers, failing calls
or leftover state decide whether the program is right: the HTTP server
`src/myHttp`, the reactor `src/lesson37` and its level-triggered predecessors in
`src/lesson35` and `src/lesson36`, the network calculator `src/lesson31`, the
thread pools of `src/lesson28` to `src/lesson30`, the two producer/consumer queues
of `src/lesson26` and `src/lesson27`, and the ticket sale of `src/lesson25`. Plain
exercises that make one call after another are listed at the end and not modelled.

Run from this directory: `tlc -config MCThreadPool.cfg MCThreadPool` checks a
model (likewise for the other `.cfg` files), `tlapm ThreadPoolProofs.tla` checks
a proof module.

## 1. Inventory

### myHttp: an HTTP/1.0 server with a thread pool and CGI

| component | state | operations | interacts with |
|---|---|---|---|
| listening socket (`TcpServer.hpp`, `main.cc`) | one socket, a singleton | socket, bind, listen once | the accept loop |
| accept loop (`HttpServer.hpp`) | none of its own | accept, make a `Task`, `getinstance()->PushTask` | thread pool |
| thread pool (`ThreadPool.hpp`, `Task.hpp`) | `task_queue`, `lock`, `cond`, `single_instance`, the static `_mutex` | `getinstance`, `InitThreadPool`, `PushTask`, `ThreadRoutinue`, `PopTask` | every worker runs `CallBack` on one connection |
| line reader (`Util.hpp`) | bytes consumed, the line so far | `ReadLine`: recv one byte, peek one after `\r` | called for the request line and each header |
| end point (`Protocol.hpp`) | request, response, `stop`, `fd`, `status_code` | receive, parse, `BuildHttpResponse`, `HandlerError`, `SendHttpResponse` | the client over TCP, the files under `wwwroot`, CGI |
| CGI (`Protocol.hpp` `ProcessCgi`, `cgi/comm.hpp`, `cgi/*`) | two pipes per request, the child, every copy of every pipe end | pipe, fork, close, write, read, waitpid; in the child dup2, execl, `GetQueryString`, print, exit | the other workers, whose pipe ends every child inherits |

Hard behaviours. PushTask signals *after* it unlocks, a woken worker competes
again for the mutex, and wakeups may be spurious. The singleton is built by
double-checked locking and is visible before its workers exist; `pthread_create`
may fail part-way and nobody looks. A worker reads and sends with blocking calls, so a
client that is silent or does not read keeps it, and so does a program that never ends. The size
in a response header comes from a `stat` made before the file is opened and sent, is kept in an
`int`, and may be uninitialised; the open may fail for a file that is there. `send` results are
kept in a `size_t`.
Nothing is close-on-exec, so the pipe ends of concurrent CGI requests leak into
each other's children; the parent writes a whole body before it reads anything.

Correct means: one pool; every accepted connection handled exactly once and,
unless the workers are held by others, eventually; a pop never on an empty
queue; no response built from part of a request; never more body than announced; a
status that was true at some moment; every request answered or dropped whose client reads and
whose program ends; CGI output complete and its status that of the program; no descriptor left behind by a
request that ran.

### lesson37: an edge-triggered epoll reactor

| component | state | operations | interacts with |
|---|---|---|---|
| event loop (`TcpServer.hpp`, `Epoll.hpp`) | `_connections`, `_revs`, the epoll's interest sets | `LoopOnce`, `Accepter`, `Recver`, `Sender`, `EXcepter`, `EnableReadWrite`, `AddConnection` | the kernel's ready list |
| connection | `_inbuffer`, `_outbuffer` | appended by recv, cut by `SpliteMessage`; appended by `NetCal`, sent by `Sender` | its client |
| protocol and application (`Protocol.hpp`, `main.cc`) | none | cut at the separator `X`, parse, compute, serialise | appends to `_outbuffer` and enables EPOLLOUT |

Hard behaviours. An edge is reported once: data or space that appears at the wrong
moment is never mentioned again. Requests arrive in any pieces, answers leave in
any pieces. Errors delete a connection while the handler, or the other half of
the same event, still runs; descriptors are reused. accept may fail for want of
descriptors while connections wait.

Correct means: each client gets the answers to its well-formed requests, once and
in order; no byte lost between socket and message; no edge lost; an event reaches
the connection it was for; the assertions of the code hold (one does not).

### lesson35 and lesson36: level-triggered servers

| component | state | operations | interacts with |
|---|---|---|---|
| select and poll servers (`selectServer.hpp`, `pollServer.hpp`) | the array of descriptors, slot 0 the listening socket; the result of the last call | build the set, `select` or `poll`, `HandlerEvent` over all slots, `Accepter`, `Recver` | the kernel, the clients |
| epoll server (`EpollServer.hpp`, `Epoll.hpp`) | the interest set, `_revs` | `LoopOnce`, `HandlerEvents`, `Accepter`, `Recver`, `CtlEpoll` | the same |

Hard behaviours. One thread makes blocking calls on the strength of a snapshot that
it goes through while slots and descriptors are freed and reused. The array, the
descriptors and `_revs` have limits, which are reached in different orders. accept,
select, poll and `EPOLL_CTL_ADD` may fail.

Correct means: no call blocks; every open socket is watched exactly once and every
watched socket is open; whatever is sent is read and whatever ends is closed.

### lesson31: a network calculator

| component | state | operations | interacts with |
|---|---|---|---|
| framing (`Protocol.hpp`) | none | `Encode`, `Recv` (appends), `Decode` (cuts one message) | both ends |
| server (`TcpServer.hpp`, `CalServer.cc`) | a thread and a buffer for each connection | accept, `pthread_create`, `calculator`, close | its client |
| client (`CalClient.cc`) | a buffer | ask, send, receive until one answer is there | its server |

Hard behaviours. The stream arrives in any pieces. The server decodes one message for
each recv, so what arrives together is not answered together. Nobody looks whether a
thread was created. Descriptors are reused by other threads.

Correct means: answers whole, in order, for their own client; a client that waits for
each answer gets it.

### lesson28, lesson29, lesson30: earlier thread pools

The pools that became the one of myHttp. lesson28 has no singleton; lesson29 has
the control of myHttp's; lesson30 separates construction from `run` and signals
while it holds the mutex. They promise what myHttp's promises.

### lesson26 and lesson27: bounded queues

| component | state | operations |
|---|---|---|
| blocking queue (`lesson26/consumer_producter/BlockQueue.hpp`) | `bq_`, `mtx_`, two condition variables | `Push`, `Pop`, and the waits in their while loops |
| ring queue (`lesson27/ring_buffer/ring_queue.hpp`) | `ring_queue_`, two steps, two semaphores, two mutexes | `Push`, `Pop` |

Hard behaviours. One signal per operation and many waiters; spurious wakeups;
threads that overtake a woken one. In the ring no lock is common to both sides, and
semaphores are posted in another order than places are filled.

Correct means: both are a first-in first-out buffer of bounded size that loses,
repeats and tears nothing and where nobody sleeps beside work to do.

### lesson25: the ticket sale

Five threads sell from one counter under one static mutex; main joins them. The
branch that finds no ticket left returns with the mutex locked, so main hangs.

### Parts not modelled

`PROJECT.json` lists them all with reasons. In short:

- vendored and generated files: the MySQL client headers under
  `src/myHttp/cgi/include`, which are more than half of all lines and declarations
  only, web pages, copied output trees, binaries;
- programs of one process that make one call after another: lesson7 to 24 but for the
  ticket sale, lesson32 to 34, `mysql_cgi.cc` and its like, `tcp_client.cc`;
- programs that promise nothing a state could break: the UDP chat of lesson30 (one
  loop over a transport that may lose anything), the named pipes and shared
  memory of lesson17 and 18 (no framing and no synchronisation at all), the
  condition-variable demo of lesson26 (whoever wakes, wakes).

## 2. Modules

| module | models | kind |
|---|---|---|
| `TaskQueue` | what a pool promises | abstract |
| `ThreadPool` | `ThreadPool.hpp`, `Task.hpp`, `HttpServer.hpp`; the pools of lesson28, 29, 30 | implements `TaskQueue` |
| `ThreadPoolProofs` | | 7 theorems |
| `ReadLine` | `Util.hpp` `ReadLine`, the loops of `RecvHttpRequestLine/Header` | component with a reference definition |
| `EndPoint` | `Protocol.hpp` `EndPoint`, `CallBack` | component |
| `Cgi` | `Protocol.hpp` `ProcessCgi`, `comm.hpp`, the programs | component |
| `Calculator` | what the two calculators promise a client | abstract |
| `Reactor` | lesson37: `TcpServer.hpp`, `Epoll.hpp`, `Protocol.hpp`, `main.cc` | component with its kernel; implements `Calculator` |
| `LevelServer` | lesson35: `selectServer.hpp`, `pollServer.hpp`; lesson36: `EpollServer.hpp`, `Epoll.hpp` | component with its kernel |
| `NetCal` | lesson31: `Protocol.hpp`, `TcpServer.hpp`, `CalServer.cc`, `CalClient.cc` | both ends and the streams between them; implements `Calculator` |
| `Tickets` | lesson25: `tickets.cc` | component |
| `BoundedBuffer` | what a bounded queue promises | abstract |
| `BlockQueue`, `RingQueue` | `BlockQueue.hpp`, `ring_queue.hpp` and their demo threads | implement `BoundedBuffer` |
| `QueueProofs` | proves about `RingQueue` and, as an instance between the same threads, `BlockQueue` | 4 theorems each |
| `EndPointProofs`, `ReadLineProofs`, `CgiProofs` | | 6, 4 and 5 theorems |
| `ReactorProofs`, `LevelServerProofs` | | 7 and 4 theorems |
| `LessonProofs` | proves about `NetCal` and, as an instance, `Tickets` | 4 and 1 theorems |
| `MC*` | the instances TLC checks | |

How they fit together: `ThreadPool` hands a connection to a worker (`ProcessOn`).
What `ProcessOn` does is `EndPoint`, one connection from the first recv to close; the
connections it calls `Stuck` are those `EndPoint` does not complete: the client neither sends
nor closes, or stays without reading, or a program never ends. `EndPoint`
receives its head line by line, each line as `ReadLine` says, and abstracts a
line to one piece of the stream. Its action `ProcessCgi` takes any outcome that
`Cgi` allows, which for a `Greedy` program or beside one may be none: `Cgi` has several
requests at once, because what makes CGI hard is the pipe ends that concurrent requests leak into each other's children. The parts
are checked separately because they share no other state. `LevelServer`, `Reactor` and
`NetCal` are programs of their own; `LevelServer` is what `Reactor` grew out of, and
shows what an edge-triggered server has to worry about and a level-triggered one has not.
The reactor and the calculator of lesson31 answer the same kind of client, one with a single
thread and edges, the other with a thread for each connection and length-prefixed messages.
`Calculator` says what both are to that client, and both are shown to implement it.

### How state and actions correspond to the code

**ThreadPool.** Variables have the names of the code's (`task_queue`, `lock`,
`_mutex`); `pc[th]` is the next synchronising step, `hand[th]` the `Task` object
a thread holds, `built` counts constructions of the singleton. An action is a
critical section or one step between two synchronising calls:
`FastCheck`, `LockInstance`, `SecondCheck`, `Construct`, `CreateWorker`,
`InitReturns`, `UnlockInstance` are `getinstance` and `InitThreadPool`;
`PushLock`, `Push`, `ThreadWakeup` are `PushTask`, where the signal comes after
the unlock; `pushTask` is lesson30's, where it comes before. `WorkerLock`, `Test`, `PopTask`, `ProcessOn` are `ThreadRoutinue`.
Being blocked in `pthread_cond_wait` is `pc = "wait"`; a signal or a spurious
wakeup makes it "woken", and the worker must take the mutex and test again.
`version` is chosen at the start and says which pool it is: the four operators
`After...` are the whole difference in order between myHttp and lesson29 ("lazy"),
lesson28 and lesson30. Tasks of lesson28 and 29 always end; there `Stuck` allows more
than happens.

**ReadLine.** The stream is a sequence over an ordinary byte, CR and LF. `Recv`, `Peek`
and `Take` are the three recv calls; `ReturnLine` is the return and the
caller's reaction (append, stop at a blank line). The client sends byte by byte and
may close at any byte. The reference knows nothing of the reader: `LineEnds` are the
positions where a line of a finished stream ends, `Line` what is between an end and the
terminator of the next, and `AreLines(ls, s)` says that `ls` has one line for each
end, in order.

**EndPoint.** `pc` follows `CallBack::HandlerRequest`. The two parsers and
`IsNeedRecvHttpRequestBody` are part of `RecvHttpRequestHeader`; the path and cgi
decisions of `BuildHttpResponse` are `ChoosePath`, `Stat`, `StatIndex`, with a step
between system calls so that `wwwroot` may change there (`Change`, in place or by
replacing the file). `open` fails for a name that is missing and may fail for one that is there
(`OpenFails`; permissions, no descriptors left), which the history `refused` remembers. A file's
size is an `off_t` and is kept in an `int` (`Narrow`), so a large file has a negative or a
smaller size. `HandlerError` is an open and then a stat whose result is
not tested: when the page has gone in between, `st_size` is any `off_t`, announced
as it is and narrowed for `sendfile`. With a negative size `sendfile` fails and sends nothing
(its count is then beyond what a signed 64-bit length can be: EINVAL); otherwise it moves the
file block by block, up to the size, the file's end and its own maximum (`Full`).
A send moves blocks into a socket that holds `SendBuf` of them, and waits when it is full until
the client reads (`ClientRead`) or has gone; nothing obliges it to do either. `SendBody` counts
in a `size_t` of `SizeT` values. A worker whose program never ends is "hung".

**Cgi.** `fds[process]` is the set of pipe ends a process has; a fork copies the
server's set, which is all the leaking there is. End of file and EPIPE are
computed from these sets, never assumed. The parent's four closes are separate steps,
since another worker may fork between them. A body or an output is a number of
blocks, a pipe holds `Cap`.

**Reactor.** The kernel is modelled as far as the code depends on it: a ready list that
an arrival appends to once; `epoll_ctl` polls the descriptor and may append it;
`epoll_wait` takes up to `MaxEvents` entries off and reports what is true then;
space that appears is an edge only if a send or a poll found none before. `Dispatch`
is the loop over `_revs` with its two halves per event. `Accept`, `Recv`,
`RecvEagain`, `RecvFails`, `Send`, `SendEagain`, `SendFails` are the bodies of the
callbacks' loops, one system call each, so that clients act between any two.
`RecvEagain` ends the receiving and cuts the messages off the buffer (`message` counts
them); `NetCal` handles one of them and enables EPOLLOUT, and `NetCalEnds` is the
return of `Recver` when none is left. `Appended` is what a recv adds to `_inbuffer`: it is
appended as a C string, so what follows a zero byte is lost. `Zeros` says where clients send such
bytes, and `TextAssumption` that they do not: the code is made for text, as its comment at
`src/lesson37/TcpServer.hpp:47` says, and what is checked and proved is about such clients.

**LevelServer.** `kind` chooses among the three servers. `Select`, `Poll` and
`WaitEpoll` take the snapshot (`reported`, `_revs`); `HandlerEvent` finds the next
reported slot or event from `pos` on, and `Accepter`, `Recv`, `RecvEnds` make the one
blocking call for it, with clients acting before each. The sets are rebuilt for each
call as in the code. The epoll's ready list keeps what was reported at its end,
which is what level-triggered means, and drops what is found not ready any more
(`Places` are the places of the list that stay, `Part` the list of what is there).

**NetCal.** A message is three pieces: length, payload, closing separator. A stream
is a sequence of pieces, and a recv returns any number of those that are there;
what is not whole stays in the buffer. A thread goes by the connection it was created
for, but uses what its descriptor means at that moment (`Peer`).

**Tickets.** One action per step of `GetTicket`, and main's creations and joins.

**BlockQueue, RingQueue.** One action per critical section or semaphore operation;
the element copy is inside the critical section of its side. In the ring the
producer's and the consumer's critical sections overlap freely.

## 3. What the runs check

| run | property | what it says |
|---|---|---|
| pool | `OneInstance` | one pool, and nobody uses it before it exists |
| | `PopNonEmpty` | `front()` never on an empty queue, also after a wakeup for a task somebody else took |
| | `NoLostWakeup` | while a worker sleeps, each queued task has a worker or a signal on its way |
| | `EachTaskOnce` | each accepted connection is in exactly one place |
| | `Served` | each connection that does not hold its worker is handled, unless from then on every worker is held by one that does |
| | `TQSpec` | the pool implements `TaskQueue`, fairness included |
| cgi | `CodeTellsOutcome` | the status tells how the program ended, and a 200 has all it printed |
| | `NoPhantomBody` | `GetQueryString` never takes end of file for body |
| | `FdsAccounted` | the server keeps no ends but those of requests in flight and the ones a failed pipe or fork call leaves open; no zombies |
| | `AllFinish` | every request gets a status, though siblings hold its pipe ends |
| endpoint | `WholeRequest` | nothing is built from part of a request |
| | `BodyAsAnnounced` | never more body than a Content-Length that is a length announces, and exactly it when `wwwroot` does not change, the client stays and the file is no larger than one `sendfile` transfers |
| | `StatusIsTrue` | the status was true of the file at some moment of the handling; a plain file is a 200, or a 404 if it was refused to open |
| | `SendStaysInBody` | the send loop never reads beyond the body, also after a failed send |
| | `Completes` | a client that has sent all is answered, one that closed is got rid of, unless a program never ends or the client stays and stops reading for good |
| readline | `LinesMatch` | the lines returned are those of the reference definition, however the bytes trickle in |
| | `BodyUntouched` | the head ends at its blank line and no byte of the body is consumed |
| | `HeadCompletes` | a complete head is recognised, a closed client is noticed |
| reactor | `AnswersInOrder` | each client's answers, once and in order, across all three buffers |
| | `NothingMisread` | no byte of a text lost or counted twice between socket and messages |
| | `NoLostEdge` | what epoll will not report again, needs no report: data, space, or (unless an accept has failed) pending connections |
| | `EventForOwner` | events reach the right owner when descriptors are reused |
| | `Served` | a client that stays gets its answers |
| | `CalcSpec` | the reactor implements `Calculator` |
| level | `NeverBlocks` | accept and recv are called only where they return at once |
| | `NoneForgotten` | every open socket is watched exactly once, but for those whose `EPOLL_CTL_ADD` failed; every watched one is open |
| | `AllRead` | what is sent is read, what ends is closed, who connects is accepted or refused |
| netcal | `AnswersMatch` | a client prints the answers to its own requests, whole and in order |
| | `Answered` | `CalClient` gets every answer it waits for |
| | `CalcSpec` | server, threads and clients of any window implement `Calculator` |
| block_queue, ring_queue | `BBSpec` | the queue implements `BoundedBuffer`, fairness included |
| | `NoTornTask` | producer and consumer are never at the same place of the ring |

Each run also checks its module's `TypeOK`, except netcal and block_queue, whose types are proved
(`CalculatorTypeCorrect`, `BlockQueueTypeCorrect`). Three runs expect a violation:

- **readline_lone_cr**: the comment in `src/myHttp/Util.hpp:18` says lines may end in
  `\r`, `\n` or `\r\n`. After a `\r` the code peeks with a blocking recv; a client
  that ends its head with a lone `\r` and waits for the answer waits for ever
  (`LoneCrEndsLine`).
- **reactor_assert**: `Sender` calls `EXcepter`, which deletes the connection, and
  then goes on to use it: `EnableReadWrite` ends in `assert(res)`
  (`src/lesson37/TcpServer.hpp:142`) on a descriptor that is no longer in the epoll
  (`AssertHolds`). The model reduces the use of the deleted object to "aborted".
- **tickets**: `GetTicket` returns false without unlocking
  (`src/lesson25/mutex/tickets.cc:36`). The first thread to find no ticket leaves, as the
  comment wants; the others wait for its mutex and main for them (`MainReturns`).

Some promises are limited by what the code does, and name the limit. They hold beside the
behaviour they name and do not show it; where nothing else would show it, `PROJECT.json` lists it
as a hazard without a property.

- `NeverBlocks` and `AllRead` hold up to the first failed select or poll: `case -1` has no
  `break`, so the untouched set is handled as a result and the only thread may block.
- `Answered` is about a client with one request under way (one message is decoded per recv, and a
  client that sends two at once may never see the second answer) whose thread was created.
- `Completes` allows a client that stays and does not read, and a program that never ends, to
  keep the worker: neither send, sendfile nor waitpid has a time limit.
- `FdsAccounted` allows the pipe ends that stay open when the second pipe, or the fork, fails.
- `NoneForgotten` allows the socket that is neither watched nor closed when `EPOLL_CTL_ADD` fails.
- `NoLostEdge` and `Served` of the reactor allow connections that wait unaccepted after an accept has
  failed (`full`), since the listening socket's edge is gone.
- `StatusIsTrue` allows a 404 for a file that is there and does not open, `BodyAsAnnounced` a
  negative or reduced length for one whose size is no `int`, and any length for an error page that
  is removed between open and stat.

For every property of the other runs `PROJECT.json` names a mutant of a mapped
definition, a plausible bug (a test not repeated under the mutex, `if` for `while`, a
missing reset, an early end of a loop ...), which makes the property fail under the same
configuration. They stand in the modules right before the definition they change.

### Bounds

- *pool*: two producers (the program has one; two make `getinstance` race), two workers,
  three connections, one of them silent. Two workers are enough for one to overtake
  the other at the mutex, three tasks for a queue of two.
- *cgi*: two requests at once, pipes of one block, bodies up to two, programs that print
  0 to 2 blocks and end in all three ways, seven descriptors: two requests can need eight,
  so the second pipe call of a request may fail. (The first one cannot with these numbers; it is
  the same branch of the code, with nothing open yet.)
- *endpoint*: one connection, bodies announced correctly, too short, too long, not at
  all and negatively. An `int` goes up to 4 and an `off_t` up to 14, one `sendfile` transfers 3, so
  that of the files of 3, 6 and 14 blocks one is sent whole, one has a negative size and one a
  smaller size than it has; a fourth, of one block, is executable. Programs print up to three blocks, the
  socket holds two, so that a send is partial or waits; a `size_t` has eight values, more than any
  output. `wwwroot` changes once, anywhere; of the page and the index, the one the client
  does not name is missing at first (`MCInit`), as it is never looked at.
- *readline*: all streams of up to six bytes over three kinds of byte: two lines
  with both terminators and a byte beyond.
- *reactor*: two clients, requests of two pieces each; a send buffer for one
  answer, so that sending stops in the middle; a limit of one or two descriptors, so that in
  half of the behaviours they run out and are reused.
- *level*: three clients, select with three slots and poll with two, a limit of one or two
  descriptors: the array fills before the descriptors do, and the other way round. A
  `_revs` of two for three descriptors that can be ready at once.
- *netcal*: `CalClient` and a client with two requests under way, three requests each, so that
  a recv can end inside any piece of the next message; two descriptors.
- *tickets*: three threads and three tickets. `AtMostOneEnds` is for any number.
- *queues*: capacity two, five threads, so that each side has at times more waiters than
  there are places. Values are two, enough to see a swapped pair.

### Fairness, and where a run may stop

Threads that can run do (weak fairness of each thread's own steps). Taking a contended
mutex is strongly fair in `ThreadPool` and `BlockQueue`, because spurious wakeups could
otherwise take it for ever; glibc's mutex makes no such promise in theory and the
properties that need it are liveness only. `RingQueue` needs weak fairness only,
because `BoundedBuffer` promises progress to some thread, not to each. Nothing obliges
a client to connect, to send, to read, to close or to reset, nor a wakeup to be spurious; nor, in
`EndPoint`, a program to end.
Exceptions, stated in the modules: in `Reactor` a connected client reads its answers;
in `ReadLine` a client sends what it has; in `NetCal` a client reads the answer it waits for.
In `Tickets` a thread that keeps asking for the mutex gets it when it is free for ever or free
again and again: the hang is not starvation. Deadlock is checked for
the queues. It is off for the servers, which rightly rest when no client does anything
(and, in the pool, when every worker is held by a connection that never ends).

## 4. What is proved

Every safety invariant that a passing run checks is a theorem, and so are the five refinements:
of `TaskQueue` and `BoundedBuffer` (twice) the part without fairness, of `Calculator` (twice) all,
since it has none. For each component but `Tickets`, which does hang, a theorem
`...RestsDone` (`RequestsRestDone` for CGI) says that it never comes to rest before its promise is
kept (see below). The theorems hold for all values of the constants that satisfy
the named assumptions in the modules, and for nothing less: sets of threads finite and
disjoint, capacities, limits and windows positive (`CapAssumption`,
`BoundsAssumption`, `WindowAssumption`), CGI programs among those that are described
(`ProgramsAssumption`), `None` not a thread, task, client or number
(`NoneAssumption`), a `size_t` that can count a program's output, an `int` that can count what
`sendfile` transfers and an `off_t` that can count an output (`SizesAssumption`), clients of the
reactor that send text (`TextAssumption`), requests
and entries of `wwwroot` records of the form the comment beside
`ClientsAssumption` and `EntriesAssumption` describes. `TLC` evaluates each of them in
its run. For `Tickets`, proved as an instance, the assumption is a hypothesis of the
theorem (`Sale!Bounds`); `BlockQueue` shares the named assumptions of `RingQueue`.

| theorem | statement |
|---|---|
| `ThreadPoolProofs!TypeCorrect` | `ThreadPool` keeps `TypeOK` |
| `SingletonOnce` | ... `OneInstance` |
| `PopFindsTask` | ... `PopNonEmpty` |
| `TaskNeverLost` | ... `EachTaskOnce` |
| `WakeupNeverLost` | ... `NoLostWakeup` |
| `PoolRefinesQueue` | `SafeSpec => TQSafeSpec`, the safety part of `TQSpec` |
| `PoolRestsDone` | ... `RestIsDone`, the safety half of `Served` |
| `CgiProofs!TypeCorrect` | `Cgi` keeps `TypeOK` |
| `BodyIsNoPhantom` | ... `NoPhantomBody` |
| `DescriptorsAccounted` | ... `FdsAccounted` |
| `StatusTellsOutcome` | ... `CodeTellsOutcome` |
| `RequestsRestDone` | ... `RestIsDone`, of `AllFinish` |
| `EndPointProofs!TypeCorrect` | `EndPoint` keeps `TypeOK`, and knows which name it looks up (`Route`) |
| `RequestIsWhole` | ... `WholeRequest` |
| `BodyIsAsAnnounced` | ... `BodyAsAnnounced` |
| `StatusTrue` | ... `StatusIsTrue` |
| `SendStays` | ... `SendStaysInBody` |
| `WorkerRestsDone` | ... `RestIsDone`, of `Completes` |
| `ReadLineProofs!LineReaderTypeCorrect`, `LinesAreThose`, `BodyIsUntouched` | `ReadLine` keeps `TypeOK`, `LinesMatch`, `BodyUntouched`, for streams of any length |
| `ReaderRestsDone` | ... `RestIsDone`, of `HeadCompletes` |
| `ReactorProofs!TypeCorrect` | `Reactor` keeps `TypeOK` |
| `EventsReachTheirOwner` | ... `EventForOwner` |
| `NothingIsMisread` | ... `NothingMisread` |
| `AnswersKeepOrder` | ... `AnswersInOrder` |
| `NoEdgeIsLost` | ... `NoLostEdge` |
| `ReactorIsCalculator` | `SafeSpec => CalcSpec` |
| `ReactorRestsDone` | `Reactor` keeps `RestIsDone`, of `Served` |
| `LevelServerProofs!TypeCorrect` | `LevelServer` keeps `TypeOK`, as each of the three servers |
| `NothingBlocks` | ... `NeverBlocks` |
| `NobodyIsForgotten` | ... `NoneForgotten` |
| `ServerRestsDone` | ... `RestIsDone`, of `AllRead` |
| `CalculatorTypeCorrect`, `AnswersAreTheirs` | `NetCal` keeps `TypeOK` and `AnswersMatch` |
| `ServerIsCalculator` | `SafeSpec => CalcSpec` |
| `CalculatorRestsDone` | `NetCal` keeps `RestIsDone`, of `Answered` |
| `AtMostOneEnds` | in `Tickets` at most one thread ends and one join returns; tickets stay natural |
| `BlockQueueTypeCorrect`, `BlockQueueWakeups`, `BlockQueueRefinesBuffer`, `BlockQueueRestsDone` | `TypeOK`, `NoLostWakeup`, `SafeSpec => BBSafeSpec`, `RestIsDone` |
| `RingTypeCorrect`, `RingNeverTorn`, `RingRefinesBuffer`, `RingRestsDone` | `TypeOK`, `NoTornTask`, `SafeSpec => BBSafeSpec`, `RestIsDone` |

*Coming to rest.* The prover treats neither fairness nor ENABLED, so the liveness properties
stay with TLC. But a liveness property fails in one of two ways: somebody who could go on for
ever does not get there, or everybody waits. The second is a statement about states. Each
component has a predicate `Resting`, read off the guards of the actions that fairness obliges: a
thread rests where its next call blocks (a mutex that is held, a condition not signalled, a pipe
that is empty and has a writer, an epoll with nothing to report). `RestIsDone` says that
where all of them rest, what the liveness property promises has come. Without fairness, for any
number of threads, clients and descriptors, this is the absence of deadlock and of forgotten
work. What the proofs needed beyond the invariants above:

- pool, queues, ring: nothing. The owner of a mutex never rests, so none is held; then
  `NoLostWakeup`, or the counting of the ring, says there is no work left.
- *Cgi*: `Sending`, which accounts for every block written to a program and says that a program
  that waits to print has taken the body it wants. So no circle closes through the two
  pipes, and the ends inherited by siblings matter only while a sibling runs.
- *EndPoint*: `Giving`: the worker drops only a client that has closed before it had sent what it
  announced. A worker also rests where it is `Held`, by a program or by a client that does not
  read. *ReadLine*: `Stopped`: the reader gives up only at the end of what was sent.
- *LevelServer*: `Listed`: every registered descriptor that is ready is in the epoll's
  list, whatever was reported before. This is what level-triggered means, and no safety
  property needed it.
- *Reactor*: `Parted`, and for the rest the edge invariant: with nothing to be
  reported, `NoLostEdge` leaves no whole request in a buffer and no answer unsent.
- *NetCal*: `Waiting`: with one request under way, less than a message is left in each buffer
  between two recv. For a larger window this is false, and so is the conclusion.

*ThreadPool.* No property but the type is inductive by itself. `Control` adds that a mutex's
owner is exactly the thread whose `pc` is inside it (`Owners`), that a thread holds a
task exactly at the labels where it should (`Hands`), what is known of `built` at each
label (`Instance`: without the owner of `_mutex` one could not exclude two
constructions, and in the versions of one main thread without its being the only one),
and that the queue is not empty at "pop" (`Nonempty`). On top of
`Control`, `EachTaskOnce` and `NoLostWakeup` are inductive, the latter by counting: a step
moves one worker in or out of `OnTheWay`, and a push adds the signal it owes.
The refinement maps a push to `Submit`, a pop to `Take`, the end of a handler to
`Finish`, a thread creation to `Start` and everything else to a stutter.

*BlockQueue.* `BlockControl` is type, owner and what a thread carries; `NoLostWakeup` is then
inductive for both sides at once, since who leaves its own side's awake set has signalled
the other side.

*RingQueue.* Nothing relates the two sides but counting, so the invariant counts:
`Conserved` says that free places, claimed places, filled places and places being given
back add up to `Cap`; `Steps` that the two steps are exactly the filled places apart;
`Contents` that these places hold tasks. The counts are cardinalities of sets of threads,
and two lemmas (`Moving`, `Staying`) say how one thread's step changes them; lemma
`Remainder` replaces `%` by at most one subtraction. That a producer inside has a claimed
place and a consumer inside a filled one then gives `NoTornTask`: the steps differ
by more than nothing and less than `Cap`.

*Cgi.* That end of file means what the code takes it for is a matter of who holds which
pipe end. `Parties` says at which labels of the thread its program can be running:
an end of file that lets the thread go on comes only when the program, which has the
write end of its stdout, has exited. `Holding` and `Releasing` say which ends the server and
a child have at each label, though a fork in between copies all of them. `Finite` is there
because the limit of descriptors is counted. `Outcome` adds that what the program printed
is what was read and what is in the pipe, and that the pipe is empty at `waitpid`.

*EndPoint.* `Route` knows the name that `path` is at each `pc`, which the type of the
lookup in `www` needs. `Counting` relates what was received to what the head announced, and
gives `WholeRequest` for every announced length, negative ones too. `Descriptor` and `Promise`
say what an open descriptor, the announced length and the counters of the send loop are worth
at each step; lemma `StepsBack` is the arithmetic of adding the -1 of `send` to a `size_t`, and
`NarrowIs` that of keeping an `off_t` in an `int`: what fits is kept, what does not gets smaller, so
that no file is sent beyond the length announced. Only an uninitialised size can be larger than
the announced number, and only when that is negative.
`Quiet` says that what stat reported stays true while `wwwroot` does not change, and
`Witness` keeps in `seen` the moment of which the status is true.

*ReadLine.* The lines returned are compared with the bytes up to `Place`, which stops before
a carriage return whose successor is not decided yet. No line feed will follow a carriage
return before `Place` (`Positions`: another byte is there, or the client has closed), so more
bytes move no line end before it (`Earlier`, `EarlierLines`), and a step adds one line
(`OneMoreLine`), one byte of text (`MoreText`) or nothing. So no induction over
the stream is needed: the steps of the program are that induction. `BodyUntouched` is
about the bytes beyond the head, too; the same lemmas carry the blank line over to all that arrives.

*Reactor.* `Wiring` says that connections and accepted clients are one to one, that the ready
list has registered descriptors only, each once, and that an event of the batch is about the
connection its descriptor has now: only that of the one being handled may be gone.
`Counting` is `NothingMisread` with the types it counts with. `Ordering`
puts what the client has received, the socket and `_outbuffer` together into one stream.
`Attention` is about edges: what can be read from a connection will be, no whole message stays
in its buffer, and what waits to be sent will be, or will be reported when there is space
(`HeardOf`, `SplitOf`, `FlushedOf`); who waits to be accepted has the listener's event still to
come, unless accept has failed (`Welcomed`).

The refinement maps the piece that completes a request to `Ask` (`PieceAsks`) and a client's
read to `Answer`; everything the reactor does is a stutter. That what is read is the
first open request follows from `AnswersInOrder` (`HeadIsNext`), that it was asked
from `NothingMisread`.

*LevelServer.* `Watching` relates open sockets, clients and the array or the epoll, one to one
(`Linked`, `Arrayed`, `Registered`). `NeverBlocks` needs that what was reported and is still
ahead is true still (`Promised`). The danger is a slot or a descriptor that was freed and given
to a new connection within one round. In the array servers the listening socket is in slot 0
and looked at first, so nothing reported has been closed when it accepts, and what it takes
was not reported (`Recent`); in the epoll server, where it may come at any place, the
descriptors still ahead are open, so the lowest free one is none of them.

*NetCal.* A request and its answer pass through five places: the stream to the server, the
buffer of the thread, the stream back, the client's buffer, its output. `Chained` says that the
five, laid end to end, are one run of messages without a gap, of which the first ones are
answered. A recv, of any number of pieces, only moves the boundary between two neighbours.
`Attached` says that a thread at work uses the connection it was created for. The bound on the
buffers in `TypeOK` follows: a run is no longer than what a client may have under way.
In the refinement a request sent is `Ask` and an answer printed is `Answer`; what a client has read is
always the list of its first requests (`ReadsOn`), so the next one is the first that is open.

*Tickets.* Who is inside the mutex, or has ended, is exactly who holds it (`Held`); so two
threads that ended would be one.

## 5. What is only model-checked

Liveness and the fairness part of the refinements: `Served` (twice), `AllFinish`, `Completes`,
`HeadCompletes`, `AllRead`, `Answered`, and what `TQSpec` and `BBSpec` say beyond
`TQSafeSpec` and `BBSafeSpec`. They rest on fairness and on when an action is enabled, which the
prover used here does not treat; that nothing comes to rest too early is proved for each. That
`Resting` holds exactly where no obliged action is enabled was compared by TLC on the instances
of the runs. So are the three properties that are violated, by nature.

## 6. What the models leave out

- `ThreadPool`: the data race on `single_instance` (the fast path reads what
  `Construct` writes) is taken as one atomic word, written after construction.
- `Cgi`: locks of libraries held by other threads at the fork; programs other than those
  of the repository (one that reads stdin to its end would never see it, because the parent
  keeps the write end until `waitpid`). `AllFinish` excludes requests that are `Greedy`:
  a program that ignores a body larger than a pipe and prints more than a pipe; the
  server and such a program do block each other.
- `EndPoint`: the reset that closing with unread data causes; failing allocations;
  embedded zero bytes; the text of headers beyond what decides control; a `stat` that fails for
  another reason than a missing name; a head larger than the socket's buffer (the sends of status
  line and headers never wait).
- `Reactor`: zero bytes (`TextAssumption`); what `Recver` logs of a connection it has just deleted
  (`TcpServer.hpp:187`); failing `EPOLL_CTL_ADD`; the arithmetic of the calculator; requests of a
  client that has shut down its side are, as in the code, dropped unanswered.
- `LevelServer`: select with descriptors beyond `FD_SETSIZE` (the limit is taken below it, as it
  usually is); the standard descriptors; the bytes of a piece.
- `NetCal`: malformed messages (`Decode` of a length that is no number), the arithmetic, the
  text of a request; `Daemon.hpp`; the result of send, which the code ignores too.
- `Tickets`: a failing `pthread_create`, whose join would be undefined.
- Everywhere: logging, socket set-up, wording.

## 7. Plan

Done, in this order because the HTTP server is the repository's one complete
program and the reactor its most delicate one: pool, CGI, end point, line reader, reactor,
queues; then the level-triggered servers, the calculator, the ticket sale and the
earlier pools, which became versions of `ThreadPool` because they differ in the order
of a few steps only.

Then the proofs, in the same order: all safety invariants, the safety half of all liveness
properties, and the refinements, to which `Calculator` was added as what two programs share.
`QueueProofs` and `LessonProofs` each hold two programs, the second one as an instance.

What could still be added is small: the other half of liveness, that nobody goes on for ever
without getting there, needs a prover for fairness.

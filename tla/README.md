# SmartPay: specifications, model checking and proofs

SmartPay is a small HTTP service for payment terminals. A `POST` to
`/api/terminals/` stores a terminal's transactions and returns a new terminal
id; a `GET` of `/api/terminals/<id>` or `/api/terminals/` returns one terminal
or all of them. This directory keeps TLA+ models of it, the TLC configurations
that check them, and TLAPS proofs about the request queue, the terminals' list,
the three threads together, the callback, and the thread, lists and memory pool
of the HTTP library.

The program's own code is `src/src/equipmentMgr.c`, `src/src/runHttpServer.c` and
their headers in `src/include/`, about 680 lines. libmicrohttpd, whose thread runs
the callback, and CUnit are vendored. File names below are relative to `src/`, so
`src/equipmentMgr.c` is `src/src/equipmentMgr.c`; `connection.c`, `daemon.c`,
`response.c` and `memorypool.c` are in `libmicrohttpd/src/microhttpd/`.

## The system

Three threads:

| thread | code | what it does |
|---|---|---|
| main | `main`, runHttpServer.c 164-194 | starts the daemon, starts the manager, waits for the return key, clears `sigEqMgrFlag`, waits until the manager has set it again, joins it, stops the daemon |
| daemon | libmicrohttpd with `MHD_USE_SELECT_INTERNALLY` | one thread; calls `answerToConnection` for one connection after the other |
| manager | `mgrRoutine`, equipmentMgr.c 289-337 | polls the request queue under `reqQueueMutex`, handles a request, sets its `isResponseReady`, frees it; frees everything at the end |

| component | state | operations | interacts with |
|---|---|---|---|
| request queue | `requestQueueList`, `requestQueueTail`, the nodes' `next`, `reqQueueMutex` | `createRequestQueueItem`, `queueReq`/`addRequestToQueue`, `checkQueueAndGetRequest`, `free(newRequest)` | written by the daemon's and the manager's thread |
| terminal database | `termList`, `termListTail`, `globalTermCtr`, the nodes | `writeToDb`, `readFromDb`, `createNode`, `addNodeToList`, `getTerminalById`, `createJsonFromList`, `freeNodeList` | the manager's thread only |
| manager | `newRequest`, `headReq` | `mgrInit`, the loop, `shutDown` | takes from the queue, runs the database, tells main and the callback by flags |
| hand-over in `answerToConnection` | `request`, `jResponse` | create, queue, spin on `isResponseReady`, copy the answer, `sendResponse` | queue, manager, libmicrohttpd |
| callback protocol in `answerToConnection` | `*con_cls`, `struct postStatus`, the global `postWithDataFlag` | first call, data call, final call, refusals | libmicrohttpd decides which call comes when |
| main and shutdown | `sigEqMgrFlag` | see above | manager, daemon |
| libmicrohttpd: daemon thread | the lists of connections and of those to be freed, `connections`, `at_limit`, `data_already_pending`, `shutdown` | `MHD_polling_thread`, `MHD_select`, `MHD_accept_connection`, `call_handlers`, `MHD_cleanup_connections`, `close_all_connections` | the connections; `MHD_stop_daemon` from main's thread |
| libmicrohttpd: connection | state, `event_loop_info`, read and write buffer, the request's headers, arguments and cookies, body counters, `response`, `client_context` | `MHD_connection_handle_read`, `_write`, `_idle`; `MHD_queue_response`, `transmit_error_response` | socket, pool, `answerToConnection` |
| libmicrohttpd: memory pool | `pos` and `end` of a block of memory | allocate from either end, reallocate, reset | its connection |

What is hard in it: threads that communicate by plain flags and a shared heap
block; a start and an end in which the manager touches the queue without the
mutex; a shutdown that ends the consumer before the producer; a global flag
shared by connections that interleave; a stack buffer read before it is
written; text printed piece by piece at computed offsets into a fixed buffer; and
in the library a state machine fed with any portions of bytes, whose buffers
move, grow and are reset in a pool of fixed size while pointers to them are kept,
whose errors happen in any state, and whose single thread must neither spin nor
sleep when it has work.
`PROJECT.json` lists these hazards at their lines, with the property that looks
for each.

What makes each part correct:

* queue: it is a first-in first-out queue; no pointer in it dangles; an empty
  poll means that nothing waits; what is put in is taken out;
* database: a GET returns exactly what the POST with that id stored, a GET of all
  lists every terminal once; every walk ends; the text is well formed;
* the whole: a request that gets an answer was applied exactly once between the
  two; freed memory is not used; before the return key every request is
  answered, and after it the program ends;
* callback protocol: a POST stores its own whole body, an empty POST is told so,
  a GET serves the id in its URL, every request is served;
* library: it calls the callback as its documentation says, whatever the client
  does; its buffers do not overlap; a response's references are counted; lists and
  counter agree; requests in one connection stay in step; the thread does not
  spin, answers every request it can, and can always be stopped.

## Modules

| module | is | state and actions against the code |
|---|---|---|
| `RequestQueue` | the queue in the manager's loop | variables named as in the code; `next`, `live` are the heap; `pc[t]` is the place of thread `t`; one action per access to a shared pointer; `queued` is a history of what waits |
| `RequestFifo` | what the queue promises | `Put`, `Get`, `Finish` on a sequence |
| `RequestQueueProofs` | the theorems about `RequestQueue` | |
| `Terminals` | the answers as functions of what is stored | shared by the stores below |
| `TerminalList` | the database, pointer by pointer | one step per loop iteration; a text is the sequence of pieces printed so far with their offsets and sizes, so `PrintAt` cuts off what a later `sprintf` overwrites |
| `TerminalListProofs` | the theorems about `TerminalList` | |
| `TerminalStore` | what the database promises | `Store` appends, `Fetch` looks up |
| `SmartPay` | the whole program, EXTENDS `RequestQueue` | the queue's actions guarded and framed for the whole, `mgrInit`'s two stores and `freeNodeList`'s walk without the mutex, the contents of a request block and what `free` leaves of it, main, the daemon's rounds and its stop; `HandleRequest` does the database's work in one step, `TerminalList` shows that it may |
| `TerminalService` | what a client may rely on | `Request`, `Apply`, `Reply`, `Stop` |
| `SmartPayProofs`, `ServiceProofs` | the theorems about `SmartPay` | |
| `HttpServer` | the callback protocol | one action per kind of call of `answerToConnection`; `SendHeaders`, `SendPart`, `SendEnd`, `Abort` are the client, `Continue` and `ResponseSent` libmicrohttpd; `leaked` is a history of the blocks nobody can free any more |
| `HttpServerProofs` | the theorems about `HttpServer` | |
| `MhdCallback` | the contract of `MHD_AccessHandlerCallback` | `FirstCall`, `DataCall`, `FinalCall`, `End` on what the application has been told of a request and on `*con_cls` |
| `MemoryPool` | memorypool.c | each operation a function from a pool to a pool and a block |
| `MhdConnection` | the helpers of connection.c, EXTENDS `MemoryPool` | each a function from a connection to a connection; bytes are told apart by what they do to a parser: inside a line, the end of a kind of line, of a body, a chunk's size |
| `MhdDaemon` | the library's thread, EXTENDS `MhdConnection` | one action per case of the switch in `MHD_connection_handle_idle`, per kind of read and write, per list operation of daemon.c; `Go` stays in the switch's loop, `Break` leaves it through `MHD_connection_update_event_loop_info` |
| `MhdConnectionProofs` | the theorems about `MemoryPool`, and what each helper of `MhdConnection` keeps | |
| `MhdDaemonProofs` | the theorems about the thread's lists, rounds and memory | |
| `MhdCallbackProofs` | the theorems about what the thread reads and tells the application | |
| `MC...` | values for the constants | |

Composition. `SmartPay` is `RequestQueue` (by EXTENDS, the same variables and
actions) plus the three threads; its handling of a request is `TerminalStore`'s,
which `TerminalList` implements. `HttpServer` takes a hand-over of a request as
one step and `SmartPay` takes a request as complete when the callback has it; the
two meet in `handed`/`asked`. `HttpServer` and `MhdDaemon` are the two sides of the
callback, and meet in `MhdCallback`: `MhdDaemon!ImplementsCallback` says that the
library makes no other calls than those of the contract, with an application
that answers as it likes; `HttpServer!KeepsToCallback` says that the calls for
which `answerToConnection` was checked are calls of the contract, so that
`HttpServer` assumes nothing that the library does not do.

Operators whose comment begins with "Mutant" are not part of the model: they are
plausible mistakes in one definition each, kept to show that the property named
for them in `PROJECT.json` notices it.

### Decisions a reader should know

* The library is modelled as SmartPay starts it: `MHD_USE_SELECT_INTERNALLY`, no
  options, so one thread, `select`, no timeout, no TLS. In `HttpServer` it appears as
  the order of its calls only: the first call before the body (connection.c
  3357-3388), data calls with whatever has arrived (`process_request_body`), the
  final call (3485-3505), which is made again for a GET if no response was queued;
  `MHD_queue_response` drops a response when the daemon is stopping (3931-4017).
* In `MhdDaemon` the clients act while the thread waits in `select`. What they send
  during a round is seen in the next one, and what they sent before is as if sent
  at once, so nothing is lost. `MHD_stop_daemon` may be called at any moment.
* A request's header fields that matter (method, version, connection, cookie, expect,
  length, encoding) and the number of its arguments are chosen with its bytes and
  become known to the connection with its request line; nothing reads the fields
  before the end of the headers.
* `send` takes any number of the bytes it is offered, and fails if the client has
  gone or the socket is shut down. `recv` returns what there is.
* One callback runs at a time: the daemon has one thread. `RequestQueue` allows
  any number of callback threads, since the comment at runHttpServer.c:172
  announces one per connection, and its theorems hold for them all.
* The makefile compiles without optimisation, so a spin loop reads its flag each
  time round, and stores happen in program order.
* A freed block keeps its flag: `free` writes at most the first words of a block,
  which lie in `method` and `json`, and the thread that could allocate it again is
  the one that still waits. With `FreeEffects` containing "clobbered" the text of a
  freed block may be gone; "intact" is the lucky outcome.
* An uninitialised `endPoint` holds an element of `EndPoints`; an unset `buff` is
  `Garbage`, and printing it may end the process (`ReadUnsetBuff`).
* Memory may run out in `createNode` and for a `postStatus` (which the code does not
  check: `FirstCallWithoutMemory` ends the process), in the library for a new
  connection (`Reject`) and in a connection's pool, and a response may not be
  created. `pthread_create` may fail, unnoticed, if `Creations` contains `FALSE`.
* Once the process follows a null pointer it is in a state "crashed" and stops.
  The library does so in `transmit_error_response` if `MHD_stop_daemon` is called in
  the middle of a turn: `MHD_queue_response` drops the error response, and the
  header is built from none.

## Runs

| run | module, configuration | bounds | shows |
|---|---|---|---|
| queue | `MCRequestQueue`, `RequestQueue.cfg` | 2 callback threads, 3 blocks | `IInv`, the inductive invariant of the proofs; `QueueWhole`, `NoDanglingNode`, `EmptyPollMeansEmpty`; that it implements `RequestFifo`; that every queued request is taken |
| terminals | `MCTerminalList`, `TerminalList.cfg` | 3 terminals, 2 payloads, GETs of -1 .. 4 | types, the list's, the walks' and the printed text's invariants, no walk in freed memory, well-formed answers, that it implements `TerminalStore`, that each operation ends |
| terminals_fit | `TerminalListFits.cfg` | 11 terminals, the tests' payload | violated: the listing of seven terminals is longer than the buffer |
| smartpay | `MCSmartPay`, `SmartPay.cfg` | 2 connections, 2 requests of four kinds, 2 blocks, `pthread_create` may fail; 153 416 states | types, no use of freed memory in the queue's code from start to exit, that it implements `TerminalService`; the manager ends; requests are answered before the return key unless lost to `mgrInit` or born without a manager; the program exits unless a request was lost at the end |
| smartpay_intact | `SmartPayIntact.cfg` | 2 requests, text may be clobbered | violated: the answer is read after `free` |
| smartpay_stops | `SmartPayStops.cfg` | 1 request | violated: after the return key the program may hang in `MHD_stop_daemon` |
| http | `MCHttpServer`, `HttpServer.cfg` | 2 connections, 2 `postStatus` blocks, 3 requests: GET, empty, whole, in two parts, chunked; 120 943 states | types, each POST its own block, no data of another POST, no block that is neither held nor counted as leaked, that its calls keep to `MhdCallback` |
| http_whole | `HttpServerWhole.cfg` | 2 connections, 3 requests whose body is one packet, `endPoint` empty | bodies stored, empty POSTs told, ids served, every request served |
| http_flag | `HttpServerFlag.cfg` | 2 requests | violated: the global flag mixes up two POSTs |
| http_parts | `HttpServerParts.cfg` | 1 request | violated: only the last part of a body is stored |
| http_endpoint | `HttpServerEndPoint.cfg` | 1 request | violated: an uninitialised `endPoint` decides what a GET serves |
| mhd | `MCMhdDaemon`, `MhdDaemon.cfg` | 2 connections, one that sends any of 27 sequences of requests and one that only connects; a limit of 2 connections; a pool of 12 bytes that grows by 3; a `100 Continue` of 2 bytes; pauses after 2, 4 and 11 bytes; 167 370 states, about two and a half minutes | types; buffers apart and in the pool; one reference per response; lists, counter and limit; pipelined requests in step; closed connections cleaned; no busy round unless an error was forgotten; that it implements `MhdCallback`; every request answered; the daemon stops |

Why the bounds are enough to be interesting. The queue's code distinguishes an
empty list, a list of one and a longer one; three blocks and two threads reach
all of them with an insertion and a removal in between, and a block is freed and
used again. The walks of the database distinguish first, inner and last
terminal: three. In `SmartPay` two connections are needed for a round of the
daemon that serves two; two requests, since one callback runs at a time, let the
second meet what the first left behind (a block that is freed and used again, a
tail into freed memory, a manager in `mgrInit` or in `freeNodeList`). In
`HttpServer` every hazard takes two connections, and the third request meets what
the first two left behind. In `MhdDaemon` the sizes are scaled down together: half
the pool holds a request line and a header, so that the buffer has to grow for
longer heads, grow where it is or move, and run out; the 27 sequences hold every
kind of first line and header line, good and bad, heads that fill the pool at the
three places where it can fill, arguments and cookies for which there is room and
for which there is none, bodies with a length, chunked, with no end, with
Expect: 100-continue, and three pipelined pairs, one of them over HTTP/1.0 with
keep-alive; the pauses cut a head in the middle of a line, after it, and in its body.
A record of an argument or a cookie takes 1 byte and a response's header 1 byte and
its end, so that after records that did not fit the header of the error does not
either, as in the code, where a header is longer than a record. The second connection takes part in
everything that concerns lists, limits and rounds. The six violated
runs have the smallest bounds that show it; each is described under "findings" in
`PROJECT.json` with the comment or test it contradicts. In the terminal runs the
deadlock check is off because the process ends; in `SmartPay` because the
program ends; in `HttpServer` because requests are bounded; in `MhdDaemon` because
clients may have nothing more to send and the thread then waits. `RequestQueue`
never stops, and is checked for deadlock.

`http_whole` fixes `EndPoints` to the empty string and its bodies to one packet:
it says that the protocol is right apart from the findings, and `http_endpoint`
and `http_parts` show what happens without these assumptions. Likewise
`smartpay` uses "intact" blocks, and `smartpay_intact` drops that.

Three configurations beside the runs show what `mhd` and the theorems about it leave
out: two conditions on the clients, and the exception of `NoBusyRound`. TLC finds
each of them violated within seconds:

* `MhdDaemonCookie.cfg`, `ErrorIsSent`: a GET with a body and a Cookie header that is too
  long to be copied into the pool. `parse_cookie_header` transmits an error
  (connection.c:2092), which queues the response and closes the read side; its result
  is ignored (2710) and the state overwritten (3356). The application is not called,
  since there is a response (2279), and the connection comes to CONTINUE_SENT, where
  it reads nothing because the read side is closed and sends nothing because the body
  is not over. `MHD_connection_update_event_loop_info` says BLOCK, daemon.c:1178 makes the
  next select return at once, and the thread does nothing else until the daemon is
  stopped. The comment at 1740 says of the error that it is handled `by stopping to read
  data and sending the indicated response code and message`.

* `MhdDaemonExpect.cfg`, `NothingBeyondBody`: a POST that expects 100 Continue and has no
  body reaches CONTINUE_SENT with nothing remaining. `process_request_body` is called
  there for whatever is in the read buffer (connection.c:3404), so a GET pipelined
  behind it is given to the application as upload data, which microhttpd.h:1900
  describes as `the data being uploaded (excluding HEADERS`, and the unsigned rest of
  the body wraps (2512).
* `MhdDaemonReset.cfg`, `ResetFits`: a GET behind two empty lines lets the read buffer
  grow while it waits for more, and five GETs behind it then leave more than half a
  pool in it when `MHD_pool_reset` is called (3671).

### Fairness

`RequestQueue!Fairness`: a thread in the queue's code goes on (WF), and a thread
that waits for the mutex gets it if it is free again and again (SF). A POSIX
mutex does not promise the latter, but the manager releases it within a few
instructions and the kernel preempts it, so the code relies on it everywhere.
Nothing forces a callback to queue anything. `SmartPayFairness`: the operating
system runs each of the three threads (WF on main's, the daemon's and the
manager's steps), and both locks are SF. The return key, requests, and the
choice of the next request are not fair. `HttpServer!FairSpec`: each round of the
daemon works on each connection with input (SF), clients that do not go away
send their body to the end (WF); going away and new requests are not fair.
`TerminalList!FairSpec`: the manager's thread runs. `MhdFairSpec`: the operating
system runs the library's thread (WF), and a client that has begun to send goes on
unless it goes away (WF on its `Send`); connecting, going away and stopping are
not fair, and nothing says how much `send` takes or what the application answers.

`EveryRequestIsAnswered` names five ways in which a connection waits for ever, none
of them a fault of scheduling: an empty line before a request line is skipped but
the loop is left (connection.c:3284), so a request that came in the same packet is
looked at when more arrives; a GET with a body is answered by the first call and
its body never read, so the response is not sent (connection.c:2316); a body
of unknown length ends when the client closes; an error that was queued for the
cookies is forgotten (`IsForgotten`, above); and the response to a chunked upload
without an HTTP version is taken for one in chunks, because
`build_header_response` returns before it clears `have_chunked_upload` (1427, 1504,
3543). In the last case the connection asks to be written and there is nothing to
write, so that the thread goes round through a writable socket as long as the client
stays; `NoBusyRound`, which is about connections that can neither be read nor written,
does not speak of it. `ManagerEnds`, `EveryAskIsAnswered`
and `ExitsUnlessLost` name the lost requests and the missing manager instead of
assuming them away.

## Proofs

`RequestQueueProofs` proves, for any sets of callback threads and blocks, from
`RQAssumption` alone (the manager is not a callback thread, `NULL` is neither a
block nor a thread):

* `InductiveInvariant`: `Spec => []IInv`;
* `TypeCorrect`, `QueueIsWhole`, `NothingDangles`: the invariants that follow;
* `EmptyPoll`: the action property `EmptyPollMeansEmpty`;
* `QueueIsFifo`: `Spec => ImplementsFifo`, the refinement.

The argument. `QueueWhole` is not inductive: between the two writes of
`addRequestToQueue` the tail is a step behind, and whether the second write
restores it depends on what the thread saw at its test. `IInv` adds: who is
between lock and unlock holds the mutex (`LockInv`), so two threads are never
there together (`MutualExclusion`); the blocks that are queued, about to be
queued and in the manager's hand are live and all different (`NodesInv`); head
and `next` fields spell out `queued` (`ListInv`), `queued` being extended at the
write that makes a node reachable; and the tail is the last of `queued`, or one
step behind at the two labels in between (`TailInv`). One lemma per conjunct,
one step per action; `SetList` and `SetNext`, which extend `queued`, and `Take`
have lemmas of their own. The refinement maps `waiting` to `queued` and `inHand`
to the manager's `request`: `SetList` and `SetNext` are `Put`, `Take` of a
request is `Get`, `Release` is `Finish`, and everything else stutters. `IInv` is
checked by TLC in the run `queue` as well.

`TerminalListProofs` proves, for any heap, payloads and calls, from
`TLAssumption` (`NULL` is no block, payload or call, calls are well typed, a
POST carries a payload):

* `ListIsInductive`: `Spec => []ListIInv`, with `ListIInv` the pointers' types,
  `ListInv` and `LoopInv`;
* `ListIsWhole` and `LoopsStayInList`, its two parts;
* `TerminalsAreMemorySafe`: `Spec => []NoUseAfterFree`;
* `AnswersAreInductive`: `Spec => []AnswerIInv`, which adds to `ListIInv` the types of
  the text, `TextInv` and `ResponseWellFormed`;
* `TerminalsAreTyped`, `ListingsArePrintedInOrder`, `ResponsesAreWellFormed`: its parts;
* `ListImplementsStore`: `Spec => ImplementsStore`, the refinement of `TerminalStore`.

The argument. That a walk does not enter freed memory is inductive only together
with where the walk is: `LoopInv` says that `runner` is the i-th terminal or
past the end, and `ListInv` that the next field of the i-th leads to the
next one, so each iteration moves from i to i + 1 (`WalkFacts`). For
`freeNodeList` it also says that exactly the terminals from the i-th on are still
allocated (`FreeLoopInv`), for which no block may be in the list twice;
`createNode` takes a block that is not live, hence in no place of the list
(`WriteFacts`, `WriteListInv`).

`ResponseWellFormed` speaks of finished answers, and a listing is finished by
printing over its last separator at `lastIndex - 2`. `TextInv` says what is there
before: the bare frame as long as no terminal was printed, afterwards an opening
and then an entry and a separator for each terminal passed, in the order of the
list, all adjoining, with `lastIndex` at the end. The first round prints over the
closing of the frame and every other behind a separator; `PrintedFacts` is what
the two have in common (the first 2n + 1 pieces stay), so that one lemma covers
both (`PrintTerminalText`). What an answer says is read off it at the even
places, where the data are in every kind of answer. In the refinement `Call` is
`Invoke`, `WriteToDb` is `Store`, the last step of a read is `Fetch` and everything else
stutters; that a search which comes to the end answers rightly follows from
`LoopInv` (the ids passed are 1 to i - 1, none of them the one looked for). TLC checks
all parts of `AnswerIInv` in the run `terminals`.

`SmartPayProofs` proves, for any connections, requests and blocks, from
`RQAssumption` and `SPAssumption` (one callback thread; a request is a GET or a
POST and not `NULL`):

* `MemoryInvariant`: `SmartPaySpec => []MInv`;
* `ProgramIsMemorySafe`: `SmartPaySpec => []MemorySafe`;
* `TailIsNeverFollowed`: the branch for a queue that is not empty is never taken;
* `CallInvariant`: `SmartPaySpec => []CInv`;
* `ProgramIsTyped`: `SmartPaySpec => []SmartPayTypeOK`.

The argument does not rest on the mutex, which `mgrInit` and `freeNodeList` ignore.
There is one callback, and from the write that links its request until the request
is ready it looks at nothing else (`Committed`). So the queue is empty or holds
that one request (`QueueOfOne`), what the manager has in hand is in no queue
(`InHand`), and what `freeNodeList` frees is the request of a callback that will
not come back (`Freeing`). `requestQueueTail`, which `freeNodeList` leaves behind,
is then the tail of a request whose callback waits for ever.

`CInv` adds to `MInv` the call that the callback makes to the manager: what the
connections wait for (`Connections`); that the manager has ended before the daemon is
stopped, and the store is empty before it begins (`Order`); and that what the manager
has in hand is the callback's request (`InHandIsWaiting`). `MInv` and `CInv` hold
whatever `free` does to the text of a block. `SmartPayTypeOK` needs `CInv` for one of
its parts, that every text a client gets is one of `Texts`: there are as many numbers
of terminals in it as there are requests, so that no request may be stored
twice. `Counted` says it with a count that is inductive: the stored transactions and the
requests that the manager may still have to answer (`Pending`) are together no more
than the requests sent. It stops at the end of the manager, since a stopped daemon runs
the callback for a GET a second time.

`ServiceProofs` goes on to `ServiceInvariant`, `ProgramIsAService`
(`SmartPaySpec => ImplementsService`) and `AnswerIsIntact`. They have two hypotheses
of their own: `FreeEffects = {"intact"}`, which says that `free` leaves the text of a
block as it is, and that `NULL` is not one of the answer records. The first is not
something C promises: it is what the run `smartpay_intact` drops to find its
violation, and the theorem says that nothing else is wrong. `SInv` adds to `CInv`
that the block says what its client asked until it says what its client is answered
(`Faithful`), and who has an outcome (`Outcomes`). In the refinement `Ask` is
`Request`, `HandleRequest` is `Apply`, `SendResponse` is `Reply` or, when the daemon
has dropped it, a stutter, `CloseAllConnections` is `Stop`.

`HttpServerProofs` proves, for any connections, blocks and requests, from
`HSAssumption` (`NULL` and the mark of a crash are not connections or blocks, bodies
are sequences):

* `HttpInvariant`: `Spec => []HInv`;
* `HttpTypes`, `PointersAreOwn`, `BlocksAreAccounted`, `BodiesAreNotMixed`: the
  invariants of the run `http`;
* `CallsKeepToCallback`: `Spec => KeepsToCallback`, the refinement of the contract;
* `WholeBodiesAreStored`, `NoDataIsToldRight`, `GetsServeTheirUrl`: the invariants of
  the run `http_whole`, under two hypotheses of their own.

`HInv` adds to these invariants the histories' types, what `*con_cls` is between two
requests, and `BuffersAreOwn`: a `buff` that is set is an end of what its connection
was given. The sixteen actions change blocks and pointers in four ways (a POST
starts, goes on, ends, is left behind), so the steps are first sorted into these
kinds (`StepKinds`) and each conjunct is proved once per kind.

The last three need what that run's bounds say: a body is at most one packet and not
chunked, and an unset `endPoint` is empty (`Undivided`); besides, `NULL` is not a
request (`NullIsNoRequest`). The runs `http_parts`, `http_flag` and `http_endpoint` drop
a part of `Undivided` and find the violation; the theorems say that nothing else is
wrong. `WInv` adds to `HInv` that a connection whose final call is due is the one the
daemon is working on, so that there is one such connection and the global flag is its
own (`OnTheWay`, `FlagIsOurs`): the data call and the final call of an undivided body
are not parted by another connection's callback.

`MhdConnectionProofs` proves of each operation of the pool, for any size and
alignment, that the block it returns has the room asked for, lies in the pool and
overlaps no other: `AllocateIsApart`, `AllocateFromEndIsApart`, `ReallocateIsApart`,
`ResetKeepsBlock`. Then it proves of each helper of connection.c three things that
`MhdDaemonProofs` builds on: the count of references stays in step with the response
(`RefOK`); a connection that is told to stop reading has left the states in which it
reads (`Waits`); the buffers stay apart and the fields keep to their values (`Sound`,
which is `Memory` and `Typed`).

`MhdDaemonProofs` proves, for any connections, scripts, limit and sizes, from `MPAssumption`, `MCAssumption` and `MDAssumption`:

* `DaemonInvariant`: `MhdSpec => []DInv`;
* `ReferencesAreCounted`, `ListsAlwaysAgree`, `LimitIsCleared`, `NeverBusy`:
  `OneReference`, `ListsAgree`, `LimitEnds` and `NoBusyRound`;
* `RoundInvariant`: `MhdSpec => [](DInv /\ RoundInv)`;
* `MemoryInvariant`: `MhdSpec /\ []ResetFits => [](DInv /\ RoundInv /\ MemInv)`;
* `BuffersStayApart`, `DaemonIsTyped`, `ClosedAreCleaned`: `BuffersApart`, `MhdTypeOK` and
  `ClosedIsCleaned`, under the same hypothesis.

`OneReference` is not inductive: the first answer is queued without a look at what
is there, so it has to be known that a request which has not reached the
application has no response (`RefOK`). Each helper of connection.c is shown to keep
that, then each case of `MHD_connection_handle_idle` to make such a connection of
one (`Moves`), and one lemma does the rest for all of them. The other two layers
repeat this pattern with `Turned` and `Moved`. `ListsAgree` needs to
know that the connection at turn is in the list it is removed from: a round visits
each connection of the list once, and only the one at turn leaves it (`Turns`).
`LimitEnds` uses the counter.

`NoBusyRound` says that no turn ends in a state for which
`MHD_connection_update_event_loop_info` says BLOCK, but for one: BLOCK is said for
FOOTERS_RECEIVED, for a body whose buffer is full, and for a connection that should
read although its read side is closed. So it has to be known that a connection in a
state before FOOTERS_RECEIVED has its read side open, or was given an error and is to
be closed (`Waits`, `MayRead`); that the latter is never at a line of its head when its
turn ends; that a full buffer is grown or answered with an error before BLOCK can be
said; and that the response to a complete request is only missing when the daemon is
being stopped. What remains is CONTINUE_SENT with an error that was overwritten
(`IsForgotten`), which the code has: a Cookie header too long for the pool, in a request
with a body that is no upload. Without cookies the theorem would say that the thread
never spins, and that would be false of the code. `NeverBusy` names the exception;
it does not say how long it lasts.

`BuffersApart` needs four more facts (`Base`, `Stage`): the read buffer lies before
the write buffer; there is no write buffer while the read buffer may still grow; the
header that may be continued ends before the read buffer begins or lies behind it;
and a connection without a read buffer has read nothing or will be closed. That what
lies in the read buffer is made of the connection's own bytes is needed for the
types, because a chunk's size becomes the length of what follows; it comes from
`StreamType` and `FlattenType`, the one place where a recursive definition (the
community modules' `FlattenSeq`) had to be reasoned about. The library's induction
theorems cannot be instantiated here, so `LeastOf` takes their place: a set of
natural numbers that is not empty has a least one.

`ResetFits` is a condition on the run of the program, not on a constant: when the
next request of a connection begins, at most half a pool is left in the read buffer.
It is what `MHD_pool_reset` asks of its caller (memorypool.c:310, `should be larger or
equal to copy_bytes`) and what connection.c:3671 does not look at. With a longer
pipeline the read buffer is given half a pool although it holds more, and the proof
fails at that call and nowhere else. A client that sends one request at a time, or no
more than half a pool ahead (16 kB with the default of 32 kB), meets it. The clients
of the run `mhd` do: a pipelined request is 3 bytes long, the pool 12.
`MhdDaemonReset.cfg` has one that does not.

Of the assumptions two are there for these proofs. `Align <= PoolSize \div 2` says that
half a pool is a block at all; ALIGN_SIZE is two pointers and the default pool is
32 kB. `Scripts \in [Conns -> SUBSET Seq(Request)]` says what a client may send: any
number of requests of any length, with any body length, also a negative one or none.

`MhdCallbackProofs` proves, for the same constants,

* `AlwaysInStep`: `MhdSpec => []InStep`;
* `KeepsToTheContract`: `MhdSpec => ImplementsCallback`, the refinement of `MhdCallback`;
* `NothingIsGivenBeyondBody`: `MhdSpec => []NothingBeyondBody`.

They have one more hypothesis, `ClientsAreFramed`: what a client sends can be told
apart as HTTP says, a body is as long as announced, its chunks are chunks, and a
request that expects 100 Continue has a body. Without framing nobody can say where a
request ends, so there is nothing to be in step with; the clause about 100 Continue
is what `MhdDaemonExpect.cfg` drops to find its violation, and the last theorem says
that nothing else is wrong. TLC evaluates the hypothesis for the clients of the run
`mhd` (`MCFramed`). It says nothing of what the library makes of a request: it may be
malformed in its head, too long for the pool, or be answered before its body is read.

The invariant is `PlaceInv`. What a connection has in its buffer, on the wire and still
to be sent is the rest of its client's script from some place on (`Follows`), and its
own state says where that place is (`Placed`, `AtRequest`): between two requests or
in empty lines before the next; in the head, behind its request line and not past the
head's end; at so many bytes of the body, of which the application was given the data,
and, with chunks, so far before the end of the current one (`AtBody`); or at the
trailer. A connection that has stopped reading is nowhere. Each helper and each case
of the switch moves the place forward over exactly what it consumes (`LineIsNext` and
the lemmas behind it), which for a body needs that the chunks' sizes and the data
between them agree, and that the buffer is cut at a byte that ends a line.

The contract then follows from what the application has seen of a connection (`Seen`:
the calls, the size of the body, how much of it was given, `*con_cls`): a step makes
the one at turn go on as the contract allows (`Allowed`) and leaves the others alone, or
makes some of them new (`SeenStep`). In the refinement every step is thus one of
`NewRequest`, `FirstCall`, `DataCall`, `FinalCall`, `End`, or a stutter. The mapping (`Calls`,
`IsOver`) counts a request as over from the moment that its connection has been given
up, which the proof calls `Over`: it is closed, its socket is shut down, or an error was
transmitted for it (`Denied`). So there are calls of which the contract and the theorem
say nothing, two of them found by attempting the proof:

* when the arguments of a URL do not fit and there is no room for an error either, the
  connection is closed, and connection.c:3292 overwrites that state. The request goes
  on with its socket shut down: what is in the buffer is parsed, and the application
  may be called for a request whose client can get no answer;
* when `MHD_queue_response` drops the error because the daemon is being stopped, and the
  request has no version, no header is built and nothing is closed: if the error was for
  the arguments or the cookies, the request goes on without them, its read side closed,
  and the application may be called and given what the buffer holds of the body.

These three theorems do not mention `ResetFits`: the model keeps the bytes of a buffer
that the pool cannot hold, the code lets the pool's next block overwrite them. So they
speak of the code as long as `ResetFits` holds.

Only model-checked: every liveness property, since temporal proofs under fairness are
outside what the prover does. Every invariant, action property and refinement of a
passing run is stated by a theorem, some on the conditions named above.

## Not modelled

What the claims depend on. `NoBusyRound`, `EveryRequestIsAnswered`, `DaemonStops` and
`ClosedIsCleaned` are claims about every path of the library's state machine, so they
hold for the options SmartPay uses and for no others: with a timeout, a suspended
connection or a response from a callback there are more states in which a turn ends.
`ClosedIsCleaned` and `DaemonStops` also take `select`'s own errors not to happen.
`OneReference` and `EveryRequestIsAnswered` take a response to be a buffer with a known
size, which `sendResponse` makes. `BuffersApart` and the types are about the buffers
connection.c keeps, not about what it reads through them: the length of a name, a value
or a URL is any number the line has room for (`Lengths`), how many arguments and cookies
a request has is any number (`arguments`, `cookies`), related neither to the length of
the line nor to each other. That makes the theorems, which hold for all of them, only
stronger. The contract's run and theorem are about clients that frame their requests
(`ClientsAreFramed`), and those about memory about clients that keep to `ResetFits`.
For SmartPay's own code, `NoUseAfterFree`, `MemorySafe` and `PostsAccounted` say nothing
of the lengths listed here.

* Of libmicrohttpd, what SmartPay does not switch on: TLS, epoll and poll, thread
  pools, a thread per connection, timeouts, suspended and upgraded connections,
  the post processor, authentication; and, within what it does use, responses from
  a callback, HEAD, urgent data, `select`'s own errors. The
  map is therefore a small share of the lines in this directory tree, nearly all
  of which are vendored; of SmartPay's own two files it is nearly all.
* What happens to the bytes in the read buffer after a reset of the pool with more than
  half a pool of them (`ResetFits`): the model shows that it comes to that, not what
  the pool's next block does to them.
* CUnit and the test programs: no part of the running system.
* A `malloc` that returns NULL for a request or a buffer: unchecked in the code.
* The length of a body against `jsonReqResp`, of an endpoint against
  `endPoint[10]`, and of the garbage a GET copies out of its uninitialised
  buffer; the answers' lengths are in `TerminalList`.
* `isResponseReady` and `sigEqMgrFlag` under an optimising compiler or a weaker
  memory model.
* Logging, printing, JSON syntax inside the transactions, the wording of headers.

## What could follow

One callback thread per connection, as the comment at runHttpServer.c:172 announces:
`RequestQueue` is ready for it, `SmartPay` is not, and `SmartPayProofs` shows what
would be lost.

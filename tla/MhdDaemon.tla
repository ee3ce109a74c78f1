----------------------------- MODULE MhdDaemon -----------------------------
(***************************************************************************)
(* libmicrohttpd as SmartPay runs it (MHD_USE_SELECT_INTERNALLY, no        *)
(* options): one thread that waits in select and then gives every          *)
(* connection a turn, in which it reads or writes once and runs its state  *)
(* machine as far as it goes.                                              *)
(*                                                                         *)
(* A state of the machine is an action.  The clients act while the thread  *)
(* waits: what they do during a turn is only seen in the next one, or is   *)
(* as if done before.  MHD_stop_daemon may be called at any moment.        *)
(***************************************************************************)
EXTENDS MhdConnection

CONSTANTS
  Conns,      \* client connections, each opened once
  Scripts,    \* per connection: the sequences of requests its client may send
  Pauses,     \* bound: where a client may pause, in bytes from the start
  ConnLimit,  \* connection_limit
  App         \* what a set *con_cls holds

ASSUME MDAssumption ==
  ConnLimit \in Nat \ {0} /\ NULL # App /\ Scripts \in [Conns -> SUBSET Seq(Request)]

VARIABLES
  con,         \* per connection: MhdConnection's record
  script,      \* per connection: what its client has chosen to send
  todo,        \* per connection: the bytes the client has not sent yet
  wire,        \* per connection: the bytes sent and not received
  gone,        \* the connections whose client has closed them
  phase,       \* per connection: "new", "backlog", "held" or "closed"
  open,        \* the daemon's list of connections, the oldest first
  cleanup,     \* its list of connections to be freed
  connections, \* its counter of both
  atLimit,     \* at_limit: accept ran out of resources
  pending,     \* data_already_pending
  shutdown,
  dpc,         \* where the thread is
  turn,        \* connections that have their turn in this round, or wait for it
  ready,       \* connections whose socket select found ready
  fast         \* the stage of call_handlers' fast track

clientVars == <<script, todo, wire, gone>>
listVars == <<phase, open, cleanup, connections, atLimit>>
roundVars == <<turn, ready>>
vars == <<con, clientVars, listVars, pending, shutdown, dpc, roundVars, fast>>

(* The bytes of a sequence of requests; id is the request's number in it.  *)
Bytes(a, id) ==
  [i \in 1 .. Len(a.head) |-> [kind |-> a.head[i], n |-> 0, id |-> id]]
    \o [i \in 1 .. Len(a.body) |-> [kind |-> a.body[i].kind, n |-> a.body[i].n, id |-> id]]
Stream(requests) == FlattenSeq([i \in 1 .. Len(requests) |-> Bytes(requests[i], i)])
-----------------------------------------------------------------------------
(* A client connects, sends its requests in portions, and may go away at   *)
(* any time.                                                               *)
Connect(c, s) ==
  /\ dpc = "select" /\ phase[c] = "new"
  /\ phase' = [phase EXCEPT ![c] = "backlog"]
  /\ script' = [script EXCEPT ![c] = s]
  /\ todo' = [todo EXCEPT ![c] = Stream(s)]
  /\ UNCHANGED <<con, wire, gone, open, cleanup, connections, atLimit, pending, shutdown, dpc, roundVars, fast>>

Send(c) ==
  /\ dpc = "select" /\ phase[c] = "held" /\ c \notin gone
  /\ \E n \in 1 .. Len(todo[c]) :
       /\ n = Len(todo[c]) \/ Len(Stream(script[c])) - Len(todo[c]) + n \in Pauses
       /\ wire' = [wire EXCEPT ![c] = @ \o SubSeq(todo[c], 1, n)]
       /\ todo' = [todo EXCEPT ![c] = SubSeq(@, n + 1, Len(@))]
  /\ UNCHANGED <<con, script, gone, listVars, pending, shutdown, dpc, roundVars, fast>>

Leave(c) ==
  /\ dpc = "select" /\ phase[c] \in {"backlog", "held"} /\ c \notin gone
  /\ gone' = gone \cup {c}
  /\ UNCHANGED <<con, script, todo, wire, listVars, pending, shutdown, dpc, roundVars, fast>>

(* MHD_stop_daemon, from main's thread.                                    *)
Stop ==
  /\ ~shutdown /\ dpc \notin {"ended", "crashed"}
  /\ shutdown' = TRUE
  /\ UNCHANGED <<con, clientVars, listVars, pending, dpc, roundVars, fast>>
-----------------------------------------------------------------------------
(* internal_get_fdset2 and MHD_select: what the thread waits for.          *)
Listening == connections # ConnLimit /\ ~atLimit
Backlog == {c \in Conns : phase[c] = "backlog"}

Ready(c) ==
  \/ con[c].eli = "READ" /\ (wire[c] # << >> \/ c \in gone)
  \/ con[c].eli = "WRITE"
ReadyConns == {c \in ToSet(open) : Ready(c)}

Wakes == ReadyConns # {} \/ pending \/ (Listening /\ Backlog # {})

(* A round begins: pending is computed anew, and the oldest connection     *)
(* comes first.  `if (daemon->shutdown) return MHD_NO' comes before it.    *)
Round(conns) ==
  /\ turn' = conns
  /\ ready' = ReadyConns
  /\ pending' = FALSE
  /\ dpc' = IF conns = << >> THEN "cleanup" ELSE "turn"
  /\ UNCHANGED <<clientVars, shutdown, fast>>

Select ==
  /\ dpc = "select" /\ ~shutdown /\ Wakes
  /\ ~(Listening /\ Backlog # {})
  /\ Round(open)
  /\ UNCHANGED <<con, listVars>>

(* MHD_accept_connection and internal_add_connection.                      *)
Accept(c) ==
  /\ dpc = "select" /\ ~shutdown /\ Listening /\ c \in Backlog
  /\ connections' = connections + 1
  /\ phase' = [phase EXCEPT ![c] = "held"]
  /\ open' = Append(open, c)
  /\ con' = [con EXCEPT ![c] = NewConnection]
  /\ Round(open')
  /\ UNCHANGED <<cleanup, atLimit>>

(* An allocation fails: the socket is closed.                              *)
Reject(c) ==
  /\ dpc = "select" /\ ~shutdown /\ Listening /\ c \in Backlog
  /\ phase' = [phase EXCEPT ![c] = "closed"]
  /\ Round(open)
  /\ UNCHANGED <<con, open, cleanup, connections, atLimit>>

(* Mutant: at_limit is set, whether or not a connection can clear it.       *)
AcceptAlwaysLimits ==
  /\ dpc = "select" /\ ~shutdown /\ Listening /\ Backlog # {}
  /\ atLimit' = TRUE
  /\ Round(open)
  /\ UNCHANGED <<con, phase, open, cleanup, connections>>

(* accept runs out of descriptors or memory: the connection stays in the   *)
(* backlog, and is not listened for until a connection is freed.           *)
AcceptFails ==
  /\ dpc = "select" /\ ~shutdown /\ Listening /\ Backlog # {}
  /\ atLimit' = (connections # 0)
  /\ Round(open)
  /\ UNCHANGED <<con, phase, open, cleanup, connections>>
-----------------------------------------------------------------------------
(* call_handlers: what its connection becomes, and whether the thread      *)
(* stays in MHD_connection_handle_idle or, at a `break', leaves it.        *)
Cur == Head(turn)
K == con[Cur]

Became(k, where) ==
  /\ con' = [con EXCEPT ![Cur] = k]
  /\ dpc' = IF k.state = "CRASHED" THEN "crashed" ELSE where

Go(k) == Became(k, "idle") /\ UNCHANGED <<clientVars, listVars, pending, shutdown, roundVars, fast>>
Break(k) ==
  /\ \E new \in {Settle(k, shutdown)} : Became([new EXCEPT !.eli = Eli(new)], "done")
  /\ UNCHANGED <<clientVars, listVars, pending, shutdown, roundVars, fast>>

(* MHD_connection_handle_read.  recv returns what there is, or 0.  Less    *)
(* room than is in use wraps: recv is then given no limit.                 *)
HandleRead ==
  LET k == ReadyToRead(K)
      room == k.rbSize - Len(k.buf)
      n == IF room < 0 THEN Len(wire[Cur]) ELSE Smaller(Len(wire[Cur]), room)
  IN  /\ dpc = "turn" /\ Cur \in ready /\ K.eli = "READ"
      /\ fast' = IF K.state = "INIT" THEN "header" ELSE "no"
      /\ IF Full(k) THEN Became(k, "idle") ELSE Became(Received(k, SubSeq(wire[Cur], 1, n)), "idle")
      /\ wire' = [wire EXCEPT ![Cur] = SubSeq(@, n + 1, Len(@))]
      /\ UNCHANGED <<script, todo, gone, listVars, pending, shutdown, roundVars>>

(* send fails if the socket is shut down, and may if the client is gone.   *)
SendFails == K.shutWr \/ Cur \in gone
Written == (IF K.shutWr THEN {} ELSE {HandleWrite(K, n) : n \in Sendable(K)})
             \cup (IF SendFails THEN {Close(K)} ELSE {})

Write ==
  /\ dpc = "turn" /\ Cur \in ready /\ K.eli = "WRITE"
  /\ fast' = "no"
  /\ \E k \in Written : Became(k, "idle")
  /\ UNCHANGED <<clientVars, listVars, pending, shutdown, roundVars>>

NeitherReadNorWrite ==
  /\ dpc = "turn" /\ Cur \notin ready
  /\ fast' = "no"
  /\ Became(K, "idle")
  /\ UNCHANGED <<clientVars, listVars, pending, shutdown, roundVars>>

(* The body of a response is sent as it is, or in chunks.                  *)
BodyReady == {"NORMAL_BODY_READY", "CHUNKED_BODY_READY"}

(* The fast track: after a read that began a request the response is       *)
(* written at once; the socket may not take it.                            *)
FastWrite ==
  /\ dpc = "done"
  /\ \/ K.state = "HEADERS_SENDING" /\ fast = "header" /\ fast' = "body"
     \/ K.state \in BodyReady /\ fast \in {"header", "body"} /\ fast' = "no"
  /\ \E k \in Written \cup (IF K.shutWr THEN {} ELSE {K}) : Became(k, "idle")
  /\ UNCHANGED <<clientVars, listVars, pending, shutdown, roundVars>>

EndTurn ==
  /\ dpc = "done"
  /\ ~(K.state = "HEADERS_SENDING" /\ fast = "header")
  /\ ~(K.state \in BodyReady /\ fast \in {"header", "body"})
  /\ pending' = (pending \/ K.eli = "BLOCK")
  /\ turn' = Tail(turn)
  /\ dpc' = IF Tail(turn) = << >> THEN "cleanup" ELSE "turn"
  /\ fast' = "no"
  /\ UNCHANGED <<con, clientVars, listVars, shutdown, ready>>
-----------------------------------------------------------------------------
(* MHD_connection_handle_idle, a case of its switch for an action.         *)
Idle(state) == dpc = "idle" /\ K.state = state
LineStates == {"INIT", "URL_RECEIVED", "HEADER_PART_RECEIVED", "BODY_RECEIVED", "FOOTER_PART_RECEIVED"}
AtLine(states) == dpc = "idle" /\ K.state \in states /\ HasLine(K)
InFooters == K.state \in {"BODY_RECEIVED", "FOOTER_PART_RECEIVED"}

(* There is no full line: get_next_header_line lets the buffer grow.       *)
NoLine ==
  /\ dpc = "idle" /\ K.state \in LineStates /\ ~HasLine(K)
  /\ LET tooBig == K.buf # << >> /\ Full(K) /\ ~CanGrow(K)
         k == IF K.buf # << >> /\ Full(K) THEN Grown(K) ELSE K
     IN  CASE tooBig -> Go(TransmitError(K, shutdown))
           [] ~tooBig /\ k.readClosed -> Go(Close(k))
           [] OTHER -> Break(k)

(* A request line, with the arguments in its URL.  If they do not fit into *)
(* the pool an error is transmitted, or the connection is closed; the      *)
(* state that this set is overwritten.                                     *)
RequestLine(k) ==
  \E r \in {[k EXCEPT !.rq = script[Cur][Line(K).id]]} :
    \E p \in {Recorded(r, r.rq.arguments, shutdown)} :
      Go(IF p.state = "CRASHED" THEN p ELSE [p EXCEPT !.state = "URL_RECEIVED"])

(* Mutant: a malformed request line closes the connection in the middle of  *)
(* the turn.                                                                *)
FirstLineBreaks ==
  LET k == WithoutLine(K)
  IN  /\ AtLine({"INIT"})
      /\ CASE Line(K).kind = "empty" -> IF K.readClosed THEN Go(Close(k)) ELSE Break(k)
           [] Line(K).kind = "url" -> RequestLine(k)
           [] OTHER -> Break(Close(k))

(* parse_initial_message_line.  An empty line is skipped, but not what     *)
(* comes after it.                                                         *)
FirstLine ==
  LET k == WithoutLine(K)
  IN  /\ AtLine({"INIT"})
      /\ CASE Line(K).kind = "empty" -> IF K.readClosed THEN Go(Close(k)) ELSE Break(k)
           [] Line(K).kind = "url" -> RequestLine(k)
           [] OTHER -> Go(Close(k))

(* The first line after the request line, or after the last chunk.         *)
(* process_header_line closes the connection before its caller answers it. *)
HeaderLine ==
  LET k == WithoutLine(K)
  IN  /\ AtLine({"URL_RECEIVED", "BODY_RECEIVED"})
      /\ CASE Line(K).kind = "empty" ->
                Go([k EXCEPT !.state = IF InFooters THEN "FOOTERS_RECEIVED" ELSE "HEADERS_RECEIVED"])
           [] Line(K).kind = "header" ->
                \E n \in Lengths(K) :
                  Go([k EXCEPT !.state = IF InFooters THEN "FOOTER_PART_RECEIVED" ELSE "HEADER_PART_RECEIVED",
                               !.last = HeaderOf(K, n)])
           [] OTHER -> Break(TransmitError(Close(k), shutdown))

(* process_broken_line: a later line continues the header before it, or    *)
(* stores that and is the next.  Without room for the header's record the  *)
(* error is transmitted twice.                                             *)
HeaderPart ==
  /\ AtLine({"HEADER_PART_RECEIVED", "FOOTER_PART_RECEIVED"})
  /\ \/ /\ Line(K).kind = "fold"
        /\ \E n \in Lengths(K) : \E k \in {Folded(K, n)} :
             Go(IF k.last.at = NoBlock THEN TransmitError(WithoutLine(K), shutdown) ELSE k)
     \/ /\ Line(K).kind # "fold" /\ AddHeader(K).at = NoBlock
        /\ \E k \in {TransmitError(WithoutLine(K), shutdown)} :
             Go(IF k.state = "CRASHED" THEN k ELSE TransmitError(k, shutdown))
     \/ /\ Line(K).kind # "fold" /\ AddHeader(K).at # NoBlock
        /\ \E k \in {[WithoutLine(K) EXCEPT !.pool = AddHeader(K).pool]} :
             CASE Line(K).kind = "empty" ->
                    Go([k EXCEPT !.state = IF InFooters THEN "FOOTERS_RECEIVED" ELSE "HEADERS_RECEIVED"])
               [] Line(K).kind = "header" -> \E n \in Lengths(K) : Go([k EXCEPT !.last = HeaderOf(K, n)])
               [] OTHER -> Go(TransmitError(Close(k), shutdown))

(* The state is overwritten, also if an error was transmitted because of   *)
(* the cookies.                                                            *)
HeadersReceived ==
  /\ Idle("HEADERS_RECEIVED")
  /\ \E k \in {ParseHeaders(K, shutdown)} :
       Go(IF k.state \in {"CLOSED", "CRASHED"} THEN k ELSE [k EXCEPT !.state = "HEADERS_PROCESSED"])

(* The application, answerToConnection: it refuses a request or waits for  *)
(* the body of a POST; the response may be one it could not create.  It is *)
(* not called if there is a response already.                              *)
Answer(k) == QueueResponse(k, "app", k.rq.reply, shutdown)
FirstCalls(k) ==
  IF k.response # NULL THEN {k}
  ELSE {Answer(k), Close(k)} \cup (IF k.rq.method = "POST" THEN {[k EXCEPT !.context = App]} ELSE {})

(* Mutant: an early answer does not end the upload.                         *)
FirstCallReadsOn ==
  /\ Idle("HEADERS_PROCESSED")
  /\ \E k \in FirstCalls(K) :
       CASE k.state = "CLOSED" -> Go(k)
         [] k.state # "CLOSED" /\ Need100Continue(k) -> Break([k EXCEPT !.state = "CONTINUE_SENDING"])
         [] OTHER -> Go([k EXCEPT !.state = IF k.remaining = 0 THEN "FOOTERS_RECEIVED" ELSE "CONTINUE_SENT"])

FirstCall ==
  /\ Idle("HEADERS_PROCESSED")
  /\ \E k \in FirstCalls(K) :
       CASE k.state = "CLOSED" -> Go(k)
         [] k.state # "CLOSED" /\ Need100Continue(k) -> Break([k EXCEPT !.state = "CONTINUE_SENDING"])
         [] OTHER -> Go(AfterFirstCall(k))

(* What is in the read buffer is then given to the application, even if    *)
(* the request has no body.                                                *)
ContinueSending ==
  /\ Idle("CONTINUE_SENDING")
  /\ \E k \in {[K EXCEPT !.state = "CONTINUE_SENT"]} :
       CASE K.continued # ContinueLength -> Break(K)
         [] K.continued = ContinueLength /\ (K.remaining # 0 \/ K.buf = << >>) -> Go(k)
         [] OTHER -> Go(Processed(k)) \/ Go(Close(k))

(* process_request_body.  The application takes what it is given, or       *)
(* returns MHD_NO.                                                         *)
ReadChunkLine ==
  /\ Idle("CONTINUE_SENT") /\ HasBody(K) /\ AtChunkLine(K)
  /\ Go(ChunkLine(K))

DataCall ==
  /\ Idle("CONTINUE_SENT") /\ HasBody(K) /\ ~AtChunkLine(K)
  /\ \E k \in {Processed(K), Close(K)} : Go(k)

BodyWaits ==
  /\ Idle("CONTINUE_SENT") /\ ~HasBody(K) /\ ~BodyIsOver(K)
  /\ Break(K)

BodyEnds ==
  /\ Idle("CONTINUE_SENT") /\ BodyIsOver(K)
  /\ Go([K EXCEPT !.state = IF K.chunked /\ ~K.readClosed THEN "BODY_RECEIVED" ELSE "FOOTERS_RECEIVED"])

(* The final call, if there is no response yet, and the response's header. *)
FinalCall ==
  /\ Idle("FOOTERS_RECEIVED")
  /\ \E k \in IF K.response # NULL THEN {K} ELSE {Answer(K), Close(K)} :
       CASE k.state = "CLOSED" -> Go(k)
         [] k.state # "CLOSED" /\ k.response = NULL -> Break(k)
         [] k.response # NULL /\ ~Built(k) -> Go(Close(BuildHeader(k)))
         [] OTHER -> Break([BuildHeader(k) EXCEPT !.state = "HEADERS_SENDING"])

Sending ==
  /\ dpc = "idle" /\ K.state \in {"HEADERS_SENDING"} \cup BodyReady
  /\ Break(K)

(* The header is sent: without a version, build_header_response has        *)
(* neither looked at the response, which MHD_queue_response may have       *)
(* dropped, nor ended the chunked encoding of the request.                 *)
HeadersSent ==
  /\ Idle("HEADERS_SENT")
  /\ CASE K.response = NULL -> Go([K EXCEPT !.state = "CRASHED"])
       [] K.response # NULL /\ K.left = 0 -> Go([K EXCEPT !.state = "BODY_SENT"])
       [] OTHER -> Break([K EXCEPT !.state = IF K.chunked THEN "CHUNKED_BODY_READY" ELSE "NORMAL_BODY_READY"])

BodySent ==
  /\ Idle("BODY_SENT")
  /\ Go(IF Built(K) THEN [BuildHeader(K) EXCEPT !.state = "FOOTERS_SENT"] ELSE Close(BuildHeader(K)))

(* Mutant: the next request waits for a turn, although it may be buffered.  *)
FootersSentBreaks ==
  /\ Idle("FOOTERS_SENT")
  /\ Break(NextRequest(K))

FootersSent ==
  /\ Idle("FOOTERS_SENT")
  /\ Go(NextRequest(K))

(* cleanup_connection.                                                     *)
Closed ==
  /\ Idle("CLOSED")
  /\ open' = RemoveFirst(open, Cur)
  /\ cleanup' = cleanup \cup {Cur}
  /\ dpc' = "done"
  /\ UNCHANGED <<con, clientVars, phase, connections, atLimit, pending, shutdown, roundVars, fast>>

HandleIdle ==
  \/ NoLine \/ FirstLine \/ HeaderLine \/ HeaderPart \/ HeadersReceived
  \/ FirstCall \/ ContinueSending \/ ReadChunkLine \/ DataCall \/ BodyWaits \/ BodyEnds
  \/ FinalCall \/ Sending \/ HeadersSent \/ BodySent \/ FootersSent \/ Closed
-----------------------------------------------------------------------------
(* What is left of connections that are freed.                             *)
Freed(conns) ==
  /\ con' = [c \in Conns |-> IF c \in conns THEN NewConnection ELSE con[c]]
  /\ phase' = [c \in Conns |-> IF c \in conns THEN "closed" ELSE phase[c]]
  /\ script' = [c \in Conns |-> IF c \in conns THEN << >> ELSE script[c]]
  /\ todo' = [c \in Conns |-> IF c \in conns THEN << >> ELSE todo[c]]
  /\ wire' = [c \in Conns |-> IF c \in conns THEN << >> ELSE wire[c]]
  /\ gone' = gone \ conns

(* Mutant: the counter of connections is forgotten.                         *)
CleanupKeepsCount ==
  /\ dpc = "cleanup"
  /\ Freed(cleanup)
  /\ cleanup' = {}
  /\ atLimit' = (atLimit /\ cleanup = {})
  /\ dpc' = "select"
  /\ ready' = {}
  /\ UNCHANGED <<open, connections, pending, shutdown, turn, fast>>

(* MHD_cleanup_connections.                                                *)
CleanupConnections ==
  /\ dpc = "cleanup"
  /\ Freed(cleanup)
  /\ cleanup' = {}
  /\ connections' = connections - Cardinality(cleanup)
  /\ atLimit' = (atLimit /\ cleanup = {})
  /\ dpc' = "select"
  /\ ready' = {}
  /\ UNCHANGED <<open, pending, shutdown, turn, fast>>

(* Mutant: the thread leaves its loop only when it has nothing left to do.  *)
LeaveLoopWhenIdle ==
  /\ dpc = "select" /\ shutdown /\ open = << >>
  /\ Freed(ToSet(open))
  /\ open' = << >> /\ connections' = connections - Len(open)
  /\ dpc' = "ended"
  /\ atLimit' = (atLimit /\ open = << >>)
  /\ UNCHANGED <<cleanup, pending, shutdown, roundVars, fast>>

(* MHD_polling_thread leaves its loop: close_all_connections.              *)
LeaveLoop ==
  /\ dpc = "select" /\ shutdown
  /\ Freed(ToSet(open))
  /\ open' = << >> /\ connections' = connections - Len(open)
  /\ dpc' = "ended"
  /\ atLimit' = (atLimit /\ open = << >>)
  /\ UNCHANGED <<cleanup, pending, shutdown, roundVars, fast>>

PollingThread ==
  \/ Select \/ (\E c \in Conns : Accept(c) \/ Reject(c)) \/ AcceptFails
  \/ HandleRead \/ Write \/ NeitherReadNorWrite \/ FastWrite \/ EndTurn
  \/ HandleIdle
  \/ CleanupConnections \/ LeaveLoop
-----------------------------------------------------------------------------
MhdInit ==
  /\ con = [c \in Conns |-> NewConnection]
  /\ script = [c \in Conns |-> << >>] /\ todo = [c \in Conns |-> << >>] /\ wire = [c \in Conns |-> << >>]
  /\ gone = {}
  /\ phase = [c \in Conns |-> "new"]
  /\ open = << >> /\ cleanup = {} /\ connections = 0 /\ atLimit = FALSE
  /\ pending = FALSE /\ shutdown = FALSE
  /\ dpc = "select" /\ turn = << >> /\ ready = {} /\ fast = "no"

Client(c) == (\E s \in Scripts[c] : Connect(c, s)) \/ Send(c) \/ Leave(c)

MhdNext == (\E c \in Conns : Client(c)) \/ Stop \/ PollingThread

(* The operating system runs the thread, and a client that has begun and   *)
(* does not go away sends its requests to the end.                         *)
MhdSpec == MhdInit /\ [][MhdNext]_vars
MhdFairSpec == MhdSpec /\ WF_vars(PollingThread) /\ \A c \in Conns : WF_vars(Send(c))
-----------------------------------------------------------------------------
(* A client that keeps to HTTP, as far as the ends of its requests go: of  *)
(* the lines of a head, after the request line, only the last is empty,    *)
(* and there is as much of a body as the head says, or it is in chunks of  *)
(* which the last one is empty and is followed by a trailer.  A request    *)
(* whose head is not complete, or whose body has no end, is the last one.  *)
(* A request that expects `100 Continue' has a body.                       *)
HasBegun(head, i) == \E j \in 1 .. i - 1 : head[j] \in LineEnds \ {"empty"}
Complete(a) ==
  LET n == Len(a.head)
  IN  n # 0 /\ a.head[n] = "empty" /\ HasBegun(a.head, n)

IsFramedHead(head) ==
  \A i \in 1 .. Len(head) : head[i] = "empty" =>
    /\ i = 1 \/ head[i - 1] \in LineEnds
    /\ HasBegun(head, i) => i = Len(head)

IsData(a, from, to) == \A i \in from .. to : a.body[i].kind = "data"
IsTrailer(a, from) ==
  /\ from <= Len(a.body)
  /\ \A i \in from .. Len(a.body) :
       a.body[i].kind # "data" /\ (a.body[i].kind = "empty" <=> i = Len(a.body))
AreChunks(a, lines) ==
  /\ 1 \in lines /\ lines \subseteq 1 .. Len(a.body)
  /\ \A i \in lines :
       LET n == a.body[i].n
       IN  /\ a.body[i].kind = "chunk"
           /\ IF n = 0 THEN IsTrailer(a, i + 1) ELSE i + n + 1 \in lines /\ IsData(a, i + 1, i + n)

IsFramedBody(a) ==
  IF a.encoding = "chunked" THEN \E lines \in SUBSET (1 .. Len(a.body)) : AreChunks(a, lines)
  ELSE /\ IsData(a, 1, Len(a.body))
       /\ a.encoding = "none" => a.length = Len(a.body) \/ a.length < 0

IsFramed(requests) ==
  \A r \in 1 .. Len(requests) :
    LET a == requests[r]
    IN  /\ IsFramedHead(a.head)
        /\ IF Complete(a) THEN IsFramedBody(a) ELSE a.body = << >>
        /\ ~Complete(a) \/ a.encoding = "other" => r = Len(requests)
        /\ Complete(a) /\ a.expect => a.body # << >>

ClientsAreFramed == \A c \in Conns : \A s \in Scripts[c] : IsFramed(s)
-----------------------------------------------------------------------------
Held(c) == phase[c] = "held"
States == LineStates \cup
  {"HEADERS_RECEIVED", "HEADERS_PROCESSED", "CONTINUE_SENDING", "CONTINUE_SENT", "FOOTERS_RECEIVED",
   "HEADERS_SENDING", "HEADERS_SENT", "BODY_SENT", "FOOTERS_SENT", "CLOSED", "CRASHED"} \cup BodyReady

MhdTypeOK ==
  /\ \A c \in Conns :
       /\ con[c].state \in States /\ con[c].eli \in {"READ", "WRITE", "BLOCK", "CLEANUP"}
       /\ con[c].response \in {NULL, "app", "error"} /\ con[c].keepalive \in {"unknown", "use", "must_close"}
       /\ con[c].context \in {NULL, App} /\ con[c].remaining \in Int /\ con[c].chunk >= 0
       /\ con[c].unsent >= 0 /\ con[c].left >= 0 /\ con[c].continued \in 0 .. ContinueLength
       /\ script[c] \in Scripts[c] \cup {<< >>} /\ phase[c] \in {"new", "backlog", "held", "closed"}
  /\ gone \subseteq Conns /\ cleanup \subseteq Conns /\ ready \subseteq ToSet(open) \cup cleanup
  /\ ToSet(turn) \subseteq ToSet(open) \cup cleanup
  /\ connections \in 0 .. ConnLimit /\ {atLimit, pending, shutdown} \subseteq BOOLEAN
  /\ dpc \in {"select", "turn", "idle", "done", "cleanup", "ended", "crashed"}
  /\ fast \in {"no", "header", "body"}

(* What the application sees of a connection.                              *)
Asked == {"CONTINUE_SENDING", "CONTINUE_SENT", "BODY_RECEIVED", "FOOTER_PART_RECEIVED", "FOOTERS_RECEIVED"}
IsOver(k) == k.state \in {"CLOSED", "CRASHED"} \/ k.shutWr \/ (k.readClosed /\ k.response # "app")
Calls(k) ==
  IF IsOver(k) THEN "none"
  ELSE CASE k.response = "app" -> "answered"
         [] k.response = NULL -> IF k.state \in Asked THEN "started" ELSE "none"
         [] OTHER -> "none"
BodySize(a) == Cardinality({i \in 1 .. Len(a.body) : a.body[i].kind = "data"})

(* The library keeps to the contract of MHD_AccessHandlerCallback on which *)
(* answerToConnection relies: one first call, then the body, in order and  *)
(* not beyond its end, then the final call, and *con_cls is the request's  *)
(* own, however the bytes arrive and whatever goes wrong on the way.       *)
Callback == INSTANCE MhdCallback WITH
  calls <- [c \in Conns |-> Calls(con[c])],
  size <- [c \in Conns |-> IF IsOver(con[c]) THEN 0 ELSE BodySize(con[c].rq)],
  given <- [c \in Conns |-> IF Calls(con[c]) = "none" THEN 0 ELSE con[c].given],
  context <- [c \in Conns |-> IF IsOver(con[c]) THEN NULL ELSE con[c].context]
ImplementsCallback == Callback!SpecCallback

(* The read buffer, the write buffer and the header that may be continued  *)
(* lie in the pool and apart, through every growth, move and reset, and no *)
(* more is in the read buffer than fits.                                   *)
Apart(at1, size1, at2, size2) == 0 \in {size1, size2} \/ at1 + size1 <= at2 \/ at2 + size2 <= at1
InPool(k, at, size) == size = 0 \/ (0 <= at /\ at + size <= k.pool.pos)

BuffersApart ==
  \A c \in Conns :
    LET k == con[c]
    IN  /\ Len(k.buf) <= k.rbSize /\ 0 <= k.pool.pos /\ k.pool.pos <= k.pool.end /\ k.pool.end <= PoolSize
        /\ k.rb = NoBlock \/ k.rb + k.rbSize <= k.pool.pos
        /\ InPool(k, k.wb, k.wbSize) /\ Apart(k.rb, k.rbSize, k.wb, k.wbSize)
        /\ k.state \in {"HEADER_PART_RECEIVED", "FOOTER_PART_RECEIVED"} =>
             InPool(k, k.last.at, k.last.size) /\ Apart(k.last.at, k.last.size, k.rb, k.rbSize)

(* memorypool.c, MHD_pool_reset, `should be larger or equal to             *)
(* @a copy_bytes': when the next request of a connection begins, what is   *)
(* left in the read buffer fits into half of the pool.                     *)
ResetFits ==
  dpc = "idle" /\ K.state = "FOOTERS_SENT" /\ K.keepalive = "use" => Len(K.buf) <= PoolSize \div 2

(* microhttpd.h, MHD_AccessHandlerCallback, `the data being uploaded       *)
(* (excluding HEADERS': no more is given than the body of the request.     *)
NothingBeyondBody == \A c \in Conns : ~IsOver(con[c]) => con[c].given <= BodySize(con[c].rq)

(* A connection has one reference to a response that it holds, and none to *)
(* one it has given up: no path through the errors leaks it or drops it    *)
(* twice.                                                                  *)
OneReference == \A c \in Conns : con[c].refs = IF con[c].response = NULL THEN 0 ELSE 1

(* The two lists and the counter agree on which connections there are, in  *)
(* every order in which connections are accepted, closed and freed.        *)
ListsAgree ==
  /\ {c \in Conns : Held(c)} = ToSet(open) \cup cleanup
  /\ ToSet(open) \cap cleanup = {} /\ Cardinality(ToSet(open)) = Len(open)
  /\ connections = Len(open) + Cardinality(cleanup)

(* daemon.c, `Not setting at_limit flag, as there is no way it would ever  *)
(* be cleared': while it is set there is a connection whose end clears it. *)
LimitEnds == atLimit => connections # 0

(* Between two requests the connection is in step with its client: it has  *)
(* read the requests it has answered and nothing of the next, but for      *)
(* empty lines before it.                                                  *)
InStep ==
  \A c \in Conns : Held(c) /\ con[c].state = "INIT" =>
    LET rest == con[c].buf \o wire[c] \o todo[c]
        sent == Stream(script[c])
    IN  \E n \in 0 .. Len(sent) :
          /\ rest = SubSeq(sent, n + 1, Len(sent))
          /\ \A i \in 1 .. n : sent[i].id <= con[c].told \/ sent[i].kind = "empty"
          /\ \A i \in n + 1 .. Len(sent) : sent[i].id > con[c].told

(* internal_get_fdset2, `this should never happen': the thread waits with  *)
(* a closed connection in its list only if the connection's pool had no    *)
(* room for an error response, after which it is closed too late.          *)
ClosedIsCleaned ==
  dpc = "select" => \A c \in ToSet(open) : con[c].eli = "CLEANUP" =>
    ~Fits(con[c].pool, RoundToAlign(ReplyHeader + 1))

(* A connection whose head was answered with an error that nobody sends:   *)
(* what came next overwrote the state in which it is sent.                 *)
IsForgotten(k) == k.state = "CONTINUE_SENT" /\ k.keepalive = "must_close"

(* The thread does not spin for a connection that can neither be read nor  *)
(* written: a round leaves one behind only when the daemon is being        *)
(* stopped, or if an error is forgotten.                                   *)
NoBusyRound == dpc = "select" /\ pending => shutdown \/ \E c \in Conns : IsForgotten(con[c])

(* connection.c, transmit_error_response, `Handle it properly by stopping  *)
(* to read data and sending the indicated response code and message.': a   *)
(* connection that waits with an error has it to write.                    *)
ErrorIsSent ==
  dpc = "select" => \A c \in Conns : con[c].response = "error" => con[c].eli = "WRITE"

(* A client that has sent its requests is answered, or its connection is   *)
(* closed, unless the connection is stuck: at an empty line before a       *)
(* request, with a body that has no end, with a response to a request      *)
(* whose body nobody reads, with an error that is forgotten, or with a     *)
(* response that is to be sent in chunks to a client without a version.    *)
Waiting(c) ==
  Held(c) /\ c \notin gone /\ con[c].state # "CLOSED" /\ todo[c] = << >> /\ con[c].told < Len(script[c])
Stuck(c) ==
  \/ IsForgotten(con[c]) \/ con[c].state = "CHUNKED_BODY_READY"
  \/ /\ wire[c] = << >>
     /\ \/ con[c].state = "INIT" /\ HasLine(con[c]) /\ script[c][con[c].told + 1].head[1] = "empty"
        \/ con[c].state = "CONTINUE_SENT" /\ (con[c].response # NULL \/ (con[c].remaining = UNKNOWN /\ ~con[c].chunked))
EveryRequestIsAnswered == \A c \in Conns : Waiting(c) ~> (~Waiting(c) \/ Stuck(c) \/ shutdown)

(* MHD_stop_daemon can join the thread, whatever its connections are doing; *)
(* or the thread has followed the response that MHD_queue_response dropped. *)
DaemonStops == shutdown ~> dpc \in {"ended", "crashed"}
=============================================================================

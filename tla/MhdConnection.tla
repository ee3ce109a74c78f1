--------------------------- MODULE MhdConnection ---------------------------
(***************************************************************************)
(* connection.c: what one connection of libmicrohttpd keeps and how the    *)
(* helpers of its state machine change it, each as a function of the       *)
(* connection.  MhdDaemon makes steps of them.                             *)
(*                                                                         *)
(* Input is a sequence of bytes, of which a kind is all that matters:      *)
(*   "part"    a byte of a line that does not end it                       *)
(*   "url", "header", "fold", "bad", "empty"                               *)
(*             the end of a request line, a header, a continued header, a  *)
(*             line without a colon, an empty line                         *)
(*   "data"    a byte of a body                                            *)
(*   "chunk"   the line that says that a chunk of n bytes follows          *)
(***************************************************************************)
EXTENDS MemoryPool, SequencesExt

CONSTANTS
  Inc,           \* MHD_BUF_INC_SIZE, the daemon's pool_increment
  HeaderRecord,  \* sizeof (struct MHD_HTTP_Header)
  ReplyHeader,   \* the length of a response's header
  ContinueLength, \* the length of HTTP_100_CONTINUE
  NULL           \* the null pointer

ASSUME MCAssumption ==
  /\ Inc \in Nat \ {0} /\ HeaderRecord \in Nat /\ ReplyHeader \in Nat /\ NULL \notin {"app", "error"}
  /\ ContinueLength \in Nat \ {0}
  /\ Align <= PoolSize \div 2

UNKNOWN == -1      \* MHD_SIZE_UNKNOWN
ErrorBody == 1     \* the length of the body of an error response

LineEnds == {"url", "header", "fold", "bad", "empty", "chunk"}
Kinds == LineEnds \cup {"part", "data"}

(* A request, as its headers tell: NoRequest before they are known, when   *)
(* transmit_error_response assumes version 1.0.  "GET" stands for every    *)
(* method but the other two, and "other" for every encoding but chunked.   *)
(* arguments and cookies count what its URL and its Cookie header hold,    *)
(* cookie is the size of a copy of that header, 0 if there is none.        *)
NoRequest == [method |-> "none", version |-> "1.0", arguments |-> 0, connection |-> "none", cookie |-> 0, cookies |-> 0,
              expect |-> FALSE, encoding |-> "none", length |-> 0, reply |-> 0, head |-> << >>, body |-> << >>]
Request == [method : {"none", "GET", "POST", "PUT"}, version : {"none", "1.0", "1.1"}, arguments : Nat,
            connection : {"none", "close", "keep-alive"}, cookie : Nat, cookies : Nat, expect : BOOLEAN,
            encoding : {"none", "chunked", "other"}, length : Int, reply : Nat,
            head : Seq(Kinds), body : Seq([kind : Kinds, n : Nat])]

NewConnection ==
  [state |-> "INIT", eli |-> "READ",                 \* event_loop_info
   pool |-> PoolCreate,
   rb |-> NoBlock, rbSize |-> 0, buf |-> << >>,      \* read_buffer and what is in it
   wb |-> NoBlock, wbSize |-> 0, unsent |-> 0,       \* write_buffer and what is left in it
   last |-> [at |-> NoBlock, size |-> 0],            \* the header line that may be continued
   rq |-> NoRequest,
   remaining |-> 0, chunked |-> FALSE, chunk |-> 0,  \* of the body; chunk: left of the current one
   response |-> NULL, refs |-> 0, left |-> 0,        \* its references, what is left of its body
   keepalive |-> "unknown", readClosed |-> FALSE, shutWr |-> FALSE,
   continued |-> 0,                                  \* continue_message_write_offset
   context |-> NULL, given |-> 0,                    \* client_context; body bytes the application has
   told |-> 0]                                       \* history: requests answered
-----------------------------------------------------------------------------
(* Mutant: the response is forgotten, its reference is kept.                *)
DestroyLater(k) == [k EXCEPT !.response = NULL]

DestroyResponse(k) ==
  IF k.response = NULL THEN k ELSE [k EXCEPT !.response = NULL, !.refs = @ - 1]

(* MHD_connection_close_: state and socket; the memory stays until cleanup. *)
Close(k) == [DestroyResponse(k) EXCEPT !.state = "CLOSED", !.eli = "CLEANUP", !.shutWr = TRUE]

(* try_grow_read_buffer.                                                   *)
Grown(k) ==
  LET newSize == IF k.rbSize = 0 THEN PoolSize \div 2 ELSE k.rbSize + Inc
      b == PoolReallocate(k.pool, k.rb, k.rbSize, newSize)
  IN  IF b.at = NoBlock THEN k ELSE [k EXCEPT !.pool = b.pool, !.rb = b.at, !.rbSize = newSize]
CanGrow(k) == Grown(k) # k

Full(k) == Len(k.buf) = k.rbSize

(* MHD_queue_response.  A POST or PUT that is answered before its body     *)
(* came is not read any further.                                           *)
IsUpload(k) == k.rq.method \in {"POST", "PUT"}

QueueResponse(k, response, size, shutdown) ==
  LET q == [k EXCEPT !.response = response, !.refs = @ + 1, !.left = size]
  IN  IF shutdown THEN k
      ELSE IF k.state = "HEADERS_PROCESSED" /\ IsUpload(k)
           THEN [q EXCEPT !.readClosed = TRUE, !.state = "FOOTERS_RECEIVED"] ELSE q

(* keepalive_possible and what build_header_response makes of it.          *)
KeepaliveOf(k) ==
  CASE k.keepalive = "must_close" \/ k.rq.connection = "close" \/ k.readClosed -> "must_close"
    [] OTHER -> IF k.rq.version = "1.1" \/ (k.rq.version = "1.0" /\ k.rq.connection = "keep-alive")
                THEN "use" ELSE k.keepalive

(* build_header_response: fails, without a write buffer, if the pool has   *)
(* no room.  It is called a second time for the (empty) footers of an      *)
(* empty response.  Without a version there is no header.                  *)
BuildHeader(k) ==
  LET final == k.state = "FOOTERS_RECEIVED"
      size == IF k.rq.version = "none" THEN 0 ELSE IF final THEN ReplyHeader ELSE 1
      b == IF k.rq.version = "none" THEN PoolAllocateFromEnd(k.pool, 0) ELSE PoolAllocate(k.pool, size + 1)
      h == [k EXCEPT !.pool = b.pool, !.wb = b.at,
                     !.wbSize = IF k.rq.version = "none" \/ b.at = NoBlock THEN 0 ELSE size + 1,
                     !.unsent = IF b.at = NoBlock THEN 0 ELSE size]
  IN  IF final /\ k.rq.version # "none" THEN [h EXCEPT !.keepalive = KeepaliveOf(k), !.chunked = FALSE] ELSE h
Built(k) == BuildHeader(k).wb # NoBlock

(* transmit_error_response.  MHD_queue_response may have dropped the       *)
(* response; the header is then built from a null pointer.                 *)
TransmitError(k, shutdown) ==
  LET e == [DestroyResponse(k) EXCEPT !.state = "FOOTERS_RECEIVED", !.readClosed = TRUE]
      q == [QueueResponse(e, "error", ErrorBody, shutdown) EXCEPT !.keepalive = "must_close"]
  IN  IF q.response = NULL /\ q.rq.version # "none" THEN [q EXCEPT !.state = "CRASHED"]
      ELSE IF Built(q) THEN [BuildHeader(q) EXCEPT !.state = "HEADERS_SENDING"]
      ELSE Close(BuildHeader(q))

(* MHD_connection_update_event_loop_info.                                  *)
Eli(k) ==
  CASE k.state \in {"INIT", "URL_RECEIVED", "HEADER_PART_RECEIVED"} -> IF k.readClosed THEN "BLOCK" ELSE "READ"
    [] k.state = "CONTINUE_SENT" -> IF ~Full(k) /\ ~k.readClosed THEN "READ" ELSE "BLOCK"
    [] k.state \in {"BODY_RECEIVED", "FOOTER_PART_RECEIVED"} -> "READ"
    [] k.state \in {"CONTINUE_SENDING", "HEADERS_SENDING", "NORMAL_BODY_READY", "CHUNKED_BODY_READY"} -> "WRITE"
    [] k.state = "FOOTERS_RECEIVED" -> "BLOCK"
    [] OTHER -> "CLEANUP"

GrowingStates == {"INIT", "URL_RECEIVED", "HEADER_PART_RECEIVED", "CONTINUE_SENT"}

Settle(k, shutdown) ==
  CASE k.state \in GrowingStates /\ Full(k) -> IF CanGrow(k) THEN Grown(k) ELSE TransmitError(k, shutdown)
    [] k.state \in {"BODY_RECEIVED", "FOOTER_PART_RECEIVED"} /\ k.readClosed -> Close(k)
    [] OTHER -> k
-----------------------------------------------------------------------------
(* get_next_header_line: whether there is a full line, its length, its     *)
(* kind, and the connection without it.                                    *)
HasLine(k) == \E i \in 1 .. Len(k.buf) : k.buf[i].kind \in LineEnds
LineLength(k) == SelectInSeq(k.buf, LAMBDA t : t.kind \in LineEnds)
Line(k) == k.buf[LineLength(k)]
WithoutLine(k) ==
  LET n == LineLength(k)
  IN  [k EXCEPT !.buf = SubSeq(k.buf, n + 1, Len(k.buf)), !.rb = @ + n, !.rbSize = @ - n]

(* process_header_line, for a line at the start of the read buffer of k,   *)
(* of which the n bytes up to the colon are kept.                          *)
Lengths(k) == 1 .. LineLength(k)
HeaderOf(k, n) == [at |-> k.rb, size |-> n]

(* process_broken_line: n bytes of the line continue the header before it. *)
Folded(k, n) ==
  LET b == PoolReallocate(k.pool, k.last.at, k.last.size, k.last.size + n)
  IN  [WithoutLine(k) EXCEPT !.pool = b.pool, !.last = [at |-> b.at, size |-> k.last.size + n]]

(* connection_add_header.                                                  *)
AddHeader(k) == PoolAllocateFromEnd(k.pool, HeaderRecord)

(* It is called for n arguments or cookies, or until there is no room for  *)
(* a record.                                                               *)
AddHeaders(pool, n) ==
  LET each == RoundToAlign(HeaderRecord)
      fit == IF Fits(pool, n * each) THEN n ELSE (pool.end - pool.pos) \div each
  IN  [pool |-> [pool EXCEPT !.end = @ - fit * each], all |-> fit = n]

Recorded(k, n, shutdown) ==
  LET h == AddHeaders(k.pool, n)
      r == [k EXCEPT !.pool = h.pool]
  IN  IF h.all THEN r ELSE TransmitError(r, shutdown)

(* parse_cookie_header: a copy of the header is parsed.                    *)
ParseCookie(k, shutdown) ==
  LET copy == PoolAllocateFromEnd(k.pool, k.rq.cookie)
  IN  IF copy.at = NoBlock THEN TransmitError(k, shutdown)
      ELSE Recorded([k EXCEPT !.pool = copy.pool], k.rq.cookies, shutdown)

(* parse_connection_headers, which goes on if the cookies were refused.    *)
ParseHeaders(k, shutdown) ==
  LET p == ParseCookie(k, shutdown)
      invalid == k.rq.encoding = "none" /\ k.rq.length < 0
  IN  IF p.state = "CRASHED" THEN p
      ELSE IF invalid THEN Close([p EXCEPT !.remaining = 0])
      ELSE [p EXCEPT !.remaining = IF k.rq.encoding # "none" THEN UNKNOWN ELSE k.rq.length,
                     !.chunked = (k.rq.encoding = "chunked")]

(* need_100_continue.                                                      *)
Need100Continue(k) ==
  k.response = NULL /\ k.rq.version = "1.1" /\ k.rq.expect /\ k.continued < ContinueLength

(* What the state machine does after the first call.                       *)
AfterFirstCall(k) ==
  LET r == IF k.response # NULL /\ IsUpload(k) THEN [k EXCEPT !.remaining = 0, !.readClosed = TRUE] ELSE k
  IN  [r EXCEPT !.state = IF r.remaining = 0 THEN "FOOTERS_RECEIVED" ELSE "CONTINUE_SENT"]

(* process_request_body, an iteration of its loop: a chunk's size line, or *)
(* the bytes that are given to the application.                            *)
InChunks(k) == k.chunked /\ k.remaining = UNKNOWN
BodyIsOver(k) == k.remaining = 0 \/ (k.remaining = UNKNOWN /\ k.buf = << >> /\ k.readClosed)
HasBody(k) == k.buf # << >> /\ k.response = NULL /\ ~BodyIsOver(k)
AtChunkLine(k) == InChunks(k) /\ k.chunk = 0

ChunkLine(k) ==
  LET t == Head(k.buf)
  IN  IF t.kind # "chunk" THEN Close(k)
      ELSE [k EXCEPT !.buf = Tail(k.buf), !.chunk = t.n, !.remaining = IF t.n = 0 THEN 0 ELSE UNKNOWN]

Smaller(m, n) == IF m < n THEN m ELSE n

(* Mutant: what follows a chunk is given to the application with it.        *)
AllIsProcessed(k) == IF ~InChunks(k) /\ k.remaining > 0 THEN Smaller(k.remaining, Len(k.buf)) ELSE Len(k.buf)

(* remaining is unsigned: MHD_SIZE_UNKNOWN is its largest value, and what  *)
(* is taken from nothing makes it as large, which -1 and less stand for.   *)
ToBeProcessed(k) ==
  CASE InChunks(k) -> Smaller(k.chunk, Len(k.buf))
    [] ~InChunks(k) /\ k.remaining > 0 -> Smaller(k.remaining, Len(k.buf))
    [] OTHER -> Len(k.buf)

Processed(k) ==
  LET n == ToBeProcessed(k)
  IN  [k EXCEPT !.buf = SubSeq(k.buf, n + 1, Len(k.buf)), !.given = @ + n,
                !.chunk = IF InChunks(k) THEN @ - n ELSE @,
                !.remaining = IF @ = UNKNOWN THEN UNKNOWN ELSE @ - n]
-----------------------------------------------------------------------------
(* MHD_connection_handle_read, up to the call of recv and after it.        *)
ReadyToRead(k) == IF Len(k.buf) + Inc > k.rbSize THEN Grown(k) ELSE k
Received(k, bytes) ==
  LET r == [k EXCEPT !.buf = @ \o bytes]
  IN  IF bytes = << >> THEN Close([k EXCEPT !.readClosed = TRUE])
      ELSE IF k.readClosed THEN Close(r) ELSE r

(* check_write_done.                                                       *)
CheckWriteDone(k) ==
  IF k.unsent # 0 THEN k
  ELSE [k EXCEPT !.state = "HEADERS_SENT", !.pool = PoolReallocate(k.pool, k.wb, k.wbSize, 0).pool,
                 !.wb = NoBlock, !.wbSize = 0]

(* MHD_connection_handle_write, when send has taken n bytes: what it may   *)
(* have taken, at least one of those it was given.  A chunked body has no  *)
(* bytes: nothing is written, and it is ready to be written again.         *)
Sendable(k) ==
  CASE k.state = "CONTINUE_SENDING" -> 1 .. ContinueLength - k.continued
    [] k.state = "HEADERS_SENDING" -> IF k.unsent = 0 THEN {0} ELSE 1 .. k.unsent
    [] k.state = "NORMAL_BODY_READY" -> IF k.left = 0 THEN {0} ELSE 1 .. k.left
    [] OTHER -> {0}

HandleWrite(k, n) ==
  CASE k.state = "CONTINUE_SENDING" -> [k EXCEPT !.continued = @ + n]
    [] k.state = "HEADERS_SENDING" -> CheckWriteDone([k EXCEPT !.unsent = @ - n])
    [] k.state = "NORMAL_BODY_READY" ->
         [k EXCEPT !.left = @ - n, !.state = IF k.left = n THEN "FOOTERS_SENT" ELSE @]
    [] OTHER -> k

(* Mutant: *con_cls is not cleared.                                        *)
NextKeepsContext(k) ==
  LET d == DestroyResponse(k)
      b == PoolReset(k.pool, k.rb, PoolSize \div 2)
      n == IF k.keepalive # "use" \/ k.readClosed
           THEN [Close(d) EXCEPT !.rb = NoBlock, !.rbSize = 0, !.buf = << >>]
           ELSE [d EXCEPT !.state = "INIT", !.keepalive = "unknown", !.rq = NoRequest,
                          !.last = NewConnection.last, !.pool = b.pool, !.rb = b.at, !.rbSize = PoolSize \div 2]
  IN  [n EXCEPT !.given = 0, !.continued = 0, !.chunked = FALSE, !.chunk = 0,
                !.left = 0, !.wb = NoBlock, !.wbSize = 0, !.unsent = 0, !.told = @ + 1]

(* Mutant: what was read of the next request is dropped.                    *)
NextDropsBuffer(k) ==
  LET d == DestroyResponse(k)
      b == PoolReset(k.pool, k.rb, PoolSize \div 2)
      n == IF k.keepalive # "use" \/ k.readClosed
           THEN [Close(d) EXCEPT !.rb = NoBlock, !.rbSize = 0, !.buf = << >>]
           ELSE [d EXCEPT !.state = "INIT", !.buf = << >>, !.keepalive = "unknown", !.rq = NoRequest,
                          !.last = NewConnection.last, !.pool = b.pool, !.rb = b.at, !.rbSize = PoolSize \div 2]
  IN  [n EXCEPT !.context = NULL, !.given = 0, !.continued = 0, !.chunked = FALSE, !.chunk = 0,
                !.left = 0, !.wb = NoBlock, !.wbSize = 0, !.unsent = 0, !.told = @ + 1]

(* The state machine at FOOTERS_SENT: the next request starts with what is *)
(* left in the read buffer, or the connection ends.                        *)
NextRequest(k) ==
  LET d == DestroyResponse(k)
      b == PoolReset(k.pool, k.rb, PoolSize \div 2)
      n == IF k.keepalive # "use" \/ k.readClosed
           THEN [Close(d) EXCEPT !.rb = NoBlock, !.rbSize = 0, !.buf = << >>]
           ELSE [d EXCEPT !.state = "INIT", !.keepalive = "unknown", !.rq = NoRequest,
                          !.last = NewConnection.last, !.pool = b.pool, !.rb = b.at, !.rbSize = PoolSize \div 2]
  IN  [n EXCEPT !.context = NULL, !.given = 0, !.continued = 0, !.chunked = FALSE, !.chunk = 0,
                !.left = 0, !.wb = NoBlock, !.wbSize = 0, !.unsent = 0, !.told = @ + 1]
=============================================================================

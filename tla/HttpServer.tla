----------------------------- MODULE HttpServer -----------------------------
(***************************************************************************)
(* The HTTP side of runHttpServer.c: answerToConnection as libmicrohttpd   *)
(* calls it, once for the headers of a request, for each part of a body    *)
(* that has arrived, and once at the end, and what it keeps between these  *)
(* calls in *con_cls and in the global postWithDataFlag.                   *)
(*                                                                         *)
(* One thread serves all connections, so a callback is one step, with the  *)
(* manager's work inside it (SmartPay shows what that step leaves out).    *)
(* Callbacks of different connections interleave whenever one of them has  *)
(* to wait for more input.                                                 *)
(***************************************************************************)
EXTENDS Terminals

CONSTANTS
  Conns,       \* client connections
  Asks,        \* requests: [method, resource, endPoint, body, chunked]
  MaxAsks,     \* bound: requests sent in a behaviour
  Posts,       \* heap blocks malloc may return for a struct postStatus
  EndPoints,   \* what an uninitialised endPoint may hold: NULL for the empty string, or an id
  Garbage,     \* a text nobody sent
  NULL         \* the null pointer, an empty endPoint, nothing

ASSUME HSAssumption ==
  /\ NULL \notin Conns \cup Posts \cup {"crashed"} /\ "crashed" \notin Conns
  /\ MaxAsks \in Nat
  /\ EndPoints # {}
  /\ \A a \in Asks : a.body \in Seq({a.body[i] : i \in DOMAIN a.body})

VARIABLES
  conn,              \* per connection: libmicrohttpd's state of its request
  rq,                \* per connection: the request
  sent,              \* per connection: parts of the body the client has sent
  given,             \* per connection: parts the callback has been given
  running,           \* the connection libmicrohttpd is working on, or NULL
  con_cls,           \* per connection: *con_cls
  postLive,          \* postStatus blocks that are allocated and not freed
  post,              \* the fields of every block: status, buff
  postWithDataFlag,  \* the global flag
  db,                \* the stored transactions
  response,          \* per connection: the response queued, or NULL
  asks,              \* requests sent so far, for the bound
  handed,            \* history, per connection: what the manager was asked, or NULL
  leaked             \* history: postStatus blocks whose POST ended without its final call

vars == <<conn, rq, sent, given, running, con_cls, postLive, post, postWithDataFlag, db,
          response, asks, handed, leaked>>

inputVars == <<rq, sent, asks>>
heapVars == <<postLive, post, leaked>>
postVars == <<con_cls, heapVars, postWithDataFlag>>

(* jsonError and jsonPostWithNoData.                                       *)
JsonError == [kind |-> "error", ids |-> << >>, data |-> << >>]
JsonPostWithNoData == [kind |-> "noData", ids |-> << >>, data |-> << >>]
-----------------------------------------------------------------------------
(* A client sends the headers of a request, the parts of its body, and,    *)
(* if the body is chunked, the line that ends it.                          *)
SendHeaders(c, a) ==
  /\ conn[c] = "init" /\ asks < MaxAsks
  /\ asks' = asks + 1
  /\ conn' = [conn EXCEPT ![c] = "headers"]
  /\ rq' = [rq EXCEPT ![c] = a]
  /\ sent' = [sent EXCEPT ![c] = 0]
  /\ given' = [given EXCEPT ![c] = 0]
  /\ response' = [response EXCEPT ![c] = NULL]
  /\ handed' = [handed EXCEPT ![c] = NULL]
  /\ UNCHANGED <<running, postVars, db>>

SendPart(c) ==
  /\ conn[c] \in {"headers", "body"}
  /\ sent[c] < Len(rq[c].body)
  /\ sent' = [sent EXCEPT ![c] = sent[c] + 1]
  /\ UNCHANGED <<conn, rq, given, running, postVars, db, response, asks, handed>>

SendEnd(c) ==
  /\ conn[c] = "body" /\ rq[c].chunked
  /\ running # c
  /\ given[c] = Len(rq[c].body)
  /\ conn' = [conn EXCEPT ![c] = "final"]
  /\ UNCHANGED <<inputVars, given, running, postVars, db, response, handed>>

(* The client goes away in the middle of a request.  The application has   *)
(* registered no completion callback: it is not told.                      *)
Abort(c) ==
  /\ conn[c] \in {"headers", "body"} /\ running # c
  /\ conn' = [conn EXCEPT ![c] = "init"]
  /\ con_cls' = [con_cls EXCEPT ![c] = NULL]
  /\ leaked' = leaked \cup ({con_cls[c]} \ {NULL})
  /\ UNCHANGED <<inputVars, given, running, postLive, post, postWithDataFlag, db, response, handed>>

(* The response has been sent; the connection waits for its next request.  *)
ResponseSent(c) ==
  /\ conn[c] = "reply" /\ running = NULL
  /\ conn' = [conn EXCEPT ![c] = "init"]
  /\ con_cls' = [con_cls EXCEPT ![c] = NULL]
  /\ UNCHANGED <<inputVars, given, running, heapVars, postWithDataFlag, db, response, handed>>
-----------------------------------------------------------------------------
(* MHD_connection_handle_idle works on a connection until it has to wait.  *)
CanRun(c) == running \in {NULL, c}

(* sendResponse with MHD_queue_response behind it: it takes a response at  *)
(* the first and at the last call; during the body it refuses.  If it does,*)
(* or if the response could not be created, the callback's MHD_NO closes   *)
(* the connection.                                                         *)
SendResponse(c, json) ==
  /\ running' = NULL
  /\ \/ /\ conn[c] \in {"headers", "final"}
        /\ conn' = [conn EXCEPT ![c] = "reply"]
        /\ response' = [response EXCEPT ![c] = json]
        /\ UNCHANGED con_cls
     \/ /\ conn' = [conn EXCEPT ![c] = "init"]
        /\ con_cls' = [con_cls EXCEPT ![c] = NULL]
        /\ UNCHANGED response

(* Mutant: the final call comes when all that has arrived was given.        *)
ContinueTooSoon(c) ==
  LET complete == given'[c] = sent[c] /\ ~rq[c].chunked
  IN  /\ conn' = [conn EXCEPT ![c] = IF complete THEN "final" ELSE "body"]
      /\ running' = IF complete \/ given'[c] < sent[c] THEN c ELSE NULL
      /\ UNCHANGED response

(* The callback returns MHD_YES without a response: libmicrohttpd goes on  *)
(* with the body, and with the final call once it has all of it.           *)
Continue(c) ==
  LET complete == given'[c] = Len(rq[c].body) /\ ~rq[c].chunked
      more == given'[c] < sent[c]
  IN  /\ conn' = [conn EXCEPT ![c] = IF complete THEN "final" ELSE "body"]
      /\ running' = IF complete \/ more THEN c ELSE NULL
      /\ UNCHANGED response

(* What sscanf leaves in endPoint: it writes nothing if the URL ends after *)
(* the resource.                                                           *)
EndPointOf(c) == IF rq[c].endPoint = NULL THEN EndPoints ELSE {rq[c].endPoint}

(* `Validation - check if resource path is valid', and neither GET nor POST. *)
Refuse(c) ==
  /\ conn[c] = "headers" /\ CanRun(c)
  /\ ~rq[c].resource \/ rq[c].method \notin {"GET", "POST"}
  /\ SendResponse(c, JsonError)
  /\ UNCHANGED <<inputVars, given, heapVars, postWithDataFlag, db, handed>>

(* Mutant: the terminal id in the URL is ignored.                           *)
AnswerGetAll(c) ==
  /\ conn[c] = "headers" /\ CanRun(c)
  /\ rq[c].resource /\ rq[c].method = "GET"
  /\ SendResponse(c, AnswerToGet(db, ALL))
  /\ handed' = [handed EXCEPT ![c] = [termId |-> ALL, json |-> NULL]]
  /\ UNCHANGED <<inputVars, given, heapVars, postWithDataFlag, db>>

(* `Received GET request'.                                                 *)
AnswerGet(c) ==
  /\ conn[c] = "headers" /\ CanRun(c)
  /\ rq[c].resource /\ rq[c].method = "GET"
  /\ \E endPoint \in EndPointOf(c) :
       LET termId == IF endPoint = NULL THEN ALL ELSE endPoint
       IN  /\ SendResponse(c, AnswerToGet(db, termId))
           /\ handed' = [handed EXCEPT ![c] = [termId |-> termId, json |-> NULL]]
  /\ UNCHANGED <<inputVars, given, heapVars, postWithDataFlag, db>>

(* `Received POST request', the part common to its calls: the callback     *)
(* runs for a POST and the endPoint it reads is, or is not, empty.         *)
PostCall(c, empty) ==
  /\ conn[c] \in {"headers", "body", "final"} /\ CanRun(c)
  /\ rq[c].resource /\ rq[c].method = "POST"
  /\ \E endPoint \in EndPointOf(c) : empty <=> endPoint = NULL

(* `validation: checkig if we got wrong resource path'.                    *)
RefuseEndPoint(c) ==
  /\ PostCall(c, FALSE)
  /\ conn[c] = "body" => given[c] < sent[c]
  /\ SendResponse(c, JsonError)
  /\ leaked' = leaked \cup ({con_cls[c]} \ {NULL})
  /\ UNCHANGED <<inputVars, given, postLive, post, postWithDataFlag, db, handed>>

(* Mutant: the status of the new block is not set.                          *)
FirstCallWithoutStatus(c, p) ==
  /\ PostCall(c, TRUE) /\ conn[c] = "headers" /\ con_cls[c] = NULL
  /\ p \notin postLive
  /\ postLive' = postLive \cup {p}
  /\ post' = [post EXCEPT ![p] = [status |-> Garbage, buff |-> Garbage]]
  /\ con_cls' = [con_cls EXCEPT ![c] = p]
  /\ UNCHANGED given
  /\ Continue(c)
  /\ UNCHANGED <<inputVars, postWithDataFlag, db, handed, leaked>>

(* Mutant: one static block serves every POST.                             *)
FirstCallShares(c, p) ==
  /\ PostCall(c, TRUE) /\ conn[c] = "headers" /\ con_cls[c] = NULL
  /\ postLive' = postLive \cup {p}
  /\ post' = [post EXCEPT ![p] = [status |-> TRUE, buff |-> Garbage]]
  /\ con_cls' = [con_cls EXCEPT ![c] = p]
  /\ UNCHANGED given
  /\ Continue(c)
  /\ UNCHANGED <<inputVars, postWithDataFlag, db, handed, leaked>>

(* `first time the callback has been called'.                              *)
FirstCall(c, p) ==
  /\ PostCall(c, TRUE) /\ conn[c] = "headers" /\ con_cls[c] = NULL
  /\ p \notin postLive
  /\ postLive' = postLive \cup {p}
  /\ post' = [post EXCEPT ![p] = [status |-> TRUE, buff |-> Garbage]]
  /\ con_cls' = [con_cls EXCEPT ![c] = p]
  /\ UNCHANGED given
  /\ Continue(c)
  /\ UNCHANGED <<inputVars, postWithDataFlag, db, handed, leaked>>

(* malloc returns NULL, which nobody checks: post->status is then written  *)
(* through the null pointer.                                               *)
FirstCallWithoutMemory(c) ==
  /\ PostCall(c, TRUE) /\ conn[c] = "headers" /\ con_cls[c] = NULL
  /\ postLive = Posts
  /\ running' = "crashed"
  /\ UNCHANGED <<conn, inputVars, given, postVars, db, response, handed>>

(* Mutants: the copy starts one late; *upload_data_size stays; the buffer  *)
(* is shared by the connections, like the flag.                            *)
UploadDataLate(c) == SubSeq(rq[c].body, given[c] + 2, sent[c])
UploadDataKept(c) == given[c]
SetSharedBuff(c, data) == post' = [p \in Posts |-> [post[p] EXCEPT !.buff = data]]

(* `extracting upload data from request': what has arrived since the last  *)
(* call.                                                                   *)
UploadData(c) == SubSeq(rq[c].body, given[c] + 1, sent[c])

(* *upload_data_size = 0: all of it has been taken.                        *)
UploadDataTaken(c) == sent[c]

(* post->buff: an older buff is not freed.                                 *)
SetBuff(c, data) == post' = [post EXCEPT ![con_cls[c]].buff = data]

(* `the second time invoking this callback makes the upload_data           *)
(* available'.                                                             *)
DataCall(c) ==
  /\ PostCall(c, TRUE) /\ conn[c] = "body"
  /\ given[c] < sent[c]
  /\ post[con_cls[c]].status
  /\ postWithDataFlag' = TRUE
  /\ SetBuff(c, UploadData(c))
  /\ given' = [given EXCEPT ![c] = UploadDataTaken(c)]
  /\ Continue(c)
  /\ UNCHANGED <<inputVars, con_cls, postLive, db, handed, leaked>>

(* Mutant: the final call leaves postWithDataFlag set.                      *)
FinalCallKeepsFlag(c) ==
  LET json == post[con_cls[c]].buff
  IN  /\ PostCall(c, TRUE) /\ conn[c] = "final"
      /\ post[con_cls[c]].status /\ postWithDataFlag
      /\ SendResponse(c, AnswerToPost(db))
      /\ db' = Append(db, json)
      /\ handed' = [handed EXCEPT ![c] = [termId |-> -1, json |-> json]]
      /\ postLive' = postLive \ {con_cls[c]}
      /\ UNCHANGED <<inputVars, given, post, postWithDataFlag, leaked>>

(* The final call, with the data: buff goes to the manager and is freed.   *)
FinalCallWithData(c) ==
  LET json == post[con_cls[c]].buff
  IN  /\ PostCall(c, TRUE) /\ conn[c] = "final"
      /\ post[con_cls[c]].status /\ postWithDataFlag
      /\ postWithDataFlag' = FALSE
      /\ SendResponse(c, AnswerToPost(db))
      /\ db' = Append(db, json)
      /\ handed' = [handed EXCEPT ![c] = [termId |-> -1, json |-> json]]
      /\ postLive' = postLive \ {con_cls[c]}
      /\ UNCHANGED <<inputVars, given, post, leaked>>

(* Mutant: only a final call with data frees its block.                     *)
FinalCallKeepsPost(c) ==
  /\ PostCall(c, TRUE) /\ conn[c] = "final"
  /\ post[con_cls[c]].status /\ ~postWithDataFlag
  /\ SendResponse(c, JsonPostWithNoData)
  /\ UNCHANGED <<inputVars, given, heapVars, postWithDataFlag, db, handed>>

FinalCallWithoutData(c) ==
  /\ PostCall(c, TRUE) /\ conn[c] = "final"
  /\ post[con_cls[c]].status /\ ~postWithDataFlag
  /\ SendResponse(c, JsonPostWithNoData)
  /\ postLive' = postLive \ {con_cls[c]}
  /\ UNCHANGED <<inputVars, given, post, postWithDataFlag, db, handed, leaked>>

(* The final call reads a buff that no data call has set: the process may  *)
(* end there, if the string it prints does not.                            *)
ReadUnsetBuff(c) ==
  /\ PostCall(c, TRUE) /\ conn[c] = "final"
  /\ postWithDataFlag /\ post[con_cls[c]].buff = Garbage
  /\ running' = "crashed"
  /\ UNCHANGED <<conn, inputVars, given, postVars, db, response, handed>>
-----------------------------------------------------------------------------
Init ==
  /\ conn = [c \in Conns |-> "init"]
  /\ rq = [c \in Conns |-> NULL]
  /\ sent = [c \in Conns |-> 0] /\ given = [c \in Conns |-> 0]
  /\ running = NULL
  /\ con_cls = [c \in Conns |-> NULL]
  /\ postLive = {} /\ post = [p \in Posts |-> [status |-> FALSE, buff |-> Garbage]]
  /\ postWithDataFlag = FALSE
  /\ db = << >>
  /\ response = [c \in Conns |-> NULL]
  /\ asks = 0
  /\ handed = [c \in Conns |-> NULL]
  /\ leaked = {}

Client(c) == (\E a \in Asks : SendHeaders(c, a)) \/ SendPart(c) \/ SendEnd(c) \/ Abort(c)

AnswerToConnection(c) ==
  \/ Refuse(c) \/ AnswerGet(c)
  \/ RefuseEndPoint(c) \/ (\E p \in Posts : FirstCall(c, p)) \/ FirstCallWithoutMemory(c) \/ DataCall(c)
  \/ FinalCallWithData(c) \/ FinalCallWithoutData(c) \/ ReadUnsetBuff(c)

Next == \E c \in Conns : Client(c) \/ ResponseSent(c) \/ AnswerToConnection(c)

Spec == Init /\ [][Next]_vars

(* Every round of the daemon's loop works on every connection that has     *)
(* input, and a client that does not go away sends its body to the end.    *)
(* Nobody has to send a request.                                           *)
FairSpec ==
  /\ Spec
  /\ \A c \in Conns :
       /\ SF_vars(AnswerToConnection(c)) /\ WF_vars(ResponseSent(c))
       /\ WF_vars(SendPart(c)) /\ WF_vars(SendEnd(c))
-----------------------------------------------------------------------------
(* What may be buffered and stored: an interval of a body.                 *)
IsText(t) == t = Garbage \/ \E a \in Asks : \E i, j \in DOMAIN a.body : t = SubSeq(a.body, i, j)
AreTexts(s) == s \in Seq({s[i] : i \in DOMAIN s}) /\ \A i \in DOMAIN s : IsText(s[i])

TypeOK ==
  /\ conn \in [Conns -> {"init", "headers", "body", "final", "reply"}]
  /\ rq \in [Conns -> Asks \cup {NULL}]
  /\ sent \in [Conns -> Nat] /\ given \in [Conns -> Nat]
  /\ \A c \in Conns : conn[c] # "init" => given[c] <= sent[c] /\ sent[c] <= Len(rq[c].body)
  /\ running \in Conns \cup {NULL, "crashed"}
  /\ con_cls \in [Conns -> Posts \cup {NULL}]
  /\ postLive \subseteq Posts
  /\ post = [p \in Posts |-> [status |-> post[p].status, buff |-> post[p].buff]]
  /\ \A p \in Posts : post[p].status \in BOOLEAN /\ IsText(post[p].buff)
  /\ postWithDataFlag \in BOOLEAN
  /\ asks \in 0 .. MaxAsks
  /\ AreTexts(db)

(* A POST between its first and its last call.                             *)
InPost(c) == conn[c] \in {"body", "final"}

(* What a callback finds in *con_cls is its own: NULL when a request       *)
(* starts, and while a POST is under way a block that is allocated,        *)
(* initialised and no other POST's, whatever the clients interleave or     *)
(* break off.  So it is freed once, although nobody clears *con_cls then.  *)
PostPointers ==
  \A c \in Conns :
    /\ conn[c] = "headers" => con_cls[c] = NULL
    /\ InPost(c) =>
         /\ con_cls[c] \in postLive /\ post[con_cls[c]].status
         /\ \A d \in Conns \ {c} : InPost(d) => con_cls[d] # con_cls[c]

(* What is allocated is what the POSTs under way hold, and what was left   *)
(* behind by those that were broken off or refused before their final      *)
(* call: every final call frees its block, and no call frees another's.    *)
PostsAccounted ==
  LET held == {con_cls[c] : c \in {d \in Conns : InPost(d)}}
  IN  postLive = held \cup leaked /\ held \cap leaked = {}

(* Requests are not mixed up: what a POST hands to the manager, if it is   *)
(* not garbage, is an uninterrupted end of its own body.                   *)
NothingMixed ==
  \A c \in Conns :
    handed[c] # NULL /\ rq[c].method = "POST" /\ handed[c].json # Garbage =>
      \E i \in 1 .. Len(rq[c].body) : handed[c].json = SubSeq(rq[c].body, i, Len(rq[c].body))

(* `extracting upload data from request': a POST that is told the id of    *)
(* its terminal has stored its body, all of it.                            *)
Answered(c, kind) == conn[c] = "reply" /\ response[c].kind = kind

PostStoresItsBody ==
  \A c \in Conns : Answered(c, "posted") /\ rq[c].body # << >> =>
    handed[c] # NULL /\ handed[c].json = rq[c].body /\ db[response[c].ids[1]] = rq[c].body

(* A POST is answered by jsonPostWithNoData exactly if it had no data.     *)
NoDataIsTold ==
  \A c \in Conns :
    /\ Answered(c, "noData") => rq[c].body = << >>
    /\ Answered(c, "posted") => rq[c].body # << >>

(* `returning terminal id or ALL': a GET looks up what its URL names.      *)
GetServesItsUrl ==
  \A c \in Conns : conn[c] = "reply" /\ rq[c].method = "GET" /\ handed[c] # NULL =>
    handed[c].termId = IF rq[c].endPoint = NULL THEN ALL ELSE rq[c].endPoint

(* The calls answerToConnection is modelled for are those the library      *)
(* promises (MhdDaemon implements the same contract), and nothing of       *)
(* *con_cls is carried from a request to the next.                         *)
Callback == INSTANCE MhdCallback WITH
  calls <- [c \in Conns |-> CASE InPost(c) -> "started" [] conn[c] = "reply" -> "answered" [] OTHER -> "none"],
  size <- [c \in Conns |-> IF conn[c] = "init" THEN 0 ELSE Len(rq[c].body)],
  given <- [c \in Conns |-> IF conn[c] = "init" THEN 0 ELSE given[c]],
  context <- con_cls
KeepsToCallback == Callback!SpecCallback

(* A request is answered, or its connection closed, whatever the other     *)
(* connection does: no call leaves its connection waiting for a call that  *)
(* will not come, or keeps the daemon's one thread to itself.              *)
EveryRequestIsServed == \A c \in Conns : (conn[c] = "headers") ~> (conn[c] \in {"reply", "init"})
=============================================================================

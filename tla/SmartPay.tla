------------------------------ MODULE SmartPay ------------------------------
(***************************************************************************)
(* The whole server: main, the libmicrohttpd daemon's thread, which runs   *)
(* answerToConnection for one connection after the other                   *)
(* (MHD_USE_SELECT_INTERNALLY), and the manager's thread, from start to    *)
(* the return key to exit.                                                 *)
(*                                                                         *)
(* The queue's actions are those of RequestQueue.  Added are the start and *)
(* the end of the manager, which touch the queue without the mutex, what a *)
(* request block contains and what is left of it after free, and the flags *)
(* by which the threads wait for each other.  The terminal database is the *)
(* manager's own (TerminalList implements it), so a request is one step on *)
(* it.  The callback is modelled from the point where it has a complete    *)
(* request; HTTP's parts and the refused requests are HttpServer's.        *)
(***************************************************************************)
EXTENDS RequestQueue, Terminals

CONSTANTS
  Daemon,       \* the daemon's thread
  Conns,        \* client connections
  Asks,         \* requests a client may send: [method, termId, json]
  MaxAsks,      \* bound: requests sent in a behaviour
  Creations,    \* whether pthread_create may succeed, and whether it may fail
  FreeEffects,  \* what free may do to a request's text: "intact", "clobbered"
  Garbage       \* a text that is no request and no answer

ASSUME SPAssumption ==
  /\ Handlers = {Daemon}
  /\ NULL \notin Conns
  /\ \A a \in Asks : a # NULL /\ a.method \in {"GET", "POST"}
  /\ MaxAsks \in Nat
  /\ Creations \subseteq BOOLEAN /\ Creations # {}
  /\ FreeEffects \subseteq {"intact", "clobbered"} /\ FreeEffects # {}

VARIABLES
  mainPc,        \* where main is
  sigEqMgrFlag,  \* cleared by main, set by the manager
  shutdown,      \* the daemon's flag, set by MHD_stop_daemon
  asked,         \* per connection: the request in its socket or its callback, or NULL
  asks,          \* requests sent so far, for the bound
  batch,         \* ready connections of this round of the daemon's loop
  serving,       \* the connection whose callback runs, or NULL
  jResponse,     \* the callback's local answer buffer
  block,         \* per request block: method, termId, json, isResponseReady
  headReq,       \* freeNodeList's local pointer
  db,            \* the stored transactions
  owner,         \* history: the connection each request block was created for
  outcome,       \* history, per connection: the manager's answer, or NULL
  answer         \* history, per connection: the last answer sent to it, or NULL

linkVars == <<requestQueueList, requestQueueTail, next, live, reqQueueMutex, request, queued>>
mainVars == <<mainPc, sigEqMgrFlag, shutdown>>
clientVars == <<asked, asks, answer>>
daemonVars == <<batch, serving, jResponse>>
managerVars == <<headReq, db, outcome>>
blockVars == <<block, owner>>
vars == <<queueVars, mainVars, clientVars, daemonVars, managerVars, blockVars>>
-----------------------------------------------------------------------------
(* main.                                                                   *)
MainGoto(from, to) == mainPc = from /\ mainPc' = to

(* MHD_start_daemon: from here on connections are served.                  *)
StartDaemon ==
  /\ \/ MainGoto("startDaemon", "createThread") /\ Goto(Daemon, "idle")
     \/ MainGoto("startDaemon", "failed") /\ UNCHANGED pc
  /\ UNCHANGED linkVars
  /\ UNCHANGED <<sigEqMgrFlag, shutdown, clientVars, daemonVars, managerVars, blockVars>>

(* pthread_create, whose result is not checked: there may be no manager.   *)
CreateThread ==
  /\ MainGoto("createThread", "getchar")
  /\ \E created \in Creations : Goto(Manager, IF created THEN "mgrInit" ELSE "unborn")
  /\ UNCHANGED linkVars
  /\ UNCHANGED <<sigEqMgrFlag, shutdown, clientVars, daemonVars, managerVars, blockVars>>

(* getchar returns: somebody pressed the return key.                       *)
ReturnKey ==
  /\ MainGoto("getchar", "clearFlag")
  /\ UNCHANGED <<queueVars, sigEqMgrFlag, shutdown, clientVars, daemonVars, managerVars, blockVars>>

ClearFlag ==
  /\ MainGoto("clearFlag", "waitFlag")
  /\ sigEqMgrFlag' = FALSE
  /\ UNCHANGED <<queueVars, shutdown, clientVars, daemonVars, managerVars, blockVars>>

WaitFlag ==
  /\ MainGoto("waitFlag", "joinManager")
  /\ sigEqMgrFlag
  /\ UNCHANGED <<queueVars, sigEqMgrFlag, shutdown, clientVars, daemonVars, managerVars, blockVars>>

JoinManager ==
  /\ MainGoto("joinManager", "stopDaemon")
  /\ pc[Manager] = "ended"
  /\ UNCHANGED <<queueVars, sigEqMgrFlag, shutdown, clientVars, daemonVars, managerVars, blockVars>>

(* MHD_stop_daemon sets the daemon's flag and joins its thread.            *)
StopDaemon ==
  /\ MainGoto("stopDaemon", "joinDaemon")
  /\ shutdown' = TRUE
  /\ UNCHANGED <<queueVars, sigEqMgrFlag, clientVars, daemonVars, managerVars, blockVars>>

JoinDaemon ==
  /\ MainGoto("joinDaemon", "exited")
  /\ pc[Daemon] = "ended"
  /\ UNCHANGED <<queueVars, sigEqMgrFlag, shutdown, clientVars, daemonVars, managerVars, blockVars>>

MainStep == StartDaemon \/ CreateThread \/ ClearFlag \/ WaitFlag \/ JoinManager \/ StopDaemon \/ JoinDaemon
-----------------------------------------------------------------------------
(* A client sends a request on a connection with none outstanding.         *)
Ask(c, a) ==
  /\ pc[Daemon] \notin {"unborn", "ended"}
  /\ asked[c] = NULL
  /\ asks < MaxAsks
  /\ asked' = [asked EXCEPT ![c] = a]
  /\ answer' = [answer EXCEPT ![c] = NULL]
  /\ asks' = asks + 1
  /\ UNCHANGED <<queueVars, mainVars, daemonVars, managerVars, blockVars>>

(* MHD_polling_thread: a round serves every connection that is ready.      *)
Select ==
  /\ pc[Daemon] = "idle" /\ serving = NULL /\ batch = {}
  /\ ~shutdown
  /\ batch' = {c \in Conns : asked[c] # NULL}
  /\ batch' # {}
  /\ UNCHANGED <<queueVars, mainVars, clientVars, serving, jResponse, managerVars, blockVars>>

(* Mutant: createRequestQueueItem leaves isResponseReady as malloc found    *)
(* it.                                                                      *)
CreateWithoutFlag(c, r) ==
  /\ \/ serving = NULL /\ c \in batch
     \/ serving = c
  /\ Create(Daemon, r)
  /\ serving' = c
  /\ batch' = batch \ {c}
  /\ block' = [block EXCEPT ![r] =
       [method |-> asked[c].method, termId |-> asked[c].termId,
        json |-> IF asked[c].method = "GET" THEN Garbage ELSE asked[c].json,
        isResponseReady |-> Garbage]]
  /\ owner' = [owner EXCEPT ![r] = c]
  /\ UNCHANGED <<mainVars, clientVars, jResponse, managerVars>>

(* answerToConnection has a request for the manager: createRequestQueueItem *)
(* copies it into a block.  A GET's json is the callback's uninitialised   *)
(* buffer.  The callback may be running for its connection a second time   *)
(* (SendResponse).                                                         *)
CreateRequestQueueItem(c, r) ==
  /\ \/ serving = NULL /\ c \in batch
     \/ serving = c
  /\ Create(Daemon, r)
  /\ serving' = c
  /\ batch' = batch \ {c}
  /\ block' = [block EXCEPT ![r] =
       [method |-> asked[c].method, termId |-> asked[c].termId,
        json |-> IF asked[c].method = "GET" THEN Garbage ELSE asked[c].json,
        isResponseReady |-> FALSE]]
  /\ owner' = [owner EXCEPT ![r] = c]
  /\ UNCHANGED <<mainVars, clientVars, jResponse, managerVars>>

QueueReq ==
  /\ HandlerLock(Daemon) \/ AddRequest(Daemon) \/ HandlerUnlock(Daemon)
  /\ UNCHANGED <<mainVars, clientVars, daemonVars, managerVars, blockVars>>

(* Mutant: the callback does not wait.                                      *)
LeaveSpinAtOnce ==
  /\ pc[Daemon] = "spin"
  /\ Goto(Daemon, "copy")
  /\ UNCHANGED linkVars
  /\ UNCHANGED <<mainVars, clientVars, daemonVars, managerVars, blockVars>>

(* `holding connection to be completed': the spin loop ends.               *)
LeaveSpin ==
  /\ pc[Daemon] = "spin"
  /\ block[request[Daemon]].isResponseReady
  /\ Goto(Daemon, "copy")
  /\ UNCHANGED linkVars
  /\ UNCHANGED <<mainVars, clientVars, daemonVars, managerVars, blockVars>>

(* `extracting response from handled request'.                             *)
CopyResponse ==
  /\ pc[Daemon] = "copy"
  /\ jResponse' = block[request[Daemon]].json
  /\ Goto(Daemon, "send")
  /\ UNCHANGED linkVars
  /\ UNCHANGED <<mainVars, clientVars, batch, serving, managerVars, blockVars>>

(* sendResponse.  If the response cannot be created the connection is      *)
(* closed.  Once the daemon is being stopped, MHD_queue_response     *)
(* drops the answer; for a GET libmicrohttpd then makes its final call,    *)
(* which runs the whole callback again.                                    *)
SendResponse ==
  /\ pc[Daemon] = "send"
  /\ Goto(Daemon, "idle")
  /\ jResponse' = Garbage
  /\ \/ /\ ~shutdown
        /\ answer' = [answer EXCEPT ![serving] = jResponse]
        /\ asked' = [asked EXCEPT ![serving] = NULL]
        /\ outcome' = [outcome EXCEPT ![serving] = NULL]
        /\ serving' = NULL
     \/ /\ asked' = [asked EXCEPT ![serving] = NULL]
        /\ outcome' = [outcome EXCEPT ![serving] = NULL]
        /\ serving' = NULL
        /\ UNCHANGED answer
     \/ /\ shutdown
        /\ serving' = IF asked[serving].method = "GET" THEN serving ELSE NULL
        /\ UNCHANGED <<answer, asked, outcome>>
  /\ UNCHANGED linkVars
  /\ UNCHANGED <<mainVars, asks, batch, headReq, db, blockVars>>

(* MHD_polling_thread leaves its loop: close_all_connections.              *)
CloseAllConnections ==
  /\ pc[Daemon] = "idle" /\ serving = NULL /\ batch = {}
  /\ shutdown
  /\ Goto(Daemon, "ended")
  /\ asked' = [c \in Conns |-> NULL]
  /\ outcome' = [c \in Conns |-> NULL]
  /\ UNCHANGED linkVars
  /\ UNCHANGED <<mainVars, asks, answer, daemonVars, headReq, db, blockVars>>

DaemonStep ==
  \/ Select
  \/ \E c \in Conns, r \in Requests : CreateRequestQueueItem(c, r)
  \/ QueueReq
  \/ LeaveSpin \/ CopyResponse \/ SendResponse \/ CloseAllConnections
-----------------------------------------------------------------------------
(* mgrInit, the terminals.                                                 *)
InitTerminals ==
  /\ pc[Manager] = "mgrInit"
  /\ db' = << >>
  /\ Goto(Manager, "initList")
  /\ UNCHANGED linkVars
  /\ UNCHANGED <<mainVars, clientVars, daemonVars, headReq, outcome, blockVars>>

(* mgrInit, the queue: two stores without the mutex.                       *)
InitList ==
  /\ pc[Manager] = "initList"
  /\ requestQueueList' = NULL
  /\ Goto(Manager, "initTail")
  /\ UNCHANGED <<requestQueueTail, next, live, reqQueueMutex, request, queued>>
  /\ UNCHANGED <<mainVars, clientVars, daemonVars, managerVars, blockVars>>

InitTail ==
  /\ pc[Manager] = "initTail"
  /\ requestQueueTail' = NULL
  /\ Goto(Manager, "while")
  /\ UNCHANGED <<requestQueueList, next, live, reqQueueMutex, request, queued>>
  /\ UNCHANGED <<mainVars, clientVars, daemonVars, managerVars, blockVars>>

(* while(sigEqMgrFlag) { lock; checkQueueAndGetRequest; unlock; ... }      *)
Poll ==
  /\ \/ LoopTest /\ sigEqMgrFlag
     \/ ManagerLock \/ Take \/ ManagerUnlock
  /\ UNCHANGED <<mainVars, clientVars, daemonVars, managerVars, blockVars>>

(* `handling request': the answer replaces the request in its json field.  *)
HandleRequest ==
  LET r == request[Manager]
      result == IF block[r].method = "GET" THEN AnswerToGet(db, block[r].termId) ELSE AnswerToPost(db)
  IN  /\ pc[Manager] = "handle"
      /\ Goto(Manager, "setReady")
      /\ block' = [block EXCEPT ![r].json = result]
      /\ db' = IF block[r].method = "POST" THEN Append(db, block[r].json) ELSE db
      /\ outcome' = [outcome EXCEPT ![owner[r]] = result]
      /\ UNCHANGED <<linkVars, mainVars, clientVars, daemonVars, headReq, owner>>

(* Mutant: the flag is set where a POST is handled, and not for a GET.      *)
SetReadyAfterPost ==
  /\ pc[Manager] = "setReady"
  /\ Goto(Manager, "free")
  /\ block' = [block EXCEPT ![request[Manager]].isResponseReady = (block[request[Manager]].method = "POST")]
  /\ UNCHANGED <<linkVars, mainVars, clientVars, daemonVars, managerVars, owner>>

(* newRequest->isResponseReady = true: the callback may go on.             *)
SetReady ==
  /\ pc[Manager] = "setReady"
  /\ Goto(Manager, "free")
  /\ block' = [block EXCEPT ![request[Manager]].isResponseReady = TRUE]
  /\ UNCHANGED <<linkVars, mainVars, clientVars, daemonVars, managerVars, owner>>

(* What is left of a freed block: the allocator may write over the start   *)
(* of it, where method and json are; the flag behind them is not reached,  *)
(* and no other thread allocates while the callback still looks at it.     *)
AfterFree(b) == {IF e = "intact" THEN b ELSE [b EXCEPT !.method = "", !.json = Garbage] : e \in FreeEffects}

(* free(newRequest).                                                       *)
FreeRequest ==
  /\ Release
  /\ \E b \in AfterFree(block[request[Manager]]) : block' = [block EXCEPT ![request[Manager]] = b]
  /\ UNCHANGED <<mainVars, clientVars, daemonVars, managerVars, owner>>

(* The loop ends; shutDown calls freeNodeList, which reads the head of the *)
(* queue, frees the terminals and only then walks the queue, without the   *)
(* mutex.                                                                  *)
EndLoop ==
  /\ pc[Manager] = "while" /\ ~sigEqMgrFlag
  /\ Goto(Manager, "freeNodeList")
  /\ UNCHANGED <<linkVars, mainVars, clientVars, daemonVars, managerVars, blockVars>>

ReadHead ==
  /\ pc[Manager] = "freeNodeList"
  /\ headReq' = requestQueueList
  /\ Goto(Manager, "freeQueue")
  /\ UNCHANGED <<linkVars, mainVars, clientVars, daemonVars, db, outcome, blockVars>>

(* One iteration is two steps, requestQueueList = requestQueueList->next   *)
(* and free(headReq); the loop's end is one.  free(NULL) does nothing.     *)
UnlinkHead ==
  /\ pc[Manager] = "freeQueue" /\ requestQueueList # NULL
  /\ requestQueueList' = next[requestQueueList]
  /\ Goto(Manager, "freeHead")
  /\ UNCHANGED <<requestQueueTail, next, live, reqQueueMutex, request, queued>>
  /\ UNCHANGED <<mainVars, clientVars, daemonVars, managerVars, blockVars>>

FreeHead ==
  /\ pc[Manager] = "freeHead"
  /\ live' = live \ {headReq}
  /\ \/ headReq = NULL /\ UNCHANGED block
     \/ headReq # NULL /\ \E b \in AfterFree(block[headReq]) : block' = [block EXCEPT ![headReq] = b]
  /\ headReq' = requestQueueList
  /\ Goto(Manager, "freeQueue")
  /\ UNCHANGED <<requestQueueList, requestQueueTail, next, reqQueueMutex, request, queued>>
  /\ UNCHANGED <<mainVars, clientVars, daemonVars, db, outcome, owner>>

EndFree ==
  /\ pc[Manager] = "freeQueue" /\ requestQueueList = NULL
  /\ Goto(Manager, "signal")
  /\ UNCHANGED <<linkVars, mainVars, clientVars, daemonVars, managerVars, blockVars>>

(* Mutant: shutDown does not signal.                                        *)
SignalForgotten ==
  /\ pc[Manager] = "signal"
  /\ Goto(Manager, "ended")
  /\ UNCHANGED <<linkVars, mainPc, sigEqMgrFlag, shutdown, clientVars, daemonVars, managerVars, blockVars>>

(* sigEqMgrFlag = true, `signal to HTTP server that equipmentMgr is done'. *)
Signal ==
  /\ pc[Manager] = "signal"
  /\ sigEqMgrFlag' = TRUE
  /\ Goto(Manager, "ended")
  /\ UNCHANGED <<linkVars, mainPc, shutdown, clientVars, daemonVars, managerVars, blockVars>>

ManagerRoutine ==
  \/ InitTerminals \/ InitList \/ InitTail
  \/ Poll \/ HandleRequest \/ SetReady \/ FreeRequest
  \/ EndLoop \/ ReadHead \/ UnlinkHead \/ FreeHead \/ EndFree \/ Signal
-----------------------------------------------------------------------------
SmartPayInit ==
  /\ requestQueueList = NULL /\ requestQueueTail = NULL
  /\ next = [r \in Requests |-> NULL]
  /\ live = {}
  /\ reqQueueMutex = NULL
  /\ pc = [t \in Threads |-> "unborn"]
  /\ request = [t \in Threads |-> NULL]
  /\ queued = << >>
  /\ mainPc = "startDaemon" /\ sigEqMgrFlag = TRUE /\ shutdown = FALSE
  /\ asked = [c \in Conns |-> NULL] /\ asks = 0
  /\ batch = {} /\ serving = NULL /\ jResponse = Garbage
  /\ block = [r \in Requests |-> [method |-> "", termId |-> 0, json |-> Garbage, isResponseReady |-> FALSE]]
  /\ headReq = NULL
  /\ db = << >>
  /\ owner = [r \in Requests |-> NULL]
  /\ outcome = [c \in Conns |-> NULL]
  /\ answer = [c \in Conns |-> NULL]

SmartPayNext ==
  MainStep \/ ReturnKey \/ (\E c \in Conns, a \in Asks : Ask(c, a)) \/ DaemonStep \/ ManagerRoutine

(* The operating system runs each of the three threads, and the mutex is   *)
(* not given to the manager's poll for ever while the callback waits for   *)
(* it.  Nobody has to press the return key or to send anything.            *)
SmartPayFairness ==
  /\ WF_vars(MainStep)
  /\ WF_vars(DaemonStep) /\ SF_vars(HandlerLock(Daemon) /\ QueueReq)
  /\ WF_vars(ManagerRoutine) /\ SF_vars(ManagerLock /\ Poll)

SmartPaySpec == SmartPayInit /\ [][SmartPayNext]_vars
SmartPayFairSpec == SmartPaySpec /\ SmartPayFairness
-----------------------------------------------------------------------------
Texts == {Garbage} \cup {a.json : a \in Asks} \cup {NoSuchTerminal}
           \cup {Posted(id) : id \in 1 .. MaxAsks}
IsText(t) == t \in Texts \/ t = TerminalsOf(t.ids, t.data)

SmartPayTypeOK ==
  /\ requestQueueList \in Pointer /\ requestQueueTail \in Pointer /\ headReq \in Pointer
  /\ next \in [Requests -> Pointer] /\ live \subseteq Requests
  /\ reqQueueMutex \in Threads \cup {NULL}
  /\ pc[Daemon] \in {"unborn", "copy", "send", "ended"} \cup HandlerLabels
  /\ pc[Manager] \in {"unborn", "mgrInit", "initList", "initTail", "setReady", "freeNodeList",
                      "freeQueue", "freeHead", "signal", "ended"} \cup ManagerLabels
  /\ request \in [Threads -> Pointer]
  /\ mainPc \in {"startDaemon", "failed", "createThread", "getchar", "clearFlag", "waitFlag",
                 "joinManager", "stopDaemon", "joinDaemon", "exited"}
  /\ sigEqMgrFlag \in BOOLEAN /\ shutdown \in BOOLEAN
  /\ asked \in [Conns -> Asks \cup {NULL}] /\ asks \in 0 .. MaxAsks
  /\ batch \subseteq Conns /\ serving \in Conns \cup {NULL} /\ IsText(jResponse)
  /\ \A r \in Requests : block[r].isResponseReady \in BOOLEAN /\ IsText(block[r].json)
  /\ owner \in [Requests -> Conns \cup {NULL}]
  /\ \A c \in Conns : (outcome[c] = NULL \/ IsText(outcome[c])) /\ (answer[c] = NULL \/ IsText(answer[c]))
-----------------------------------------------------------------------------
(* No thread follows a pointer to freed memory in the queue's code or      *)
(* frees a block twice, from the first request, which may come before      *)
(* mgrInit, to freeNodeList, which runs beside the callback.  freeNodeList *)
(* leaves requestQueueTail dangling: what saves the next queueReq is that  *)
(* the one callback is then still waiting for the freed request.           *)
MemorySafe ==
  /\ pc[Daemon] \in {"test", "setList", "setNext"} => request[Daemon] \in live
  /\ pc[Daemon] \in {"setNext", "setTail"} => requestQueueTail \in live
  /\ pc[Manager] \in {"poll", "take", "freeQueue"} /\ requestQueueList # NULL => requestQueueList \in live
  /\ pc[Manager] \in {"handle", "setReady", "free"} => request[Manager] \in live
  /\ pc[Manager] = "freeHead" /\ headReq # NULL => headReq \in live

(* Seen by the clients the program is a TerminalService, when free leaves  *)
(* the text of a block alone: no request is applied twice or answered with *)
(* the outcome of another, even if the daemon is stopped in the middle.    *)
Service == INSTANCE TerminalService WITH stopped <- (pc[Daemon] = "ended")
ImplementsService == Service!SpecService

(* pthread_create has failed.                                              *)
NoManager == pc[Manager] = "unborn" /\ mainPc \notin {"startDaemon", "failed", "createThread"}

(* The manager, if there is one, goes through shutDown and main gets as    *)
(* far as stopping the daemon once the return key is pressed, whatever the *)
(* callback is doing.                                                      *)
ManagerEnds == (mainPc = "clearFlag") ~> (mainPc = "joinDaemon" \/ NoManager)

(* The callback waits in its spin loop for a request that nobody will      *)
(* handle any more.                                                        *)
NotReady == pc[Daemon] = "spin" /\ ~block[request[Daemon]].isResponseReady
LostAtStart == NotReady /\ InQueue(request[Daemon]) /\ requestQueueList = NULL
LostAtEnd == NotReady /\ pc[Manager] = "ended"

(* As long as nobody presses the return key every request is answered,     *)
(* unless one was lost to mgrInit or there is no manager.                  *)
EveryAskIsAnswered ==
  \A c \in Conns :
    (asked[c] # NULL) ~> (asked[c] = NULL \/ LostAtStart \/ NoManager \/ mainPc \notin {"createThread", "getchar"})

(* A lost request is also the only thing that can keep the program from    *)
(* ending once the manager has.                                            *)
ExitsUnlessLost == (mainPc = "joinDaemon") ~> (mainPc = "exited" \/ LostAtEnd)

(* runHttpServer.c: `extracting response from handled request'.  The text  *)
(* the callback copies is the answer the manager wrote.                    *)
AnswerIntact == pc[Daemon] = "send" => jResponse = outcome[serving]

(* runHttpServer.c: `(press return key to stop the server)'.               *)
ReturnKeyStops == (mainPc = "clearFlag") ~> (mainPc = "exited")
=============================================================================

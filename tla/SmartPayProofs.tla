--------------------------- MODULE SmartPayProofs ---------------------------
(***************************************************************************)
(* The memory of the request blocks, for the whole program: from the first *)
(* request, which may come before mgrInit, to freeNodeList, which walks    *)
(* the queue without the mutex while the callback may be adding to it.     *)
(* Then the call the callback makes to the manager, and the types, which   *)
(* rest on it.  All of it holds whatever free does to a request's text.    *)
(*                                                                         *)
(* The argument does not rest on the mutex.  There is one callback, and it *)
(* waits for its request: whatever is in the queue is that request, it     *)
(* was not handled, and the callback is not going to look at the list      *)
(* again until it is.                                                      *)
(***************************************************************************)
EXTENDS SmartPay, FiniteSetTheorems, TLAPS

DaemonLabels ==
  {"unborn", "idle", "lock", "test", "setList", "setTailToList", "unlock", "spin", "copy", "send", "ended"}
StartAndEnd ==
  {"unborn", "mgrInit", "initList", "initTail", "freeNodeList", "freeQueue", "freeHead", "signal", "ended"}

(* Types, as far as they are needed.                                       *)
Shapes ==
  /\ pc = [t \in Threads |-> pc[t]] /\ request = [t \in Threads |-> request[t]]
  /\ next = [r \in Requests |-> next[r]] /\ block = [r \in Requests |-> block[r]]
  /\ \A r \in Requests : "isResponseReady" \in DOMAIN block[r]
  /\ \A t \in Threads : request[t] \in Requests \cup {NULL}
  /\ pc[Daemon] \in DaemonLabels /\ pc[Manager] \in StartAndEnd \cup {"setReady"} \cup ManagerLabels
  /\ mainPc = "startDaemon" => pc[Daemon] = "unborn"
  /\ mainPc \in {"startDaemon", "createThread"} => pc[Manager] = "unborn"

(* Where the callback cannot have come back to the queue, because its      *)
(* request is not ready.                                                   *)
Committed ==
  /\ request[Daemon] # NULL
  /\ pc[Daemon] \in {"setTailToList", "unlock", "spin"}
  /\ ~block[request[Daemon]].isResponseReady

(* The queue holds at most the one request the callback is committed to.   *)
QueueOfOne ==
  /\ requestQueueList # NULL =>
       Committed /\ requestQueueList = request[Daemon]
       /\ requestQueueList \in live /\ next[requestQueueList] = NULL
  /\ requestQueueTail # NULL => Committed /\ requestQueueTail = request[Daemon]

(* The callback's request before it is in the queue.                       *)
NewRequest ==
  pc[Daemon] \in {"lock", "test", "setList", "setTailToList", "unlock"} =>
    /\ request[Daemon] # NULL
    /\ pc[Daemon] \in {"lock", "test", "setList"} =>
         request[Daemon] \in live /\ ~block[request[Daemon]].isResponseReady
    /\ pc[Daemon] = "setList" => next[request[Daemon]] = NULL

(* The request the manager has in hand, which is not in the queue.         *)
InHand ==
  /\ request[Manager] # NULL =>
       /\ pc[Manager] \in {"release", "handle", "setReady", "free"}
       /\ request[Manager] \in live
       /\ request[Manager] = request[Daemon] =>
            /\ requestQueueList = NULL /\ requestQueueTail = NULL
            /\ pc[Daemon] \notin {"lock", "test", "setList"}
  /\ pc[Manager] \in {"handle", "setReady", "free"} => request[Manager] # NULL

(* The request freeNodeList is about to free.                              *)
Freeing ==
  headReq # NULL =>
    /\ pc[Manager] = "freeQueue" => headReq = requestQueueList
    /\ pc[Manager] = "freeHead" =>
         Committed /\ headReq = request[Daemon] /\ headReq \in live /\ requestQueueList = NULL

MInv == Shapes /\ QueueOfOne /\ NewRequest /\ InHand /\ Freeing

(* The daemon, the manager and main are different threads.                 *)
LEMMA TwoThreads ==
  Daemon \in Threads /\ Manager \in Threads /\ Daemon # Manager /\ Threads = {Daemon, Manager}
  /\ NULL \notin Requests /\ NULL \notin Threads
  BY RQAssumption, SPAssumption DEF Threads

(* The initial state.                                                      *)
LEMMA InitMInv == SmartPayInit => MInv
  <1> SUFFICES ASSUME SmartPayInit PROVE MInv
    OBVIOUS
  <1> USE TwoThreads DEF SmartPayInit
  <1>1. Shapes
    <2>1. /\ pc = [t \in Threads |-> pc[t]] /\ request = [t \in Threads |-> request[t]]
          /\ next = [r \in Requests |-> next[r]] /\ block = [r \in Requests |-> block[r]]
      OBVIOUS
    <2>2. \A r \in Requests : "isResponseReady" \in DOMAIN block[r]
      OBVIOUS
    <2>3. pc[Daemon] = "unborn" /\ pc[Manager] = "unborn" /\ mainPc = "startDaemon"
          /\ \A t \in Threads : request[t] = NULL
      OBVIOUS
    <2>4. QED
      BY <2>1, <2>2, <2>3 DEF Shapes, DaemonLabels, StartAndEnd
  <1>2. QueueOfOne /\ NewRequest /\ InHand /\ Freeing
    BY DEF QueueOfOne, NewRequest, InHand, Freeing
  <1>3. QED
    BY <1>1, <1>2 DEF MInv

(* main moves the two threads to their start, and nothing else.            *)
LEMMA MainKeeps == MInv /\ (MainStep \/ ReturnKey) => MInv'
  <1> SUFFICES ASSUME MInv, MainStep \/ ReturnKey PROVE MInv'
    OBVIOUS
  <1> USE TwoThreads DEF MInv, Shapes, QueueOfOne, NewRequest, InHand, Freeing, Committed, queueVars, linkVars,
          managerVars, blockVars, MainGoto, DaemonLabels, StartAndEnd, ManagerLabels
  <1>1. CASE StartDaemon
    <2>1. CASE MainGoto("startDaemon", "failed") /\ UNCHANGED pc
      BY <1>1, <2>1 DEF StartDaemon
    <2>2. CASE MainGoto("startDaemon", "createThread") /\ Goto(Daemon, "idle")
      <3>1. pc'[Daemon] = "idle" /\ pc'[Manager] = "unborn" /\ pc' = [t \in Threads |-> pc'[t]]
        BY <2>2 DEF Goto
      <3>2. UNCHANGED <<linkVars, headReq, block>> /\ mainPc' = "createThread" /\ pc[Daemon] = "unborn"
            /\ pc[Manager] = "unborn"
        BY <1>1, <2>2 DEF StartDaemon
      <3>3. requestQueueList = NULL /\ requestQueueTail = NULL /\ request[Manager] = NULL
        BY <3>2
      <3>4. QED
        BY <3>1, <3>2, <3>3
    <2>3. QED
      BY <1>1, <2>1, <2>2 DEF StartDaemon
  <1>2. CASE CreateThread
    <2>1. /\ pc[Manager] = "unborn" /\ pc'[Manager] \in {"unborn", "mgrInit"} /\ pc'[Daemon] = pc[Daemon]
          /\ pc' = [t \in Threads |-> pc'[t]] /\ mainPc' = "getchar"
          /\ UNCHANGED <<linkVars, headReq, block>>
      BY <1>2 DEF CreateThread, Goto
    <2>2. request[Manager] = NULL
      BY <2>1
    <2>3. QED
      BY <2>1, <2>2
  <1>3. CASE ReturnKey \/ ClearFlag \/ WaitFlag \/ JoinManager \/ StopDaemon \/ JoinDaemon
    <2>1. UNCHANGED <<queueVars, headReq, block>> /\ mainPc' \notin {"startDaemon", "createThread"}
      BY <1>3 DEF ReturnKey, ClearFlag, WaitFlag, JoinManager, StopDaemon, JoinDaemon
    <2>2. QED
      BY <2>1
  <1>4. QED
    BY <1>1, <1>2, <1>3 DEF MainStep

(* A client's requests are not yet requests in the queue.                  *)
LEMMA AskKeeps == ASSUME MInv, NEW c \in Conns, NEW a \in Asks, Ask(c, a) PROVE MInv'
  <1>1. UNCHANGED <<queueVars, headReq, block, mainPc>>
    BY DEF Ask, mainVars, managerVars, blockVars
  <1>2. QED
    BY <1>1 DEF MInv, Shapes, QueueOfOne, NewRequest, InHand, Freeing, Committed, queueVars

(* The callback: it comes back to the queue only with a new request and    *)
(* when the one before is ready.                                           *)
LEMMA DaemonKeeps == MInv /\ DaemonStep => MInv'
  <1> SUFFICES ASSUME MInv, DaemonStep PROVE MInv'
    OBVIOUS
  <1> USE TwoThreads DEF MInv, Shapes, QueueOfOne, NewRequest, InHand, Freeing, Committed, queueVars, linkVars,
          mainVars, clientVars, daemonVars, managerVars, blockVars, DaemonLabels, Goto
  <1>1. CASE Select
    BY <1>1 DEF Select
  <1>2. ASSUME NEW c \in Conns, NEW r \in Requests, CreateRequestQueueItem(c, r) PROVE MInv'
    <2>1. /\ pc[Daemon] = "idle" /\ r \notin live /\ live' = live \cup {r}
          /\ request' = [request EXCEPT ![Daemon] = r] /\ pc' = [pc EXCEPT ![Daemon] = "lock"]
          /\ UNCHANGED <<requestQueueList, requestQueueTail, next, headReq, mainPc>>
          /\ \E m, t, j : block' = [block EXCEPT ![r] =
                 [method |-> m, termId |-> t, json |-> j, isResponseReady |-> FALSE]]
      BY <1>2 DEF CreateRequestQueueItem, Create
    <2>2. /\ block' = [q \in Requests |-> block'[q]] /\ block'[r].isResponseReady = FALSE
          /\ \A q \in Requests : "isResponseReady" \in DOMAIN block'[q]
      <3>1. PICK m, t, j : block' = [block EXCEPT ![r] =
                 [method |-> m, termId |-> t, json |-> j, isResponseReady |-> FALSE]]
        BY <2>1
      <3>2. /\ block'[r] = [method |-> m, termId |-> t, json |-> j, isResponseReady |-> FALSE]
            /\ block' = [q \in Requests |-> block'[q]] /\ \A q \in Requests \ {r} : block'[q] = block[q]
        BY <3>1
      <3>3. "isResponseReady" \in DOMAIN block'[r] /\ block'[r].isResponseReady = FALSE
        BY <3>2
      <3>4. QED
        BY <3>2, <3>3
    <2>3. /\ pc'[Daemon] = "lock" /\ pc'[Manager] = pc[Manager] /\ pc' = [t \in Threads |-> pc'[t]]
          /\ request'[Daemon] = r /\ request'[Manager] = request[Manager]
          /\ request' = [t \in Threads |-> request'[t]]
      BY <2>1
    <2>4. Shapes'
      BY <2>1, <2>2, <2>3
    <2>5. requestQueueList' = NULL /\ requestQueueTail' = NULL
      BY <2>1
    <2>6. QueueOfOne' /\ NewRequest'
      BY <2>1, <2>2, <2>3, <2>5
    <2>7. InHand' /\ Freeing'
      BY <2>1, <2>3, <2>5
    <2>8. QED
      BY <2>4, <2>6, <2>7
  <1>3. CASE HandlerLock(Daemon) /\ UNCHANGED <<mainVars, managerVars, blockVars>>
    BY <1>3 DEF HandlerLock
  <1>4. CASE TestTail(Daemon) /\ UNCHANGED <<mainVars, managerVars, blockVars>>
    BY <1>4 DEF TestTail
  <1>5. CASE SetList(Daemon) /\ UNCHANGED <<mainVars, managerVars, blockVars>>
    BY <1>5 DEF SetList
  <1>6. CASE SetTailToList(Daemon) /\ UNCHANGED <<mainVars, managerVars, blockVars>>
    BY <1>6 DEF SetTailToList
  <1>7. ~SetNext(Daemon) /\ ~SetTail(Daemon)
    BY DEF SetNext, SetTail
  <1>8. CASE HandlerUnlock(Daemon) /\ UNCHANGED <<mainVars, managerVars, blockVars>>
    BY <1>8 DEF HandlerUnlock
  <1>9. CASE LeaveSpin \/ CopyResponse
    BY <1>9, ZenonT(60) DEF LeaveSpin, CopyResponse
  <1>10. CASE SendResponse \/ CloseAllConnections
    BY <1>10, ZenonT(60) DEF SendResponse, CloseAllConnections
  <1>11. CASE QueueReq
    BY <1>3, <1>4, <1>5, <1>6, <1>7, <1>8, <1>11 DEF QueueReq, AddRequest
  <1>12. QED
    BY <1>1, <1>2, <1>9, <1>10, <1>11 DEF DaemonStep

(* free leaves the flag behind a block's text alone.                       *)
SameFlags ==
  /\ block' = [q \in Requests |-> block'[q]]
  /\ \A q \in Requests : "isResponseReady" \in DOMAIN block'[q]
                          /\ block'[q].isResponseReady = block[q].isResponseReady

(* What free does to a block leaves its flag alone.                        *)
LEMMA FreeKeepsFlags ==
  ASSUME Shapes, NEW r \in Requests, NEW b \in AfterFree(block[r]), block' = [block EXCEPT ![r] = b]
  PROVE  SameFlags
  <1>1. "isResponseReady" \in DOMAIN b /\ b.isResponseReady = block[r].isResponseReady
    BY DEF AfterFree, Shapes
  <1>2. block'[r] = b /\ \A q \in Requests \ {r} : block'[q] = block[q]
    BY DEF Shapes
  <1>3. block' = [q \in Requests |-> block'[q]]
    BY DEF Shapes
  <1>4. QED
    BY <1>1, <1>2, <1>3 DEF Shapes, SameFlags

(* The manager.                                                            *)
LEMMA ManagerKeeps == MInv /\ ManagerRoutine => MInv'
  <1> SUFFICES ASSUME MInv, ManagerRoutine PROVE MInv'
    OBVIOUS
  <1> USE TwoThreads DEF MInv, Shapes, QueueOfOne, NewRequest, InHand, Freeing, Committed, queueVars, linkVars,
          mainVars, clientVars, daemonVars, managerVars, blockVars, StartAndEnd, ManagerLabels, Goto
  <1>1. CASE InitTerminals
    BY <1>1 DEF InitTerminals
  <1>2. CASE InitList
    BY <1>2 DEF InitList
  <1>3. CASE InitTail
    BY <1>3 DEF InitTail
  <1>4. CASE (LoopTest \/ ManagerLock) /\ UNCHANGED <<mainVars, managerVars, blockVars>>
    BY <1>4, ZenonT(60) DEF LoopTest, ManagerLock
  <1>5. CASE Take /\ UNCHANGED <<mainVars, managerVars, blockVars>>
    BY <1>5 DEF Take
  <1>6. CASE ManagerUnlock /\ UNCHANGED <<mainVars, managerVars, blockVars>>
    BY <1>6, SMTT(60) DEF ManagerUnlock
  <1>7. CASE HandleRequest
    BY <1>7 DEF HandleRequest
  <1>8. CASE SetReady
    BY <1>8 DEF SetReady
  <1>9. CASE FreeRequest
    <2> DEFINE r == request[Manager]
    <2>1. /\ pc[Manager] = "free" /\ live' = live \ {r} /\ request' = [request EXCEPT ![Manager] = NULL]
          /\ pc' = [pc EXCEPT ![Manager] = "while"]
          /\ \E b \in AfterFree(block[r]) : block' = [block EXCEPT ![r] = b]
          /\ UNCHANGED <<requestQueueList, requestQueueTail, next, headReq, mainPc>>
      BY <1>9 DEF FreeRequest, Release
    <2>2. r \in Requests
      BY <2>1
    <2>3. SameFlags
      BY <2>1, <2>2, FreeKeepsFlags, ZenonT(60)
    <2>4. /\ request'[Manager] = NULL /\ request'[Daemon] = request[Daemon]
          /\ request' = [t \in Threads |-> request'[t]]
          /\ pc'[Manager] = "while" /\ pc'[Daemon] = pc[Daemon] /\ pc' = [t \in Threads |-> pc'[t]]
      BY <2>1
    <2>5. Shapes'
      BY <2>1, <2>3, <2>4 DEF SameFlags
    <2>6. QueueOfOne' /\ NewRequest'
      BY <2>1, <2>3, <2>4 DEF SameFlags
    <2>7. InHand' /\ Freeing'
      BY <2>1, <2>4
    <2>8. QED
      BY <2>5, <2>6, <2>7
  <1>10. CASE EndLoop
    BY <1>10 DEF EndLoop
  <1>11. CASE ReadHead
    BY <1>11 DEF ReadHead
  <1>12. CASE UnlinkHead
    BY <1>12 DEF UnlinkHead
  <1>13. CASE FreeHead
    <2>1. /\ pc[Manager] = "freeHead" /\ live' = live \ {headReq} /\ headReq' = requestQueueList
          /\ pc' = [pc EXCEPT ![Manager] = "freeQueue"]
          /\ UNCHANGED <<requestQueueList, requestQueueTail, next, request, mainPc>>
          /\ \/ headReq = NULL /\ UNCHANGED block
             \/ headReq # NULL /\ \E b \in AfterFree(block[headReq]) : block' = [block EXCEPT ![headReq] = b]
      BY <1>13 DEF FreeHead
    <2>2. SameFlags
      <3>1. CASE headReq = NULL
        BY <2>1, <3>1 DEF SameFlags
      <3>2. CASE headReq # NULL
        <4>1. headReq \in Requests
          BY <2>1, <3>2
        <4>2. QED
          BY <2>1, <3>2, <4>1, FreeKeepsFlags
      <3>3. QED
        BY <3>1, <3>2
    <2>3. pc'[Manager] = "freeQueue" /\ pc'[Daemon] = pc[Daemon] /\ pc' = [t \in Threads |-> pc'[t]]
      BY <2>1
    <2>4. Shapes'
      BY <2>1, <2>2, <2>3 DEF SameFlags
    <2>5. QueueOfOne' /\ NewRequest'
      BY <2>1, <2>2, <2>3 DEF SameFlags
    <2>6. InHand' /\ Freeing'
      BY <2>1, <2>3
    <2>7. QED
      BY <2>4, <2>5, <2>6
  <1>14. CASE EndFree \/ Signal
    BY <1>14, ZenonT(60) DEF EndFree, Signal
  <1>15. QED
    BY <1>1, <1>2, <1>3, <1>4, <1>5, <1>6, <1>7, <1>8, <1>9, <1>10, <1>11, <1>12, <1>13, <1>14
    DEF ManagerRoutine, Poll

(* The inductive invariant holds of every behaviour of the program.        *)
THEOREM MemoryInvariant == SmartPaySpec => []MInv
  <1>1. MInv /\ [SmartPayNext]_vars => MInv'
    <2>1. MInv /\ SmartPayNext => MInv'
      BY MainKeeps, AskKeeps, DaemonKeeps, ManagerKeeps DEF SmartPayNext
    <2>2. MInv /\ UNCHANGED vars => MInv'
      BY DEF MInv, Shapes, QueueOfOne, NewRequest, InHand, Freeing, Committed, vars, queueVars,
             mainVars, managerVars, blockVars
    <2>3. QED
      BY <2>1, <2>2
  <1>2. QED
    BY InitMInv, <1>1, PTL DEF SmartPaySpec

(* No thread follows a pointer to a freed request or frees one twice, for  *)
(* any number of clients and request blocks: neither a request that comes  *)
(* before mgrInit, nor freeNodeList beside the callback, gets it there.    *)
THEOREM ProgramIsMemorySafe == SmartPaySpec => []MemorySafe
  <1>1. MInv => MemorySafe
    BY TwoThreads DEF MInv, Shapes, QueueOfOne, NewRequest, InHand, Freeing, Committed, MemorySafe,
                      DaemonLabels
  <1>2. QED
    BY <1>1, MemoryInvariant, PTL

(* The daemon's thread never reaches the branch of addRequestToQueue that  *)
(* follows requestQueueTail: one callback finds the queue empty.           *)
THEOREM TailIsNeverFollowed == SmartPaySpec => [](pc[Daemon] \notin {"setNext", "setTail"})
  <1>1. MInv => pc[Daemon] \notin {"setNext", "setTail"}
    BY DEF MInv, Shapes, DaemonLabels
  <1>2. QED
    BY <1>1, MemoryInvariant, PTL
-----------------------------------------------------------------------------
(* The callback has created a request and not yet left its spin loop.      *)
Outstanding == pc[Daemon] \in {"lock", "test", "setList", "setTailToList", "unlock", "spin"}

(* The manager's answer is in the callback's block.                        *)
Handled ==
  \/ block[request[Daemon]].isResponseReady
  \/ pc[Manager] = "setReady" /\ request[Manager] = request[Daemon]

(* Types, and the requests that wait for their callback.                   *)
Connections ==
  /\ asked = [c \in Conns |-> asked[c]] /\ \A c \in Conns : asked[c] \in Asks \cup {NULL}
  /\ outcome = [c \in Conns |-> outcome[c]] /\ answer = [c \in Conns |-> answer[c]]
  /\ owner = [r \in Requests |-> owner[r]]
  /\ \A r \in Requests : {"method", "termId", "json"} \subseteq DOMAIN block[r]
  /\ serving \in Conns \cup {NULL} /\ batch \subseteq Conns \ {serving}
  /\ \A c \in batch : asked[c] # NULL
  /\ serving # NULL => asked[serving] # NULL
  /\ pc[Daemon] \notin {"unborn", "idle", "ended"} => serving # NULL /\ request[Daemon] # NULL
  /\ pc[Daemon] = "unborn" => serving = NULL

(* The end of the manager, before the daemon is stopped, and its start.    *)
Order ==
  /\ mainPc \in {"stopDaemon", "joinDaemon", "exited"} \/ shutdown => pc[Manager] = "ended"
  /\ pc[Manager] \in {"unborn", "mgrInit"} => db = << >>

(* What the manager has in hand is the callback's request.                 *)
InHandIsWaiting ==
  pc[Manager] \in {"release", "handle", "setReady"} /\ request[Manager] # NULL =>
    Committed /\ request[Manager] = request[Daemon]

CInv == MInv /\ Connections /\ Order /\ InHandIsWaiting

(* The program starts with no call.                                        *)
LEMMA InitCInv == SmartPayInit => CInv
  <1> SUFFICES ASSUME SmartPayInit PROVE CInv
    OBVIOUS
  <1> USE TwoThreads DEF SmartPayInit
  <1>1. Connections
    BY SPAssumption DEF Connections
  <1>2. Order /\ InHandIsWaiting
    BY DEF Order, InHandIsWaiting, Committed
  <1>3. QED
    BY <1>1, <1>2, InitMInv DEF CInv

(* main starts the two threads, stops the daemon only after the manager,   *)
(* and leaves the call alone.                                              *)
LEMMA MainMoves ==
  ASSUME CInv, MainStep \/ ReturnKey
  PROVE  /\ UNCHANGED <<request, asked, outcome, answer, owner, block, batch, serving, jResponse, db, asks>>
         /\ pc'[Manager] = pc[Manager] \/ (pc[Manager] = "unborn" /\ pc'[Manager] \in {"unborn", "mgrInit"})
         /\ pc'[Daemon] = pc[Daemon] \/ (pc[Daemon] = "unborn" /\ pc'[Daemon] = "idle")
         /\ mainPc' \in {"stopDaemon", "joinDaemon", "exited"} \/ shutdown' => pc'[Manager] = "ended"
         /\ shutdown => shutdown'
  <1> USE TwoThreads DEF CInv
  <1> USE DEF queueVars, linkVars, mainVars, clientVars, daemonVars, managerVars, blockVars, MainGoto
  <1>1. CASE StartDaemon
    <2>1. UNCHANGED <<request, asked, outcome, answer, owner, block, batch, serving, jResponse, db, asks, shutdown>>
          /\ mainPc' \in {"createThread", "failed"}
      BY <1>1 DEF StartDaemon
    <2>2. UNCHANGED pc \/ (pc[Daemon] = "unborn" /\ pc'[Daemon] = "idle" /\ pc'[Manager] = pc[Manager])
      <3>1. CASE UNCHANGED pc
        BY <3>1
      <3>2. CASE mainPc = "startDaemon" /\ Goto(Daemon, "idle")
        BY <3>2 DEF Goto, MInv, Shapes
      <3>3. QED
        BY <1>1, <3>1, <3>2 DEF StartDaemon
    <2>3. mainPc' \in {"stopDaemon", "joinDaemon", "exited"} \/ shutdown' => pc'[Manager] = "ended"
      <3>1. shutdown => pc[Manager] = "ended"
        BY DEF Order
      <3>2. QED
        BY <2>1, <2>2, <3>1
    <2>4. shutdown => shutdown'
      BY <2>1
    <2>5. QED
      BY <2>1, <2>2, <2>3, <2>4
  <1>2. CASE CreateThread
    <2>1. UNCHANGED <<request, asked, outcome, answer, owner, block, batch, serving, jResponse, db, asks, shutdown>>
          /\ mainPc' = "getchar" /\ mainPc = "createThread"
      BY <1>2 DEF CreateThread
    <2>2. pc[Manager] = "unborn" /\ pc'[Manager] \in {"unborn", "mgrInit"} /\ pc'[Daemon] = pc[Daemon]
      BY <1>2, <2>1 DEF CreateThread, Goto, MInv, Shapes
    <2>3. mainPc' \in {"stopDaemon", "joinDaemon", "exited"} \/ shutdown' => pc'[Manager] = "ended"
      <3>1. ~shutdown
        BY <2>2 DEF Order
      <3>2. ~shutdown'
        BY <2>1, <3>1
      <3>3. QED
        BY <2>1, <3>2
    <2>4. shutdown => shutdown'
      BY <2>1
    <2>5. QED
      BY <2>1, <2>2, <2>3, <2>4
  <1>3. CASE ReturnKey \/ ClearFlag \/ WaitFlag \/ JoinManager \/ StopDaemon \/ JoinDaemon
    <2>1. UNCHANGED <<pc, request, asked, outcome, answer, owner, block, batch, serving, jResponse, db, asks>>
      BY <1>3 DEF ReturnKey, ClearFlag, WaitFlag, JoinManager, StopDaemon, JoinDaemon
    <2>2. \/ mainPc' \notin {"stopDaemon", "joinDaemon", "exited"} /\ UNCHANGED shutdown
          \/ pc[Manager] = "ended"
      BY <1>3 DEF ReturnKey, ClearFlag, WaitFlag, JoinManager, StopDaemon, JoinDaemon, Order
    <2>3. mainPc' \in {"stopDaemon", "joinDaemon", "exited"} \/ shutdown' => pc'[Manager] = "ended"
      <3>1. shutdown => pc[Manager] = "ended"
        BY DEF Order
      <3>2. QED
        BY <2>1, <2>2, <3>1
    <2>4. shutdown => shutdown'
      BY <1>3 DEF ReturnKey, ClearFlag, WaitFlag, JoinManager, StopDaemon, JoinDaemon
    <2>5. QED
      BY <2>1, <2>3, <2>4
  <1>4. QED
    BY <1>1, <1>2, <1>3 DEF MainStep

(* main keeps the call's invariant.                                        *)
LEMMA MainKeepsCall == CInv /\ (MainStep \/ ReturnKey) => CInv'
  <1> SUFFICES ASSUME CInv, MainStep \/ ReturnKey PROVE CInv'
    OBVIOUS
  <1> USE MainMoves DEF CInv
  <1>1. MInv'
    BY MainKeeps
  <1>2. Connections' /\ Order'
    BY ZenonT(60) DEF Connections, Order
  <1>3. InHandIsWaiting'
    BY DEF InHandIsWaiting, Committed
  <1>4. QED
    BY <1>1, <1>2, <1>3

(* What a client's request changes: its connection, which had none.        *)
LEMMA AskMoves ==
  ASSUME Connections, NEW c \in Conns, NEW a \in Asks, Ask(c, a)
  PROVE  /\ UNCHANGED <<pc, request, mainPc, shutdown, outcome, owner, block, batch, serving, jResponse, db>>
         /\ asked[c] = NULL /\ asked'[c] = a /\ a # NULL /\ \A d \in Conns \ {c} : asked'[d] = asked[d]
         /\ asked' = [d \in Conns |-> asked'[d]]
         /\ answer' = [answer EXCEPT ![c] = NULL] /\ asks < MaxAsks /\ asks' = asks + 1
  <1>1. asked[c] = NULL /\ asked' = [asked EXCEPT ![c] = a]
    BY DEF Ask
  <1>2. QED
    BY <1>1, SPAssumption DEF Ask, Connections, queueVars, mainVars, daemonVars, managerVars, blockVars

(* A client's request keeps the call's invariant.                          *)
LEMMA AskKeepsCall == ASSUME CInv, NEW c \in Conns, NEW a \in Asks, Ask(c, a) PROVE CInv'
  <1> USE DEF CInv
  <1>1. MInv'
    BY AskKeeps
  <1>2. Connections'
    <2>1. /\ UNCHANGED <<pc, request, outcome, owner, block, batch, serving>> /\ asked'[c] = a
          /\ asked' = [d \in Conns |-> asked'[d]] /\ a # NULL
          /\ \A d \in Conns \ {c} : asked'[d] = asked[d]
      BY AskMoves
    <2>2. answer' = [d \in Conns |-> answer'[d]]
      BY AskMoves DEF Connections
    <2>3. QED
      BY <2>1, <2>2 DEF Connections
  <1>3. Order' /\ InHandIsWaiting'
    BY AskMoves DEF Order, InHandIsWaiting, Committed
  <1>4. QED
    BY <1>1, <1>2, <1>3

(* The daemon's steps between a request and its answer change no more than *)
(* where the daemon is.                                                    *)
DaemonMoves ==
  /\ UNCHANGED <<mainPc, shutdown, request, asked, outcome, answer, owner, block, batch, serving, db, asks>>
  /\ pc'[Manager] = pc[Manager]

(* The steps of queueReq leave the block's text and the manager alone.     *)
LEMMA QueueReqMoves ==
  ASSUME MInv, QueueReq
  PROVE  /\ DaemonMoves /\ UNCHANGED jResponse /\ Outstanding /\ Outstanding'
         /\ pc[Daemon] \in {"setTailToList", "unlock", "spin"} => pc'[Daemon] \in {"unlock", "spin"}
  <1> USE TwoThreads DEF MInv, Shapes, Goto, mainVars, clientVars, daemonVars, managerVars, blockVars
  <1>1. UNCHANGED <<mainPc, shutdown, request, asked, outcome, answer, owner, block, batch, serving, jResponse, db, asks>>
    BY DEF QueueReq, HandlerLock, AddRequest, TestTail, SetList, SetTailToList, SetNext, SetTail, HandlerUnlock
  <1>2. \E l \in {"test", "setList", "setTailToList", "unlock", "spin"} :
           /\ pc' = [pc EXCEPT ![Daemon] = l]
           /\ pc[Daemon] \in {"setTailToList", "unlock"} => l \in {"unlock", "spin"}
           /\ pc[Daemon] \in {"lock", "test", "setList", "setTailToList", "unlock"}
    <2>1. ~SetNext(Daemon) /\ ~SetTail(Daemon)
      BY DEF SetNext, SetTail, DaemonLabels
    <2>2. CASE HandlerLock(Daemon)
      BY <2>2 DEF HandlerLock
    <2>3. CASE TestTail(Daemon)
      <3>1. requestQueueTail = NULL
        BY <2>3 DEF TestTail, QueueOfOne, Committed
      <3>2. QED
        BY <2>3, <3>1 DEF TestTail
    <2>4. CASE SetList(Daemon) \/ SetTailToList(Daemon) \/ HandlerUnlock(Daemon)
      BY <2>4 DEF SetList, SetTailToList, HandlerUnlock
    <2>5. QED
      BY <2>1, <2>2, <2>3, <2>4 DEF QueueReq, AddRequest
  <1>3. PICK l \in {"test", "setList", "setTailToList", "unlock", "spin"} :
           /\ pc' = [pc EXCEPT ![Daemon] = l]
           /\ pc[Daemon] \in {"setTailToList", "unlock"} => l \in {"unlock", "spin"}
           /\ pc[Daemon] \in {"lock", "test", "setList", "setTailToList", "unlock"}
    BY <1>2
  <1>4. pc'[Daemon] = l /\ pc'[Manager] = pc[Manager]
    BY <1>3
  <1>5. QED
    BY <1>1, <1>3, <1>4 DEF DaemonMoves, Outstanding

(* createRequestQueueItem fills a block that nobody else has.              *)
LEMMA CreateMoves ==
  ASSUME CInv, NEW c \in Conns, NEW r \in Requests, CreateRequestQueueItem(c, r)
  PROVE  /\ pc[Daemon] = "idle" /\ pc'[Daemon] = "lock" /\ pc'[Manager] = pc[Manager]
         /\ request'[Daemon] = r /\ request'[Manager] = request[Manager] /\ request[Manager] # r
         /\ (serving = NULL /\ c \in batch) \/ serving = c
         /\ serving' = c /\ batch' = batch \ {c} /\ c # NULL /\ asked[c] # NULL /\ asked[c] \in Asks
         /\ owner' = [q \in Requests |-> owner'[q]] /\ owner'[r] = c
         /\ \A q \in Requests \ {r} : owner'[q] = owner[q]
         /\ block'[r] = [method |-> asked[c].method, termId |-> asked[c].termId,
                         json |-> IF asked[c].method = "GET" THEN Garbage ELSE asked[c].json,
                         isResponseReady |-> FALSE]
         /\ \A q \in Requests \ {r} : block'[q] = block[q]
         /\ UNCHANGED <<mainPc, shutdown, asked, outcome, answer, jResponse, db, asks>>
         /\ ~Handled'
  <1> USE TwoThreads DEF CInv
  <1> DEFINE b == [method |-> asked[c].method, termId |-> asked[c].termId,
                   json |-> IF asked[c].method = "GET" THEN Garbage ELSE asked[c].json,
                   isResponseReady |-> FALSE]
  <1>1. /\ pc[Daemon] = "idle" /\ r \notin live
        /\ request' = [request EXCEPT ![Daemon] = r] /\ pc' = [pc EXCEPT ![Daemon] = "lock"]
        /\ serving' = c /\ batch' = batch \ {c} /\ owner' = [owner EXCEPT ![r] = c]
        /\ block' = [block EXCEPT ![r] = b]
        /\ (serving = NULL /\ c \in batch) \/ serving = c
        /\ UNCHANGED <<mainPc, shutdown, asked, outcome, answer, jResponse, db, asks>>
    BY DEF CreateRequestQueueItem, Create, Goto, mainVars, clientVars, managerVars
  <1>2. b.isResponseReady = FALSE
    OBVIOUS
  <1> HIDE DEF b
  <1>3. block'[r] = b /\ \A q \in Requests \ {r} : block'[q] = block[q]
    BY <1>1 DEF MInv, Shapes
  <1>4. /\ pc'[Daemon] = "lock" /\ pc'[Manager] = pc[Manager]
        /\ request'[Daemon] = r /\ request'[Manager] = request[Manager]
    BY <1>1 DEF MInv, Shapes
  <1>5. owner' = [q \in Requests |-> owner'[q]] /\ owner'[r] = c
        /\ \A q \in Requests \ {r} : owner'[q] = owner[q]
    BY <1>1 DEF Connections
  <1>6. c # NULL /\ asked[c] # NULL /\ asked[c] \in Asks
    BY <1>1, SPAssumption DEF Connections
  <1>7. request[Manager] # r
    BY <1>1 DEF MInv, InHand
  <1>8. ~Handled'
    BY <1>2, <1>3, <1>4, <1>7 DEF Handled
  <1>9. QED
    BY <1>1, <1>3, <1>4, <1>5, <1>6, <1>7, <1>8 DEF b

(* The callback leaves its loop when the request is ready, and copies.     *)
LEMMA LeaveMoves ==
  ASSUME MInv, LeaveSpin \/ CopyResponse
  PROVE  /\ DaemonMoves /\ ~Outstanding'
         /\ \/ /\ LeaveSpin /\ pc[Daemon] = "spin" /\ pc'[Daemon] = "copy" /\ UNCHANGED jResponse
               /\ Outstanding /\ Handled
            \/ /\ CopyResponse /\ pc[Daemon] = "copy" /\ pc'[Daemon] = "send" /\ ~Outstanding
               /\ jResponse' = block[request[Daemon]].json
  BY TwoThreads
  DEF LeaveSpin, CopyResponse, DaemonMoves, Outstanding, Handled, Goto, MInv, Shapes, linkVars, mainVars, clientVars,
      daemonVars, managerVars, blockVars

(* sendResponse ends the call, but for a GET of a daemon that is stopped.  *)
LEMMA SendMoves ==
  ASSUME CInv, SendResponse
  PROVE  /\ pc[Daemon] = "send" /\ pc'[Daemon] = "idle" /\ pc'[Manager] = pc[Manager]
         /\ UNCHANGED <<mainPc, shutdown, request, owner, block, batch, db, asks>>
         /\ serving \in Conns /\ jResponse' = Garbage
         /\ answer' = [answer EXCEPT ![serving] = jResponse] \/ UNCHANGED answer
         /\ \/ /\ asked' = [asked EXCEPT ![serving] = NULL] /\ outcome' = [outcome EXCEPT ![serving] = NULL]
               /\ serving' = NULL
            \/ shutdown /\ serving' \in {serving, NULL} /\ UNCHANGED <<asked, outcome, answer>>
  <1> USE TwoThreads DEF CInv
  <1>1. /\ pc[Daemon] = "send" /\ pc'[Daemon] = "idle" /\ pc'[Manager] = pc[Manager]
        /\ UNCHANGED <<mainPc, shutdown, request, owner, block, batch, db, asks>> /\ jResponse' = Garbage
    BY DEF SendResponse, Goto, MInv, Shapes, linkVars, mainVars, blockVars
  <1>2. serving \in Conns
    BY <1>1 DEF Connections
  <1>3. QED
    BY <1>1, <1>2 DEF SendResponse

(* Closing the connections ends the daemon's thread.                       *)
LEMMA CloseMoves ==
  ASSUME MInv, CloseAllConnections
  PROVE  /\ pc[Daemon] = "idle" /\ pc'[Daemon] = "ended" /\ pc'[Manager] = pc[Manager]
         /\ serving = NULL /\ batch = {} /\ shutdown
         /\ asked' = [c \in Conns |-> NULL] /\ outcome' = [c \in Conns |-> NULL]
         /\ UNCHANGED <<mainPc, shutdown, request, owner, block, batch, serving, jResponse, answer, db, asks>>
  BY TwoThreads DEF CloseAllConnections, Goto, MInv, Shapes, linkVars, mainVars, daemonVars, blockVars

(* The daemon's thread keeps the call's invariant.                         *)
LEMMA DaemonKeepsCall == CInv /\ DaemonStep => CInv'
  <1> SUFFICES ASSUME CInv, DaemonStep PROVE CInv'
    OBVIOUS
  <1> USE TwoThreads DEF CInv
  <1>1. MInv'
    BY DaemonKeeps
  <1>2. CASE Select
    <2>1. /\ UNCHANGED <<pc, mainPc, shutdown, request, asked, outcome, answer, owner, block, serving, db>>
          /\ serving = NULL /\ batch' = {c \in Conns : asked[c] # NULL} /\ pc[Daemon] = "idle"
      BY <1>2 DEF Select, queueVars, mainVars, clientVars, managerVars, blockVars
    <2>2. Connections'
      BY <2>1, SPAssumption DEF Connections
    <2>3. Order' /\ InHandIsWaiting'
      BY <2>1 DEF Order, InHandIsWaiting, Committed
    <2>4. QED
      BY <1>1, <2>2, <2>3
  <1>3. ASSUME NEW c \in Conns, NEW r \in Requests, CreateRequestQueueItem(c, r) PROVE CInv'
    <2> DEFINE b == [method |-> asked[c].method, termId |-> asked[c].termId,
                     json |-> IF asked[c].method = "GET" THEN Garbage ELSE asked[c].json,
                     isResponseReady |-> FALSE]
    <2>1. {"method", "termId", "json"} \subseteq DOMAIN b
      OBVIOUS
    <2>2. block'[r] = b /\ \A q \in Requests \ {r} : block'[q] = block[q]
      BY <1>3, CreateMoves
    <2> HIDE DEF b
    <2>3. \A q \in Requests : {"method", "termId", "json"} \subseteq DOMAIN block'[q]
      BY <2>1, <2>2 DEF Connections
    <2>4. /\ pc[Daemon] = "idle" /\ pc'[Daemon] = "lock" /\ pc'[Manager] = pc[Manager]
          /\ request'[Daemon] = r /\ request'[Manager] = request[Manager]
          /\ serving' = c /\ batch' = batch \ {c} /\ c # NULL /\ r # NULL /\ asked[c] # NULL
          /\ owner' = [q \in Requests |-> owner'[q]]
          /\ UNCHANGED <<mainPc, shutdown, asked, outcome, answer, db>>
      BY <1>3, CreateMoves
    <2>5. Connections'
      BY <2>3, <2>4 DEF Connections
    <2>6. Order' /\ InHandIsWaiting'
      BY <2>4 DEF Order, InHandIsWaiting, Committed
    <2>7. QED
      BY <1>1, <2>5, <2>6
  <1>4. CASE QueueReq \/ LeaveSpin \/ CopyResponse
    <2>1. /\ DaemonMoves /\ pc[Daemon] \notin {"unborn", "idle", "ended"} /\ pc'[Daemon] # "unborn"
          /\ pc[Daemon] \in {"setTailToList", "unlock", "spin"} =>
               pc'[Daemon] \in {"unlock", "spin"} \/ block[request[Daemon]].isResponseReady
      BY <1>4, QueueReqMoves, LeaveMoves DEF Outstanding, LeaveSpin
    <2>2. Connections'
      BY <2>1 DEF Connections, DaemonMoves
    <2>3. Order' /\ InHandIsWaiting'
      BY <2>1 DEF Order, InHandIsWaiting, Committed, DaemonMoves
    <2>4. QED
      BY <1>1, <2>2, <2>3
  <1>5. CASE SendResponse
    <2>1. /\ pc[Daemon] = "send" /\ pc'[Daemon] = "idle" /\ pc'[Manager] = pc[Manager]
          /\ UNCHANGED <<mainPc, shutdown, request, owner, block, batch, db>> /\ serving \in Conns
      BY <1>5, SendMoves
    <2>2. answer' = [c \in Conns |-> answer'[c]]
      BY <1>5, SendMoves DEF Connections
    <2>3. \/ /\ asked' = [asked EXCEPT ![serving] = NULL] /\ outcome' = [outcome EXCEPT ![serving] = NULL]
             /\ serving' = NULL
          \/ shutdown /\ serving' \in {serving, NULL} /\ UNCHANGED <<asked, outcome>>
      BY <1>5, SendMoves
    <2>4. Connections'
      <3>1. CASE UNCHANGED <<asked, outcome>>
        BY <2>1, <2>2, <2>3, <3>1, SPAssumption, ZenonT(60) DEF Connections
      <3>2. CASE asked' = [asked EXCEPT ![serving] = NULL] /\ outcome' = [outcome EXCEPT ![serving] = NULL]
                 /\ serving' = NULL
        <4>1. /\ asked' = [c \in Conns |-> asked'[c]] /\ outcome' = [c \in Conns |-> outcome'[c]]
              /\ \A c \in Conns : asked'[c] = asked[c] \/ asked'[c] = NULL
              /\ \A c \in batch : asked'[c] = asked[c]
          BY <3>2 DEF Connections
        <4>2. batch \subseteq Conns /\ NULL \notin batch
          BY SPAssumption DEF Connections
        <4>3. QED
          BY <2>1, <2>2, <3>2, <4>1, <4>2, ZenonT(60) DEF Connections
      <3>3. QED
        BY <2>3, <3>1, <3>2
    <2>5. Order' /\ InHandIsWaiting'
      BY <2>1 DEF Order, InHandIsWaiting, Committed
    <2>6. QED
      BY <1>1, <2>4, <2>5
  <1>6. CASE CloseAllConnections
    BY <1>1, <1>6, CloseMoves DEF Connections, Order, InHandIsWaiting, Committed
  <1>7. QED
    BY <1>2, <1>3, <1>4, <1>5, <1>6 DEF DaemonStep

(* The manager's steps that neither handle a request nor set its flag: no  *)
(* client sees them, and of a block they change at most what free may.     *)
ManagerMoves ==
  /\ UNCHANGED <<mainPc, shutdown, asked, outcome, answer, owner, batch, serving, jResponse, db, asks>>
  /\ pc'[Daemon] = pc[Daemon] /\ request'[Daemon] = request[Daemon]
  /\ pc[Manager] \notin {"unborn", "setReady", "ended"} /\ pc'[Manager] \notin {"unborn", "mgrInit", "setReady"}
  /\ \/ UNCHANGED block
     \/ \E r \in Requests : \E b \in AfterFree(block[r]) : block' = [block EXCEPT ![r] = b]

(* What the manager takes is the request the callback waits for.           *)
LEMMA OtherStepsMove ==
  ASSUME CInv, ManagerRoutine, ~HandleRequest, ~SetReady
  PROVE  ManagerMoves /\ InHandIsWaiting'
  <1> USE TwoThreads DEF CInv
  <1> DEFINE Kept == UNCHANGED <<mainPc, shutdown, asked, outcome, answer, owner, batch, serving, jResponse, asks>>
                     /\ pc'[Daemon] = pc[Daemon] /\ request'[Daemon] = request[Daemon]
  <1>1. CASE InitTerminals
    <2>1. /\ pc[Manager] = "mgrInit" /\ db' = << >> /\ pc'[Manager] = "initList" /\ Kept /\ UNCHANGED block
      BY <1>1 DEF InitTerminals, Goto, MInv, Shapes, linkVars, mainVars, clientVars, daemonVars, blockVars
    <2>2. db' = db
      BY <2>1 DEF Order
    <2>3. QED
      BY <2>1, <2>2 DEF ManagerMoves, InHandIsWaiting
  <1>2. CASE InitList \/ InitTail \/ EndLoop \/ ReadHead \/ UnlinkHead \/ EndFree \/ Signal
    <2>1. /\ pc[Manager] \notin {"unborn", "setReady", "ended"}
          /\ pc'[Manager] \notin {"unborn", "mgrInit", "release", "handle", "setReady"}
          /\ Kept /\ UNCHANGED <<block, db>>
      BY <1>2 DEF InitList, InitTail, EndLoop, ReadHead, UnlinkHead, EndFree, Signal,
                  Goto, MInv, Shapes, linkVars, mainVars, clientVars, daemonVars, managerVars, blockVars
    <2>2. QED
      BY <2>1 DEF ManagerMoves, InHandIsWaiting
  <1>3. CASE Poll
    <2>1. /\ pc[Manager] \notin {"unborn", "setReady", "ended"}
          /\ pc'[Manager] \notin {"unborn", "mgrInit", "setReady"} /\ Kept /\ UNCHANGED <<block, db>>
      BY <1>3 DEF Poll, LoopTest, ManagerLock, Take, ManagerUnlock, Goto, MInv, Shapes,
                  mainVars, clientVars, daemonVars, managerVars, blockVars
    <2>2. InHandIsWaiting'
      <3>1. CASE LoopTest \/ ManagerLock
        BY <2>1, <3>1 DEF LoopTest, ManagerLock, Goto, MInv, Shapes, InHand, InHandIsWaiting
      <3>2. CASE Take
        <4>1. request'[Manager] = requestQueueList
          BY <3>2 DEF Take, MInv, Shapes
        <4>2. QED
          BY <2>1, <4>1 DEF InHandIsWaiting, Committed, MInv, QueueOfOne
      <3>3. CASE ManagerUnlock
        <4>1. pc[Manager] = "release" /\ UNCHANGED request
          BY <3>3 DEF ManagerUnlock
        <4>2. QED
          BY <2>1, <4>1 DEF InHandIsWaiting, Committed
      <3>4. QED
        BY <1>3, <3>1, <3>2, <3>3 DEF Poll
    <2>3. QED
      BY <2>1, <2>2 DEF ManagerMoves
  <1>4. CASE FreeRequest \/ FreeHead
    <2>1. /\ pc[Manager] \in {"free", "freeHead"} /\ pc'[Manager] \in {"while", "freeQueue"}
          /\ Kept /\ UNCHANGED db
      BY <1>4 DEF FreeRequest, Release, FreeHead, Goto, MInv, Shapes,
                  mainVars, clientVars, daemonVars, managerVars
    <2>2. \/ UNCHANGED block
          \/ \E r \in Requests : \E b \in AfterFree(block[r]) : block' = [block EXCEPT ![r] = b]
      <3>1. CASE FreeRequest
        BY <3>1 DEF FreeRequest, Release, MInv, Shapes, InHand
      <3>2. CASE FreeHead
        BY <3>2 DEF FreeHead, MInv, Shapes, Freeing, Committed
      <3>3. QED
        BY <1>4, <3>1, <3>2
    <2>3. QED
      BY <2>1, <2>2 DEF ManagerMoves, InHandIsWaiting
  <1>5. QED
    BY <1>1, <1>2, <1>3, <1>4 DEF ManagerRoutine

(* The manager handles the request the callback waits for, and for the     *)
(* first time.                                                             *)
LEMMA HandleMoves ==
  ASSUME CInv, HandleRequest
  PROVE  /\ request[Manager] = request[Daemon] /\ request[Daemon] \in Requests
         /\ Committed /\ Outstanding /\ ~Handled /\ Handled' /\ Outstanding' /\ ~shutdown
         /\ pc[Manager] = "handle" /\ pc'[Manager] = "setReady" /\ pc'[Daemon] = pc[Daemon]
         /\ serving \in Conns /\ asked[serving] \in Asks /\ asked[serving] # NULL
         /\ UNCHANGED <<mainPc, shutdown, asked, asks, answer, owner, batch, serving, jResponse, request>>
  <1> USE TwoThreads DEF CInv
  <1>1. pc[Manager] = "handle" /\ pc'[Manager] = "setReady" /\ pc'[Daemon] = pc[Daemon]
        /\ UNCHANGED <<mainPc, shutdown, asked, asks, answer, owner, batch, serving, jResponse, request>>
    BY DEF HandleRequest, Goto, MInv, Shapes, linkVars, mainVars, clientVars, daemonVars
  <1>2. Committed /\ request[Manager] = request[Daemon]
    BY <1>1 DEF MInv, InHand, InHandIsWaiting
  <1>3. request[Daemon] \in Requests /\ Outstanding /\ ~Handled
    BY <1>1, <1>2 DEF Committed, Outstanding, Handled, MInv, Shapes
  <1>4. Outstanding' /\ Handled'
    BY <1>1, <1>2, <1>3 DEF Outstanding, Handled
  <1>5. ~shutdown
    BY <1>1 DEF Order
  <1>6. serving \in Conns /\ asked[serving] \in Asks /\ asked[serving] # NULL
    BY <1>3 DEF Outstanding, Connections
  <1>7. QED
    BY <1>1, <1>2, <1>3, <1>4, <1>5, <1>6

(* The flag says what was so before: the request is handled.               *)
LEMMA SetReadyMoves ==
  ASSUME CInv, SetReady
  PROVE  /\ request[Manager] = request[Daemon] /\ request[Daemon] \in Requests /\ Committed
         /\ Outstanding /\ Handled /\ Outstanding' /\ Handled'
         /\ pc[Manager] = "setReady" /\ pc'[Manager] = "free" /\ pc'[Daemon] = pc[Daemon]
         /\ block' = [block EXCEPT ![request[Daemon]].isResponseReady = TRUE]
         /\ UNCHANGED <<mainPc, shutdown, asked, asks, answer, outcome, owner, batch, serving, jResponse, request, db>>
  <1> USE TwoThreads DEF CInv
  <1>1. /\ pc[Manager] = "setReady" /\ pc'[Manager] = "free" /\ pc'[Daemon] = pc[Daemon]
        /\ block' = [block EXCEPT ![request[Manager]].isResponseReady = TRUE]
        /\ UNCHANGED <<mainPc, shutdown, asked, asks, answer, outcome, owner, batch, serving, jResponse, request, db>>
    BY DEF SetReady, Goto, MInv, Shapes, linkVars, mainVars, clientVars, daemonVars, managerVars
  <1>2. request[Manager] = request[Daemon] /\ request[Daemon] \in Requests /\ Committed
    BY <1>1 DEF MInv, InHand, Shapes, InHandIsWaiting
  <1>3. block'[request[Daemon]].isResponseReady
    BY <1>1, <1>2 DEF MInv, Shapes
  <1>4. Outstanding /\ Handled /\ Outstanding' /\ Handled'
    BY <1>1, <1>2, <1>3 DEF Outstanding, Handled, Committed
  <1>5. QED
    BY <1>1, <1>2, <1>4

(* What free does to a block leaves its fields there.                      *)
LEMMA FreeKeepsFields ==
  ASSUME MInv, Connections, ManagerMoves
  PROVE  /\ \A q \in Requests : {"method", "termId", "json"} \subseteq DOMAIN block'[q]
         /\ \A q \in Requests : block'[q].isResponseReady = block[q].isResponseReady
  <1>1. CASE UNCHANGED block
    BY <1>1 DEF Connections
  <1>2. ASSUME NEW r \in Requests, NEW b \in AfterFree(block[r]), block' = [block EXCEPT ![r] = b]
        PROVE  /\ \A q \in Requests : {"method", "termId", "json"} \subseteq DOMAIN block'[q]
               /\ \A q \in Requests : block'[q].isResponseReady = block[q].isResponseReady
    <2>1. SameFlags
      BY <1>2, FreeKeepsFlags DEF MInv
    <2>2. {"method", "termId", "json"} \subseteq DOMAIN b
      BY ZenonT(60) DEF AfterFree, Connections
    <2>3. block'[r] = b /\ \A q \in Requests \ {r} : block'[q] = block[q]
      BY <1>2 DEF MInv, Shapes
    <2>4. QED
      BY <2>1, <2>2, <2>3 DEF SameFlags, Connections
  <1>3. QED
    BY <1>1, <1>2 DEF ManagerMoves

(* The manager keeps the call's invariant.                                 *)
LEMMA ManagerKeepsCall == CInv /\ ManagerRoutine => CInv'
  <1> SUFFICES ASSUME CInv, ManagerRoutine PROVE CInv'
    OBVIOUS
  <1> USE TwoThreads DEF CInv
  <1>1. MInv'
    BY ManagerKeeps
  <1>2. CASE HandleRequest
    <2> DEFINE r == request[Daemon]
    <2>1. /\ request[Manager] = r /\ r \in Requests /\ Committed /\ ~shutdown
          /\ pc'[Manager] = "setReady" /\ pc'[Daemon] = pc[Daemon] /\ pc[Manager] = "handle"
          /\ UNCHANGED <<mainPc, shutdown, asked, answer, owner, batch, serving, request>>
      BY <1>2, HandleMoves
    <2>2. \E result : block' = [block EXCEPT ![r].json = result]
      BY <1>2, <2>1 DEF HandleRequest
    <2>3. \E c, result : outcome' = [outcome EXCEPT ![c] = result]
      BY <1>2 DEF HandleRequest
    <2>4. /\ block'[r].isResponseReady = block[r].isResponseReady
          /\ \A q \in Requests : {"method", "termId", "json"} \subseteq DOMAIN block'[q]
      BY <2>1, <2>2 DEF Connections, MInv, Shapes
    <2>5. outcome' = [c \in Conns |-> outcome'[c]]
      BY <2>3 DEF Connections
    <2>6. Connections'
      BY <2>1, <2>4, <2>5 DEF Connections
    <2>7. Order' /\ InHandIsWaiting'
      BY <2>1, <2>4 DEF Order, InHandIsWaiting, Committed
    <2>8. QED
      BY <1>1, <2>6, <2>7
  <1>3. CASE SetReady
    <2> DEFINE r == request[Daemon]
    <2>1. /\ r \in Requests /\ pc[Manager] = "setReady" /\ pc'[Manager] = "free" /\ pc'[Daemon] = pc[Daemon]
          /\ block' = [block EXCEPT ![r].isResponseReady = TRUE]
          /\ UNCHANGED <<mainPc, shutdown, asked, answer, outcome, owner, batch, serving, request, db>>
      BY <1>3, SetReadyMoves
    <2>2. \A q \in Requests : {"method", "termId", "json"} \subseteq DOMAIN block'[q]
      BY <2>1 DEF Connections, MInv, Shapes
    <2>3. Connections' /\ Order' /\ InHandIsWaiting'
      BY <2>1, <2>2 DEF Connections, Order, InHandIsWaiting
    <2>4. QED
      BY <1>1, <2>3
  <1>4. CASE ~HandleRequest /\ ~SetReady
    <2>1. ManagerMoves /\ InHandIsWaiting'
      BY <1>4, OtherStepsMove
    <2>2. Connections' /\ Order'
      BY <2>1, FreeKeepsFields, ZenonT(60) DEF ManagerMoves, Connections, Order
    <2>3. QED
      BY <1>1, <2>1, <2>2
  <1>5. QED
    BY <1>2, <1>3, <1>4

(* Every step keeps the call's invariant.                                  *)
LEMMA CallStep == CInv /\ [SmartPayNext]_vars => CInv'
  <1>1. CInv /\ SmartPayNext => CInv'
    BY MainKeepsCall, AskKeepsCall, DaemonKeepsCall, ManagerKeepsCall DEF SmartPayNext
  <1>2. CInv /\ UNCHANGED vars => CInv'
    <2> SUFFICES ASSUME CInv, UNCHANGED vars PROVE CInv'
      OBVIOUS
    <2> USE DEF CInv, vars, queueVars, mainVars, clientVars, daemonVars, managerVars, blockVars
    <2>1. MInv'
      BY DEF MInv, Shapes, QueueOfOne, NewRequest, InHand, Freeing, Committed
    <2>2. Connections' /\ Order' /\ InHandIsWaiting'
      BY DEF Connections, Order, InHandIsWaiting, Committed
    <2>3. QED
      BY <2>1, <2>2
  <1>3. QED
    BY <1>1, <1>2

(* The call's invariant holds of every behaviour of the program: whatever  *)
(* the manager has in hand its callback waits for, and the daemon is not   *)
(* stopped before the manager has ended.                                   *)
THEOREM CallInvariant == SmartPaySpec => []CInv
  BY InitCInv, CallStep, PTL DEF SmartPaySpec
-----------------------------------------------------------------------------
(* The manager has answered the request the daemon serves.                 *)
Decided == (Outstanding /\ Handled) \/ pc[Daemon] \in {"copy", "send"}

(* The connections whose request the manager may still have to answer.     *)
Pending == {c \in Conns : asked[c] # NULL /\ ~(c = serving /\ Decided)}

(* Every stored transaction was posted by a request of its own, so that    *)
(* the terminals never outnumber the requests.                             *)
Counted ==
  /\ \E S : db \in Seq(S)
  /\ asks \in Nat /\ Len(db) <= asks
  /\ pc[Manager] # "ended" => IsFiniteSet(Pending) /\ Len(db) + Cardinality(Pending) <= asks

(* One more element.                                                       *)
LEMMA AppendIsSeq ==
  ASSUME NEW S, NEW s \in Seq(S), NEW x
  PROVE  (\E T : Append(s, x) \in Seq(T)) /\ Len(Append(s, x)) = Len(s) + 1 /\ Len(s) \in Nat
  <1>1. s \in Seq(S \cup {x})
    OBVIOUS
  <1>2. Append(s, x) \in Seq(S \cup {x}) /\ Len(Append(s, x)) = Len(s) + 1 /\ Len(s) \in Nat
    BY <1>1
  <1>3. QED
    BY <1>2

(* A step that stores nothing and leaves the same requests to be answered. *)
LEMMA CountStays ==
  ASSUME Counted, UNCHANGED <<db, asks>>, pc'[Manager] # "ended" => pc[Manager] # "ended" /\ Pending' = Pending
  PROVE  Counted'
  BY DEF Counted

(* The program starts with no request and no transaction.                  *)
LEMMA InitCounted == SmartPayInit => Counted
  <1> SUFFICES ASSUME SmartPayInit PROVE Counted
    OBVIOUS
  <1>1. db = << >> /\ asks = 0 /\ Pending = {}
    BY DEF SmartPayInit, Pending
  <1>2. db \in Seq({}) /\ Len(db) = 0
    BY <1>1
  <1>3. IsFiniteSet(Pending) /\ Cardinality(Pending) = 0
    BY <1>1, FS_EmptySet
  <1>4. QED
    BY <1>1, <1>2, <1>3 DEF Counted

(* What main, the clients and the daemon do to the count.                  *)
LEMMA OthersKeepCount ==
  ASSUME CInv, Counted, MainStep \/ ReturnKey \/ (\E c \in Conns, a \in Asks : Ask(c, a)) \/ DaemonStep
  PROVE  Counted'
  <1> USE DEF CInv
  <1>1. CASE MainStep \/ ReturnKey
    <2>1. UNCHANGED <<request, asked, block, serving, db, asks>>
          /\ (pc'[Daemon] = pc[Daemon] \/ (pc[Daemon] = "unborn" /\ pc'[Daemon] = "idle"))
          /\ (pc'[Manager] = pc[Manager] \/ (pc[Manager] = "unborn" /\ pc'[Manager] \in {"unborn", "mgrInit"}))
      BY <1>1, MainMoves
    <2>2. Decided' = Decided
      BY <2>1 DEF Decided, Outstanding, Handled
    <2>3. Pending' = Pending
      BY <2>1, <2>2 DEF Pending
    <2>4. QED
      BY <2>1, <2>3, CountStays
  <1>2. ASSUME NEW c \in Conns, NEW a \in Asks, Ask(c, a) PROVE Counted'
    <2>1. /\ UNCHANGED <<pc, request, block, serving, db>> /\ asks' = asks + 1
          /\ asked[c] = NULL /\ asked'[c] = a /\ a # NULL /\ \A d \in Conns \ {c} : asked'[d] = asked[d]
      BY <1>2, AskMoves
    <2>2. Decided' = Decided /\ c # serving
      BY <2>1, SPAssumption DEF Decided, Outstanding, Handled, Connections
    <2>3. Pending' = Pending \cup {c} /\ c \notin Pending
      BY <2>1, <2>2 DEF Pending
    <2>4. IsFiniteSet(Pending) => IsFiniteSet(Pending') /\ Cardinality(Pending') = Cardinality(Pending) + 1
      BY <2>3, FS_AddElement
    <2>5. IsFiniteSet(Pending) => Cardinality(Pending) \in Nat
      BY FS_CardinalityType
    <2>6. Len(db) \in Nat
      BY DEF Counted
    <2>7. QED
      BY <2>1, <2>4, <2>5, <2>6 DEF Counted
  <1>3. CASE Select
    <2>1. UNCHANGED <<pc, request, block, serving, asked, db, asks>>
      BY <1>3 DEF Select, queueVars, clientVars, managerVars, blockVars
    <2>2. Decided' = Decided
      BY <2>1 DEF Decided, Outstanding, Handled
    <2>3. Pending' = Pending
      BY <2>1, <2>2 DEF Pending
    <2>4. QED
      BY <2>1, <2>3, CountStays
  <1>4. ASSUME NEW c \in Conns, NEW r \in Requests, CreateRequestQueueItem(c, r) PROVE Counted'
    <2>1. /\ pc[Daemon] = "idle" /\ pc'[Daemon] = "lock" /\ pc'[Manager] = pc[Manager]
          /\ UNCHANGED <<asked, db, asks>> /\ ~Handled'
      BY <1>4, CreateMoves
    <2>2. ~Decided /\ ~Decided'
      BY <2>1 DEF Decided, Outstanding
    <2>3. Pending' = Pending
      BY <2>1, <2>2 DEF Pending
    <2>4. QED
      BY <2>1, <2>3, CountStays
  <1>5. CASE QueueReq
    <2>1. DaemonMoves /\ Outstanding /\ Outstanding'
      BY <1>5, QueueReqMoves
    <2>2. Decided' = Decided
      BY <2>1 DEF Decided, Handled, DaemonMoves, Outstanding
    <2>3. Pending' = Pending
      BY <2>1, <2>2 DEF Pending, DaemonMoves
    <2>4. QED
      BY <2>1, <2>3, CountStays DEF DaemonMoves
  <1>6. CASE LeaveSpin \/ CopyResponse
    <2>1. /\ DaemonMoves /\ pc'[Daemon] \in {"copy", "send"}
          /\ (Outstanding /\ Handled) \/ pc[Daemon] = "copy"
      BY <1>6, LeaveMoves
    <2>2. Decided /\ Decided'
      BY <2>1 DEF Decided
    <2>3. Pending' = Pending
      BY <2>1, <2>2 DEF Pending, DaemonMoves
    <2>4. QED
      BY <2>1, <2>3, CountStays DEF DaemonMoves
  <1>7. CASE SendResponse
    <2>1. /\ pc[Daemon] = "send" /\ pc'[Manager] = pc[Manager] /\ UNCHANGED <<db, asks>> /\ serving \in Conns
          /\ \/ asked' = [asked EXCEPT ![serving] = NULL] /\ serving' = NULL
             \/ shutdown
      BY <1>7, SendMoves
    <2>2. CASE shutdown
      <3>1. pc[Manager] = "ended"
        BY <2>2 DEF Order
      <3>2. QED
        BY <2>1, <3>1, CountStays
    <2>3. CASE asked' = [asked EXCEPT ![serving] = NULL] /\ serving' = NULL
      <3>1. asked'[serving] = NULL /\ \A c \in Conns \ {serving} : asked'[c] = asked[c]
        BY <2>1, <2>3 DEF Connections
      <3>2. Decided
        BY <2>1 DEF Decided
      <3>3. NULL \notin Conns
        BY SPAssumption
      <3>4. Pending' = Pending
        BY <2>3, <3>1, <3>2, <3>3 DEF Pending
      <3>5. QED
        BY <2>1, <3>4, CountStays
    <2>4. QED
      BY <2>1, <2>2, <2>3
  <1>8. CASE CloseAllConnections
    <2>1. pc[Manager] = "ended" /\ pc'[Manager] = pc[Manager] /\ UNCHANGED <<db, asks>>
      BY <1>8, CloseMoves DEF Order
    <2>2. QED
      BY <2>1, CountStays
  <1>9. QED
    BY <1>1, <1>2, <1>3, <1>4, <1>5, <1>6, <1>7, <1>8 DEF DaemonStep

(* The manager has one request less to answer when it has handled one.     *)
LEMMA HandledIsOneLess ==
  ASSUME CInv, Counted, HandleRequest
  PROVE  /\ IsFiniteSet(Pending') /\ Cardinality(Pending') \in Nat
         /\ Len(db) \in Nat /\ Len(db) + 1 + Cardinality(Pending') <= asks
  <1> USE DEF CInv
  <1>1. /\ ~Handled /\ Handled' /\ Outstanding /\ Outstanding'
        /\ serving \in Conns /\ asked[serving] # NULL /\ pc[Manager] = "handle"
        /\ UNCHANGED <<asked, asks, serving>>
    BY HandleMoves
  <1>2. ~Decided /\ Decided'
    BY <1>1 DEF Decided, Outstanding
  <1>3. Pending' = Pending \ {serving} /\ serving \in Pending
    BY <1>1, <1>2 DEF Pending
  <1>4. IsFiniteSet(Pending) /\ Len(db) + Cardinality(Pending) <= asks /\ Len(db) \in Nat /\ asks \in Nat
    BY <1>1 DEF Counted
  <1>5. IsFiniteSet(Pending') /\ Cardinality(Pending') = Cardinality(Pending) - 1
    BY <1>3, <1>4, FS_RemoveElement
  <1>6. Cardinality(Pending) \in Nat /\ Cardinality(Pending') \in Nat
    BY <1>4, <1>5, FS_CardinalityType
  <1>7. QED
    BY <1>4, <1>5, <1>6

(* What the manager does to it: a request it handles is stored at most     *)
(* once, and then no longer to be answered.                                *)
LEMMA ManagerKeepsCount == ASSUME CInv, Counted, ManagerRoutine PROVE Counted'
  <1> USE DEF CInv
  <1>1. CASE HandleRequest
    <2>1. PICK S : db \in Seq(S)
      BY DEF Counted
    <2>2. UNCHANGED db \/ \E x : db' = Append(db, x)
      BY <1>1 DEF HandleRequest
    <2>3. (\E T : db' \in Seq(T)) /\ Len(db') \in {Len(db), Len(db) + 1}
      BY <2>1, <2>2, AppendIsSeq
    <2>4. UNCHANGED asks
      BY <1>1, HandleMoves
    <2>5. QED
      BY <1>1, <2>3, <2>4, HandledIsOneLess DEF Counted
  <1>2. CASE SetReady
    <2>1. Outstanding /\ Handled /\ Outstanding' /\ Handled' /\ pc[Manager] = "setReady"
          /\ UNCHANGED <<asked, asks, serving, db>>
      BY <1>2, SetReadyMoves
    <2>2. Pending' = Pending
      BY <2>1 DEF Pending, Decided
    <2>3. QED
      BY <2>1, <2>2, CountStays
  <1>3. CASE ~HandleRequest /\ ~SetReady
    <2>1. ManagerMoves
      BY <1>3, OtherStepsMove
    <2>2. \A q \in Requests : block'[q].isResponseReady = block[q].isResponseReady
      BY <2>1, FreeKeepsFields
    <2>3. Outstanding => request[Daemon] \in Requests
      BY TwoThreads DEF Outstanding, Connections, MInv, Shapes
    <2>4. Outstanding' = Outstanding
      BY <2>1 DEF ManagerMoves, Outstanding
    <2>5. Outstanding => Handled' = Handled
      BY <2>1, <2>2, <2>3 DEF ManagerMoves, Handled
    <2>6. Pending' = Pending
      BY <2>1, <2>4, <2>5 DEF ManagerMoves, Pending, Decided
    <2>7. QED
      BY <2>1, <2>6, CountStays DEF ManagerMoves
  <1>4. QED
    BY <1>1, <1>2, <1>3

(* What a callback may find in a block or send is a text.                  *)
LEMMA TextsAreTexts ==
  /\ IsText(Garbage) /\ \A a \in Asks : IsText(a.json)
  /\ \A d, termId : IsText(AnswerToGet(d, termId))
  /\ \A d : Len(d) \in Nat /\ Len(d) + 1 <= MaxAsks => IsText(AnswerToPost(d))
  <1>1. IsText(Garbage) /\ IsText(NoSuchTerminal) /\ \A a \in Asks : IsText(a.json)
    BY DEF IsText, Texts
  <1>2. \A ids, data : IsText(TerminalsOf(ids, data))
    BY DEF IsText, TerminalsOf
  <1>3. \A d, termId : IsText(AnswerToGet(d, termId))
    BY <1>1, <1>2 DEF AnswerToGet
  <1>4. ASSUME NEW d, Len(d) \in Nat, Len(d) + 1 <= MaxAsks PROVE IsText(AnswerToPost(d))
    <2>1. Len(d) + 1 \in 1 .. MaxAsks
      BY <1>4, SPAssumption
    <2>2. QED
      BY <2>1 DEF AnswerToPost, IsText, Texts
  <1>5. QED
    BY <1>1, <1>3, <1>4

(* The types that are more than a pointer and a label.                     *)
FlagsAndTexts ==
  /\ IsText(jResponse)
  /\ \A r \in Requests : block[r].isResponseReady \in BOOLEAN /\ IsText(block[r].json)
  /\ owner \in [Requests -> Conns \cup {NULL}]
  /\ \A c \in Conns : (outcome[c] = NULL \/ IsText(outcome[c])) /\ (answer[c] = NULL \/ IsText(answer[c]))

(* main, the clients and the daemon keep them.                             *)
LEMMA OthersKeepTexts ==
  ASSUME CInv, FlagsAndTexts, MainStep \/ ReturnKey \/ (\E c \in Conns, a \in Asks : Ask(c, a)) \/ DaemonStep
  PROVE  FlagsAndTexts'
  <1> USE DEF CInv
  <1>1. CASE MainStep \/ ReturnKey
    BY <1>1, MainMoves DEF FlagsAndTexts
  <1>2. ASSUME NEW c \in Conns, NEW a \in Asks, Ask(c, a) PROVE FlagsAndTexts'
    <2>1. UNCHANGED <<jResponse, block, owner, outcome>> /\ answer' = [answer EXCEPT ![c] = NULL]
      BY <1>2, AskMoves
    <2>2. \A d \in Conns : answer'[d] \in {answer[d], NULL}
      BY <2>1 DEF Connections
    <2>3. QED
      BY <2>1, <2>2 DEF FlagsAndTexts
  <1>3. CASE Select
    BY <1>3 DEF Select, FlagsAndTexts, clientVars, managerVars, blockVars
  <1>4. ASSUME NEW c \in Conns, NEW r \in Requests, CreateRequestQueueItem(c, r) PROVE FlagsAndTexts'
    <2> DEFINE j == IF asked[c].method = "GET" THEN Garbage ELSE asked[c].json
               b == [method |-> asked[c].method, termId |-> asked[c].termId, json |-> j, isResponseReady |-> FALSE]
    <2>1. b.json = j /\ b.isResponseReady = FALSE
      OBVIOUS
    <2>2. IsText(j)
      BY <1>4, CreateMoves, TextsAreTexts
    <2>3. block'[r] = b /\ \A q \in Requests \ {r} : block'[q] = block[q]
      BY <1>4, CreateMoves
    <2>4. /\ owner' = [q \in Requests |-> owner'[q]] /\ owner'[r] = c
          /\ \A q \in Requests \ {r} : owner'[q] = owner[q]
          /\ UNCHANGED <<jResponse, outcome, answer>>
      BY <1>4, CreateMoves, ZenonT(60)
    <2> HIDE DEF b, j
    <2>5. QED
      BY <2>1, <2>2, <2>3, <2>4 DEF FlagsAndTexts
  <1>5. CASE QueueReq
    BY <1>5, QueueReqMoves DEF DaemonMoves, FlagsAndTexts
  <1>6. CASE LeaveSpin \/ CopyResponse
    <2>1. DaemonMoves /\ (UNCHANGED jResponse \/ (CopyResponse /\ jResponse' = block[request[Daemon]].json))
      BY <1>6, LeaveMoves
    <2>2. CopyResponse => request[Daemon] \in Requests
      BY TwoThreads DEF CopyResponse, Connections, MInv, Shapes
    <2>3. IsText(jResponse')
      BY <2>1, <2>2 DEF FlagsAndTexts
    <2>4. QED
      BY <2>1, <2>3 DEF DaemonMoves, FlagsAndTexts
  <1>7. CASE SendResponse
    <2>1. /\ UNCHANGED <<owner, block>> /\ serving \in Conns /\ jResponse' = Garbage
          /\ answer' = [answer EXCEPT ![serving] = jResponse] \/ UNCHANGED answer
          /\ outcome' = [outcome EXCEPT ![serving] = NULL] \/ UNCHANGED outcome
      BY <1>7, SendMoves
    <2>2. \A c \in Conns : answer'[c] \in {answer[c], jResponse} /\ outcome'[c] \in {outcome[c], NULL}
      BY <2>1 DEF Connections
    <2>3. IsText(jResponse')
      BY <2>1, TextsAreTexts
    <2>4. QED
      BY <2>1, <2>2, <2>3 DEF FlagsAndTexts
  <1>8. CASE CloseAllConnections
    BY <1>8, CloseMoves DEF FlagsAndTexts
  <1>9. QED
    BY <1>1, <1>2, <1>3, <1>4, <1>5, <1>6, <1>7, <1>8 DEF DaemonStep

(* The manager keeps them, because it answers with the number of a         *)
(* terminal that was asked for.                                            *)
LEMMA ManagerKeepsTexts ==
  ASSUME CInv, Counted, asks <= MaxAsks, FlagsAndTexts, ManagerRoutine
  PROVE  FlagsAndTexts'
  <1> USE DEF CInv
  <1>1. CASE HandleRequest
    <2> DEFINE r == request[Daemon]
               result == IF block[r].method = "GET" THEN AnswerToGet(db, block[r].termId) ELSE AnswerToPost(db)
    <2>1. /\ request[Manager] = r /\ r \in Requests /\ UNCHANGED <<owner, jResponse, answer>>
      BY <1>1, HandleMoves
    <2>2. Len(db) \in Nat /\ Len(db) + 1 <= MaxAsks
      BY <1>1, HandledIsOneLess, SPAssumption DEF Counted
    <2>3. IsText(result)
      BY <2>2, TextsAreTexts
    <2>4. block' = [block EXCEPT ![r].json = result] /\ outcome' = [outcome EXCEPT ![owner[r]] = result]
      BY <1>1, <2>1 DEF HandleRequest
    <2> HIDE DEF result
    <2>5. /\ block'[r].json = result /\ block'[r].isResponseReady = block[r].isResponseReady
          /\ \A q \in Requests \ {r} : block'[q] = block[q]
      BY <2>1, <2>4 DEF Connections, MInv, Shapes
    <2>6. \A c \in Conns : outcome'[c] \in {outcome[c], result}
      BY <2>4 DEF Connections
    <2>7. QED
      BY <2>1, <2>3, <2>5, <2>6 DEF FlagsAndTexts
  <1>2. CASE SetReady
    <2> DEFINE r == request[Daemon]
    <2>1. /\ r \in Requests /\ block' = [block EXCEPT ![r].isResponseReady = TRUE]
          /\ UNCHANGED <<owner, outcome, jResponse, answer>>
      BY <1>2, SetReadyMoves
    <2>2. /\ block'[r].json = block[r].json /\ block'[r].isResponseReady = TRUE
          /\ \A q \in Requests \ {r} : block'[q] = block[q]
      BY <2>1 DEF Connections, MInv, Shapes
    <2>3. QED
      BY <2>1, <2>2 DEF FlagsAndTexts
  <1>3. CASE ~HandleRequest /\ ~SetReady
    <2>1. ManagerMoves
      BY <1>3, OtherStepsMove
    <2>2. \A q \in Requests : block'[q].isResponseReady = block[q].isResponseReady
      BY <2>1, FreeKeepsFields
    <2>3. ASSUME NEW r \in Requests, NEW b \in AfterFree(block[r]), block' = [block EXCEPT ![r] = b]
          PROVE  \A q \in Requests : IsText(block'[q].json)
      <3>1. b.json \in {block[r].json, Garbage}
        BY ZenonT(60) DEF AfterFree, Connections
      <3>2. block'[r] = b /\ \A q \in Requests \ {r} : block'[q] = block[q]
        BY <2>3 DEF MInv, Shapes
      <3>3. IsText(b.json)
        BY <3>1, TextsAreTexts DEF FlagsAndTexts
      <3>4. QED
        BY <3>2, <3>3 DEF FlagsAndTexts
    <2>4. \A q \in Requests : IsText(block'[q].json)
      BY <2>1, <2>3 DEF ManagerMoves, FlagsAndTexts
    <2>5. QED
      BY <2>1, <2>2, <2>4 DEF ManagerMoves, FlagsAndTexts
  <1>4. QED
    BY <1>1, <1>2, <1>3

(* The pointers, the mutex, main and the flags.                            *)
Cells ==
  /\ headReq \in Pointer /\ next \in [Requests -> Pointer] /\ live \subseteq Requests
  /\ reqQueueMutex \in Threads \cup {NULL}
  /\ mainPc \in {"startDaemon", "failed", "createThread", "getchar", "clearFlag", "waitFlag",
                 "joinManager", "stopDaemon", "joinDaemon", "exited"}
  /\ sigEqMgrFlag \in BOOLEAN /\ shutdown \in BOOLEAN
  /\ asks <= MaxAsks

(* Every step of the program keeps them.                                   *)
LEMMA StepKeepsCells == ASSUME MInv, Counted, Cells, SmartPayNext PROVE Cells'
  <1> USE TwoThreads, SPAssumption DEF Cells
  <1>1. requestQueueList \in Pointer /\ \A t \in Threads : request[t] \in Pointer
    BY DEF MInv, Shapes, QueueOfOne, Committed, Pointer
  <1>2. NULL \in Pointer
    BY DEF Pointer
  <1>3. CASE MainStep \/ ReturnKey
    <2>1. UNCHANGED <<headReq, next, live, reqQueueMutex, asks>>
      BY <1>3 DEF MainStep, StartDaemon, CreateThread, ReturnKey, ClearFlag, WaitFlag, JoinManager, StopDaemon,
                  JoinDaemon, queueVars, linkVars, clientVars, managerVars
    <2>2. /\ sigEqMgrFlag' \in {sigEqMgrFlag, FALSE} /\ shutdown' \in {shutdown, TRUE}
          /\ mainPc' \in {"createThread", "failed", "getchar", "clearFlag", "waitFlag",
                          "joinManager", "stopDaemon", "joinDaemon", "exited"}
      BY <1>3 DEF MainStep, StartDaemon, CreateThread, ReturnKey, ClearFlag, WaitFlag, JoinManager, StopDaemon,
                  JoinDaemon, MainGoto
    <2>3. QED
      BY <2>1, <2>2
  <1>4. ASSUME NEW c \in Conns, NEW a \in Asks, Ask(c, a) PROVE Cells'
    BY <1>4 DEF Ask, queueVars, mainVars, managerVars, Counted
  <1>5. CASE DaemonStep \/ ManagerRoutine
    <2>1. CASE DaemonStep
      <3>1. UNCHANGED <<headReq, mainVars, asks>>
        BY <2>1 DEF DaemonStep, Select, CreateRequestQueueItem, QueueReq, LeaveSpin, CopyResponse, SendResponse,
                    CloseAllConnections, clientVars, managerVars
      <3>2. live' = live \/ \E r \in Requests : live' = live \cup {r}
        BY <2>1 DEF DaemonStep, Select, CreateRequestQueueItem, Create, QueueReq, HandlerLock, AddRequest, TestTail,
                    SetList, SetTailToList, SetNext, SetTail, HandlerUnlock, LeaveSpin, CopyResponse, SendResponse,
                    CloseAllConnections, queueVars, linkVars
      <3>3. next' = next \/ \E p, q \in Pointer : next' = [next EXCEPT ![p] = q]
        <4>1. ~SetNext(Daemon)
          BY DEF SetNext, MInv, Shapes, DaemonLabels
        <4>2. QED
          BY <1>1, <1>2, <2>1, <4>1
          DEF DaemonStep, Select, CreateRequestQueueItem, Create, QueueReq, HandlerLock, AddRequest, TestTail,
              SetList, SetTailToList, SetTail, HandlerUnlock, LeaveSpin, CopyResponse, SendResponse,
              CloseAllConnections, queueVars, linkVars
      <3>4. reqQueueMutex' \in {reqQueueMutex, Daemon, NULL}
        BY <2>1 DEF DaemonStep, Select, CreateRequestQueueItem, Create, QueueReq, HandlerLock, AddRequest, TestTail,
                    SetList, SetTailToList, SetNext, SetTail, HandlerUnlock, LeaveSpin, CopyResponse, SendResponse,
                    CloseAllConnections, queueVars, linkVars
      <3>5. QED
        BY <3>1, <3>2, <3>3, <3>4 DEF mainVars
    <2>2. CASE ManagerRoutine
      <3>1. /\ UNCHANGED <<next, mainPc, shutdown, asks>> /\ sigEqMgrFlag' \in {sigEqMgrFlag, TRUE}
            /\ headReq' \in {headReq, requestQueueList} /\ live' \subseteq live
            /\ reqQueueMutex' \in {reqQueueMutex, Manager, NULL}
        BY <2>2 DEF ManagerRoutine, InitTerminals, InitList, InitTail, Poll, LoopTest, ManagerLock, Take, ManagerUnlock,
                    HandleRequest, SetReady, FreeRequest, Release, EndLoop, ReadHead, UnlinkHead, FreeHead, EndFree,
                    Signal, linkVars, mainVars, clientVars, managerVars
      <3>2. QED
        BY <1>1, <3>1
    <2>3. QED
      BY <1>5, <2>1, <2>2
  <1>6. QED
    BY <1>3, <1>4, <1>5 DEF SmartPayNext

TInv == CInv /\ Counted /\ FlagsAndTexts /\ Cells

(* SmartPay's types, for any number of clients, blocks and requests and    *)
(* whatever free does to a block.  That the number of a new terminal is    *)
(* the number of a request is the part that takes the call's invariant: a  *)
(* request that were handled twice would store a transaction nobody sent.  *)
THEOREM ProgramIsTyped == SmartPaySpec => []SmartPayTypeOK
  <1>1. SmartPayInit => TInv
    <2> SUFFICES ASSUME SmartPayInit PROVE TInv
      OBVIOUS
    <2>1. FlagsAndTexts
      BY TextsAreTexts DEF SmartPayInit, FlagsAndTexts
    <2>2. Cells
      <3>1. next \in [Requests -> Pointer] /\ headReq \in Pointer /\ live = {}
        BY DEF SmartPayInit, Pointer
      <3>2. reqQueueMutex = NULL /\ asks = 0 /\ mainPc = "startDaemon" /\ sigEqMgrFlag = TRUE /\ shutdown = FALSE
        BY DEF SmartPayInit
      <3>3. sigEqMgrFlag \in BOOLEAN /\ shutdown \in BOOLEAN
        BY <3>2
      <3>4. asks <= MaxAsks
        BY <3>2, SPAssumption
      <3>5. QED
        BY <3>1, <3>2, <3>3, <3>4 DEF Cells
    <2>3. QED
      BY <2>1, <2>2, InitCInv, InitCounted DEF TInv
  <1>2. TInv /\ [SmartPayNext]_vars => TInv'
    <2>1. CInv /\ Counted /\ SmartPayNext => Counted'
      BY OthersKeepCount, ManagerKeepsCount DEF SmartPayNext
    <2>2. TInv /\ SmartPayNext => FlagsAndTexts'
      BY OthersKeepTexts, ManagerKeepsTexts DEF SmartPayNext, TInv, Cells
    <2>3. TInv /\ SmartPayNext => Cells'
      BY StepKeepsCells DEF TInv, CInv
    <2>4. CInv /\ [SmartPayNext]_vars => CInv'
      BY CallStep
    <2>5. TInv /\ UNCHANGED vars => Counted' /\ FlagsAndTexts' /\ Cells'
      <3> SUFFICES ASSUME TInv, UNCHANGED vars PROVE Counted' /\ FlagsAndTexts' /\ Cells'
        OBVIOUS
      <3> USE DEF TInv, vars, queueVars, mainVars, clientVars, daemonVars, managerVars, blockVars
      <3>1. Counted'
        BY DEF Counted, Pending, Decided, Outstanding, Handled
      <3>2. FlagsAndTexts' /\ Cells'
        BY DEF FlagsAndTexts, Cells
      <3>3. QED
        BY <3>1, <3>2
    <2>6. QED
      BY <2>1, <2>2, <2>3, <2>4, <2>5 DEF TInv
  <1>3. TInv => SmartPayTypeOK
    <2> SUFFICES ASSUME TInv PROVE SmartPayTypeOK
      OBVIOUS
    <2> USE TwoThreads DEF TInv, CInv
    <2>1. /\ requestQueueList \in Pointer /\ requestQueueTail \in Pointer /\ request \in [Threads -> Pointer]
          /\ pc[Daemon] \in {"unborn", "copy", "send", "ended"} \cup HandlerLabels
          /\ pc[Manager] \in {"unborn", "mgrInit", "initList", "initTail", "setReady", "freeNodeList",
                              "freeQueue", "freeHead", "signal", "ended"} \cup ManagerLabels
      BY DEF MInv, Shapes, QueueOfOne, Committed, Pointer, DaemonLabels, StartAndEnd, HandlerLabels
    <2>2. /\ asked \in [Conns -> Asks \cup {NULL}] /\ batch \subseteq Conns /\ serving \in Conns \cup {NULL}
      BY DEF Connections
    <2>3. asks \in 0 .. MaxAsks
      BY SPAssumption DEF Counted, Cells
    <2>4. QED
      BY <2>1, <2>2, <2>3 DEF FlagsAndTexts, Cells, SmartPayTypeOK
  <1>4. QED
    BY <1>1, <1>2, <1>3, PTL DEF SmartPaySpec
=============================================================================

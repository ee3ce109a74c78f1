---------------------------- MODULE ServiceProofs ----------------------------
(***************************************************************************)
(* The program is a TerminalService for any number of clients, requests    *)
(* and request blocks, when free leaves the text of a block alone: the     *)
(* answer a client gets is the one the manager gave to its own request.    *)
(***************************************************************************)
EXTENDS SmartPayProofs

(* No pointer is an answer.                                                *)
NullIsNoAnswer == \A kind, ids, data : NULL # [kind |-> kind, ids |-> ids, data |-> data]

(* The block says what its client asked, until it says what the client is  *)
(* answered.                                                               *)
Faithful ==
  LET b == block[request[Daemon]]
      a == asked[serving]
  IN  /\ Outstanding => owner[request[Daemon]] = serving
      /\ Outstanding /\ ~Handled =>
           b.method = a.method /\ b.termId = a.termId /\ (a.method = "POST" => b.json = a.json)
      /\ (Outstanding /\ Handled) \/ pc[Daemon] = "copy" => b.json = outcome[serving]
      /\ pc[Daemon] = "send" => jResponse = outcome[serving]

(* Only the request the daemon serves has an outcome, and it has one from  *)
(* the time it is handled; a daemon that is being stopped may drop it.     *)
Outcomes ==
  /\ ~shutdown => \A c \in Conns : outcome[c] # NULL => c = serving
  /\ (Outstanding /\ Handled) \/ pc[Daemon] \in {"copy", "send"} => outcome[serving] # NULL
  /\ (Outstanding /\ ~Handled) \/ pc[Daemon] = "idle" =>
       (serving # NULL => outcome[serving] = NULL \/ shutdown)

SInv == CInv /\ Faithful /\ Outcomes

(* The program starts in the inductive invariant.                          *)
LEMMA InitSInv == SmartPayInit => SInv
  <1> SUFFICES ASSUME SmartPayInit PROVE SInv
    OBVIOUS
  <1> USE TwoThreads DEF SmartPayInit
  <1>1. Faithful
    BY DEF Faithful, Outstanding
  <1>2. Outcomes
    BY SPAssumption DEF Outcomes, Outstanding
  <1>3. QED
    BY <1>1, <1>2, InitCInv DEF SInv

(* main.                                                                   *)
LEMMA MainKeepsService == SInv /\ (MainStep \/ ReturnKey) => SInv'
  <1> SUFFICES ASSUME SInv, MainStep \/ ReturnKey PROVE SInv'
    OBVIOUS
  <1> USE MainMoves DEF SInv
  <1>1. CInv'
    BY MainKeepsCall
  <1>2. Faithful'
    BY DEF Faithful, Outstanding, Handled
  <1>3. Outcomes'
    BY DEF Outcomes, Outstanding, Handled, CInv, Connections
  <1>4. QED
    BY <1>1, <1>2, <1>3

(* A client's request.                                                     *)
LEMMA AskKeepsService == ASSUME SInv, NEW c \in Conns, NEW a \in Asks, Ask(c, a) PROVE SInv'
  <1> USE DEF SInv
  <1>1. CInv'
    BY AskKeepsCall
  <1>2. /\ UNCHANGED <<pc, request, shutdown, outcome, owner, block, serving, jResponse>>
        /\ asked[c] = NULL /\ \A d \in Conns \ {c} : asked'[d] = asked[d]
    BY AskMoves DEF CInv
  <1>3. Faithful'
    <2>1. Outstanding => serving # c /\ serving \in Conns /\ asked'[serving] = asked[serving]
      BY <1>2 DEF Outstanding, CInv, Connections
    <2>2. QED
      BY <1>2, <2>1 DEF Faithful, Outstanding, Handled
  <1>4. Outcomes'
    BY <1>2 DEF Outcomes, Outstanding, Handled
  <1>5. QED
    BY <1>1, <1>3, <1>4

(* Every step of the daemon's thread keeps the invariant.                  *)
LEMMA DaemonKeepsService == SInv /\ DaemonStep => SInv'
  <1> SUFFICES ASSUME SInv, DaemonStep PROVE SInv'
    OBVIOUS
  <1> USE TwoThreads DEF SInv
  <1>1. CInv'
    BY DaemonKeepsCall
  <1>2. CASE Select
    <2>1. UNCHANGED <<pc, shutdown, request, asked, outcome, owner, block, serving, jResponse>>
      BY <1>2 DEF Select, queueVars, mainVars, clientVars, managerVars, blockVars
    <2>2. Faithful' /\ Outcomes'
      BY <2>1 DEF Faithful, Outcomes, Outstanding, Handled
    <2>3. QED
      BY <1>1, <2>2
  <1>3. ASSUME NEW c \in Conns, NEW r \in Requests, CreateRequestQueueItem(c, r) PROVE SInv'
    <2> DEFINE a == asked[c]
               b == [method |-> a.method, termId |-> a.termId,
                     json |-> IF a.method = "GET" THEN Garbage ELSE a.json, isResponseReady |-> FALSE]
    <2>1. /\ pc[Daemon] = "idle" /\ pc'[Daemon] = "lock" /\ request'[Daemon] = r /\ serving' = c /\ owner'[r] = c
          /\ c # NULL /\ a # NULL /\ (serving = NULL \/ serving = c) /\ block'[r] = b /\ ~Handled'
          /\ UNCHANGED <<shutdown, asked, outcome>>
      BY <1>3, CreateMoves
    <2>2. Faithful'
      <3>1. b.method = a.method /\ b.termId = a.termId /\ (a.method = "POST" => b.json = a.json)
        OBVIOUS
      <3> HIDE DEF b
      <3>2. QED
        BY <2>1, <3>1 DEF Faithful
    <2>3. Outcomes'
      <3>1. serving = NULL => outcome[c] = NULL \/ shutdown
        BY <2>1 DEF Outcomes
      <3>2. serving = c => outcome[c] = NULL \/ shutdown
        BY <2>1 DEF Outcomes
      <3> HIDE DEF b
      <3>3. NULL \notin Conns
        BY SPAssumption
      <3>4. ~shutdown => \A d \in Conns : outcome[d] # NULL => d = c
        BY <2>1, <3>3 DEF Outcomes
      <3>5. QED
        BY <2>1, <3>1, <3>2, <3>4 DEF Outcomes, Outstanding
    <2>4. QED
      BY <1>1, <2>2, <2>3
  <1>4. CASE QueueReq
    <2>1. DaemonMoves /\ UNCHANGED jResponse /\ Outstanding /\ Outstanding'
      BY <1>4, QueueReqMoves DEF CInv
    <2>2. Faithful' /\ Outcomes'
      BY <2>1 DEF Faithful, Outcomes, Handled, DaemonMoves, Outstanding
    <2>3. QED
      BY <1>1, <2>2
  <1>5. CASE LeaveSpin \/ CopyResponse
    <2>1. /\ DaemonMoves /\ ~Outstanding'
          /\ \/ /\ pc'[Daemon] = "copy" /\ UNCHANGED jResponse /\ Outstanding /\ Handled
             \/ /\ pc[Daemon] = "copy" /\ pc'[Daemon] = "send"
                /\ jResponse' = block[request[Daemon]].json
      BY <1>5, LeaveMoves DEF CInv
    <2>2. Faithful' /\ Outcomes'
      BY <2>1 DEF Faithful, Outcomes, DaemonMoves
    <2>3. QED
      BY <1>1, <2>2
  <1>6. CASE SendResponse
    <2>1. /\ pc[Daemon] = "send" /\ pc'[Daemon] = "idle" /\ UNCHANGED shutdown /\ serving \in Conns
          /\ \/ outcome' = [outcome EXCEPT ![serving] = NULL] /\ serving' = NULL
             \/ shutdown /\ UNCHANGED outcome
      BY <1>6, SendMoves
    <2>2. Faithful'
      BY <2>1 DEF Faithful, Outstanding
    <2>3. Outcomes'
      BY <2>1, SPAssumption DEF Outcomes, Outstanding, CInv, Connections
    <2>4. QED
      BY <1>1, <2>2, <2>3
  <1>7. CASE CloseAllConnections
    <2>1. pc'[Daemon] = "ended" /\ serving' = NULL /\ outcome' = [c \in Conns |-> NULL]
      BY <1>7, CloseMoves DEF CInv
    <2>2. Faithful' /\ Outcomes'
      BY <2>1 DEF Faithful, Outcomes, Outstanding
    <2>3. QED
      BY <1>1, <2>2
  <1>8. QED
    BY <1>2, <1>3, <1>4, <1>5, <1>6, <1>7 DEF DaemonStep

(* What the manager handles is the request of the connection whose         *)
(* callback waits, and it has no outcome yet.                              *)
LEMMA HandlesTheWaiting ==
  ASSUME NullIsNoAnswer, SInv, HandleRequest
  PROVE  /\ outcome[serving] = NULL
         /\ \E result :
              /\ result # NULL
              /\ block' = [block EXCEPT ![request[Daemon]].json = result]
              /\ outcome' = [outcome EXCEPT ![serving] = result]
              /\ \/ /\ asked[serving].method = "GET"
                    /\ result = AnswerToGet(db, asked[serving].termId) /\ UNCHANGED db
                 \/ /\ asked[serving].method = "POST"
                    /\ result = AnswerToPost(db) /\ db' = Append(db, asked[serving].json)
  <1> USE DEF SInv
  <1> DEFINE r == request[Daemon]
             a == asked[serving]
  <1>1. request[Manager] = r /\ Outstanding /\ ~Handled /\ ~shutdown /\ serving \in Conns /\ a \in Asks
    BY HandleMoves
  <1>2. outcome[serving] = NULL
    BY <1>1, SPAssumption DEF Outcomes
  <1>3. /\ owner[r] = serving /\ block[r].method = a.method /\ block[r].termId = a.termId
        /\ a.method = "POST" => block[r].json = a.json
    BY <1>1 DEF Faithful
  <1>4. a.method \in {"GET", "POST"}
    BY <1>1, SPAssumption
  <1> DEFINE result == IF a.method = "GET" THEN AnswerToGet(db, a.termId) ELSE AnswerToPost(db)
  <1>5. result # NULL
    BY DEF NullIsNoAnswer, AnswerToGet, AnswerToPost, TerminalsOf, NoSuchTerminal, Posted
  <1>6. /\ block' = [block EXCEPT ![r].json = result] /\ outcome' = [outcome EXCEPT ![serving] = result]
        /\ db' = IF a.method = "POST" THEN Append(db, block[r].json) ELSE db
    BY <1>1, <1>3 DEF HandleRequest
  <1>7. \/ /\ a.method = "GET"
           /\ result = AnswerToGet(db, a.termId) /\ UNCHANGED db
        \/ /\ a.method = "POST"
           /\ result = AnswerToPost(db) /\ db' = Append(db, a.json)
    BY <1>3, <1>4, <1>6
  <1> HIDE DEF result
  <1>8. QED
    BY <1>2, <1>5, <1>6, <1>7

(* The manager.                                                            *)
LEMMA ManagerKeepsService ==
  ASSUME FreeEffects = {"intact"}, NullIsNoAnswer, SInv, ManagerRoutine
  PROVE  SInv'
  <1> USE TwoThreads DEF SInv
  <1>1. CInv'
    BY ManagerKeepsCall
  <1>2. CASE HandleRequest
    <2>1. /\ request[Daemon] \in Requests /\ Outstanding /\ Outstanding' /\ Handled' /\ ~shutdown /\ serving \in Conns
          /\ pc'[Daemon] = pc[Daemon] /\ UNCHANGED <<shutdown, owner, serving, request>>
      BY <1>2, HandleMoves
    <2>2. PICK result : /\ result # NULL
                        /\ block' = [block EXCEPT ![request[Daemon]].json = result]
                        /\ outcome' = [outcome EXCEPT ![serving] = result]
      BY <1>2, HandlesTheWaiting
    <2>3. block'[request[Daemon]].json = result
      BY <2>1, <2>2 DEF CInv, Connections, MInv, Shapes
    <2>4. outcome'[serving] = result /\ \A c \in Conns \ {serving} : outcome'[c] = outcome[c]
      BY <2>1, <2>2 DEF CInv, Connections
    <2>5. Faithful'
      BY <2>1, <2>3, <2>4 DEF Faithful, Outstanding
    <2>6. Outcomes'
      BY <2>1, <2>2, <2>4 DEF Outcomes, Outstanding
    <2>7. QED
      BY <1>1, <2>5, <2>6
  <1>3. CASE SetReady
    <2> DEFINE r == request[Daemon]
    <2>1. /\ r \in Requests /\ Outstanding /\ Handled /\ Outstanding' /\ Handled' /\ pc'[Daemon] = pc[Daemon]
          /\ block' = [block EXCEPT ![r].isResponseReady = TRUE]
          /\ UNCHANGED <<shutdown, outcome, owner, serving, request>>
      BY <1>3, SetReadyMoves
    <2>2. block'[r].json = block[r].json
      BY <2>1 DEF CInv, Connections, MInv, Shapes
    <2>3. Faithful' /\ Outcomes'
      BY <2>1, <2>2 DEF Faithful, Outcomes, Outstanding
    <2>4. QED
      BY <1>1, <2>3
  <1>4. CASE ~HandleRequest /\ ~SetReady
    <2>1. ManagerMoves
      BY <1>4, OtherStepsMove
    <2>2. UNCHANGED block
      BY <2>1 DEF ManagerMoves, AfterFree, CInv, MInv, Shapes
    <2>3. Outstanding' = Outstanding /\ Handled' = Handled
      BY <2>1, <2>2 DEF ManagerMoves, Outstanding, Handled
    <2>4. Faithful' /\ Outcomes'
      BY <2>1, <2>2, <2>3 DEF ManagerMoves, Faithful, Outcomes
    <2>5. QED
      BY <1>1, <2>4
  <1>5. QED
    BY <1>2, <1>3, <1>4

(* Each step of the program is a step of the service or none.              *)
LEMMA StepIsServiceStep ==
  ASSUME FreeEffects = {"intact"}, NullIsNoAnswer, SInv, [SmartPayNext]_vars
  PROVE  [Service!NextService]_(Service!serviceVars)
  <1> USE TwoThreads DEF Service!serviceVars
  <1>1. CASE MainStep \/ ReturnKey
    <2>1. UNCHANGED <<db, asked, outcome, answer>>
      BY <1>1 DEF MainStep, StartDaemon, CreateThread, ReturnKey, ClearFlag, WaitFlag, JoinManager, StopDaemon,
                  JoinDaemon, clientVars, managerVars
    <2>2. (pc'[Daemon] = "ended") = (pc[Daemon] = "ended")
      <3> USE DEF SInv, CInv, MInv, Shapes, queueVars, MainGoto, Goto
      <3>1. CASE StartDaemon
        <4>1. UNCHANGED pc \/ (mainPc = "startDaemon" /\ pc' = [pc EXCEPT ![Daemon] = "idle"])
          BY <3>1 DEF StartDaemon
        <4>2. QED
          BY <4>1
      <3>2. CASE CreateThread
        BY <3>2 DEF CreateThread
      <3>3. CASE ReturnKey \/ ClearFlag \/ WaitFlag \/ JoinManager \/ StopDaemon \/ JoinDaemon
        BY <3>3 DEF ReturnKey, ClearFlag, WaitFlag, JoinManager, StopDaemon, JoinDaemon
      <3>4. QED
        BY <1>1, <3>1, <3>2, <3>3 DEF MainStep
    <2>3. QED
      BY <2>1, <2>2
  <1>2. ASSUME NEW c \in Conns, NEW a \in Asks, Ask(c, a) PROVE Service!NextService
    <2>1. Service!Request(c, a)
      BY <1>2 DEF Ask, Service!Request, queueVars, managerVars
    <2>2. QED
      BY <2>1 DEF Service!NextService
  <1>3. CASE SendResponse
    <2>1. /\ pc[Daemon] = "send" /\ pc'[Daemon] = "idle" /\ UNCHANGED db
      BY <1>3 DEF SendResponse, Goto, SInv, CInv, MInv, Shapes
    <2>2. /\ serving \in Conns /\ outcome[serving] # NULL /\ jResponse = outcome[serving]
      BY <2>1 DEF SInv, CInv, Connections, Outcomes, Faithful
    <2>3. \/ UNCHANGED <<answer, asked, outcome>>
          \/ /\ answer' = [answer EXCEPT ![serving] = jResponse] \/ UNCHANGED answer
             /\ asked' = [asked EXCEPT ![serving] = NULL]
             /\ outcome' = [outcome EXCEPT ![serving] = NULL]
      BY <1>3 DEF SendResponse
    <2>4. UNCHANGED <<answer, asked, outcome>> \/ Service!Reply(serving)
      BY <2>1, <2>2, <2>3 DEF Service!Reply
    <2>5. QED
      BY <2>1, <2>2, <2>4 DEF Service!NextService
  <1>4. CASE CloseAllConnections
    <2>1. Service!Stop
      BY <1>4 DEF CloseAllConnections, Service!Stop, Goto, SInv, CInv, MInv, Shapes
    <2>2. QED
      BY <2>1 DEF Service!NextService
  <1>5. CASE HandleRequest
    <2>1. UNCHANGED <<asked, answer>> /\ pc'[Daemon] = pc[Daemon]
      BY <1>5 DEF HandleRequest, clientVars, Goto, SInv, CInv, MInv, Shapes
    <2>2. serving \in Conns /\ asked[serving] # NULL /\ outcome[serving] = NULL
      BY <1>5, HandleMoves, HandlesTheWaiting DEF SInv
    <2>3. /\ \A termId : Service!AnswerToGet(db, termId) = AnswerToGet(db, termId)
          /\ Service!AnswerToPost(db) = AnswerToPost(db)
      BY DEF Service!AnswerToGet, Service!AnswerToPost, Service!Posted, Service!TerminalsOf, Service!NoSuchTerminal,
             Service!ALL, AnswerToGet, AnswerToPost, Posted, TerminalsOf, NoSuchTerminal, ALL
    <2>4. PICK result :
               /\ outcome' = [outcome EXCEPT ![serving] = result]
               /\ \/ /\ asked[serving].method = "GET"
                     /\ result = AnswerToGet(db, asked[serving].termId) /\ UNCHANGED db
                  \/ /\ asked[serving].method = "POST"
                     /\ result = AnswerToPost(db) /\ db' = Append(db, asked[serving].json)
      BY <1>5, HandlesTheWaiting
    <2>5. Service!Apply(serving)
      BY <2>1, <2>2, <2>3, <2>4 DEF Service!Apply
    <2>6. QED
      BY <2>2, <2>5 DEF Service!NextService
  <1>6. CASE Select \/ (\E c \in Conns, r \in Requests : CreateRequestQueueItem(c, r)) \/ QueueReq
             \/ LeaveSpin \/ CopyResponse
    <2>1. UNCHANGED <<db, asked, outcome, answer>>
      BY <1>6 DEF Select, CreateRequestQueueItem, QueueReq, LeaveSpin, CopyResponse, clientVars, managerVars
    <2>2. pc[Daemon] # "ended" /\ pc'[Daemon] # "ended"
      BY <1>6, QueueReqMoves
      DEF Select, CreateRequestQueueItem, Create, LeaveSpin, CopyResponse, Goto, SInv, CInv, MInv, Shapes,
          Outstanding, queueVars
    <2>3. QED
      BY <2>1, <2>2
  <1>7. CASE ManagerRoutine /\ ~HandleRequest
    <2>1. ManagerMoves \/ (SetReady /\ UNCHANGED <<asked, outcome, answer, db>> /\ pc'[Daemon] = pc[Daemon])
      BY <1>7, OtherStepsMove, SetReadyMoves DEF SInv
    <2>2. QED
      BY <2>1 DEF ManagerMoves
  <1>8. CASE UNCHANGED vars
    BY <1>8 DEF vars, queueVars, clientVars, managerVars
  <1>9. QED
    BY <1>1, <1>2, <1>3, <1>4, <1>5, <1>6, <1>7, <1>8 DEF SmartPayNext, DaemonStep

(* The inductive invariant holds of every behaviour of the program.        *)
THEOREM ServiceInvariant ==
  ASSUME FreeEffects = {"intact"}, NullIsNoAnswer
  PROVE  SmartPaySpec => []SInv
  <1>1. SInv /\ [SmartPayNext]_vars => SInv'
    <2>1. SInv /\ SmartPayNext => SInv'
      BY MainKeepsService, AskKeepsService, DaemonKeepsService, ManagerKeepsService DEF SmartPayNext
    <2>2. SInv /\ UNCHANGED vars => SInv'
      <3> SUFFICES ASSUME SInv, UNCHANGED vars PROVE SInv'
        OBVIOUS
      <3>1. CInv'
        BY CallStep DEF SInv
      <3>2. Faithful' /\ Outcomes'
        BY DEF SInv, Faithful, Outcomes, Outstanding, Handled, vars, queueVars, mainVars, clientVars, daemonVars,
               managerVars, blockVars
      <3>3. QED
        BY <3>1, <3>2 DEF SInv
    <2>3. QED
      BY <2>1, <2>2
  <1>2. QED
    BY InitSInv, <1>1, PTL DEF SmartPaySpec

(* Whatever the threads interleave, and even if the daemon is stopped in   *)
(* the middle, the clients see a TerminalService: no request is applied    *)
(* twice, and none is answered with what another one asked for.  It rests  *)
(* on free leaving the block's text alone, which C does not promise.       *)
THEOREM ProgramIsAService ==
  ASSUME FreeEffects = {"intact"}, NullIsNoAnswer
  PROVE  SmartPaySpec => ImplementsService
  <1>1. SmartPayInit => Service!InitService
    BY TwoThreads DEF SmartPayInit, Service!InitService
  <1>2. SInv /\ [SmartPayNext]_vars => [Service!NextService]_(Service!serviceVars)
    BY StepIsServiceStep
  <1>3. QED
    BY <1>1, <1>2, ServiceInvariant, PTL DEF SmartPaySpec, ImplementsService, Service!SpecService

(* runHttpServer.c: `extracting response from handled request'.  What the  *)
(* callback copies out of the block is the manager's answer to its client, *)
(* on the same condition.                                                  *)
THEOREM AnswerIsIntact ==
  ASSUME FreeEffects = {"intact"}, NullIsNoAnswer
  PROVE  SmartPaySpec => []AnswerIntact
  <1>1. SInv => AnswerIntact
    BY DEF SInv, Faithful, AnswerIntact
  <1>2. QED
    BY <1>1, ServiceInvariant, PTL
=============================================================================

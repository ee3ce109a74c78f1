---------------------------- MODULE RequestQueue ----------------------------
(***************************************************************************)
(* The queue through which the HTTP callback hands requests to the         *)
(* equipment manager (equipmentMgr.c): a singly linked list of malloc'ed   *)
(* nodes with a head and a tail pointer, guarded by reqQueueMutex.  There  *)
(* is one action per access a thread makes to the shared pointers.         *)
(*                                                                         *)
(* This module is the queue while the manager is in its loop: Init is the  *)
(* state mgrInit leaves.  SmartPay composes the same actions with the      *)
(* start and the end of the program, where the manager touches the queue   *)
(* without the mutex.                                                      *)
(***************************************************************************)
EXTENDS Naturals, Sequences

CONSTANTS Requests,   \* heap blocks malloc may return for a request node
          Handlers,   \* threads that run answerToConnection (the code has one)
          Manager,    \* the thread that runs mgrRoutine
          NULL        \* the null pointer

ASSUME RQAssumption ==
  /\ Manager \notin Handlers
  /\ NULL \notin Requests
  /\ NULL \notin Handlers \cup {Manager}

VARIABLES
  requestQueueList,   \* head of the list
  requestQueueTail,   \* tail of the list
  next,               \* the next field of every block
  live,               \* blocks that are allocated and not freed
  reqQueueMutex,      \* the thread that holds the mutex, or NULL
  pc,                 \* where each thread is
  request,            \* per thread: answerToConnection's `request', mgrRoutine's `newRequest'
  queued              \* history: the requests added and not yet taken, oldest first

queueVars == <<requestQueueList, requestQueueTail, next, live, reqQueueMutex, pc, request, queued>>

Threads == Handlers \cup {Manager}
Pointer == Requests \cup {NULL}

InQueue(r) == \E i \in DOMAIN queued : queued[i] = r

Goto(t, label) == pc' = [pc EXCEPT ![t] = label]
-----------------------------------------------------------------------------
(* createRequestQueueItem: malloc returns a block that is not in use; its  *)
(* next field still holds whatever the block held before.                  *)
Create(h, r) ==
  /\ pc[h] = "idle"
  /\ r \notin live
  /\ live' = live \cup {r}
  /\ request' = [request EXCEPT ![h] = r]
  /\ Goto(h, "lock")
  /\ UNCHANGED <<requestQueueList, requestQueueTail, next, reqQueueMutex, queued>>

(* Mutant: queueReq goes on without the mutex.                              *)
HandlerLockForgotten(h) ==
  /\ pc[h] = "lock"
  /\ Goto(h, "test")
  /\ UNCHANGED <<requestQueueList, requestQueueTail, next, live, reqQueueMutex, request, queued>>

(* queueReq: pthread_mutex_lock.                                           *)
HandlerLock(h) ==
  /\ pc[h] = "lock"
  /\ reqQueueMutex = NULL
  /\ reqQueueMutex' = h
  /\ Goto(h, "test")
  /\ UNCHANGED <<requestQueueList, requestQueueTail, next, live, request, queued>>

(* Mutant: addRequestToQueue does not set the next field of the new node.   *)
TestTailKeepsNext(h) ==
  /\ pc[h] = "test"
  /\ Goto(h, IF requestQueueTail = NULL THEN "setList" ELSE "setNext")
  /\ UNCHANGED <<requestQueueList, requestQueueTail, next, live, reqQueueMutex, request, queued>>

(* addRequestToQueue: the test of the tail and the first statement of      *)
(* either branch, which writes a node no other thread can see yet.         *)
TestTail(h) ==
  /\ pc[h] = "test"
  /\ next' = [next EXCEPT ![request[h]] = NULL]
  /\ Goto(h, IF requestQueueTail = NULL THEN "setList" ELSE "setNext")
  /\ UNCHANGED <<requestQueueList, requestQueueTail, live, reqQueueMutex, request, queued>>

(* Empty queue: requestQueueList = reqNodeToAdd.                           *)
SetList(h) ==
  /\ pc[h] = "setList"
  /\ requestQueueList' = request[h]
  /\ queued' = Append(queued, request[h])
  /\ Goto(h, "setTailToList")
  /\ UNCHANGED <<requestQueueTail, next, live, reqQueueMutex, request>>

(* Empty queue: requestQueueTail = requestQueueList.                       *)
SetTailToList(h) ==
  /\ pc[h] = "setTailToList"
  /\ requestQueueTail' = requestQueueList
  /\ Goto(h, "unlock")
  /\ UNCHANGED <<requestQueueList, next, live, reqQueueMutex, request, queued>>

(* Mutant: the new node is linked behind the head instead of the tail.      *)
SetNextOfHead(h) ==
  /\ pc[h] = "setNext"
  /\ next' = [next EXCEPT ![requestQueueList] = request[h]]
  /\ queued' = Append(queued, request[h])
  /\ Goto(h, "setTail")
  /\ UNCHANGED <<requestQueueList, requestQueueTail, live, reqQueueMutex, request>>

(* Otherwise: requestQueueTail->next = reqNodeToAdd.                       *)
SetNext(h) ==
  /\ pc[h] = "setNext"
  /\ next' = [next EXCEPT ![requestQueueTail] = request[h]]
  /\ queued' = Append(queued, request[h])
  /\ Goto(h, "setTail")
  /\ UNCHANGED <<requestQueueList, requestQueueTail, live, reqQueueMutex, request>>

(* Otherwise: requestQueueTail = requestQueueTail->next.                   *)
SetTail(h) ==
  /\ pc[h] = "setTail"
  /\ requestQueueTail' = next[requestQueueTail]
  /\ Goto(h, "unlock")
  /\ UNCHANGED <<requestQueueList, next, live, reqQueueMutex, request, queued>>

(* queueReq: pthread_mutex_unlock; the callback then holds its connection. *)
HandlerUnlock(h) ==
  /\ pc[h] = "unlock"
  /\ reqQueueMutex' = NULL
  /\ Goto(h, "spin")
  /\ UNCHANGED <<requestQueueList, requestQueueTail, next, live, request, queued>>

(* The callback leaves its spin loop.  When it may do so depends on the    *)
(* request's flag, which is not part of the queue: SmartPay refines this.  *)
Leave(h) ==
  /\ pc[h] = "spin"
  /\ Goto(h, "idle")
  /\ UNCHANGED <<requestQueueList, requestQueueTail, next, live, reqQueueMutex, request, queued>>
-----------------------------------------------------------------------------
(* mgrRoutine goes round its loop.  The flag it tests is not part of the   *)
(* queue: SmartPay refines this.                                           *)
LoopTest ==
  /\ pc[Manager] = "while"
  /\ Goto(Manager, "poll")
  /\ UNCHANGED <<requestQueueList, requestQueueTail, next, live, reqQueueMutex, request, queued>>

(* mgrRoutine: pthread_mutex_lock around the poll.                         *)
ManagerLock ==
  /\ pc[Manager] = "poll"
  /\ reqQueueMutex = NULL
  /\ reqQueueMutex' = Manager
  /\ Goto(Manager, "take")
  /\ UNCHANGED <<requestQueueList, requestQueueTail, next, live, request, queued>>

(* Mutant: removing the last node leaves requestQueueTail behind.           *)
TakeLeavesTail ==
  /\ pc[Manager] = "take"
  /\ request' = [request EXCEPT ![Manager] = requestQueueList]
  /\ \/ /\ requestQueueList = NULL
        /\ UNCHANGED <<requestQueueList, queued>>
     \/ /\ requestQueueList # NULL
        /\ requestQueueList' = next[requestQueueList]
        /\ queued' = Tail(queued)
  /\ Goto(Manager, "release")
  /\ UNCHANGED <<requestQueueTail, next, live, reqQueueMutex>>

(* checkQueueAndGetRequest.  It is one step: handlers touch the pointers   *)
(* only under the mutex, which the manager holds here.                     *)
Take ==
  /\ pc[Manager] = "take"
  /\ request' = [request EXCEPT ![Manager] = requestQueueList]
  /\ \/ /\ requestQueueList = NULL
        /\ UNCHANGED <<requestQueueList, requestQueueTail, queued>>
     \/ /\ requestQueueList # NULL
        /\ requestQueueList' = next[requestQueueList]
        /\ requestQueueTail' = IF requestQueueList = requestQueueTail
                                 THEN next[requestQueueList] ELSE requestQueueTail
        /\ queued' = Tail(queued)
  /\ Goto(Manager, "release")
  /\ UNCHANGED <<next, live, reqQueueMutex>>

(* Mutant: an empty poll goes round the loop before the unlock.             *)
UnlockAfterRequestOnly ==
  /\ pc[Manager] = "release"
  /\ reqQueueMutex' = IF request[Manager] = NULL THEN reqQueueMutex ELSE NULL
  /\ Goto(Manager, IF request[Manager] = NULL THEN "while" ELSE "handle")
  /\ UNCHANGED <<requestQueueList, requestQueueTail, next, live, request, queued>>

(* mgrRoutine: pthread_mutex_unlock; an empty poll goes round the loop.    *)
ManagerUnlock ==
  /\ pc[Manager] = "release"
  /\ reqQueueMutex' = NULL
  /\ Goto(Manager, IF request[Manager] = NULL THEN "while" ELSE "handle")
  /\ UNCHANGED <<requestQueueList, requestQueueTail, next, live, request, queued>>

(* The manager handles the request.  What it does is not part of the       *)
(* queue: SmartPay refines this.                                           *)
Handle ==
  /\ pc[Manager] = "handle"
  /\ Goto(Manager, "free")
  /\ UNCHANGED <<requestQueueList, requestQueueTail, next, live, reqQueueMutex, request, queued>>

(* free(newRequest), and newRequest goes out of scope with the loop body.  *)
Release ==
  /\ pc[Manager] = "free"
  /\ live' = live \ {request[Manager]}
  /\ request' = [request EXCEPT ![Manager] = NULL]
  /\ Goto(Manager, "while")
  /\ UNCHANGED <<requestQueueList, requestQueueTail, next, reqQueueMutex, queued>>
-----------------------------------------------------------------------------
Init ==
  /\ requestQueueList = NULL
  /\ requestQueueTail = NULL
  /\ next = [r \in Requests |-> NULL]
  /\ live = {}
  /\ reqQueueMutex = NULL
  /\ pc = [t \in Threads |-> IF t = Manager THEN "while" ELSE "idle"]
  /\ request = [t \in Threads |-> NULL]
  /\ queued = << >>

AddRequest(h) ==
  TestTail(h) \/ SetList(h) \/ SetTailToList(h) \/ SetNext(h) \/ SetTail(h)

HandlerStep(h) ==
  \/ \E r \in Requests : Create(h, r)
  \/ HandlerLock(h)
  \/ AddRequest(h)
  \/ HandlerUnlock(h)
  \/ Leave(h)

ManagerStep == LoopTest \/ ManagerLock \/ Take \/ ManagerUnlock \/ Handle \/ Release

Next == (\E h \in Handlers : HandlerStep(h)) \/ ManagerStep

(* A thread inside the queue code keeps running, and a thread that asks    *)
(* for the mutex again and again is not passed over for ever.  Nothing     *)
(* makes a handler call queueReq.                                          *)
Fairness ==
  /\ SF_queueVars(ManagerLock) /\ WF_queueVars(LoopTest \/ Take \/ ManagerUnlock \/ Handle \/ Release)
  /\ \A h \in Handlers : SF_queueVars(HandlerLock(h))
                         /\ WF_queueVars(AddRequest(h) \/ HandlerUnlock(h))

Spec == Init /\ [][Next]_queueVars
FairSpec == Spec /\ Fairness
-----------------------------------------------------------------------------
HandlerLabels ==
  {"idle", "lock", "test", "setList", "setTailToList", "setNext", "setTail", "unlock", "spin"}
ManagerLabels == {"while", "poll", "take", "release", "handle", "free"}

TypeOK ==
  /\ requestQueueList \in Pointer
  /\ requestQueueTail \in Pointer
  /\ next \in [Requests -> Pointer]
  /\ live \subseteq Requests
  /\ reqQueueMutex \in Threads \cup {NULL}
  /\ pc \in [Threads -> HandlerLabels \cup ManagerLabels]
  /\ \A h \in Handlers : pc[h] \in HandlerLabels
  /\ pc[Manager] \in ManagerLabels
  /\ request \in [Threads -> Pointer]
  /\ queued \in Seq(Requests)

(* Where a thread holds the mutex, and where a handler owns a node that is *)
(* not in the list yet.                                                    *)
InCritical(t) ==
  pc[t] \in {"test", "setList", "setTailToList", "setNext", "setTail", "unlock", "take", "release"}
Detached(h) == pc[h] \in {"lock", "test", "setList", "setNext"}

LockInv == \A t \in Threads : InCritical(t) <=> reqQueueMutex = t

(* The nodes: no request is queued twice, and what is queued, about to be  *)
(* queued or being handled are different live blocks.                      *)
NodesInv ==
  /\ \A i \in DOMAIN queued : queued[i] \in live
  /\ \A i, j \in DOMAIN queued : queued[i] = queued[j] => i = j
  /\ \A h \in Handlers : Detached(h) =>
       /\ request[h] \in live
       /\ ~InQueue(request[h])
       /\ request[h] # request[Manager]
       /\ \A g \in Handlers : Detached(g) /\ request[g] = request[h] => g = h
  /\ request[Manager] # NULL => request[Manager] \in live /\ ~InQueue(request[Manager])
  /\ pc[Manager] \in {"while", "poll", "take"} => request[Manager] = NULL
  /\ pc[Manager] \in {"handle", "free"} => request[Manager] # NULL

(* The pointers: requestQueueList and the next fields spell out `queued'.  *)
ListInv ==
  /\ queued = << >> => requestQueueList = NULL
  /\ queued # << >> => requestQueueList = queued[1] /\ next[queued[Len(queued)]] = NULL
  /\ \A i \in 1 .. Len(queued) - 1 : next[queued[i]] = queued[i + 1]

(* The tail is one step behind while a handler is between the two writes   *)
(* of addRequestToQueue, and the last node at every other time.            *)
Linking(h) == pc[h] \in {"setTailToList", "setTail"}

TailInv ==
  /\ (\A h \in Handlers : ~Linking(h)) =>
       requestQueueTail = IF queued = << >> THEN NULL ELSE queued[Len(queued)]
  /\ \A h \in Handlers :
       /\ pc[h] \in {"setList", "setNext"} => next[request[h]] = NULL
       /\ pc[h] = "setList" => requestQueueTail = NULL
       /\ pc[h] = "setNext" => requestQueueTail # NULL
       /\ pc[h] = "setTailToList" => Len(queued) = 1 /\ requestQueueTail = NULL
       /\ pc[h] = "setTail" => Len(queued) > 1 /\ requestQueueTail = queued[Len(queued) - 1]

IInv == TypeOK /\ LockInv /\ NodesInv /\ ListInv /\ TailInv
-----------------------------------------------------------------------------
(* The queue is sound whenever nobody is inside it: both pointers are NULL *)
(* or neither is, the head is the oldest request still waiting, and the    *)
(* tail is the newest one and ends the list.  A tail left behind by the    *)
(* removal of the last node would lose the next request.                   *)
QueueWhole ==
  reqQueueMutex = NULL =>
    /\ requestQueueList = NULL <=> requestQueueTail = NULL
    /\ requestQueueList = IF queued = << >> THEN NULL ELSE queued[1]
    /\ requestQueueTail # NULL => requestQueueTail = queued[Len(queued)] /\ next[requestQueueTail] = NULL

(* No pointer the queue code follows dangles: the list, and the node the   *)
(* manager works on, are allocated; the manager never frees a node that is *)
(* still in the list, and no handler writes through a NULL or freed tail.  *)
NoDanglingNode ==
  /\ requestQueueList # NULL => requestQueueList \in live
  /\ request[Manager] # NULL => request[Manager] \in live /\ ~InQueue(request[Manager])
  /\ \A h \in Handlers : pc[h] \in {"setNext", "setTail"} => requestQueueTail \in live

(* The manager's poll finds nothing only when nothing is waiting.          *)
EmptyPollMeansEmpty == [][(Take /\ request'[Manager] = NULL) => queued = << >>]_queueVars

(* The pointer code implements a first-in first-out queue.                 *)
Fifo == INSTANCE RequestFifo WITH waiting <- queued, inHand <- request[Manager]
ImplementsFifo == Fifo!SpecFifo

(* A request a callback has created does not stay in the queue code or in  *)
(* the queue: the manager takes it, for ever more than one handler.        *)
EveryRequestIsTaken ==
  \A h \in Handlers, r \in Requests :
    (pc[h] = "lock" /\ request[h] = r) ~> (request[Manager] = r)
=============================================================================

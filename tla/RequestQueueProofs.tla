------------------------- MODULE RequestQueueProofs -------------------------
(***************************************************************************)
(* What holds of the shared queue for every number of handler threads and  *)
(* every heap: IInv is inductive, and with it the queue is whole whenever  *)
(* the mutex is free, nothing dangles, and the pointers implement a FIFO.  *)
(***************************************************************************)
EXTENDS RequestQueue, TLAPS

(* The two sequence operations the history variable undergoes.             *)
LEMMA AppendFacts ==
  ASSUME NEW S, NEW s \in Seq(S), NEW x \in S
  PROVE  /\ Append(s, x) \in Seq(S)
         /\ Append(s, x) # << >>
         /\ Len(Append(s, x)) = Len(s) + 1
         /\ Append(s, x)[Len(s) + 1] = x
         /\ \A i \in 1 .. Len(s) : Append(s, x)[i] = s[i]
         /\ DOMAIN Append(s, x) = 1 .. Len(s) + 1
         /\ DOMAIN s = 1 .. Len(s)
         /\ Len(s) \in Nat
         /\ s = << >> <=> Len(s) = 0
  OBVIOUS

(* Sequences that lose their first element.                                *)
LEMMA TailFacts ==
  ASSUME NEW S, NEW s \in Seq(S), s # << >>
  PROVE  /\ Tail(s) \in Seq(S)
         /\ Len(Tail(s)) = Len(s) - 1
         /\ \A i \in 1 .. Len(s) - 1 : Tail(s)[i] = s[i + 1]
         /\ DOMAIN Tail(s) = 1 .. Len(s) - 1
         /\ DOMAIN s = 1 .. Len(s)
         /\ Len(s) \in Nat \ {0}
         /\ Head(s) = s[1]
         /\ Tail(s) = << >> <=> Len(s) = 1
  <1>1. Len(s) \in Nat \ {0} /\ DOMAIN s = 1 .. Len(s) /\ Head(s) = s[1]
    OBVIOUS
  <1>2. Tail(s) \in Seq(S) /\ Len(Tail(s)) = Len(s) - 1
    BY <1>1
  <1>3. \A i \in 1 .. Len(s) - 1 : Tail(s)[i] = s[i + 1]
    BY <1>1
  <1>4. DOMAIN Tail(s) = 1 .. Len(s) - 1
    BY <1>1, <1>2
  <1>5. \A t \in Seq(S) : t = << >> <=> Len(t) = 0
    OBVIOUS
  <1>6. QED
    BY <1>1, <1>2, <1>3, <1>4, <1>5

(* The initial state, the one mgrInit leaves, satisfies the invariant.     *)
LEMMA InitIInv == Init => IInv
  <1> SUFFICES ASSUME Init PROVE IInv
    OBVIOUS
  <1> USE RQAssumption DEF Init, Threads, Pointer
  <1>1. TypeOK
    BY DEF TypeOK, HandlerLabels, ManagerLabels
  <1>2. LockInv
    BY DEF LockInv, InCritical
  <1>3. NodesInv
    BY DEF NodesInv, Detached, InQueue
  <1>4. ListInv /\ TailInv
    BY DEF ListInv, TailInv, Linking
  <1>5. QED
    BY <1>1, <1>2, <1>3, <1>4 DEF IInv

(* Types are preserved by every step that starts from the invariant.       *)
LEMMA NextTypeOK == IInv /\ [Next]_queueVars => TypeOK'
  <1> SUFFICES ASSUME IInv, [Next]_queueVars PROVE TypeOK'
    OBVIOUS
  <1> USE RQAssumption DEF TypeOK, Threads, Pointer, HandlerLabels, ManagerLabels, Goto, IInv
  <1>1. ASSUME NEW h \in Handlers, NEW r \in Requests, Create(h, r) PROVE TypeOK'
    BY <1>1 DEF Create
  <1>2. ASSUME NEW h \in Handlers, HandlerLock(h) PROVE TypeOK'
    BY <1>2 DEF HandlerLock
  <1>3. ASSUME NEW h \in Handlers, TestTail(h) PROVE TypeOK'
    BY <1>3 DEF TestTail
  <1>4. ASSUME NEW h \in Handlers, SetList(h) PROVE TypeOK'
    <2>1. request[h] \in Requests
      BY <1>4 DEF SetList, NodesInv, Detached
    <2>2. queued' \in Seq(Requests)
      BY <1>4, <2>1, AppendFacts DEF SetList
    <2>3. QED
      BY <1>4, <2>1, <2>2 DEF SetList
  <1>5. ASSUME NEW h \in Handlers, SetTailToList(h) PROVE TypeOK'
    BY <1>5 DEF SetTailToList
  <1>6. ASSUME NEW h \in Handlers, SetNext(h) PROVE TypeOK'
    <2>1. request[h] \in Requests
      BY <1>6 DEF SetNext, NodesInv, Detached
    <2>2. queued' \in Seq(Requests)
      BY <1>6, <2>1, AppendFacts DEF SetNext
    <2>3. QED
      BY <1>6, <2>1, <2>2 DEF SetNext
  <1>7. ASSUME NEW h \in Handlers, SetTail(h) PROVE TypeOK'
    <2>1. requestQueueTail \in Requests
      BY <1>7 DEF SetTail, TailInv
    <2>2. QED
      BY <1>7, <2>1 DEF SetTail
  <1>8. ASSUME NEW h \in Handlers, HandlerUnlock(h) PROVE TypeOK'
    BY <1>8 DEF HandlerUnlock
  <1>9. ASSUME NEW h \in Handlers, Leave(h) PROVE TypeOK'
    BY <1>9 DEF Leave
  <1>10. CASE LoopTest \/ ManagerLock
    BY <1>10, ZenonT(60) DEF LoopTest, ManagerLock
  <1>11. CASE Take
    <2>1. CASE requestQueueList = NULL
      BY <1>11, <2>1 DEF Take
    <2>2. CASE requestQueueList # NULL
      <3>1. queued # << >>
        BY <2>2 DEF ListInv
      <3>2. queued' = Tail(queued) /\ queued \in Seq(Requests)
        BY <1>11, <2>2 DEF Take
      <3>3. queued' \in Seq(Requests)
        BY <3>1, <3>2, TailFacts
      <3>4. QED
        BY <1>11, <2>2, <3>3 DEF Take
    <2>3. QED
      BY <2>1, <2>2
  <1>12. CASE ManagerUnlock \/ Handle
    BY <1>12 DEF ManagerUnlock, Handle
  <1>13. CASE Release
    BY <1>13 DEF Release
  <1>14. CASE UNCHANGED queueVars
    BY <1>14 DEF queueVars
  <1>15. QED
    BY <1>1, <1>2, <1>3, <1>4, <1>5, <1>6, <1>7, <1>8, <1>9, <1>10, <1>11, <1>12, <1>13, <1>14
    DEF Next, HandlerStep, AddRequest, ManagerStep

(* The mutex is held exactly by the thread inside the queue code.          *)
LEMMA NextLockInv == IInv /\ [Next]_queueVars => LockInv'
  <1> SUFFICES ASSUME IInv, [Next]_queueVars PROVE LockInv'
    OBVIOUS
  <1> USE RQAssumption DEF LockInv, InCritical, Threads, Goto, TypeOK, IInv
  <1>1. ASSUME NEW h \in Handlers, NEW r \in Requests, Create(h, r) PROVE LockInv'
    BY <1>1 DEF Create
  <1>2. ASSUME NEW h \in Handlers, HandlerLock(h) PROVE LockInv'
    BY <1>2 DEF HandlerLock
  <1>3. ASSUME NEW h \in Handlers, AddRequest(h) PROVE LockInv'
    BY <1>3 DEF AddRequest, TestTail, SetList, SetTailToList, SetNext, SetTail
  <1>4. ASSUME NEW h \in Handlers, HandlerUnlock(h) PROVE LockInv'
    BY <1>4 DEF HandlerUnlock
  <1>5. ASSUME NEW h \in Handlers, Leave(h) PROVE LockInv'
    BY <1>5 DEF Leave
  <1>6. CASE LoopTest \/ ManagerLock
    BY <1>6 DEF LoopTest, ManagerLock
  <1>7. CASE Take
    BY <1>7 DEF Take
  <1>8. CASE ManagerUnlock \/ Handle
    BY <1>8 DEF ManagerUnlock, Handle
  <1>9. CASE Release
    BY <1>9 DEF Release
  <1>10. CASE UNCHANGED queueVars
    BY <1>10 DEF queueVars
  <1>11. QED
    BY <1>1, <1>2, <1>3, <1>4, <1>5, <1>6, <1>7, <1>8, <1>9, <1>10
    DEF Next, HandlerStep, ManagerStep

(* Only one thread at a time is inside the queue code.                     *)
LEMMA MutualExclusion ==
  ASSUME IInv, NEW t \in Threads, NEW u \in Threads, InCritical(t), InCritical(u)
  PROVE  t = u
  BY RQAssumption DEF IInv, LockInv

(* SetList and SetNext put a block at the end of the queue that nobody     *)
(* else refers to.                                                         *)
LEMMA AppendNodesInv ==
  ASSUME IInv, NEW h \in Handlers, SetList(h) \/ SetNext(h)
  PROVE  NodesInv'
  <1> USE RQAssumption DEF IInv, TypeOK, NodesInv, Threads, Pointer, Goto
  <1> DEFINE r == request[h]
  <1>1. /\ pc[h] \in {"setList", "setNext"} /\ Detached(h)
        /\ queued' = Append(queued, r) /\ UNCHANGED <<live, request>>
        /\ \E label \in {"setTailToList", "setTail"} : pc' = [pc EXCEPT ![h] = label]
    BY DEF SetList, SetNext, Detached
  <1>2. r \in Requests /\ r \in live /\ ~InQueue(r)
    BY <1>1
  <1>3. /\ Len(queued) \in Nat /\ DOMAIN queued = 1 .. Len(queued)
        /\ DOMAIN queued' = 1 .. Len(queued) + 1 /\ queued'[Len(queued) + 1] = r
        /\ \A i \in 1 .. Len(queued) : queued'[i] = queued[i]
    BY <1>1, <1>2, AppendFacts
  <1>4. \A i \in DOMAIN queued' : i \in DOMAIN queued \/ i = Len(queued) + 1
    BY <1>3
  <1>5. \A q : InQueue(q)' => InQueue(q) \/ q = r
    BY <1>3, <1>4 DEF InQueue
  <1>6. \A g \in Handlers : Detached(g)' => Detached(g) /\ g # h
    BY <1>1 DEF Detached
  <1>7. \A i \in DOMAIN queued' : queued'[i] \in live'
    BY <1>1, <1>2, <1>3, <1>4
  <1>8. \A i, j \in DOMAIN queued' : queued'[i] = queued'[j] => i = j
    BY <1>2, <1>3, <1>4 DEF InQueue
  <1>9. ASSUME NEW g \in Handlers, Detached(g)'
        PROVE  /\ request'[g] \in live' /\ ~InQueue(request[g])'
               /\ request'[g] # request'[Manager]
               /\ \A f \in Handlers : Detached(f)' /\ request'[f] = request'[g] => f = g
    <2>1. Detached(g) /\ g # h
      BY <1>6, <1>9
    <2>2. request[g] # r
      BY <1>1, <2>1
    <2>3. ~InQueue(request[g])'
      BY <1>1, <1>5, <2>1, <2>2 DEF InQueue
    <2>4. QED
      BY <1>1, <1>6, <2>1, <2>3
  <1>10. request'[Manager] # NULL => request'[Manager] \in live' /\ ~InQueue(request[Manager])'
    BY <1>1, <1>5
  <1>11. pc'[Manager] = pc[Manager] /\ request'[Manager] = request[Manager]
    BY <1>1
  <1>12. QED
    BY <1>1, <1>7, <1>8, <1>9, <1>10, <1>11

(* The manager takes the oldest node, which stays allocated.               *)
LEMMA TakeNodesInv == IInv /\ Take => NodesInv'
  <1> SUFFICES ASSUME IInv, Take PROVE NodesInv'
    OBVIOUS
  <1> USE RQAssumption DEF IInv, TypeOK, NodesInv, Threads, Pointer, Goto
  <1>1. CASE requestQueueList = NULL
    BY <1>1 DEF Take, Detached, InQueue
  <1>2. CASE requestQueueList # NULL
    <2>1. queued # << >> /\ request'[Manager] = queued[1] /\ queued' = Tail(queued)
      BY <1>2 DEF ListInv, Take
    <2>2. UNCHANGED live /\ pc'[Manager] = "release"
          /\ \A g \in Handlers : pc'[g] = pc[g] /\ request'[g] = request[g]
      BY DEF Take
    <2>3. /\ Len(queued) \in Nat \ {0} /\ DOMAIN queued = 1 .. Len(queued)
          /\ DOMAIN queued' = 1 .. Len(queued) - 1
          /\ \A i \in 1 .. Len(queued) - 1 : queued'[i] = queued[i + 1]
      BY <2>1, TailFacts
    <2>4. \A i \in DOMAIN queued' : i \in Nat /\ i + 1 \in DOMAIN queued /\ i + 1 # 1
      BY <2>3
    <2>5. \A q : InQueue(q)' => InQueue(q) /\ q # queued[1]
      BY <2>3, <2>4 DEF InQueue
    <2>6. queued[1] \in live /\ InQueue(queued[1])
      BY <2>3 DEF InQueue
    <2>7. \A i \in DOMAIN queued' : queued'[i] \in live'
      BY <2>2, <2>3, <2>4
    <2>8. \A i, j \in DOMAIN queued' : queued'[i] = queued'[j] => i = j
      BY <2>3, <2>4
    <2>9. \A g \in Handlers : Detached(g)' <=> Detached(g)
      BY <2>2 DEF Detached
    <2>10. ASSUME NEW g \in Handlers, Detached(g)'
           PROVE  /\ request'[g] \in live' /\ ~InQueue(request[g])'
                  /\ request'[g] # request'[Manager]
                  /\ \A f \in Handlers : Detached(f)' /\ request'[f] = request'[g] => f = g
      BY <2>1, <2>2, <2>5, <2>6, <2>9, <2>10
    <2>11. request'[Manager] \in live' /\ ~InQueue(request[Manager])'
      BY <2>1, <2>2, <2>5, <2>6
    <2>12. QED
      BY <2>2, <2>7, <2>8, <2>10, <2>11
  <1>3. QED
    BY <1>1, <1>2

(* No step makes two owners of one request block.                          *)
LEMMA NextNodesInv == IInv /\ [Next]_queueVars => NodesInv'
  <1> SUFFICES ASSUME IInv, [Next]_queueVars PROVE NodesInv'
    OBVIOUS
  <1> USE RQAssumption DEF IInv, TypeOK, NodesInv, Detached, InQueue, Threads, Pointer, Goto
  <1>1. ASSUME NEW h \in Handlers, NEW r \in Requests, Create(h, r) PROVE NodesInv'
    BY <1>1 DEF Create
  <1>2. ASSUME NEW h \in Handlers, HandlerLock(h) PROVE NodesInv'
    BY <1>2 DEF HandlerLock
  <1>3. ASSUME NEW h \in Handlers, TestTail(h) PROVE NodesInv'
    BY <1>3 DEF TestTail
  <1>4. ASSUME NEW h \in Handlers, SetList(h) \/ SetNext(h) PROVE NodesInv'
    BY <1>4, AppendNodesInv
  <1>5. ASSUME NEW h \in Handlers, SetTailToList(h) \/ SetTail(h) PROVE NodesInv'
    BY <1>5 DEF SetTailToList, SetTail
  <1>6. ASSUME NEW h \in Handlers, HandlerUnlock(h) PROVE NodesInv'
    BY <1>6 DEF HandlerUnlock
  <1>7. ASSUME NEW h \in Handlers, Leave(h) PROVE NodesInv'
    BY <1>7 DEF Leave
  <1>8. CASE LoopTest \/ ManagerLock
    BY <1>8 DEF LoopTest, ManagerLock
  <1>9. CASE Take
    BY <1>9, TakeNodesInv
  <1>10. CASE ManagerUnlock \/ Handle
    BY <1>10 DEF ManagerUnlock, Handle
  <1>11. CASE Release
    BY <1>11 DEF Release
  <1>12. CASE UNCHANGED queueVars
    BY <1>12 DEF queueVars
  <1>13. QED
    BY <1>1, <1>2, <1>3, <1>4, <1>5, <1>6, <1>7, <1>8, <1>9, <1>10, <1>11, <1>12
    DEF Next, HandlerStep, AddRequest, ManagerStep

(* After SetList and SetNext the pointers spell out the longer queue.      *)
LEMMA AppendListInv ==
  ASSUME IInv, NEW h \in Handlers, SetList(h) \/ SetNext(h)
  PROVE  ListInv'
  <1> USE RQAssumption DEF IInv, TypeOK, ListInv, Threads, Pointer, Goto
  <1> DEFINE r == request[h]
  <1>1. /\ pc[h] \in {"setList", "setNext"} /\ Detached(h) /\ InCritical(h)
        /\ queued' = Append(queued, r) /\ next[r] = NULL
    BY DEF SetList, SetNext, Detached, InCritical, TailInv
  <1>2. r \in Requests /\ ~InQueue(r)
    BY <1>1 DEF NodesInv
  <1>3. /\ Len(queued) \in Nat /\ DOMAIN queued = 1 .. Len(queued)
        /\ queued' # << >> /\ Len(queued') = Len(queued) + 1
        /\ queued'[Len(queued) + 1] = r
        /\ \A i \in 1 .. Len(queued) : queued'[i] = queued[i]
        /\ queued = << >> <=> Len(queued) = 0
    BY <1>1, <1>2, AppendFacts
  <1>4. \A g \in Handlers : ~Linking(g)
    <2>1. ASSUME NEW g \in Handlers, Linking(g) PROVE FALSE
      <3>1. InCritical(g)
        BY <2>1 DEF Linking, InCritical
      <3>2. g = h
        BY <1>1, <3>1, MutualExclusion
      <3>3. QED
        BY <1>1, <2>1, <3>2 DEF Linking
    <2>2. QED
      BY <2>1
  <1>5. requestQueueTail = IF queued = << >> THEN NULL ELSE queued[Len(queued)]
    BY <1>4 DEF TailInv
  <1>6. CASE SetList(h)
    <2>1. requestQueueList' = r /\ next' = next /\ requestQueueTail = NULL
      BY <1>6 DEF SetList, TailInv
    <2>2. queued = << >>
      BY <1>3, <1>5, <2>1
    <2>3. QED
      BY <1>1, <1>3, <2>1, <2>2
  <1>7. CASE SetNext(h)
    <2>1. UNCHANGED requestQueueList /\ next' = [next EXCEPT ![requestQueueTail] = r]
          /\ requestQueueTail # NULL
      BY <1>7 DEF SetNext, TailInv
    <2>2. queued # << >> /\ requestQueueTail = queued[Len(queued)] /\ requestQueueTail \in Requests
      BY <1>5, <2>1
    <2>3. next'[r] = NULL /\ next'[queued[Len(queued)]] = r
      BY <1>1, <1>2, <1>3, <2>1, <2>2 DEF InQueue
    <2>4. \A i \in 1 .. Len(queued) - 1 : queued[i] # queued[Len(queued)] /\ queued[i] \in Requests
      BY <1>3, <2>2 DEF NodesInv
    <2>5. \A i \in 1 .. Len(queued) - 1 : next'[queued[i]] = queued[i + 1]
      BY <1>3, <2>1, <2>2, <2>4
    <2>6. \A i \in 1 .. Len(queued') - 1 : next'[queued'[i]] = queued'[i + 1]
      <3>1. SUFFICES ASSUME NEW i \in 1 .. Len(queued) PROVE next'[queued[i]] = queued'[i + 1]
        BY <1>3
      <3>2. CASE i = Len(queued)
        BY <1>3, <2>3, <3>2
      <3>3. CASE i # Len(queued)
        <4>0. \A n \in Nat : \A k \in 1 .. n : k # n => k \in 1 .. n - 1 /\ k + 1 \in 1 .. n
          BY SMTT(60)
        <4>1. i \in 1 .. Len(queued) - 1 /\ i + 1 \in 1 .. Len(queued)
          BY <1>3, <3>1, <3>3, <4>0
        <4>2. next'[queued[i]] = queued[i + 1] /\ queued'[i + 1] = queued[i + 1]
          BY <1>3, <2>5, <4>1
        <4>3. QED
          BY <4>2
      <3>4. QED
        BY <3>2, <3>3
    <2>7. requestQueueList' = queued'[1]
      BY <1>3, <2>1, <2>2
    <2>8. QED
      BY <1>3, <2>3, <2>6, <2>7
  <1>8. QED
    BY <1>6, <1>7

(* A block that is not in the queue can be overwritten.                    *)
LEMMA NextListInv == IInv /\ [Next]_queueVars => ListInv'
  <1> SUFFICES ASSUME IInv, [Next]_queueVars PROVE ListInv'
    OBVIOUS
  <1> USE RQAssumption DEF IInv, TypeOK, ListInv, Threads, Pointer, Goto
  <1>1. CASE UNCHANGED <<requestQueueList, next, queued>>
    BY <1>1
  <1>2. ASSUME NEW h \in Handlers, TestTail(h) PROVE ListInv'
    <2>1. request[h] \in Requests /\ ~InQueue(request[h])
      BY <1>2 DEF TestTail, NodesInv, Detached
    <2>2. next' = [next EXCEPT ![request[h]] = NULL] /\ UNCHANGED <<requestQueueList, queued>>
      BY <1>2 DEF TestTail
    <2>3. \A i \in DOMAIN queued : next'[queued[i]] = next[queued[i]]
      BY <2>1, <2>2 DEF InQueue
    <2>4. DOMAIN queued = 1 .. Len(queued) /\ Len(queued) \in Nat
          /\ (queued # << >> => Len(queued) \in DOMAIN queued)
      OBVIOUS
    <2>5. QED
      BY <2>2, <2>3, <2>4
  <1>3. ASSUME NEW h \in Handlers, SetList(h) \/ SetNext(h) PROVE ListInv'
    BY <1>3, AppendListInv
  <1>4. CASE Take
    <2>1. CASE requestQueueList = NULL
      BY <1>4, <2>1 DEF Take
    <2>2. CASE requestQueueList # NULL
      <3>1. queued # << >> /\ queued' = Tail(queued) /\ next' = next
            /\ requestQueueList' = next[queued[1]]
        BY <1>4, <2>2 DEF Take
      <3>2. /\ Len(queued) \in Nat \ {0} /\ Len(queued') = Len(queued) - 1
            /\ \A i \in 1 .. Len(queued) - 1 : queued'[i] = queued[i + 1]
            /\ queued' = << >> <=> Len(queued) = 1
        BY <3>1, TailFacts
      <3>3. queued' = << >> => requestQueueList' = NULL
        BY <3>1, <3>2
      <3>4. queued' # << >> => requestQueueList' = queued'[1] /\ next'[queued'[Len(queued')]] = NULL
        BY <3>1, <3>2
      <3>5. \A i \in 1 .. Len(queued') - 1 : next'[queued'[i]] = queued'[i + 1]
        BY <3>1, <3>2
      <3>6. QED
        BY <3>3, <3>4, <3>5
    <2>3. QED
      BY <2>1, <2>2
  <1>5. QED
    BY <1>1, <1>2, <1>3, <1>4
    DEF Next, HandlerStep, AddRequest, ManagerStep, Create, HandlerLock, SetTailToList, SetTail,
        HandlerUnlock, Leave, LoopTest, ManagerLock, ManagerUnlock, Handle, Release, queueVars

(* The two handlers' steps that move the end of the list.                  *)
LEMMA AppendTailInv ==
  ASSUME IInv, NEW h \in Handlers, SetList(h) \/ SetNext(h)
  PROVE  TailInv'
  <1> USE RQAssumption DEF IInv, TypeOK, Threads, Pointer, Goto
  <1> DEFINE r == request[h]
  <1>1. pc[h] \in {"setList", "setNext"} /\ InCritical(h) /\ r \in Requests
        /\ UNCHANGED <<requestQueueTail, request>>
    BY DEF SetList, SetNext, InCritical, Detached, NodesInv
  <1>2. \A g \in Handlers : g # h => ~InCritical(g) /\ ~Linking(g)
    BY <1>1, MutualExclusion DEF Linking, InCritical
  <1>3. \A g \in Handlers : g # h => ~InCritical(g)' /\ pc'[g] = pc[g]
    BY <1>2 DEF SetList, SetNext, InCritical
  <1>4. /\ Len(queued) \in Nat /\ queued' = Append(queued, r)
        /\ Len(queued') = Len(queued) + 1
        /\ \A i \in 1 .. Len(queued) : queued'[i] = queued[i]
        /\ queued = << >> <=> Len(queued) = 0
        /\ queued # << >> => Len(queued) \in 1 .. Len(queued)
    BY <1>1, AppendFacts DEF SetList, SetNext
  <1>5. requestQueueTail = IF queued = << >> THEN NULL ELSE queued[Len(queued)]
    <2>1. ~Linking(h)
      BY <1>1 DEF Linking
    <2>2. QED
      BY <1>2, <2>1 DEF TailInv
  <1>6. CASE SetList(h)
    <2>1. pc'[h] = "setTailToList" /\ requestQueueTail = NULL
      BY <1>6 DEF SetList, TailInv
    <2>2. Len(queued) = 0
      BY <1>4, <1>5, <2>1
    <2>3. QED
      BY <1>1, <1>3, <1>4, <2>1, <2>2 DEF TailInv, Linking, InCritical
  <1>7. CASE SetNext(h)
    <2>1. pc'[h] = "setTail" /\ requestQueueTail # NULL
      BY <1>7 DEF SetNext, TailInv
    <2>2. Len(queued) > 0 /\ requestQueueTail' = queued'[Len(queued') - 1]
      BY <1>1, <1>4, <1>5, <2>1
    <2>3. QED
      BY <1>1, <1>3, <1>4, <2>1, <2>2 DEF TailInv, Linking, InCritical
  <1>8. QED
    BY <1>6, <1>7

(* The tail lags behind the list only between the two writes of one handler. *)
LEMMA NextTailInv == IInv /\ [Next]_queueVars => TailInv'
  <1> SUFFICES ASSUME IInv, [Next]_queueVars PROVE TailInv'
    OBVIOUS
  <1> USE RQAssumption DEF IInv, TypeOK, Threads, Pointer, Goto
  <1>1. ASSUME NEW h \in Handlers, NEW r \in Requests, Create(h, r) PROVE TailInv'
    BY <1>1 DEF Create, TailInv, Linking
  <1>2. ASSUME NEW h \in Handlers, HandlerLock(h) PROVE TailInv'
    BY <1>2 DEF HandlerLock, TailInv, Linking
  <1>3. ASSUME NEW h \in Handlers, TestTail(h) PROVE TailInv'
    <2>1. InCritical(h) /\ request[h] \in Requests
      BY <1>3 DEF TestTail, InCritical, NodesInv, Detached
    <2>2. \A g \in Handlers : g # h => ~InCritical(g)
      BY <2>1, MutualExclusion
    <2>3. QED
      BY <1>3, <2>1, <2>2 DEF TestTail, TailInv, Linking, InCritical
  <1>4. ASSUME NEW h \in Handlers, SetList(h) \/ SetNext(h) PROVE TailInv'
    BY <1>4, AppendTailInv
  <1>5. ASSUME NEW h \in Handlers, SetTailToList(h) \/ SetTail(h) PROVE TailInv'
    <2>1. InCritical(h) /\ Linking(h) /\ pc'[h] = "unlock" /\ queued' = queued
      BY <1>5 DEF SetTailToList, SetTail, InCritical, Linking
    <2>2. \A g \in Handlers : g # h => ~InCritical(g) /\ pc'[g] = pc[g]
      BY <1>5, <2>1, MutualExclusion DEF SetTailToList, SetTail
    <2>3. /\ Len(queued) \in Nat
          /\ \A i \in 1 .. Len(queued) - 1 : next[queued[i]] = queued[i + 1]
          /\ queued = << >> <=> Len(queued) = 0
      BY DEF ListInv
    <2>4. queued # << >> /\ requestQueueTail' = queued[Len(queued)]
      <3>1. CASE SetTailToList(h)
        <4>1. Len(queued) = 1 /\ requestQueueTail' = requestQueueList
          BY <3>1 DEF SetTailToList, TailInv
        <4>2. QED
          BY <2>3, <4>1 DEF ListInv
      <3>2. CASE SetTail(h)
        <4>1. /\ Len(queued) > 1 /\ requestQueueTail = queued[Len(queued) - 1]
              /\ requestQueueTail' = next[requestQueueTail]
          BY <3>2 DEF SetTail, TailInv
        <4>2. Len(queued) - 1 \in 1 .. Len(queued) - 1 /\ (Len(queued) - 1) + 1 = Len(queued)
          BY <2>3, <4>1
        <4>3. QED
          BY <2>3, <4>1, <4>2
      <3>3. QED
        BY <1>5, <3>1, <3>2
    <2>5. QED
      BY <2>1, <2>2, <2>4 DEF TailInv, Linking, InCritical
  <1>6. ASSUME NEW h \in Handlers, HandlerUnlock(h) PROVE TailInv'
    BY <1>6 DEF HandlerUnlock, TailInv, Linking
  <1>7. ASSUME NEW h \in Handlers, Leave(h) PROVE TailInv'
    BY <1>7 DEF Leave, TailInv, Linking
  <1>8. CASE LoopTest \/ ManagerLock
    BY <1>8 DEF LoopTest, ManagerLock, TailInv, Linking
  <1>9. CASE Take
    <2>1. \A g \in Handlers : ~InCritical(g)
      BY <1>9, MutualExclusion DEF Take, InCritical
    <2>2. \A g \in Handlers : pc'[g] = pc[g] /\ ~Linking(g)
      BY <1>9, <2>1 DEF Take, InCritical, Linking
    <2>3. requestQueueTail = IF queued = << >> THEN NULL ELSE queued[Len(queued)]
      BY <2>2 DEF TailInv
    <2>4. requestQueueTail' = IF queued' = << >> THEN NULL ELSE queued'[Len(queued')]
      <3>1. CASE requestQueueList = NULL
        BY <1>9, <2>3, <3>1 DEF Take
      <3>2. CASE requestQueueList # NULL
        <4>1. /\ queued # << >> /\ queued' = Tail(queued) /\ requestQueueList = queued[1]
              /\ requestQueueTail' = IF requestQueueList = requestQueueTail
                                       THEN next[requestQueueList] ELSE requestQueueTail
          BY <1>9, <3>2 DEF Take, ListInv
        <4>2. /\ Len(queued) \in Nat \ {0} /\ DOMAIN queued = 1 .. Len(queued)
              /\ Len(queued') = Len(queued) - 1
              /\ \A i \in 1 .. Len(queued) - 1 : queued'[i] = queued[i + 1]
              /\ queued' = << >> <=> Len(queued) = 1
          BY <4>1, TailFacts
        <4>3. requestQueueList = requestQueueTail <=> Len(queued) = 1
          BY <2>3, <4>1, <4>2, SMTT(60) DEF NodesInv
        <4>4. CASE Len(queued) = 1
          BY <4>1, <4>2, <4>3, <4>4 DEF ListInv
        <4>5. CASE Len(queued) # 1
          <5>1. Len(queued) - 1 \in 1 .. Len(queued) - 1 /\ (Len(queued) - 1) + 1 = Len(queued)
            BY <4>2, <4>5
          <5>2. queued'[Len(queued')] = queued[Len(queued)]
            BY <4>2, <5>1
          <5>3. QED
            BY <2>3, <4>1, <4>2, <4>3, <4>5, <5>2
        <4>6. QED
          BY <4>4, <4>5
      <3>3. QED
        BY <3>1, <3>2
    <2>5. QED
      BY <2>1, <2>2, <2>4 DEF TailInv, Linking, InCritical
  <1>10. CASE ManagerUnlock \/ Handle
    BY <1>10 DEF ManagerUnlock, Handle, TailInv, Linking
  <1>11. CASE Release
    BY <1>11 DEF Release, TailInv, Linking
  <1>12. CASE UNCHANGED queueVars
    BY <1>12 DEF queueVars, TailInv, Linking
  <1>13. QED
    BY <1>1, <1>2, <1>3, <1>4, <1>5, <1>6, <1>7, <1>8, <1>9, <1>10, <1>11, <1>12
    DEF Next, HandlerStep, AddRequest, ManagerStep

-----------------------------------------------------------------------------
(* IInv holds in every state the queue can reach, whatever the number of   *)
(* handler threads and of heap blocks.                                     *)
THEOREM InductiveInvariant == Spec => []IInv
  <1>1. IInv /\ [Next]_queueVars => IInv'
    BY NextTypeOK, NextLockInv, NextNodesInv, NextListInv, NextTailInv DEF IInv
  <1>2. QED
    BY InitIInv, <1>1, PTL DEF Spec

(* Every variable of the queue keeps its type.                             *)
THEOREM TypeCorrect == Spec => []TypeOK
  <1>1. IInv => TypeOK
    BY DEF IInv
  <1>2. QED
    BY InductiveInvariant, <1>1, PTL

(* Whenever the mutex is free, head, tail and next fields agree on which   *)
(* requests are waiting: neither a removal that empties the list nor an    *)
(* addition leaves the other pointer behind.                               *)
THEOREM QueueIsWhole == Spec => []QueueWhole
  <1>1. IInv => QueueWhole
    <2> SUFFICES ASSUME IInv, reqQueueMutex = NULL PROVE QueueWhole
      BY DEF QueueWhole
    <2> USE RQAssumption DEF IInv, TypeOK, Threads, Pointer
    <2>1. \A h \in Handlers : ~Linking(h)
      BY DEF LockInv, InCritical, Linking
    <2>2. requestQueueTail = IF queued = << >> THEN NULL ELSE queued[Len(queued)]
      BY <2>1 DEF TailInv
    <2>3. \A i \in DOMAIN queued : queued[i] \in Requests
      OBVIOUS
    <2>4. queued # << >> => 1 \in DOMAIN queued /\ Len(queued) \in DOMAIN queued
      OBVIOUS
    <2>5. QED
      BY <2>2, <2>3, <2>4 DEF QueueWhole, ListInv
  <1>2. QED
    BY InductiveInvariant, <1>1, PTL

(* The queue code follows no dangling or NULL pointer, and the manager     *)
(* frees no node that is still in the list.                                *)
THEOREM NothingDangles == Spec => []NoDanglingNode
  <1>1. IInv => NoDanglingNode
    <2> SUFFICES ASSUME IInv PROVE NoDanglingNode
      OBVIOUS
    <2> USE RQAssumption DEF IInv, TypeOK, Threads, Pointer
    <2>1. queued # << >> => 1 \in DOMAIN queued /\ Len(queued) \in DOMAIN queued
      OBVIOUS
    <2>2. requestQueueList # NULL => requestQueueList \in live
      BY <2>1 DEF ListInv, NodesInv
    <2>3. ASSUME NEW h \in Handlers, pc[h] = "setNext" PROVE requestQueueTail \in live
      <3>1. \A g \in Handlers : ~Linking(g)
        BY <2>3, MutualExclusion DEF Linking, InCritical
      <3>2. QED
        BY <2>1, <2>3, <3>1 DEF TailInv, NodesInv
    <2>4. ASSUME NEW h \in Handlers, pc[h] = "setTail" PROVE requestQueueTail \in live
      <3>1. Len(queued) > 1 /\ requestQueueTail = queued[Len(queued) - 1]
        BY <2>4 DEF TailInv
      <3>2. Len(queued) - 1 \in DOMAIN queued
        BY <3>1
      <3>3. QED
        BY <3>1, <3>2 DEF NodesInv
    <2>5. QED
      BY <2>2, <2>3, <2>4 DEF NoDanglingNode, NodesInv
  <1>2. QED
    BY InductiveInvariant, <1>1, PTL

(* A poll that finds no request found the queue empty.                     *)
THEOREM EmptyPoll == Spec => EmptyPollMeansEmpty
  <1>1. IInv /\ [Next]_queueVars => [(Take /\ request'[Manager] = NULL) => queued = << >>]_queueVars
    <2> SUFFICES ASSUME IInv, Take, request'[Manager] = NULL PROVE queued = << >>
      OBVIOUS
    <2>1. requestQueueList = NULL
      BY DEF Take, IInv, TypeOK, Threads
    <2>2. \A i \in DOMAIN queued : queued[i] # NULL
      BY RQAssumption DEF IInv, TypeOK
    <2>3. queued # << >> => 1 \in DOMAIN queued
      BY DEF IInv, TypeOK
    <2>4. QED
      BY <2>1, <2>2, <2>3 DEF IInv, ListInv
  <1>2. QED
    BY InductiveInvariant, <1>1, PTL DEF Spec, EmptyPollMeansEmpty

(* The pointer code implements the FIFO of RequestFifo: linking a node is  *)
(* Put, a poll that finds one is Get, free is Finish, and every other step *)
(* leaves the abstract queue alone.                                        *)
THEOREM QueueIsFifo == Spec => ImplementsFifo
  <1> USE RQAssumption
  <1>1. Init => Fifo!InitFifo
    BY DEF Init, Fifo!InitFifo, Threads
  <1>2. IInv /\ [Next]_queueVars => [Fifo!NextFifo]_(Fifo!fifoVars)
    <2> SUFFICES ASSUME IInv, [Next]_queueVars
                 PROVE  Fifo!NextFifo \/ UNCHANGED <<queued, request[Manager]>>
      BY DEF Fifo!fifoVars
    <2> USE DEF IInv, TypeOK, Threads, Pointer
    <2>1. ASSUME NEW h \in Handlers, NEW r \in Requests, Create(h, r)
          PROVE  UNCHANGED <<queued, request[Manager]>>
      BY <2>1 DEF Create
    <2>2. ASSUME NEW h \in Handlers, SetList(h) \/ SetNext(h)
          PROVE  Fifo!Put(request[h])
      BY <2>2 DEF SetList, SetNext, Fifo!Put, NodesInv, Detached, InQueue
    <2>3. ASSUME NEW h \in Handlers, SetList(h) \/ SetNext(h)
          PROVE  Fifo!NextFifo
      <3>1. request[h] \in Requests
        BY <2>3 DEF SetList, SetNext, NodesInv, Detached
      <3>2. QED
        BY <2>2, <2>3, <3>1 DEF Fifo!NextFifo
    <2>4. ASSUME Take, requestQueueList # NULL
          PROVE  Fifo!Get
      <3>1. queued # << >> /\ Head(queued) = queued[1]
        BY <2>4 DEF ListInv
      <3>2. QED
        BY <2>4, <3>1 DEF Take, Fifo!Get, ListInv, NodesInv
    <2>5. ASSUME Take, requestQueueList = NULL
          PROVE  UNCHANGED <<queued, request[Manager]>>
      BY <2>5 DEF Take, NodesInv
    <2>6. ASSUME Release PROVE Fifo!Finish
      BY <2>6 DEF Release, Fifo!Finish, NodesInv
    <2>7. CASE UNCHANGED <<queued, request>>
      BY <2>7
    <2>8. QED
      BY <2>1, <2>3, <2>4, <2>5, <2>6, <2>7
      DEF Next, HandlerStep, AddRequest, ManagerStep, HandlerLock, TestTail, SetTailToList,
          SetTail, HandlerUnlock, Leave, LoopTest, ManagerLock, ManagerUnlock, Handle, queueVars, Fifo!NextFifo
  <1>3. QED
    BY InductiveInvariant, <1>1, <1>2, PTL DEF Spec, ImplementsFifo, Fifo!SpecFifo
=============================================================================

--------------------------- MODULE MhdDaemonProofs ---------------------------
(***************************************************************************)
(* libmicrohttpd's thread for any number of connections, any requests and  *)
(* any size of the pool, in four layers.                                   *)
(*                                                                         *)
(* The lists: which connections there are, held, at turn or to be freed.   *)
(*                                                                         *)
(* The references to responses: every helper of connection.c keeps a       *)
(* connection's count in step with its response, and a request that has    *)
(* not reached the application has no response yet, so that the first      *)
(* answer never overwrites one.                                            *)
(*                                                                         *)
(* What the thread waits for: a turn leaves a connection that is to be     *)
(* served without its socket only when the daemon is being stopped, or     *)
(* when the error its headers were answered with has been forgotten.       *)
(*                                                                         *)
(* The memory: the buffers of every connection lie in its pool and apart.  *)
(***************************************************************************)
EXTENDS MhdDaemon, MhdConnectionProofs, FiniteSetTheorems

(* No connection is in a list twice.                                       *)
Once(s) == \A i, j \in 1 .. Len(s) : s[i] = s[j] => i = j

(* The elements of a sequence.                                             *)
LEMMA ToSetOf ==
  ASSUME NEW S, NEW s \in Seq(S)
  PROVE  /\ Len(s) \in Nat /\ ToSet(s) \subseteq S
         /\ \A e : e \in ToSet(s) <=> \E i \in 1 .. Len(s) : s[i] = e
  <1>1. Len(s) \in Nat /\ DOMAIN s = 1 .. Len(s) /\ \A i \in 1 .. Len(s) : s[i] \in S
    BY LenProperties, ElementOfSeq
  <1>2. QED
    BY <1>1 DEF ToSet

(* A list that a new element is appended to,                               *)
LEMMA AppendOnce ==
  ASSUME NEW S, NEW s \in Seq(S), NEW e \in S, Once(s), e \notin ToSet(s)
  PROVE  /\ Append(s, e) \in Seq(S) /\ Once(Append(s, e)) /\ Len(Append(s, e)) = Len(s) + 1
         /\ ToSet(Append(s, e)) = ToSet(s) \cup {e}
  <1> DEFINE t == Append(s, e)
  <1>1. /\ t \in Seq(S) /\ Len(t) = Len(s) + 1 /\ Len(s) \in Nat
        /\ \A i \in 1 .. Len(s) : t[i] = s[i]
        /\ t[Len(s) + 1] = e
    BY AppendProperties, LenProperties
  <1> HIDE DEF t
  <1>2. \A i \in 1 .. Len(s) : s[i] # e
    BY ToSetOf
  <1>3. Once(t)
    BY <1>1, <1>2 DEF Once
  <1>4. \A x : x \in ToSet(t) <=> x \in ToSet(s) \/ x = e
    <2>1. \A x : x \in ToSet(t) <=> \E i \in 1 .. Len(t) : t[i] = x
      BY <1>1, ToSetOf
    <2>2. \A x : x \in ToSet(s) <=> \E i \in 1 .. Len(s) : s[i] = x
      BY ToSetOf
    <2>3. QED
      BY <1>1, <2>1, <2>2
  <1>5. QED
    BY <1>1, <1>3, <1>4 DEF t

(* that has lost its first one,                                            *)
LEMMA TailOnce ==
  ASSUME NEW S, NEW s \in Seq(S), s # << >>, Once(s)
  PROVE  /\ Tail(s) \in Seq(S) /\ Once(Tail(s))
         /\ \A i \in 1 .. Len(Tail(s)) : i + 1 \in 2 .. Len(s) /\ Tail(s)[i] = s[i + 1]
  <1>1. /\ Tail(s) \in Seq(S) /\ Len(Tail(s)) = Len(s) - 1 /\ Len(s) \in Nat
        /\ \A i \in 1 .. Len(Tail(s)) : Tail(s)[i] = s[i + 1]
    BY HeadTailProperties, LenProperties
  <1>2. QED
    BY <1>1 DEF Once

(* or any one.                                                             *)
LEMMA RemoveOnce ==
  ASSUME NEW S, NEW s \in Seq(S), NEW e \in ToSet(s), Once(s)
  PROVE  /\ RemoveFirst(s, e) \in Seq(S) /\ Once(RemoveFirst(s, e)) /\ Len(RemoveFirst(s, e)) = Len(s) - 1
         /\ ToSet(RemoveFirst(s, e)) = ToSet(s) \ {e}
  <1>1. PICK n \in 1 .. Len(s) : s[n] = e
    BY ToSetOf
  <1>2. Len(s) \in Nat /\ \A i \in 1 .. Len(s) : s[i] \in S
    BY LenProperties, ElementOfSeq
  <1>3. {i \in 1 .. Len(s) : s[i] = e} = {n}
    BY <1>1 DEF Once
  <1>4. Min({n}) = n
    BY <1>2 DEF Min
  <1>5. RemoveFirst(s, e) = RemoveAt(s, n)
    <2>1. SelectInSeq(s, LAMBDA v : v = e) = n
      BY <1>3, <1>4 DEF SelectInSeq
    <2>2. QED
      BY <1>1, <2>1 DEF RemoveFirst
  <1> DEFINE a == SubSeq(s, 1, n - 1)
             b == SubSeq(s, n + 1, Len(s))
             t == RemoveFirst(s, e)
  <1>6. a \in Seq(S) /\ Len(a) = n - 1 /\ \A i \in 1 .. n - 1 : a[i] = s[i]
    <2>1. \A i \in 1 .. n - 1 : s[i] \in S
      BY <1>2
    <2>2. /\ a \in Seq(S) /\ Len(a) = IF 1 <= n - 1 THEN n - 1 - 1 + 1 ELSE 0
          /\ \A i \in 1 .. n - 1 - 1 + 1 : a[i] = s[1 + i - 1]
      BY <2>1, <1>2, SubSeqProperties
    <2>3. QED
      BY <2>2, <1>2
  <1>7. b \in Seq(S) /\ Len(b) = Len(s) - n /\ \A i \in 1 .. Len(s) - n : b[i] = s[n + i]
    <2>1. \A i \in n + 1 .. Len(s) : s[i] \in S
      BY <1>2
    <2>2. /\ b \in Seq(S) /\ Len(b) = IF n + 1 <= Len(s) THEN Len(s) - (n + 1) + 1 ELSE 0
          /\ \A i \in 1 .. Len(s) - (n + 1) + 1 : b[i] = s[n + 1 + i - 1]
      BY <2>1, <1>2, SubSeqProperties
    <2>3. QED
      BY <2>2, <1>2
  <1>8. t = a \o b
    BY <1>5 DEF RemoveAt
  <1> HIDE DEF a, b, t
  <1>9. /\ t \in Seq(S) /\ Len(t) = Len(a) + Len(b)
        /\ \A i \in 1 .. Len(a) + Len(b) : t[i] = IF i <= Len(a) THEN a[i] ELSE b[i - Len(a)]
    BY <1>6, <1>7, <1>8, ConcatProperties, ZenonT(60)
  <1>10. Len(t) = Len(s) - 1 /\ \A i \in 1 .. Len(t) : t[i] = IF i < n THEN s[i] ELSE s[i + 1]
    <2>1. Len(t) = Len(s) - 1
      BY <1>2, <1>6, <1>7, <1>9
    <2>2. ASSUME NEW i \in 1 .. Len(t), i < n PROVE t[i] = s[i]
      BY <1>2, <1>6, <1>7, <1>9, <2>1, <2>2, SMTT(60)
    <2>3. ASSUME NEW i \in 1 .. Len(t), ~(i < n) PROVE t[i] = s[i + 1]
      <3>1. t[i] = b[i - (n - 1)] /\ i - (n - 1) \in 1 .. Len(s) - n
        BY <1>2, <1>6, <1>7, <1>9, <2>1, <2>3
      <3>2. b[i - (n - 1)] = s[n + (i - (n - 1))] /\ n + (i - (n - 1)) = i + 1
        BY <1>2, <1>7, <3>1, <2>1
      <3>3. QED
        BY <3>1, <3>2
    <2>4. QED
      BY <2>1, <2>2, <2>3
  <1>11. Once(t)
    BY <1>2, <1>10 DEF Once
  <1>12. \A x : x \in ToSet(t) <=> x \in ToSet(s) /\ x # e
    <2>1. \A x : x \in ToSet(t) <=> \E i \in 1 .. Len(t) : t[i] = x
      BY <1>9, ToSetOf
    <2>2. \A x : x \in ToSet(s) <=> \E i \in 1 .. Len(s) : s[i] = x
      BY ToSetOf
    <2>3. ASSUME NEW i \in 1 .. Len(t) PROVE t[i] \in ToSet(s) /\ t[i] # e
      BY <1>1, <1>2, <1>10, <2>2 DEF Once
    <2>4. ASSUME NEW i \in 1 .. Len(s), s[i] # e PROVE \E j \in 1 .. Len(t) : t[j] = s[i]
      <3>1. CASE i < n
        BY <1>2, <1>10, <3>1
      <3>2. CASE i > n
        <4>1. i - 1 \in 1 .. Len(t) /\ t[i - 1] = s[i]
          BY <1>2, <1>10, <3>2
        <4>2. QED
          BY <4>1
      <3>3. QED
        BY <1>1, <1>2, <2>4, <3>1, <3>2
    <2>5. QED
      BY <2>1, <2>2, <2>3, <2>4
  <1>13. QED
    BY <1>9, <1>10, <1>11, <1>12 DEF t

(* A list in which nothing is twice is as long as its set is large.        *)
LEMMA CardinalityOfOnce ==
  ASSUME NEW S, NEW s \in Seq(S), Once(s)
  PROVE  IsFiniteSet(ToSet(s)) /\ Cardinality(ToSet(s)) = Len(s)
  <1>1. Len(s) \in Nat /\ s \in [1 .. Len(s) -> S] /\ DOMAIN s = 1 .. Len(s)
    BY LenProperties
  <1>2. s \in Bijection(1 .. Len(s), ToSet(s))
    BY <1>1 DEF Once, ToSet, Bijection, Injection, Surjection, IsInjective
  <1>3. ExistsBijection(1 .. Len(s), ToSet(s))
    BY <1>2 DEF ExistsBijection
  <1>4. QED
    BY <1>1, <1>3, FS_NatBijection, FS_CountingElements

-----------------------------------------------------------------------------
(* The lists, the counter and the connections' phases.                     *)
Lists ==
  /\ phase = [c \in Conns |-> phase[c]] /\ con = [c \in Conns |-> con[c]]
  /\ open \in Seq(Conns) /\ Once(open)
  /\ cleanup \subseteq Conns /\ IsFiniteSet(cleanup) /\ ToSet(open) \cap cleanup = {}
  /\ \A c \in Conns : Held(c) <=> c \in ToSet(open) \cup cleanup
  /\ connections = Len(open) + Cardinality(cleanup)

(* The round: who has its turn, or still waits for it, is in the list of   *)
(* connections, but for one that has just been moved to the other list.    *)
Turns ==
  /\ turn \in Seq(Conns) /\ Once(turn)
  /\ dpc \in {"turn", "idle", "done"} => turn # << >> /\ \A i \in 2 .. Len(turn) : turn[i] \in ToSet(open)
  /\ dpc \in {"turn", "idle"} => turn[1] \in ToSet(open)
  /\ dpc = "done" => turn[1] \in ToSet(open) \/ con[turn[1]].state = "CLOSED"
  /\ dpc \in {"select", "ended"} => cleanup = {}

ListInv == Lists /\ Turns /\ LimitEnds

(* The counter is a number, and zero when both lists are empty.            *)
LEMMA CountFacts ==
  ASSUME Lists
  PROVE  /\ Len(open) \in Nat /\ Cardinality(cleanup) \in Nat /\ connections \in Nat
         /\ IsFiniteSet(ToSet(open)) /\ Cardinality(ToSet(open)) = Len(open)
         /\ Len(open) = 0 <=> open = << >>
         /\ Cardinality(cleanup) = 0 <=> cleanup = {}
  BY CardinalityOfOnce, LenProperties, EmptySeq, FS_CardinalityType, FS_EmptySet DEF Lists

(* The daemon starts with empty lists.                                     *)
LEMMA InitLists == MhdInit => ListInv
  <1> SUFFICES ASSUME MhdInit PROVE ListInv
    OBVIOUS
  <1>1. Len(<< >>) = 0 /\ << >> \in Seq(Conns)
    BY EmptySeq
  <1>2. Once(<< >>) /\ ToSet(<< >>) = {}
    <2>1. \A e : e \in ToSet(<< >>) <=> \E i \in 1 .. Len(<< >>) : << >>[i] = e
      BY <1>1, ToSetOf
    <2>2. QED
      BY <1>1, <2>1 DEF Once
  <1>3. Lists
    BY <1>1, <1>2, FS_EmptySet DEF MhdInit, Lists, Held
  <1>4. Turns /\ LimitEnds
    BY <1>1, <1>2 DEF MhdInit, Turns, LimitEnds
  <1>5. QED
    BY <1>3, <1>4 DEF ListInv

(* A round begins with all that is in the list.                            *)
LEMMA RoundTurns ==
  ASSUME NEW s \in Seq(Conns), Once(s), Round(s), open' = s
  PROVE  Turns'
  <1>1. turn' = s /\ dpc' = IF s = << >> THEN "cleanup" ELSE "turn"
    BY DEF Round
  <1>2. \A i \in 1 .. Len(s) : s[i] \in ToSet(s)
    BY ToSetOf
  <1>3. s # << >> => 1 \in 1 .. Len(s) /\ 2 .. Len(s) \subseteq 1 .. Len(s)
    BY EmptySeq, LenProperties
  <1>4. QED
    BY <1>1, <1>2, <1>3 DEF Turns

(* Steps that leave the lists alone and the connection at turn in its      *)
(* list, or that are not part of a round.                                  *)
LEMMA BecameKeeps ==
  ASSUME ListInv, NEW k, NEW where \in {"idle", "done"}, Became(k, where), UNCHANGED <<listVars, turn>>,
         dpc \in {"turn", "idle"} \/ (dpc = "done" /\ K.state # "CLOSED")
  PROVE  ListInv'
  <1>1. dpc' \in {"crashed", where} /\ con' = [con EXCEPT ![Cur] = k]
    BY DEF Became
  <1>2. UNCHANGED <<phase, open, cleanup, connections, atLimit, turn>>
    BY DEF listVars
  <1>3. turn # << >> /\ Head(turn) = turn[1] /\ turn[1] \in ToSet(open)
    BY DEF ListInv, Turns, K, Cur
  <1>4. Lists' /\ LimitEnds'
    BY <1>1, <1>2 DEF ListInv, Lists, LimitEnds, Held
  <1>5. Turns'
    BY <1>1, <1>2, <1>3 DEF ListInv, Turns
  <1>6. QED
    BY <1>4, <1>5 DEF ListInv

(* Select, and an accept that fails.                                       *)
LEMMA SelectLists ==
  ASSUME ListInv, Select \/ AcceptFails \/ (\E c \in Conns : Reject(c))
  PROVE  ListInv'
  <1>1. /\ UNCHANGED <<con, open, cleanup, connections>> /\ dpc = "select" /\ Round(open)
        /\ atLimit' = (connections # 0) \/ atLimit' = atLimit
        /\ phase' = phase \/ \E c \in Conns : phase[c] = "backlog" /\ phase' = [phase EXCEPT ![c] = "closed"]
    BY DEF Select, AcceptFails, Reject, listVars, Backlog
  <1>2. Lists'
    <2>1. phase' = [c \in Conns |-> phase'[c]] /\ \A c \in Conns : Held(c)' <=> Held(c)
      BY <1>1 DEF ListInv, Lists, Held
    <2>2. QED
      BY <1>1, <2>1 DEF ListInv, Lists
  <1>3. Turns'
    BY <1>1, RoundTurns DEF ListInv, Lists
  <1>4. LimitEnds'
    BY <1>1 DEF ListInv, LimitEnds
  <1>5. QED
    BY <1>2, <1>3, <1>4 DEF ListInv

(* An accepted connection is in no list yet.                               *)
LEMMA AcceptLists == ASSUME ListInv, NEW c \in Conns, Accept(c) PROVE ListInv'
  <1>1. /\ dpc = "select" /\ phase[c] = "backlog" /\ connections' = connections + 1
        /\ phase' = [phase EXCEPT ![c] = "held"] /\ open' = Append(open, c)
        /\ con' = [con EXCEPT ![c] = NewConnection] /\ Round(open') /\ UNCHANGED cleanup
    BY DEF Accept, Backlog
  <1>2. c \notin ToSet(open) /\ c \notin cleanup
    BY <1>1 DEF ListInv, Lists, Held
  <1>3. /\ open' \in Seq(Conns) /\ Once(open') /\ Len(open') = Len(open) + 1
        /\ ToSet(open') = ToSet(open) \cup {c}
    BY <1>1, <1>2, AppendOnce DEF ListInv, Lists
  <1>4. /\ phase' = [d \in Conns |-> phase'[d]] /\ con' = [d \in Conns |-> con'[d]]
        /\ \A d \in Conns : Held(d)' <=> d = c \/ Held(d)
    BY <1>1 DEF ListInv, Lists, Held
  <1>5. connections' = Len(open') + Cardinality(cleanup') /\ connections' # 0
    BY <1>1, <1>3, CountFacts DEF ListInv, Lists
  <1>6. Lists'
    BY <1>1, <1>2, <1>3, <1>4, <1>5 DEF ListInv, Lists
  <1>7. Turns'
    BY <1>1, <1>3, RoundTurns
  <1>8. LimitEnds'
    BY <1>5 DEF LimitEnds
  <1>9. QED
    BY <1>6, <1>7, <1>8 DEF ListInv

(* The next connection of the round has its turn.                          *)
LEMMA EndTurnLists == ASSUME ListInv, EndTurn PROVE ListInv'
  <1>1. /\ dpc = "done" /\ turn' = Tail(turn) /\ dpc' = IF Tail(turn) = << >> THEN "cleanup" ELSE "turn"
        /\ UNCHANGED <<con, phase, open, cleanup, connections, atLimit>>
    BY DEF EndTurn, listVars
  <1>2. Lists' /\ LimitEnds'
    BY <1>1 DEF ListInv, Lists, LimitEnds, Held
  <1>3. /\ turn' \in Seq(Conns) /\ Once(turn')
        /\ \A i \in 1 .. Len(turn') : i + 1 \in 2 .. Len(turn) /\ turn'[i] = turn[i + 1]
    BY <1>1, TailOnce DEF ListInv, Turns
  <1>4. \A i \in 1 .. Len(turn') : turn'[i] \in ToSet(open')
    BY <1>1, <1>3 DEF ListInv, Turns
  <1>5. turn' # << >> => 1 \in 1 .. Len(turn') /\ 2 .. Len(turn') \subseteq 1 .. Len(turn')
    BY <1>3, EmptySeq, LenProperties
  <1>6. Turns'
    BY <1>1, <1>3, <1>4, <1>5 DEF Turns
  <1>7. QED
    BY <1>2, <1>6 DEF ListInv

(* cleanup_connection moves the connection from one list to the other.     *)
LEMMA ClosedLists == ASSUME ListInv, Closed PROVE ListInv'
  <1>1. /\ dpc = "idle" /\ K.state = "CLOSED" /\ open' = RemoveFirst(open, Cur) /\ cleanup' = cleanup \cup {Cur}
        /\ dpc' = "done" /\ UNCHANGED <<con, phase, connections, atLimit, turn>>
    BY DEF Closed, Idle, roundVars
  <1>2. turn # << >> /\ Cur = turn[1] /\ Cur \in ToSet(open) /\ Cur \in Conns
    <2>1. turn # << >> /\ Head(turn) = turn[1] /\ turn[1] \in ToSet(open)
      BY <1>1 DEF ListInv, Turns
    <2>2. QED
      BY <2>1, ToSetOf DEF Cur, ListInv, Lists
  <1>3. /\ open' \in Seq(Conns) /\ Once(open') /\ Len(open') = Len(open) - 1
        /\ ToSet(open') = ToSet(open) \ {Cur}
    BY <1>1, <1>2, RemoveOnce DEF ListInv, Lists
  <1>4. Cur \notin cleanup
    BY <1>2 DEF ListInv, Lists
  <1>5. IsFiniteSet(cleanup') /\ Cardinality(cleanup') = Cardinality(cleanup) + 1
    BY <1>1, <1>4, FS_AddElement DEF ListInv, Lists
  <1>6. connections' = Len(open') + Cardinality(cleanup')
    BY <1>1, <1>3, <1>5, CountFacts DEF ListInv, Lists
  <1>7. Lists'
    BY <1>1, <1>2, <1>3, <1>5, <1>6 DEF ListInv, Lists, Held
  <1>8. \A i \in 2 .. Len(turn) : turn[i] # Cur
    <2>1. \A i \in 2 .. Len(turn) : i \in 1 .. Len(turn) /\ 1 \in 1 .. Len(turn) /\ i # 1
      BY LenProperties DEF ListInv, Turns
    <2>2. QED
      BY <1>2, <2>1 DEF ListInv, Turns, Once
  <1>9. Turns'
    BY <1>1, <1>2, <1>3, <1>8 DEF ListInv, Turns, K
  <1>10. LimitEnds'
    BY <1>1 DEF ListInv, LimitEnds
  <1>11. QED
    BY <1>7, <1>9, <1>10 DEF ListInv

(* The end of a round and of the thread.                                   *)
LEMMA CleanupLists == ASSUME ListInv, CleanupConnections PROVE ListInv'
  <1>1. /\ dpc = "cleanup" /\ cleanup' = {} /\ connections' = connections - Cardinality(cleanup)
        /\ atLimit' = (atLimit /\ cleanup = {}) /\ dpc' = "select" /\ UNCHANGED <<open, turn>>
        /\ con' = [c \in Conns |-> IF c \in cleanup THEN NewConnection ELSE con[c]]
        /\ phase' = [c \in Conns |-> IF c \in cleanup THEN "closed" ELSE phase[c]]
    BY DEF CleanupConnections, Freed
  <1>2. /\ phase' = [c \in Conns |-> phase'[c]] /\ con' = [c \in Conns |-> con'[c]]
        /\ \A c \in Conns : Held(c)' <=> Held(c) /\ c \notin cleanup
    BY <1>1 DEF Held
  <1>3. connections' = Len(open) /\ IsFiniteSet({}) /\ Cardinality({}) = 0 /\ Len(open) + 0 = Len(open)
    BY <1>1, CountFacts, FS_EmptySet DEF ListInv, Lists
  <1>4. Lists'
    BY <1>1, <1>2, <1>3 DEF ListInv, Lists
  <1>5. Turns'
    BY <1>1 DEF ListInv, Turns
  <1>6. LimitEnds'
    <2>1. ASSUME atLimit' PROVE connections' # 0
      <3>1. atLimit /\ cleanup = {}
        BY <1>1, <2>1
      <3>2. connections # 0 /\ connections' = connections - 0 /\ connections \in Nat
        BY <1>1, <3>1, CountFacts, FS_EmptySet DEF ListInv, LimitEnds
      <3>3. QED
        BY <3>2
    <2>2. QED
      BY <2>1 DEF LimitEnds
  <1>7. QED
    BY <1>4, <1>5, <1>6 DEF ListInv

(* close_all_connections empties the lists.                                *)
LEMMA LeaveLoopLists == ASSUME ListInv, LeaveLoop PROVE ListInv'
  <1>1. /\ dpc = "select" /\ connections' = connections - Len(open) /\ open' = << >>
        /\ atLimit' = (atLimit /\ open = << >>) /\ dpc' = "ended" /\ UNCHANGED <<cleanup, turn>>
        /\ con' = [c \in Conns |-> IF c \in ToSet(open) THEN NewConnection ELSE con[c]]
        /\ phase' = [c \in Conns |-> IF c \in ToSet(open) THEN "closed" ELSE phase[c]]
    BY DEF LeaveLoop, Freed, roundVars
  <1>2. cleanup = {}
    BY <1>1 DEF ListInv, Turns
  <1>3. /\ phase' = [c \in Conns |-> phase'[c]] /\ con' = [c \in Conns |-> con'[c]]
        /\ \A c \in Conns : ~Held(c)'
    BY <1>1, <1>2 DEF Held, ListInv, Lists
  <1>4. /\ << >> \in Seq(Conns) /\ Len(<< >>) = 0 /\ Once(<< >>) /\ ToSet(<< >>) = {}
    <2>1. << >> \in Seq(Conns) /\ Len(<< >>) = 0
      BY EmptySeq
    <2>2. \A e : e \in ToSet(<< >>) <=> \E i \in 1 .. Len(<< >>) : << >>[i] = e
      BY <2>1, ToSetOf
    <2>3. QED
      BY <2>1, <2>2 DEF Once
  <1>5. connections' = 0 + Cardinality({}) /\ connections' = 0
    BY <1>1, <1>2, CountFacts, FS_EmptySet DEF ListInv, Lists
  <1>6. Lists'
    BY <1>1, <1>2, <1>3, <1>4, <1>5, FS_EmptySet DEF Lists
  <1>7. Turns'
    BY <1>1, <1>2 DEF ListInv, Turns
  <1>8. ~atLimit'
    <2>1. ASSUME atLimit, open = << >> PROVE FALSE
      <3>1. connections = 0 /\ connections # 0
        BY <1>2, <2>1, CountFacts, FS_EmptySet DEF ListInv, Lists, LimitEnds
      <3>2. QED
        BY <3>1
    <2>2. QED
      BY <1>1, <2>1
  <1>9. QED
    BY <1>6, <1>7, <1>8 DEF ListInv, LimitEnds

-----------------------------------------------------------------------------
(* What a step of the state machine makes of its connection.               *)
Moves(k) == Counted(k) /\ (Go(k) \/ Break(k))

(* The count does not depend on the state.                                 *)
LEMMA NewState == ASSUME NEW k, Counted(k), NEW state PROVE Counted([k EXCEPT !.state = state])
  BY DEF Counted

(* get_next_header_line without a line.                                    *)
LEMMA NoLineMoves == ASSUME Counted(K), NoLine PROVE \E k : Moves(k)
  <1> DEFINE g == IF K.buf # << >> /\ Full(K) THEN Grown(K) ELSE K
  <1>1. Go(TransmitError(K, shutdown)) \/ Go(Close(g)) \/ Break(g)
    BY DEF NoLine
  <1>2. Counted(g)
    BY GrownSame, SameCounted
  <1> HIDE DEF g
  <1>3. Counted(TransmitError(K, shutdown)) /\ Counted(Close(g))
    BY <1>2, TransmitRef, CloseRef
  <1>4. QED
    BY <1>1, <1>2, <1>3 DEF Moves

(* A request line: what was recorded of it, or the error, in a new state.  *)
LEMMA RequestLineGoes ==
  ASSUME NEW l, RequestLine(l)
  PROVE  LET r == [l EXCEPT !.rq = script[Cur][Line(K).id]]
             p == Recorded(r, r.rq.arguments, shutdown)
         IN  IF p.state = "CRASHED" THEN Go(p) ELSE Go([p EXCEPT !.state = "URL_RECEIVED"])
  BY DEF RequestLine

(* parse_initial_message_line.                                             *)
LEMMA FirstLineMoves == ASSUME Counted(K), FirstLine PROVE \E k : Moves(k)
  <1> DEFINE l == WithoutLine(K)
             r == [l EXCEPT !.rq = script[Cur][Line(K).id]]
             p == Recorded(r, r.rq.arguments, shutdown)
             u == [p EXCEPT !.state = "URL_RECEIVED"]
  <1>1. Go(Close(l)) \/ Break(l) \/ Go(p) \/ Go(u)
    <2>1. Go(Close(l)) \/ Break(l) \/ RequestLine(l)
      BY DEF FirstLine
    <2>2. RequestLine(l) => Go(p) \/ Go(u)
      BY RequestLineGoes
    <2>3. QED
      BY <2>1, <2>2
  <1>2. Counted(l)
    BY LineSame, SameCounted
  <1>3. Counted(Close(l))
    BY <1>2, CloseRef
  <1> HIDE DEF l
  <1>4. Counted(r)
    BY <1>2 DEF Counted
  <1> HIDE DEF r
  <1>5. Counted(p)
    BY <1>4, RecordedRef
  <1> HIDE DEF p
  <1>6. Counted(u)
    BY <1>5, NewState
  <1>7. QED
    BY <1>1, <1>2, <1>3, <1>5, <1>6 DEF Moves

(* The first line after the request line, closed and then answered if bad. *)
LEMMA HeaderLineMoves == ASSUME Counted(K), HeaderLine PROVE \E k : Moves(k)
  <1> DEFINE l == WithoutLine(K)
             e == [l EXCEPT !.state = IF InFooters THEN "FOOTERS_RECEIVED" ELSE "HEADERS_RECEIVED"]
             h(n) == [l EXCEPT !.state = IF InFooters THEN "FOOTER_PART_RECEIVED" ELSE "HEADER_PART_RECEIVED",
                               !.last = HeaderOf(K, n)]
             t == TransmitError(Close(l), shutdown)
  <1>1. Go(e) \/ (\E n : Go(h(n))) \/ Break(t)
    BY DEF HeaderLine
  <1>2. Counted(l)
    BY LineSame, SameCounted
  <1>3. Counted(t)
    BY <1>2, CloseRef, TransmitRef
  <1> HIDE DEF l, t
  <1>4. Counted(e) /\ \A n : Counted(h(n))
    BY <1>2 DEF Counted
  <1>5. QED
    BY <1>1, <1>3, <1>4 DEF Moves

(* process_broken_line, with its two errors in a row.                      *)
LEMMA HeaderPartMoves == ASSUME Counted(K), HeaderPart PROVE \E k : Moves(k)
  <1> DEFINE l == WithoutLine(K)
             t == TransmitError(l, shutdown)
             a == [l EXCEPT !.pool = AddHeader(K).pool]
             e == [a EXCEPT !.state = IF InFooters THEN "FOOTERS_RECEIVED" ELSE "HEADERS_RECEIVED"]
             h(n) == [a EXCEPT !.last = HeaderOf(K, n)]
             c == TransmitError(Close(a), shutdown)
  <1>1. Go(t) \/ (\E n : Go(Folded(K, n))) \/ Go(TransmitError(t, shutdown)) \/ Go(e) \/ (\E n : Go(h(n))) \/ Go(c)
    <2>1. CASE Line(K).kind = "fold"
      BY <2>1 DEF HeaderPart
    <2>2. CASE Line(K).kind # "fold" /\ AddHeader(K).at = NoBlock
      <3>1. Go(IF t.state = "CRASHED" THEN t ELSE TransmitError(t, shutdown))
        BY <2>2, SMTT(60) DEF HeaderPart
      <3>2. QED
        BY <3>1
    <2>3. CASE Line(K).kind # "fold" /\ AddHeader(K).at # NoBlock
      BY <2>3 DEF HeaderPart
    <2>4. QED
      BY <2>1, <2>2, <2>3
  <1>2. Counted(l) /\ \A n : Counted(Folded(K, n))
    BY LineSame, SameCounted
  <1>3. Counted(t) /\ Counted(TransmitError(t, shutdown))
    BY <1>2, TransmitRef
  <1> HIDE DEF l, t
  <1>4. Counted(a)
    BY <1>2 DEF Counted
  <1>5. Counted(c)
    BY <1>4, CloseRef, TransmitRef
  <1> HIDE DEF a, c
  <1>6. Counted(e) /\ \A n : Counted(h(n))
    BY <1>4 DEF Counted
  <1>7. QED
    BY <1>1, <1>2, <1>3, <1>5, <1>6 DEF Moves

(* parse_connection_headers, after which the state is overwritten.         *)
LEMMA HeadersReceivedMoves == ASSUME Counted(K), HeadersReceived PROVE \E k : Moves(k)
  <1> DEFINE p == ParseHeaders(K, shutdown)
             n == [p EXCEPT !.state = "HEADERS_PROCESSED"]
  <1>1. Go(p) \/ Go(n)
    BY DEF HeadersReceived
  <1>2. Counted(p)
    BY ParseRef
  <1> HIDE DEF p
  <1>3. Counted(n)
    BY <1>2, NewState
  <1>4. QED
    BY <1>1, <1>2, <1>3 DEF Moves

(* The application's response.                                             *)
LEMMA AnswerRef ==
  ASSUME NEW k, Counted(k), k.response = NULL
  PROVE  Counted(Answer(k)) /\ Answer(k).state \in {k.state, "FOOTERS_RECEIVED"}
  BY QueueRef, MCAssumption DEF Answer

(* The first call is not made if there is a response.                      *)
LEMMA FirstCallMoves == ASSUME Counted(K), FirstCall PROVE \E k : Moves(k)
  <1>1. PICK k \in FirstCalls(K) :
          \/ k.state = "CLOSED" /\ Go(k)
          \/ Break([k EXCEPT !.state = "CONTINUE_SENDING"])
          \/ Go(AfterFirstCall(k))
    BY DEF FirstCall
  <1>2. Counted([K EXCEPT !.context = App])
    BY DEF Counted
  <1>3. Counted(k)
    BY <1>1, <1>2, AnswerRef, CloseRef DEF FirstCalls
  <1>4. Counted([k EXCEPT !.state = "CONTINUE_SENDING"])
    BY <1>3, NewState
  <1>5. Counted(AfterFirstCall(k))
    BY <1>3, AfterFirstCallRef
  <1>6. QED
    BY <1>1, <1>3, <1>4, <1>5 DEF Moves

(* The states of the body.                                                 *)
LEMMA BodyMoves ==
  ASSUME Counted(K), ContinueSending \/ ReadChunkLine \/ DataCall \/ BodyWaits \/ BodyEnds
  PROVE  \E k : Moves(k)
  <1>1. CASE ContinueSending
    <2> DEFINE k == [K EXCEPT !.state = "CONTINUE_SENT"]
    <2>1. Go(k) \/ Go(Processed(k)) \/ Go(Close(k)) \/ Break(K)
      BY <1>1 DEF ContinueSending
    <2>2. Counted(k)
      BY NewState
    <2> HIDE DEF k
    <2>3. Counted(Processed(k)) /\ Counted(Close(k))
      BY <2>2, BodyRef, CloseRef
    <2>4. QED
      BY <2>1, <2>2, <2>3 DEF Moves
  <1>2. CASE ReadChunkLine \/ DataCall \/ BodyWaits
    <2>1. Go(ChunkLine(K)) \/ Go(Processed(K)) \/ Go(Close(K)) \/ Break(K)
      BY <1>2 DEF ReadChunkLine, DataCall, BodyWaits
    <2>2. Counted(ChunkLine(K)) /\ Counted(Processed(K)) /\ Counted(Close(K))
      BY BodyRef, CloseRef
    <2>3. QED
      BY <2>1, <2>2 DEF Moves
  <1>3. CASE BodyEnds
    <2> DEFINE state == IF K.chunked /\ ~K.readClosed THEN "BODY_RECEIVED" ELSE "FOOTERS_RECEIVED"
    <2>1. Go([K EXCEPT !.state = state])
      BY <1>3 DEF BodyEnds
    <2> HIDE DEF state
    <2>2. Counted([K EXCEPT !.state = state])
      BY NewState
    <2>3. QED
      BY <2>1, <2>2 DEF Moves
  <1>4. QED
    BY <1>1, <1>2, <1>3

(* The final call is only made without a response.                         *)
LEMMA FinalCallMoves == ASSUME Counted(K), FinalCall PROVE \E k : Moves(k)
  <1>1. PICK k \in (IF K.response # NULL THEN {K} ELSE {Answer(K), Close(K)}) :
          \/ k.state = "CLOSED" /\ Go(k)
          \/ k.response = NULL /\ Break(k)
          \/ Go(Close(BuildHeader(k)))
          \/ Break([BuildHeader(k) EXCEPT !.state = "HEADERS_SENDING"])
    BY DEF FinalCall
  <1>2. Counted(k)
    BY <1>1, AnswerRef, CloseRef
  <1>3. Counted(BuildHeader(k))
    BY <1>2, BuildHeaderSame, SameCounted
  <1>4. Counted(Close(BuildHeader(k))) /\ Counted([BuildHeader(k) EXCEPT !.state = "HEADERS_SENDING"])
    BY <1>3, CloseRef, NewState
  <1>5. QED
    BY <1>1, <1>2, <1>4 DEF Moves

(* The states in which the response is sent.                               *)
LEMMA SendMoves ==
  ASSUME Counted(K), Sending \/ HeadersSent \/ BodySent \/ FootersSent
  PROVE  \E k : Moves(k)
  <1>1. Counted(BuildHeader(K))
    BY BuildHeaderSame, SameCounted
  <1>2. \/ Break(K) \/ (\E state : Go([K EXCEPT !.state = state]) \/ Break([K EXCEPT !.state = state]))
        \/ Go([BuildHeader(K) EXCEPT !.state = "FOOTERS_SENT"]) \/ Go(Close(BuildHeader(K)))
        \/ Go(NextRequest(K))
    BY DEF Sending, HeadersSent, BodySent, FootersSent
  <1>3. (\A state : Counted([K EXCEPT !.state = state])) /\ Counted([BuildHeader(K) EXCEPT !.state = "FOOTERS_SENT"])
    BY <1>1, NewState
  <1>4. Counted(Close(BuildHeader(K))) /\ Counted(NextRequest(K))
    BY <1>1, CloseRef, NextRef
  <1>5. QED
    BY <1>2, <1>3, <1>4 DEF Moves

(* Every case of MHD_connection_handle_idle but the last is such a move.   *)
LEMMA IdleMoves == ASSUME Counted(K), HandleIdle, ~Closed PROVE dpc = "idle" /\ \E k : Moves(k)
  <1>1. dpc = "idle"
    BY DEF HandleIdle, NoLine, FirstLine, HeaderLine, HeaderPart, HeadersReceived, FirstCall, ContinueSending, 
           ReadChunkLine, DataCall, BodyWaits, BodyEnds, FinalCall, Sending, HeadersSent, BodySent, FootersSent,
           Idle, AtLine
  <1>2. QED
    BY <1>1, NoLineMoves, FirstLineMoves, HeaderLineMoves, HeaderPartMoves, HeadersReceivedMoves, FirstCallMoves,
       BodyMoves, FinalCallMoves, SendMoves DEF HandleIdle

-----------------------------------------------------------------------------
RInv == \A c \in Conns : Counted(con[c])
DInv == ListInv /\ RInv

(* The connection at turn is one of the daemon's.                          *)
LEMMA CurRef ==
  ASSUME DInv, dpc \in {"turn", "idle"} \/ (dpc = "done" /\ K.state # "CLOSED")
  PROVE  Cur \in Conns /\ Counted(K)
  <1>1. turn # << >> /\ Head(turn) = turn[1]
    BY DEF DInv, ListInv, Turns
  <1>2. turn[1] \in ToSet(open)
    BY <1>1 DEF DInv, ListInv, Turns, K, Cur
  <1>3. turn[1] \in Conns
    BY <1>2, ToSetOf DEF DInv, ListInv, Lists
  <1>4. QED
    BY <1>1, <1>3 DEF DInv, RInv, K, Cur

(* A step that replaces the connection at turn.                            *)
LEMMA BecameRef ==
  ASSUME DInv, NEW k, Counted(k), NEW where, Became(k, where)
  PROVE  RInv'
  <1>1. con' = [con EXCEPT ![Cur] = k] /\ con = [c \in Conns |-> con[c]]
    BY DEF Became, DInv, ListInv, Lists
  <1>2. \A c \in Conns : con'[c] = k \/ con'[c] = con[c]
    BY <1>1
  <1>3. QED
    BY <1>2 DEF DInv, RInv

(* A step of the state machine keeps the invariant,                        *)
LEMMA MovesKeep == ASSUME DInv, dpc = "idle", NEW k, Moves(k) PROVE DInv'
  <1>1. CASE Go(k)
    <2>1. Became(k, "idle") /\ UNCHANGED <<listVars, turn>>
      BY <1>1 DEF Go, roundVars
    <2>2. ListInv' /\ RInv'
      BY <2>1, BecameKeeps, BecameRef DEF DInv, Moves
    <2>3. QED
      BY <2>2 DEF DInv
  <1>2. CASE Break(k)
    <2> DEFINE new == Settle(k, shutdown)
               m == [new EXCEPT !.eli = Eli(new)]
    <2>1. Became(m, "done") /\ UNCHANGED <<listVars, turn>>
      BY <1>2 DEF Break, roundVars
    <2>2. Counted(new)
      BY SettleRef DEF Moves
    <2>3. Counted(m)
      <3> HIDE DEF new
      <3>1. QED
        BY <2>2 DEF Counted
    <2> HIDE DEF m
    <2>4. ListInv' /\ RInv'
      BY <2>1, <2>3, BecameKeeps, BecameRef DEF DInv
    <2>5. QED
      BY <2>4 DEF DInv
  <1>3. QED
    BY <1>1, <1>2 DEF Moves

(* Reading and writing.                                                    *)
LEMMA TurnKeeps ==
  ASSUME DInv, HandleRead \/ Write \/ NeitherReadNorWrite \/ FastWrite
  PROVE  DInv'
  <1>1. dpc \in {"turn", "idle"} \/ (dpc = "done" /\ K.state # "CLOSED")
    BY DEF HandleRead, Write, NeitherReadNorWrite, FastWrite, BodyReady
  <1>2. UNCHANGED <<listVars, turn>>
    <2>1. CASE HandleRead
      BY <2>1 DEF HandleRead, roundVars
    <2>2. CASE Write \/ NeitherReadNorWrite \/ FastWrite
      BY <2>2 DEF Write, NeitherReadNorWrite, FastWrite, roundVars
    <2>3. QED
      BY <2>1, <2>2
  <1>3. Counted(K)
    BY <1>1, CurRef
  <1>4. \A k \in Written : Counted(k)
    BY <1>3, WriteRef, CloseRef DEF Written
  <1>5. \E k : Counted(k) /\ Became(k, "idle")
    <2>1. CASE HandleRead
      <3>1. Counted(ReadyToRead(K))
        BY <1>3, ReadRef
      <3>2. \A n : Counted(Received(ReadyToRead(K), SubSeq(wire[Cur], 1, n)))
        BY <3>1, ReadRef
      <3>3. Became(ReadyToRead(K), "idle") \/ \E n : Became(Received(ReadyToRead(K), SubSeq(wire[Cur], 1, n)), "idle")
        BY <2>1 DEF HandleRead
      <3>4. QED
        BY <3>1, <3>2, <3>3
    <2>2. CASE Write
      BY <1>4, <2>2 DEF Write
    <2>3. CASE NeitherReadNorWrite
      BY <1>3, <2>3 DEF NeitherReadNorWrite
    <2>4. CASE FastWrite
      BY <1>3, <1>4, <2>4 DEF FastWrite
    <2>5. QED
      BY <2>1, <2>2, <2>3, <2>4
  <1>6. PICK k : Counted(k) /\ Became(k, "idle")
    BY <1>5
  <1>7. ListInv' /\ RInv'
    BY <1>1, <1>2, <1>6, BecameKeeps, BecameRef DEF DInv
  <1>8. QED
    BY <1>7 DEF DInv

(* A new connection has no response.                                       *)
LEMMA NewRef == Counted(NewConnection)
  BY DEF Counted, NewConnection

(* The other steps of the thread make, free or leave connections alone.    *)
LEMMA ListStepsKeep ==
  ASSUME DInv,
         \/ Select \/ AcceptFails \/ (\E c \in Conns : Accept(c) \/ Reject(c))
         \/ EndTurn \/ Closed \/ CleanupConnections \/ LeaveLoop
  PROVE  DInv'
  <1>1. ListInv'
    BY SelectLists, AcceptLists, EndTurnLists, ClosedLists, CleanupLists, LeaveLoopLists DEF DInv
  <1>2. con = [c \in Conns |-> con[c]]
    BY DEF DInv, ListInv, Lists
  <1>3. \A c \in Conns : con'[c] \in {con[c], NewConnection}
    <2>1. \/ con' = con
          \/ \E c \in Conns : con' = [con EXCEPT ![c] = NewConnection]
          \/ \E conns : con' = [c \in Conns |-> IF c \in conns THEN NewConnection ELSE con[c]]
      BY DEF Select, AcceptFails, Accept, Reject, EndTurn, Closed, CleanupConnections, LeaveLoop, Freed
    <2>2. QED
      BY <1>2, <2>1
  <1>4. RInv'
    BY <1>3, NewRef DEF DInv, RInv
  <1>5. QED
    BY <1>1, <1>4 DEF DInv

(* The clients' steps and MHD_stop_daemon.                                 *)
LEMMA OthersKeep ==
  ASSUME DInv, (\E c \in Conns : Client(c)) \/ Stop \/ UNCHANGED vars
  PROVE  DInv'
  <1>1. /\ UNCHANGED <<con, open, cleanup, connections, atLimit, dpc, turn>>
        /\ \/ phase' = phase
           \/ \E c \in Conns : phase[c] = "new" /\ phase' = [phase EXCEPT ![c] = "backlog"]
    BY DEF Client, Connect, Send, Leave, Stop, vars, clientVars, listVars, roundVars
  <1>2. phase' = [c \in Conns |-> phase'[c]] /\ \A c \in Conns : Held(c)' <=> Held(c)
    BY <1>1 DEF DInv, ListInv, Lists, Held
  <1>3. Lists'
    BY <1>1, <1>2 DEF DInv, ListInv, Lists
  <1>4. Turns' /\ LimitEnds'
    BY <1>1 DEF DInv, ListInv, Turns, LimitEnds
  <1>5. RInv'
    BY <1>1 DEF DInv, RInv
  <1>6. QED
    BY <1>3, <1>4, <1>5 DEF DInv, ListInv

(* and so does every other step.                                           *)
LEMMA DaemonStep == ASSUME DInv, [MhdNext]_vars PROVE DInv'
  <1>1. CASE (\E c \in Conns : Client(c)) \/ Stop \/ UNCHANGED vars
    BY <1>1, OthersKeep
  <1>2. CASE HandleRead \/ Write \/ NeitherReadNorWrite \/ FastWrite
    BY <1>2, TurnKeeps
  <1>3. CASE \/ Select \/ AcceptFails \/ (\E c \in Conns : Accept(c) \/ Reject(c))
             \/ EndTurn \/ Closed \/ CleanupConnections \/ LeaveLoop
    BY <1>3, ListStepsKeep
  <1>4. CASE HandleIdle /\ ~Closed
    <2>1. Counted(K)
      <3>1. dpc = "idle"
        BY <1>4 DEF HandleIdle, NoLine, FirstLine, HeaderLine, HeaderPart, HeadersReceived, FirstCall, 
           ContinueSending, ReadChunkLine, DataCall, BodyWaits, BodyEnds, FinalCall, Sending, HeadersSent,
           BodySent, FootersSent, Idle, AtLine
      <3>2. QED
        BY <3>1, CurRef, SMTT(60)
    <2>2. dpc = "idle" /\ \E k : Moves(k)
      BY <1>4, <2>1, IdleMoves
    <2>3. QED
      BY <2>2, MovesKeep
  <1>5. QED
    BY <1>1, <1>2, <1>3, <1>4 DEF MhdNext, PollingThread

-----------------------------------------------------------------------------
(* The inductive invariant: the lists, the counter and the phases agree,   *)
(* a round only visits connections of the list, and every connection       *)
(* counts its references.                                                  *)
THEOREM DaemonInvariant == MhdSpec => []DInv
  <1>1. MhdInit => DInv
    <2>1. MhdInit => RInv
      BY NewRef DEF MhdInit, RInv
    <2>2. QED
      BY <2>1, InitLists DEF DInv
  <1>2. DInv /\ [MhdNext]_vars => DInv'
    BY DaemonStep
  <1>3. QED
    BY <1>1, <1>2, PTL DEF MhdSpec

(* A connection holds one reference to the response that it has and none   *)
(* to one it has given up, through every error and every early answer.     *)
THEOREM ReferencesAreCounted == MhdSpec => []OneReference
  <1>1. DInv => OneReference
    BY DEF DInv, RInv, Counted, OneReference
  <1>2. QED
    BY <1>1, DaemonInvariant, PTL

(* The daemon's two lists are disjoint, hold every accepted connection     *)
(* once, and are counted by `connections', for any connection limit.       *)
THEOREM ListsAlwaysAgree == MhdSpec => []ListsAgree
  <1>1. DInv => ListsAgree
    <2> SUFFICES ASSUME DInv PROVE ListsAgree
      OBVIOUS
    <2>1. Cardinality(ToSet(open)) = Len(open)
      BY CountFacts DEF DInv, ListInv
    <2>2. ToSet(open) \subseteq Conns
      BY ToSetOf DEF DInv, ListInv, Lists
    <2>3. QED
      BY <2>1, <2>2 DEF DInv, ListInv, Lists, ListsAgree
  <1>2. QED
    BY <1>1, DaemonInvariant, PTL

(* at_limit is only set while there is a connection whose end clears it.   *)
THEOREM LimitIsCleared == MhdSpec => []LimitEnds
  <1>1. DInv => LimitEnds
    BY DEF DInv, ListInv
  <1>2. QED
    BY <1>1, DaemonInvariant, PTL

-----------------------------------------------------------------------------
(* What a step of the state machine makes of a connection that waits for   *)
(* its socket: a turn that ends before the response to a complete request  *)
(* ends in a shutdown, and one that ends at a line of the head reads on.   *)
Turned(k) ==
  /\ Waits(k)
  /\ \/ Go(k)
     \/ /\ Break(k)
        /\ k.state = "FOOTERS_RECEIVED" => shutdown
        /\ k.state \in {"INIT", "URL_RECEIVED", "HEADER_PART_RECEIVED"} => k.readClosed = FALSE

(* get_next_header_line without a line.                                    *)
LEMMA NoLineTurned == ASSUME Waits(K), NoLine PROVE \E k : Turned(k)
  <1> DEFINE g == IF K.buf # << >> /\ Full(K) THEN Grown(K) ELSE K
  <1>1. Go(TransmitError(K, shutdown)) \/ Go(Close(g)) \/ (Break(g) /\ ~g.readClosed)
    BY DEF NoLine
  <1>2. K.state # "FOOTERS_RECEIVED"
    BY DEF NoLine, LineStates
  <1>3. Waits(g) /\ g.state = K.state /\ g.readClosed \in BOOLEAN
    BY GrownWaits, IdlesWaits DEF Idles, Waits
  <1> HIDE DEF g
  <1>4. Waits(TransmitError(K, shutdown)) /\ Waits(Close(g))
    BY <1>3, TransmitWaits, CloseWaits
  <1>5. QED
    BY <1>1, <1>2, <1>3, <1>4 DEF Turned

(* parse_initial_message_line.                                             *)
LEMMA FirstLineTurned == ASSUME Waits(K), FirstLine PROVE \E k : Turned(k)
  <1> DEFINE l == WithoutLine(K)
             r == [l EXCEPT !.rq = script[Cur][Line(K).id]]
             p == Recorded(r, r.rq.arguments, shutdown)
             u == [p EXCEPT !.state = "URL_RECEIVED"]
  <1>1. Go(Close(l)) \/ (Break(l) /\ ~K.readClosed) \/ Go(p) \/ Go(u)
    <2>1. Go(Close(l)) \/ (Break(l) /\ ~K.readClosed) \/ RequestLine(l)
      BY DEF FirstLine
    <2>2. RequestLine(l) => Go(p) \/ Go(u)
      BY RequestLineGoes
    <2>3. QED
      BY <2>1, <2>2
  <1>2. K.state = "INIT" /\ MayRead(K) /\ K.readClosed \in BOOLEAN
    BY DEF FirstLine, AtLine, Waits, Reading
  <1>3. Waits(l) /\ l.state = "INIT" /\ l.readClosed = K.readClosed /\ MayRead(l)
    BY <1>2, LineWaits, IdlesWaits DEF Idles, MayRead
  <1>4. Waits(Close(l))
    BY <1>3, CloseWaits
  <1> HIDE DEF l
  <1>5. Waits(r) /\ MayRead(r)
    BY <1>3 DEF Waits, MayRead
  <1> HIDE DEF r
  <1>6. Waits(p) /\ MayRead(p)
    BY <1>5, RecordedWaits
  <1> HIDE DEF p
  <1>7. Waits(u)
    BY <1>6, WaitsAtState
  <1>8. QED
    BY <1>1, <1>2, <1>3, <1>4, <1>6, <1>7 DEF Turned

(* The first line after the request line.                                  *)
LEMMA HeaderLineTurned == ASSUME Waits(K), HeaderLine PROVE \E k : Turned(k)
  <1> DEFINE l == WithoutLine(K)
             state == IF InFooters THEN "FOOTERS_RECEIVED" ELSE "HEADERS_RECEIVED"
             part == IF InFooters THEN "FOOTER_PART_RECEIVED" ELSE "HEADER_PART_RECEIVED"
             e == [l EXCEPT !.state = state]
             h(n) == [l EXCEPT !.state = part, !.last = HeaderOf(K, n)]
             t == TransmitError(Close(l), shutdown)
  <1>1. Go(e) \/ (\E n : Go(h(n))) \/ Break(t)
    BY DEF HeaderLine
  <1>2. K.state \in Reading
    BY DEF HeaderLine, AtLine, Reading
  <1>3. Waits(l) /\ MayRead(l)
    BY <1>2, LineWaits, IdlesWaits DEF Idles, Waits, MayRead
  <1>4. Waits(t) /\ t.state \in Failed
    BY <1>3, CloseWaits, TransmitWaits
  <1> HIDE DEF l, t
  <1>5. Waits(e)
    <2>1. state # "CLOSED"
      OBVIOUS
    <2> HIDE DEF state
    <2>2. QED
      BY <1>3, <2>1, WaitsAtState
  <1>6. \A n : Waits(h(n))
    <2> SUFFICES ASSUME NEW n PROVE Waits(h(n))
      OBVIOUS
    <2> HIDE DEF part
    <2> DEFINE x == [l EXCEPT !.state = part, !.last = HeaderOf(K, n)]
    <2>1. part # "CLOSED"
      BY DEF part
    <2>2. Waits(x)
      BY <1>3, <2>1 DEF Waits, MayRead
    <2>3. QED
      BY <2>2
  <1> HIDE DEF e, h
  <1>7. QED
    BY <1>1, <1>4, <1>5, <1>6 DEF Turned, Failed

(* process_broken_line.                                                    *)
LEMMA HeaderPartTurned == ASSUME Waits(K), HeaderPart PROVE \E k : Turned(k)
  <1> DEFINE l == WithoutLine(K)
             t == TransmitError(l, shutdown)
             a == [l EXCEPT !.pool = AddHeader(K).pool]
             state == IF InFooters THEN "FOOTERS_RECEIVED" ELSE "HEADERS_RECEIVED"
             e == [a EXCEPT !.state = state]
             h(n) == [a EXCEPT !.last = HeaderOf(K, n)]
             c == TransmitError(Close(a), shutdown)
  <1>1. Go(t) \/ (\E n : Go(Folded(K, n))) \/ Go(TransmitError(t, shutdown)) \/ Go(e) \/ (\E n : Go(h(n))) \/ Go(c)
    <2>1. CASE Line(K).kind = "fold"
      BY <2>1 DEF HeaderPart
    <2>2. CASE Line(K).kind # "fold" /\ AddHeader(K).at = NoBlock
      <3>1. Go(IF t.state = "CRASHED" THEN t ELSE TransmitError(t, shutdown))
        BY <2>2 DEF HeaderPart
      <3>2. QED
        BY <3>1, ZenonT(60)
    <2>3. CASE Line(K).kind # "fold" /\ AddHeader(K).at # NoBlock
      BY <2>3 DEF HeaderPart
    <2>4. QED
      BY <2>1, <2>2, <2>3
  <1>2. K.state \in Reading
    BY DEF HeaderPart, AtLine, Reading
  <1>3. Waits(l) /\ MayRead(l) /\ \A n : Waits(Folded(K, n))
    BY <1>2, LineWaits, IdlesWaits, ZenonT(60) DEF Idles, Waits, MayRead
  <1> HIDE DEF l
  <1>4. Waits(t) /\ Waits(TransmitError(t, shutdown))
    BY <1>3, TransmitWaits
  <1>5. Waits(a) /\ MayRead(a)
    BY <1>3 DEF Waits, MayRead
  <1> HIDE DEF a
  <1>6. Waits(c)
    BY <1>5, CloseWaits, TransmitWaits
  <1>7. Waits(e)
    <2>1. state # "CLOSED"
      OBVIOUS
    <2> HIDE DEF state
    <2>2. QED
      BY <1>5, <2>1, WaitsAtState
  <1>8. \A n : Waits(h(n))
    BY <1>5 DEF Waits, MayRead
  <1> HIDE DEF e, h, t, c
  <1>9. QED
    BY <1>1, <1>3, <1>4, <1>6, <1>7, <1>8, SMTT(60) DEF Turned

(* parse_connection_headers, after which the state is overwritten.         *)
LEMMA HeadersReceivedTurned == ASSUME Waits(K), HeadersReceived PROVE \E k : Turned(k)
  <1> DEFINE p == ParseHeaders(K, shutdown)
             n == [p EXCEPT !.state = "HEADERS_PROCESSED"]
  <1>1. Go(p) \/ Go(n)
    BY DEF HeadersReceived
  <1>2. MayRead(K)
    BY DEF HeadersReceived, Idle, Waits, Reading
  <1>3. Waits(p) /\ MayRead(p)
    BY <1>2, ParseWaits
  <1> HIDE DEF p
  <1>4. Waits(n)
    BY <1>3, WaitsAtState
  <1>5. QED
    BY <1>1, <1>3, <1>4 DEF Turned

(* The first call.                                                         *)
LEMMA FirstCallTurned == ASSUME Counted(K), Waits(K), FirstCall PROVE \E k : Turned(k)
  <1>1. MayRead(K)
    BY DEF FirstCall, Idle, Waits, Reading
  <1>2. PICK k \in FirstCalls(K) :
          \/ k.state = "CLOSED" /\ Go(k)
          \/ Break([k EXCEPT !.state = "CONTINUE_SENDING"]) /\ Need100Continue(k)
          \/ Go(AfterFirstCall(k))
    BY DEF FirstCall
  <1> DEFINE n == [K EXCEPT !.context = App]
             q == [K EXCEPT !.response = "app", !.refs = @ + 1, !.left = K.rq.reply]
             r == [q EXCEPT !.readClosed = TRUE, !.state = "FOOTERS_RECEIVED"]
  <1>3. k = K \/ k = n \/ k = Close(K) \/ k = q \/ (k = r /\ IsUpload(K))
    <2>1. k \in {K, n, Close(K), Answer(K)}
      BY <1>2 DEF FirstCalls
    <2>2. Answer(K) = K \/ (IsUpload(K) /\ Answer(K) = r) \/ Answer(K) = q
      BY DEF Answer, QueueResponse
    <2>3. QED
      BY <2>1, <2>2
  <1>4. Waits(n) /\ MayRead(n) /\ Waits(q) /\ MayRead(q)
    BY <1>1 DEF Waits, MayRead
  <1>5. Waits(r) /\ r.rq = K.rq /\ r.response = "app"
    BY DEF Waits, Counted, Reading
  <1>6. Waits(Close(K)) /\ MayRead(Close(K))
    BY <1>1, CloseWaits DEF MayRead
  <1>7. Waits(k) /\ (MayRead(k) \/ (k.response # NULL /\ IsUpload(k)))
    <2>1. IsUpload(K) => IsUpload(r)
      BY <1>5 DEF IsUpload
    <2> HIDE DEF n, q, r
    <2>2. QED
      BY <1>1, <1>3, <1>4, <1>5, <1>6, <2>1, MCAssumption
  <1>8. Waits(AfterFirstCall(k))
    BY <1>7, AfterFirstCallWaits
  <1>9. Need100Continue(k) => Waits([k EXCEPT !.state = "CONTINUE_SENDING"])
    BY <1>7, WaitsAtState DEF Need100Continue
  <1>10. [k EXCEPT !.state = "CONTINUE_SENDING"].state = "CONTINUE_SENDING"
    BY <1>7 DEF Waits
  <1>11. QED
    BY <1>2, <1>7, <1>8, <1>9, <1>10 DEF Turned

(* The states of the body.                                                 *)
LEMMA BodyTurned ==
  ASSUME Waits(K), ContinueSending \/ ReadChunkLine \/ DataCall \/ BodyWaits \/ BodyEnds
  PROVE  \E k : Turned(k)
  <1>1. K.state \in {"CONTINUE_SENDING", "CONTINUE_SENT"} /\ MayRead(K)
    BY DEF ContinueSending, ReadChunkLine, DataCall, BodyWaits, BodyEnds, Idle, Waits, Reading
  <1> DEFINE state == IF K.chunked /\ ~K.readClosed THEN "BODY_RECEIVED" ELSE "FOOTERS_RECEIVED"
             n == [K EXCEPT !.state = "CONTINUE_SENT"]
             e == [K EXCEPT !.state = state]
  <1>2. \/ Go(n) \/ Go(Processed(n)) \/ Go(Close(n)) \/ Break(K) \/ Go(ChunkLine(K)) \/ Go(Processed(K)) \/ Go(Close(K))
        \/ Go(e)
    BY DEF ContinueSending, ReadChunkLine, DataCall, BodyWaits, BodyEnds
  <1>3. Waits(n)
    BY <1>1, WaitsAtState
  <1>4. Waits(e)
    <2>1. state # "CLOSED"
      OBVIOUS
    <2> HIDE DEF state
    <2>2. QED
      BY <1>1, <2>1, WaitsAtState
  <1> HIDE DEF state, n, e
  <1>5. Waits(Processed(n)) /\ Waits(Close(n))
    BY <1>3, BodyWaitsToo, CloseWaits
  <1>6. Waits(ChunkLine(K)) /\ Waits(Processed(K)) /\ Waits(Close(K))
    BY BodyWaitsToo, CloseWaits
  <1>7. QED
    BY <1>1, <1>2, <1>3, <1>4, <1>5, <1>6 DEF Turned

(* The final call leaves a request without a response only if the daemon   *)
(* is being stopped.                                                       *)
LEMMA FinalCallTurned == ASSUME Counted(K), Waits(K), FinalCall PROVE \E k : Turned(k)
  <1>1. K.state = "FOOTERS_RECEIVED"
    BY DEF FinalCall, Idle
  <1>2. PICK k \in (IF K.response # NULL THEN {K} ELSE {Answer(K), Close(K)}) :
          \/ k.state = "CLOSED" /\ Go(k)
          \/ k.state # "CLOSED" /\ k.response = NULL /\ Break(k)
          \/ Go(Close(BuildHeader(k)))
          \/ Break([BuildHeader(k) EXCEPT !.state = "HEADERS_SENDING"])
    BY DEF FinalCall
  <1>3. Waits(k)
    BY <1>2, QueueWaits, CloseWaits DEF Answer
  <1>4. k.state # "CLOSED" /\ k.response = NULL => shutdown /\ k.state = "FOOTERS_RECEIVED"
    <2>1. Close(K).state = "CLOSED"
      BY CloseWaits
    <2> DEFINE q == [K EXCEPT !.response = "app", !.refs = @ + 1, !.left = K.rq.reply]
               r == [q EXCEPT !.readClosed = TRUE, !.state = "FOOTERS_RECEIVED"]
    <2>2. Answer(K) \in {q, r} \/ (shutdown /\ Answer(K) = K)
      BY DEF Answer, QueueResponse
    <2>3. q.response = "app" /\ r.response = "app"
      BY DEF Counted
    <2> HIDE DEF q, r
    <2>4. QED
      BY <1>1, <1>2, <2>1, <2>2, <2>3, MCAssumption
  <1>5. Waits(BuildHeader(k))
    BY <1>3, BuildHeaderWaits, IdlesWaits
  <1>6. Waits(Close(BuildHeader(k))) /\ Waits([BuildHeader(k) EXCEPT !.state = "HEADERS_SENDING"])
        /\ [BuildHeader(k) EXCEPT !.state = "HEADERS_SENDING"].state = "HEADERS_SENDING"
    BY <1>5, CloseWaits, WaitsAtState DEF Waits, Reading
  <1>7. QED
    BY <1>2, <1>3, <1>4, <1>6 DEF Turned

(* The states in which the response is sent.                               *)
LEMMA SendTurned ==
  ASSUME Waits(K), Sending \/ HeadersSent \/ BodySent \/ FootersSent
  PROVE  \E k : Turned(k)
  <1> DEFINE Sends == {"HEADERS_SENDING", "BODY_SENT", "CRASHED"} \cup BodyReady
  <1>1. Waits(BuildHeader(K))
    BY BuildHeaderWaits, IdlesWaits
  <1>2. \/ Break(K) /\ K.state \in Sends
        \/ \E state \in Sends : Go([K EXCEPT !.state = state]) \/ Break([K EXCEPT !.state = state])
        \/ Go([BuildHeader(K) EXCEPT !.state = "FOOTERS_SENT"]) \/ Go(Close(BuildHeader(K)))
        \/ Go(NextRequest(K))
    BY DEF Sending, HeadersSent, BodySent, FootersSent, BodyReady
  <1>3. \A state \in Sends : Waits([K EXCEPT !.state = state]) /\ [K EXCEPT !.state = state].state = state
    BY WaitsAtState DEF Waits, Reading, BodyReady
  <1>4. Waits([BuildHeader(K) EXCEPT !.state = "FOOTERS_SENT"])
    BY <1>1, WaitsAtState DEF Reading
  <1>5. Waits(Close(BuildHeader(K))) /\ Waits(NextRequest(K))
    BY <1>1, CloseWaits, NextWaits
  <1>6. QED
    BY <1>2, <1>3, <1>4, <1>5 DEF Turned, BodyReady

(* Every case of MHD_connection_handle_idle but the last.                  *)
LEMMA IdleTurned == ASSUME Counted(K), Waits(K), HandleIdle, ~Closed PROVE \E k : Turned(k)
  BY NoLineTurned, FirstLineTurned, HeaderLineTurned, HeaderPartTurned, HeadersReceivedTurned, FirstCallTurned,
     BodyTurned, FinalCallTurned, SendTurned DEF HandleIdle

-----------------------------------------------------------------------------
(* A connection keeps the thread busy at the end of its turn, or in what   *)
(* is left of the round, only in a shutdown or if its error is forgotten.  *)
Left == Conns \ (ToSet(turn) \cup cleanup)
DoneInv == dpc = "done" => (K.eli = "BLOCK" => shutdown \/ IsForgotten(K))
PendingInv == pending => shutdown \/ \E c \in Left : IsForgotten(con[c])
WaitInv == DoneInv /\ PendingInv /\ \A c \in Conns : Waits(con[c])

(* The connection at turn has its turn once in a round, and is not cleaned *)
(* up before its end.                                                      *)
LEMMA CurFacts ==
  ASSUME DInv, dpc \in {"turn", "idle", "done"}
  PROVE  /\ Cur \in Conns /\ Cur \in ToSet(turn) /\ Cur \notin ToSet(Tail(turn)) /\ turn \in Seq(Conns)
         /\ ToSet(Tail(turn)) \subseteq ToSet(turn)
         /\ dpc = "done" /\ K.state # "CLOSED" => Cur \notin cleanup
  <1>1. turn \in Seq(Conns) /\ Once(turn) /\ turn # << >>
    BY DEF DInv, ListInv, Turns
  <1>2. Head(turn) = turn[1] /\ Len(turn) \in Nat /\ Len(turn) # 0
    BY <1>1, HeadTailProperties, LenProperties, EmptySeq
  <1>3. 1 \in 1 .. Len(turn)
    BY <1>2
  <1>4. Cur = turn[1] /\ Cur \in Conns /\ Cur \in ToSet(turn)
    BY <1>1, <1>2, <1>3, ToSetOf DEF Cur
  <1>5. /\ Tail(turn) \in Seq(Conns)
        /\ \A i \in 1 .. Len(Tail(turn)) : i + 1 \in 2 .. Len(turn) /\ Tail(turn)[i] = turn[i + 1]
    BY <1>1, TailOnce
  <1>6. \A e : e \in ToSet(Tail(turn)) => \E i \in 2 .. Len(turn) : turn[i] = e
    <2> DEFINE t == Tail(turn)
    <2> HIDE DEF t
    <2>1. t \in Seq(Conns) /\ \A i \in 1 .. Len(t) : i + 1 \in 2 .. Len(turn) /\ t[i] = turn[i + 1]
      BY <1>5 DEF t
    <2>2. \A e : e \in ToSet(t) => \E i \in 1 .. Len(t) : t[i] = e
      BY <2>1, ToSetOf
    <2>3. QED
      BY <2>1, <2>2 DEF t
  <1>7. Cur \notin ToSet(Tail(turn))
    BY <1>1, <1>2, <1>3, <1>4, <1>6 DEF Once
  <1>8. ToSet(Tail(turn)) \subseteq ToSet(turn)
    BY <1>1, <1>2, <1>6, ToSetOf
  <1>9. dpc = "done" /\ K.state # "CLOSED" => Cur \notin cleanup
    BY <1>4 DEF DInv, ListInv, Turns, Lists, K
  <1>10. QED
    BY <1>1, <1>4, <1>7, <1>8, <1>9

(* A step that replaces the connection at turn.                            *)
LEMMA BecameWaits ==
  ASSUME DInv, WaitInv, dpc \in {"turn", "idle", "done"},
         NEW k, Waits(k), NEW where, Became(k, where), UNCHANGED <<pending, shutdown, turn, cleanup>>,
         where = "done" => (k.eli = "BLOCK" => shutdown \/ IsForgotten(k))
  PROVE  WaitInv'
  <1>1. con' = [con EXCEPT ![Cur] = k] /\ con = [c \in Conns |-> con[c]] /\ dpc' \in {where, "crashed"}
    BY DEF Became, DInv, ListInv, Lists
  <1>2. Cur \in Conns /\ Cur \in ToSet(turn)
    BY CurFacts
  <1>3. \A c \in Conns : con'[c] = IF c = Cur THEN k ELSE con[c]
    BY <1>1
  <1>4. Cur' = Cur /\ K' = k
    BY <1>2, <1>3 DEF Cur, K
  <1>5. DoneInv'
    <2>1. dpc' = "done" => where = "done"
      BY <1>1
    <2>2. IsForgotten(k) => IsForgotten(K)'
      BY <1>4 DEF IsForgotten
    <2>3. QED
      BY <1>4, <2>1, <2>2 DEF DoneInv
  <1>6. PendingInv'
    <2>1. Left' = Left /\ Cur \notin Left
      BY <1>2 DEF Left
    <2>2. \A c \in Left : con'[c] = con[c]
      BY <1>3, <2>1 DEF Left
    <2>3. QED
      BY <2>1, <2>2 DEF WaitInv, PendingInv, IsForgotten
  <1>7. \A c \in Conns : Waits(con'[c])
    BY <1>3 DEF WaitInv
  <1>8. QED
    BY <1>5, <1>6, <1>7 DEF WaitInv

(* A step of the state machine,                                            *)
LEMMA TurnedKeeps == ASSUME DInv, WaitInv, dpc = "idle", NEW k, Turned(k) PROVE WaitInv'
  <1>1. CASE Go(k)
    <2>1. Became(k, "idle") /\ UNCHANGED <<pending, shutdown, turn, cleanup>> /\ Waits(k)
      BY <1>1 DEF Go, Turned, roundVars, listVars
    <2>2. QED
      BY <2>1, BecameWaits
  <1>2. CASE ~Go(k)
    <2> DEFINE n == Settled(k, shutdown)
    <2>1. /\ Break(k) /\ Waits(k) /\ (k.state = "FOOTERS_RECEIVED" => shutdown)
          /\ k.state \in {"INIT", "URL_RECEIVED", "HEADER_PART_RECEIVED"} => k.readClosed = FALSE
      BY <1>2 DEF Turned
    <2>2. Became(n, "done") /\ UNCHANGED <<pending, shutdown, turn, cleanup>>
      BY <2>1 DEF Break, Settled, roundVars, listVars
    <2>3. Waits(n) /\ (n.eli = "BLOCK" => shutdown \/ (n.state = "CONTINUE_SENT" /\ n.keepalive = "must_close"))
      BY <2>1, SettleWaits
    <2> HIDE DEF n
    <2>4. QED
      BY <2>2, <2>3, BecameWaits DEF IsForgotten
  <1>3. QED
    BY <1>1, <1>2

(* reading and writing,                                                    *)
LEMMA TurnKeepsWaits ==
  ASSUME DInv, WaitInv, HandleRead \/ Write \/ NeitherReadNorWrite \/ FastWrite
  PROVE  WaitInv'
  <1>1. dpc \in {"turn", "idle", "done"}
    BY DEF HandleRead, Write, NeitherReadNorWrite, FastWrite
  <1>2. Waits(K)
    BY <1>1, CurFacts DEF WaitInv, K
  <1>3. \A k \in Written : Waits(k)
    BY <1>2, WriteWaits, CloseWaits DEF Written
  <1>4. \E k : Waits(k) /\ Became(k, "idle")
    <2>1. CASE HandleRead
      <3>1. Waits(ReadyToRead(K))
        BY <1>2, ReadWaits
      <3>2. \A n : Waits(Received(ReadyToRead(K), SubSeq(wire[Cur], 1, n)))
        BY <3>1, ReadWaits
      <3>3. Became(ReadyToRead(K), "idle") \/ \E n : Became(Received(ReadyToRead(K), SubSeq(wire[Cur], 1, n)), "idle")
        BY <2>1 DEF HandleRead
      <3>4. QED
        BY <3>1, <3>2, <3>3
    <2>2. CASE Write
      BY <1>3, <2>2 DEF Write
    <2>3. CASE NeitherReadNorWrite
      BY <1>2, <2>3 DEF NeitherReadNorWrite
    <2>4. CASE FastWrite
      BY <1>2, <1>3, <2>4 DEF FastWrite
    <2>5. QED
      BY <2>1, <2>2, <2>3, <2>4
  <1>5. UNCHANGED <<pending, shutdown, turn, cleanup>>
    <2>1. CASE HandleRead
      BY <2>1 DEF HandleRead, roundVars, listVars
    <2>2. CASE Write \/ NeitherReadNorWrite \/ FastWrite
      BY <2>2 DEF Write, NeitherReadNorWrite, FastWrite, roundVars, listVars
    <2>3. QED
      BY <2>1, <2>2
  <1>6. PICK k : Waits(k) /\ Became(k, "idle")
    BY <1>4
  <1>7. QED
    BY <1>1, <1>5, <1>6, BecameWaits

(* the end of a turn,                                                      *)
LEMMA EndTurnWaits == ASSUME DInv, WaitInv, EndTurn PROVE WaitInv'
  <1>1. /\ dpc = "done" /\ dpc' # "done" /\ pending' = (pending \/ K.eli = "BLOCK") /\ turn' = Tail(turn)
        /\ UNCHANGED <<con, cleanup, shutdown>>
    BY DEF EndTurn, listVars
  <1>2. Cur \in Conns /\ Cur \notin ToSet(Tail(turn)) /\ ToSet(Tail(turn)) \subseteq ToSet(turn)
        /\ (K.state # "CLOSED" => Cur \notin cleanup)
    BY <1>1, CurFacts
  <1>3. Left \subseteq Left' /\ (K.state # "CLOSED" => Cur \in Left')
    BY <1>1, <1>2 DEF Left
  <1>4. PendingInv'
    <2>1. CASE pending
      BY <1>1, <1>3, <2>1 DEF WaitInv, PendingInv, IsForgotten
    <2>2. CASE K.eli = "BLOCK"
      <3>1. shutdown \/ IsForgotten(K)
        BY <1>1, <2>2 DEF WaitInv, DoneInv
      <3>2. IsForgotten(K) => K.state # "CLOSED" /\ IsForgotten(con'[Cur])
        BY <1>1 DEF IsForgotten, K
      <3>3. IsForgotten(K) => \E c \in Left' : IsForgotten(con'[c])
        BY <1>3, <3>2
      <3>4. QED
        BY <1>1, <3>1, <3>3 DEF PendingInv
    <2>3. QED
      BY <1>1, <2>1, <2>2 DEF PendingInv
  <1>5. QED
    BY <1>1, <1>4 DEF WaitInv, DoneInv

(* and the steps that make, free or leave connections alone.               *)
LEMMA OthersKeepWaits ==
  ASSUME DInv, WaitInv,
         \/ Select \/ AcceptFails \/ (\E c \in Conns : Accept(c) \/ Reject(c))
         \/ Closed \/ CleanupConnections \/ LeaveLoop
         \/ (\E c \in Conns : Client(c)) \/ Stop \/ UNCHANGED vars
  PROVE  WaitInv'
  <1>1. con = [c \in Conns |-> con[c]]
    BY DEF DInv, ListInv, Lists
  <1>2. \A c \in Conns : con'[c] \in {con[c], NewConnection}
    <2>1. \/ con' = con
          \/ \E c \in Conns : con' = [con EXCEPT ![c] = NewConnection]
          \/ \E conns : con' = [c \in Conns |-> IF c \in conns THEN NewConnection ELSE con[c]]
      BY DEF Select, AcceptFails, Accept, Reject, Closed, CleanupConnections, LeaveLoop, Freed,
             Client, Connect, Send, Leave, Stop, vars
    <2>2. QED
      BY <1>1, <2>1
  <1>3. \A c \in Conns : Waits(con'[c])
    BY <1>2, NewWaits DEF WaitInv
  <1>4. CASE Select \/ AcceptFails \/ \E c \in Conns : Accept(c) \/ Reject(c)
    <2>1. pending' = FALSE /\ dpc' # "done"
      BY <1>4 DEF Select, AcceptFails, Accept, Reject, Round
    <2>2. QED
      BY <1>3, <2>1 DEF WaitInv, DoneInv, PendingInv
  <1>5. CASE Closed
    <2>1. dpc = "idle" /\ K.state = "CLOSED" /\ UNCHANGED <<con, turn, pending, shutdown>> /\ cleanup' = cleanup \cup {Cur}
      BY <1>5 DEF Closed, Idle, roundVars
    <2>2. Cur \in Conns /\ Cur \in ToSet(turn)
      BY <2>1, CurFacts
    <2>3. Left' = Left
      BY <2>1, <2>2 DEF Left
    <2>4. PendingInv'
      BY <2>1, <2>3 DEF WaitInv, PendingInv, IsForgotten
    <2>5. K.eli # "BLOCK"
      BY <2>1, <2>2 DEF WaitInv, Waits, K
    <2>6. K' = K
      BY <2>1 DEF K, Cur
    <2>7. QED
      BY <1>3, <2>4, <2>5, <2>6 DEF WaitInv, DoneInv
  <1>6. CASE CleanupConnections
    <2>1. /\ dpc' = "select" /\ UNCHANGED <<pending, shutdown, turn>> /\ cleanup' = {}
          /\ con' = [c \in Conns |-> IF c \in cleanup THEN NewConnection ELSE con[c]]
      BY <1>6 DEF CleanupConnections, Freed
    <2>2. Left \subseteq Left' /\ \A c \in Left : con'[c] = con[c]
      BY <2>1 DEF Left
    <2>3. PendingInv'
      BY <2>1, <2>2 DEF WaitInv, PendingInv, IsForgotten
    <2>4. QED
      BY <1>3, <2>1, <2>3 DEF WaitInv, DoneInv
  <1>7. CASE LeaveLoop \/ Stop
    <2>1. shutdown' = TRUE
      BY <1>7 DEF LeaveLoop, Stop
    <2>2. QED
      BY <1>3, <2>1 DEF WaitInv, DoneInv, PendingInv
  <1>8. CASE (\E c \in Conns : Client(c)) \/ UNCHANGED vars
    <2>1. UNCHANGED <<con, turn, cleanup, pending, shutdown, dpc>>
      BY <1>8 DEF Client, Connect, Send, Leave, vars, clientVars, listVars, roundVars
    <2>2. PendingInv' /\ DoneInv'
      BY <2>1 DEF WaitInv, PendingInv, DoneInv, Left, IsForgotten, K, Cur
    <2>3. QED
      BY <1>3, <2>2 DEF WaitInv
  <1>9. QED
    BY <1>4, <1>5, <1>6, <1>7, <1>8

(* In every state of the thread: a connection waits for its socket, unless *)
(* the daemon is being stopped or its error is forgotten.                  *)
THEOREM OnlyForgottenIsPending == MhdSpec => [](DInv /\ WaitInv)
  <1>1. MhdInit => WaitInv
    <2> SUFFICES ASSUME MhdInit PROVE WaitInv
      OBVIOUS
    <2>1. dpc = "select" /\ pending = FALSE /\ \A c \in Conns : con[c] = NewConnection
      BY DEF MhdInit
    <2>2. QED
      BY <2>1, NewWaits DEF WaitInv, DoneInv, PendingInv
  <1>2. DInv /\ WaitInv /\ [MhdNext]_vars => WaitInv'
    <2> SUFFICES ASSUME DInv, WaitInv, [MhdNext]_vars PROVE WaitInv'
      OBVIOUS
    <2>1. CASE HandleRead \/ Write \/ NeitherReadNorWrite \/ FastWrite
      BY <2>1, TurnKeepsWaits
    <2>2. CASE HandleIdle /\ ~Closed
      <3>1. dpc = "idle"
        BY <2>2 DEF HandleIdle, NoLine, FirstLine, HeaderLine, HeaderPart, HeadersReceived, FirstCall, 
           ContinueSending, ReadChunkLine, DataCall, BodyWaits, BodyEnds, FinalCall, Sending, HeadersSent,
           BodySent, FootersSent, Idle, AtLine
      <3>2. Counted(K) /\ Waits(K)
        BY <3>1, CurRef DEF WaitInv, K
      <3>3. \E k : Turned(k)
        BY <2>2, <3>2, IdleTurned
      <3>4. QED
        BY <3>1, <3>3, TurnedKeeps, SMTT(60)
    <2>3. CASE EndTurn
      BY <2>3, EndTurnWaits
    <2>4. CASE \/ Select \/ AcceptFails \/ (\E c \in Conns : Accept(c) \/ Reject(c))
               \/ Closed \/ CleanupConnections \/ LeaveLoop
               \/ (\E c \in Conns : Client(c)) \/ Stop \/ UNCHANGED vars
      BY <2>4, OthersKeepWaits
    <2>5. QED
      BY <2>1, <2>2, <2>3, <2>4 DEF MhdNext, PollingThread
  <1>3. QED
    BY <1>1, <1>2, DaemonInvariant, PTL DEF MhdSpec

(* NoBusyRound: the thread only goes round without waiting in select when  *)
(* it is being stopped, or if there is a connection whose error was        *)
(* forgotten.                                                              *)
THEOREM NeverBusy == MhdSpec => []NoBusyRound
  <1>1. WaitInv => NoBusyRound
    BY DEF WaitInv, PendingInv, Left, NoBusyRound
  <1>2. QED
    BY <1>1, OnlyForgottenIsPending, PTL

-----------------------------------------------------------------------------
(* What a client may send: bytes that know to which of its requests they   *)
(* belong.                                                                 *)
Byte(n) == [kind : Kinds, n : Nat, id : 1 .. n]
Sent(c) == Byte(Len(script[c]))
Contexts == {NULL, App}

(* The bytes of a request.                                                 *)
LEMMA BytesOf ==
  ASSUME NEW a \in Request, NEW N \in Nat, NEW i \in 1 .. N
  PROVE  LET h == Len(a.head)
             d == Len(a.body)
         IN  /\ h \in Nat /\ d \in Nat /\ Bytes(a, i) \in Seq(Byte(N)) /\ Len(Bytes(a, i)) = h + d
             /\ \A j \in 1 .. h : Bytes(a, i)[j].kind = a.head[j] /\ Bytes(a, i)[j].id = i
             /\ \A j \in 1 .. d : /\ Bytes(a, i)[h + j].kind = a.body[j].kind
                                  /\ Bytes(a, i)[h + j].n = a.body[j].n /\ Bytes(a, i)[h + j].id = i
  <1> DEFINE S == Byte(N)
  <1>1. a.head \in Seq(Kinds) /\ a.body \in Seq([kind : Kinds, n : Nat])
    BY DEF Request
  <1>2. Len(a.head) \in Nat /\ \A j \in 1 .. Len(a.head) : a.head[j] \in Kinds
    BY <1>1, LenProperties, ElementOfSeq
  <1>3. Len(a.body) \in Nat /\ \A j \in 1 .. Len(a.body) : a.body[j] \in [kind : Kinds, n : Nat]
    BY <1>1, LenProperties, ElementOfSeq
  <1> DEFINE h == [j \in 1 .. Len(a.head) |-> [kind |-> a.head[j], n |-> 0, id |-> i]]
             d == [j \in 1 .. Len(a.body) |-> [kind |-> a.body[j].kind, n |-> a.body[j].n, id |-> i]]
  <1>4. h \in [1 .. Len(a.head) -> S]
    BY <1>2 DEF Byte
  <1>5. d \in [1 .. Len(a.body) -> S]
    BY <1>3 DEF Byte
  <1>6. Bytes(a, i) = h \o d
    BY DEF Bytes
  <1>7. \A j \in 1 .. Len(a.head) : h[j].kind = a.head[j] /\ h[j].id = i
    OBVIOUS
  <1>8. \A j \in 1 .. Len(a.body) : d[j].kind = a.body[j].kind /\ d[j].n = a.body[j].n /\ d[j].id = i
    OBVIOUS
  <1> HIDE DEF S, h, d
  <1>9. h \in Seq(S) /\ Len(h) = Len(a.head)
    BY <1>2, <1>4, SeqDef, LenProperties
  <1>10. d \in Seq(S) /\ Len(d) = Len(a.body)
    BY <1>3, <1>5, SeqDef, LenProperties, SMTT(60)
  <1> DEFINE f == h \o d
             p == Len(a.head)
             q == Len(a.body)
  <1>11. p \in Nat /\ q \in Nat /\ Len(h) = p /\ Len(d) = q
    BY <1>2, <1>3, <1>9, <1>10
  <1>12. f \in Seq(S) /\ Len(f) = Len(h) + Len(d)
         /\ \A j \in 1 .. Len(h) + Len(d) : f[j] = IF j <= Len(h) THEN h[j] ELSE d[j - Len(h)]
    BY <1>9, <1>10, ConcatProperties
  <1> HIDE DEF f, p, q
  <1>13. \A j \in 1 .. p : f[j] = h[j]
    BY <1>11, <1>12
  <1>14. ASSUME NEW j \in 1 .. q PROVE f[p + j] = d[j]
    <2> DEFINE m == p + j
    <2>1. m \in 1 .. p + q /\ ~(m <= p) /\ m - p = j
      BY <1>11
    <2> HIDE DEF m
    <2>2. f[m] = d[m - p]
      BY <1>11, <1>12, <2>1
    <2>3. QED
      BY <2>1, <2>2 DEF m
  <1>15. Bytes(a, i) = f
    BY <1>6 DEF f
  <1>16. QED
    BY <1>7, <1>8, <1>11, <1>12, <1>13, <1>14, <1>15, ZenonT(60) DEF p, q, S

(* A client's requests, one after the other,                               *)
LEMMA StreamRow ==
  ASSUME NEW s \in Seq(Request)
  PROVE  LET b == [i \in 1 .. Len(s) |-> Bytes(s[i], i)]
         IN  Len(s) \in Nat /\ b \in Seq(Seq(Byte(Len(s)))) /\ Len(b) = Len(s) /\ Stream(s) = FlattenSeq(b)
  <1> DEFINE S == Byte(Len(s))
             b == [i \in 1 .. Len(s) |-> Bytes(s[i], i)]
  <1>1. Len(s) \in Nat /\ \A i \in 1 .. Len(s) : s[i] \in Request
    BY LenProperties, ElementOfSeq
  <1>2. ASSUME NEW i \in 1 .. Len(s) PROVE Bytes(s[i], i) \in Seq(S)
    BY <1>1, BytesOf
  <1> HIDE DEF S
  <1>3. b \in [1 .. Len(s) -> Seq(S)]
    BY <1>2
  <1>4. b \in Seq(Seq(S)) /\ Len(b) = Len(s)
    BY <1>1, <1>3, SeqDef, LenProperties
  <1>5. Stream(s) = FlattenSeq(b)
    BY DEF Stream
  <1>6. QED
    BY <1>1, <1>4, <1>5 DEF S

(* are such bytes.                                                         *)
LEMMA StreamType == ASSUME NEW s \in Seq(Request) PROVE Stream(s) \in Seq(Byte(Len(s)))
  BY StreamRow, FlattenType

(* What is left of a sequence, and what is taken from it.                  *)
LEMMA Taken ==
  ASSUME NEW S, NEW s \in Seq(S), NEW n \in Nat, n <= Len(s)
  PROVE  /\ SubSeq(s, 1, n) \in Seq(S) /\ Len(SubSeq(s, 1, n)) = n
         /\ SubSeq(s, n + 1, Len(s)) \in Seq(S)
  <1>1. Len(s) \in Nat /\ \A i \in 1 .. Len(s) : s[i] \in S
    BY LenProperties, ElementOfSeq
  <1>2. SubSeq(s, 1, n) \in Seq(S) /\ Len(SubSeq(s, 1, n)) = IF 1 <= n THEN n - 1 + 1 ELSE 0
    BY <1>1, SubSeqProperties
  <1>3. SubSeq(s, n + 1, Len(s)) \in Seq(S)
    BY <1>1, SubSeqProperties
  <1>4. QED
    BY <1>2, <1>3

-----------------------------------------------------------------------------
Fine(k) == Sound(k, Sent(Cur), Contexts)

(* What a step of the state machine makes of its connection.               *)
Moved(k) == Fine(k) /\ (Go(k) \/ (Break(k) /\ Rests(k)))

(* The parts of it.                                                        *)
LEMMA FineBase == ASSUME NEW k, Fine(k) PROVE Base(k, Sent(Cur)) /\ Memory(k, Sent(Cur)) /\ Typed(k, Contexts)
  BY DEF Fine, Sound, Memory

(* get_next_header_line without a line.                                    *)
LEMMA NoLineMoved == ASSUME Fine(K), NoLine PROVE \E k : Moved(k)
  <1> DEFINE tooBig == K.buf # << >> /\ Full(K) /\ ~CanGrow(K)
             g == IF K.buf # << >> /\ Full(K) THEN Grown(K) ELSE K
  <1>1. (CASE tooBig -> Go(TransmitError(K, shutdown))
           [] ~tooBig /\ g.readClosed -> Go(Close(g))
           [] OTHER -> Break(g))
    BY DEF NoLine
  <1>2. K.state \in LineStates /\ K.state \in Reading
    BY DEF NoLine, LineStates, Reading
  <1>3. Fine(Grown(K)) /\ Grown(K).state = K.state
    BY <1>2, FineBase, GrownMemory, GrownTyped DEF Fine, Sound
  <1>4. Fine(g) /\ g.state = K.state
    BY <1>3
  <1> HIDE DEF g, tooBig
  <1>5. Fine(TransmitError(K, shutdown)) /\ Fine(Close(g))
    BY <1>4, FineBase, TransmitSound, CloseSound DEF Fine
  <1>6. ~g.readClosed => Rests(g)
    BY <1>2, <1>4 DEF Rests, Resting, GrowingStates, Ending, LineStates
  <1>7. Go(TransmitError(K, shutdown)) \/ Go(Close(g)) \/ (Break(g) /\ ~g.readClosed)
    BY <1>1
  <1>8. QED
    BY <1>4, <1>5, <1>6, <1>7 DEF Moved

(* parse_initial_message_line, with the arguments that it records.         *)
LEMMA FirstLineMoved == ASSUME Fine(K), script[Cur] \in Seq(Request), FirstLine PROVE \E k : Moved(k)
  <1> DEFINE l == WithoutLine(K)
             rq == script[Cur][Line(K).id]
             r == [l EXCEPT !.rq = rq]
             q == [r EXCEPT !.pool = r.pool]
             p == Recorded(r, r.rq.arguments, shutdown)
             u == [p EXCEPT !.state = "URL_RECEIVED"]
  <1>1. Go(Close(l)) \/ Break(l) \/ RequestLine(l)
    BY DEF FirstLine
  <1>2. K.state = "INIT" /\ HasLine(K)
    BY DEF FirstLine, AtLine
  <1>3. Fine(l) /\ l.state = "INIT" /\ l.rb # NoBlock /\ Line(K) \in Sent(Cur)
    BY <1>2, LineSound DEF Fine
  <1>4. rq \in Request
    BY <1>3, ElementOfSeq DEF Sent, Byte
  <1>5. RequestLine(l) => IF p.state = "CRASHED" THEN Go(p) ELSE Go(u)
    BY RequestLineGoes
  <1> HIDE DEF l, rq
  <1>6. Fine(Close(l))
    BY <1>3, FineBase, CloseSound DEF Fine
  <1>7. Rests(l)
    BY <1>3 DEF Rests, Resting, GrowingStates, Ending
  <1>8. SameMemory(l, r) /\ r.state = l.state /\ r.rb = l.rb /\ r.last = l.last /\ r.keepalive = l.keepalive /\ r.rq = rq
    BY <1>3, FineBase DEF Base, SameMemory, Typed
  <1>9. Typed(r, Contexts)
    BY <1>3, <1>4, FineBase DEF Typed
  <1>10. q = r
    BY <1>3, FineBase DEF Base
  <1> HIDE DEF r
  <1>11. Memory(r, Sent(Cur)) /\ MayParse(r)
    BY <1>3, <1>8, FineBase, SameMemoryKept DEF MayParse
  <1>12. r.rq.arguments \in Nat
    BY <1>4, <1>8 DEF Request
  <1>13. Memory(p, Sent(Cur)) /\ MayParse(p) /\ p.state \in {r.state} \cup Failed
    BY <1>11, <1>12, RecordedMemory
  <1>14. Typed(p, Contexts)
    BY <1>9, <1>10, RecordedTyped
  <1> HIDE DEF p
  <1>15. Fine(p)
    BY <1>13, <1>14 DEF Fine, Sound
  <1>16. Fine(u)
    BY <1>13, <1>15, SoundAtState DEF Fine, AllStates, Reading, Parts
  <1> HIDE DEF u
  <1>17. QED
    BY <1>1, <1>3, <1>5, <1>6, <1>7, <1>15, <1>16 DEF Moved

(* The first line after the request line, or after the last chunk.         *)
LEMMA HeaderLineMoved == ASSUME Fine(K), HeaderLine PROVE \E k : Moved(k)
  <1> DEFINE l == WithoutLine(K)
             state == IF InFooters THEN "FOOTERS_RECEIVED" ELSE "HEADERS_RECEIVED"
             part == IF InFooters THEN "FOOTER_PART_RECEIVED" ELSE "HEADER_PART_RECEIVED"
             e == [l EXCEPT !.state = state]
             h(n) == [l EXCEPT !.state = part, !.last = HeaderOf(K, n)]
             t == TransmitError(Close(l), shutdown)
  <1>1. Go(e) \/ (\E n \in Lengths(K) : Go(h(n))) \/ Break(t)
    BY DEF HeaderLine
  <1>2. K.state \in {"URL_RECEIVED", "BODY_RECEIVED"} /\ HasLine(K)
    BY DEF HeaderLine, AtLine
  <1>3. Fine(l) /\ l.state = K.state /\ l.rb # NoBlock /\ l.pool = K.pool
    BY <1>2, LineSound DEF Fine
  <1>5. state \in AllStates \ Parts /\ state # "CLOSED" /\ part \in Parts
    BY DEF AllStates, Reading, Parts
  <1> HIDE DEF state, part
  <1>6. ASSUME NEW n \in Lengths(K) PROVE Fine(h(n))
    BY <1>2, <1>3, <1>5, HeaderSound DEF Fine
  <1> HIDE DEF l
  <1>7. Fine(t) /\ Rests(t)
    <2>1. Fine(Close(l))
      BY <1>3, FineBase, CloseSound DEF Fine
    <2>2. QED
      BY <2>1, FineBase, TransmitSound DEF Fine
  <1>8. Fine(e)
    BY <1>2, <1>3, <1>5, SoundAtState DEF Fine
  <1> HIDE DEF e, h, t
  <1>9. QED
    BY <1>1, <1>6, <1>7, <1>8, SMTT(60) DEF Moved

(* process_broken_line, with its two errors in a row.                      *)
LEMMA HeaderPartMoved == ASSUME Fine(K), HeaderPart PROVE \E k : Moved(k)
  <1> DEFINE l == WithoutLine(K)
             f(n) == Folded(K, n)
             t == TransmitError(l, shutdown)
             a == [l EXCEPT !.pool = AddHeader(K).pool]
             state == IF InFooters THEN "FOOTERS_RECEIVED" ELSE "HEADERS_RECEIVED"
             e == [a EXCEPT !.state = state]
             h(n) == [a EXCEPT !.last = HeaderOf(K, n)]
             c == TransmitError(Close(a), shutdown)
  <1>1. \/ Go(t) \/ (\E n \in Lengths(K) : Go(f(n)) /\ f(n).last.at # NoBlock) \/ Go(TransmitError(t, shutdown))
        \/ Go(e) \/ (\E n \in Lengths(K) : Go(h(n))) \/ Go(c)
    <2>1. CASE Line(K).kind = "fold"
      BY <2>1 DEF HeaderPart
    <2>2. CASE Line(K).kind # "fold" /\ AddHeader(K).at = NoBlock
      <3>1. Go(IF t.state = "CRASHED" THEN t ELSE TransmitError(t, shutdown))
        BY <2>2, SMTT(60) DEF HeaderPart
      <3>2. QED
        BY <3>1
    <2>3. CASE Line(K).kind # "fold" /\ AddHeader(K).at # NoBlock
      BY <2>3 DEF HeaderPart
    <2>4. QED
      BY <2>1, <2>2, <2>3
  <1>2. K.state \in Parts /\ HasLine(K) /\ K.state \in Reading
    BY DEF HeaderPart, AtLine, Parts, Reading
  <1>3. Fine(l) /\ l.state = K.state /\ l.rb # NoBlock /\ l.pool = K.pool
    BY <1>2, LineSound DEF Fine
  <1>5. ASSUME NEW n \in Lengths(K), f(n).last.at # NoBlock PROVE Fine(f(n))
    <2>1. Folded(K, n).last.at # NoBlock /\ Memory(K, Sent(Cur)) /\ Typed(K, Contexts)
      BY <1>5, FineBase
    <2>2. Memory(Folded(K, n), Sent(Cur))
      BY <1>2, <2>1, FoldedMemory
    <2>3. Typed(Folded(K, n), Contexts)
      BY <2>1, LineTyped
    <2>4. QED
      BY <2>2, <2>3 DEF Fine, Sound
  <1>6. Memory(a, Sent(Cur)) /\ AddHeader(K).pool.pos = K.pool.pos
    BY <1>3, FineBase, AddHeaderMemory
  <1>7. /\ DOMAIN a = DOMAIN l /\ a.state = K.state /\ a.pool = AddHeader(K).pool
        /\ a.rb = l.rb /\ a.rbSize = l.rbSize
    <2> HIDE DEF l
    <2>1. QED
      BY <1>3, FineBase DEF Base
  <1>8. Typed(a, Contexts)
    <2>1. SameValues(l, a)
      <3> HIDE DEF l
      <3>1. QED
        BY <1>3, FineBase DEF Typed, SameValues
    <2>2. QED
      BY <1>3, <2>1, FineBase, SameValuesTyped
  <1> HIDE DEF a
  <1>9. Fine(a)
    BY <1>6, <1>8 DEF Fine, Sound
  <1>10. state \in AllStates \ Parts /\ state # "CLOSED"
    BY DEF AllStates, Reading, Parts
  <1> HIDE DEF state
  <1>11. Fine(e)
    BY <1>2, <1>7, <1>9, <1>10, SoundAtState DEF Fine, Parts
  <1>12. ASSUME NEW n \in Lengths(K) PROVE Fine(h(n))
    <2>1. h(n) = [a EXCEPT !.state = K.state, !.last = HeaderOf(K, n)]
      BY <1>7, <1>8 DEF Typed
    <2>2. /\ a.rb = WithoutLine(K).rb /\ a.rbSize = WithoutLine(K).rbSize /\ a.pool.pos = K.pool.pos
          /\ a.rb # NoBlock
      BY <1>3, <1>6, <1>7
    <2>3. Sound(a, Sent(Cur), Contexts) /\ Sound(K, Sent(Cur), Contexts) /\ K.state \in Parts /\ HasLine(K)
      BY <1>2, <1>9 DEF Fine
    <2>4. Sound([a EXCEPT !.state = K.state, !.last = HeaderOf(K, n)], Sent(Cur), Contexts)
      BY <2>2, <2>3, HeaderSound
    <2>5. QED
      BY <2>1, <2>4 DEF Fine
  <1> HIDE DEF l
  <1>13. Fine(t)
    BY <1>3, FineBase, TransmitSound DEF Fine
  <1> HIDE DEF t
  <1>14. Fine(TransmitError(t, shutdown))
    BY <1>13, FineBase, TransmitSound DEF Fine
  <1>15. Fine(c)
    <2>1. Fine(Close(a))
      BY <1>9, FineBase, CloseSound DEF Fine
    <2>2. QED
      BY <2>1, FineBase, TransmitSound DEF Fine
  <1> HIDE DEF e, h, c, f
  <1>16. QED
    BY <1>1, <1>5, <1>11, <1>12, <1>13, <1>14, <1>15, SMTT(60) DEF Moved

(* The application's answer leaves the memory alone.                       *)
LEMMA AnswerFine ==
  ASSUME Fine(K), K.state \in {"HEADERS_PROCESSED", "FOOTERS_RECEIVED"}
  PROVE  Fine(Answer(K)) /\ Answer(K).state \in {K.state, "FOOTERS_RECEIVED"}
  <1>1. /\ SameMemory(K, Answer(K)) /\ Answer(K).state \in {K.state, "FOOTERS_RECEIVED"}
        /\ Answer(K).keepalive = K.keepalive /\ Answer(K).last = K.last
    BY FineBase, QueueMemory DEF Answer
  <1>2. Memory(Answer(K), Sent(Cur))
    BY <1>1, FineBase, SameMemoryKept DEF Parts, Reading
  <1>3. Typed(Answer(K), Contexts)
    <2>1. K.rq.reply \in Nat
      BY FineBase DEF Typed, Request
    <2>2. QED
      BY <2>1, FineBase, QueueTyped DEF Answer
  <1>4. QED
    BY <1>1, <1>2, <1>3 DEF Fine, Sound, SameMemory

(* The first call.                                                         *)
LEMMA FirstCallMoved == ASSUME Fine(K), FirstCall PROVE \E k : Moved(k)
  <1>1. K.state = "HEADERS_PROCESSED"
    BY DEF FirstCall, Idle
  <1>2. PICK k \in FirstCalls(K) :
          \/ k.state = "CLOSED" /\ Go(k)
          \/ Break([k EXCEPT !.state = "CONTINUE_SENDING"]) /\ Need100Continue(k) /\ k.state # "CLOSED"
          \/ Go(AfterFirstCall(k)) /\ k.state # "CLOSED"
    BY DEF FirstCall
  <1> DEFINE n == [K EXCEPT !.context = App]
  <1>3. CASE k = Close(K)
    BY <1>2, <1>3, FineBase, CloseSound DEF Moved, Fine
  <1>4. CASE k \in {K, Answer(K), n}
    <2>1. Fine(n) /\ n.state = K.state
      <3>1. SameMemory(K, n) /\ n.keepalive = K.keepalive /\ n.last = K.last /\ n.state = K.state
        BY FineBase DEF Base, SameMemory
      <3>2. Typed(n, Contexts)
        BY FineBase DEF Typed, Contexts
      <3> HIDE DEF n
      <3>3. QED
        BY <3>1, <3>2, FineBase, SameMemoryKept DEF Fine, Sound, SameMemory
    <2>2. Fine(k) /\ k.state \in {"HEADERS_PROCESSED", "FOOTERS_RECEIVED"}
      BY <1>1, <1>4, <2>1, AnswerFine
    <2>3. Fine(AfterFirstCall(k))
      BY <2>2, AfterFirstCallSound DEF Fine
    <2>4. Fine([k EXCEPT !.state = "CONTINUE_SENDING"]) /\ [k EXCEPT !.state = "CONTINUE_SENDING"].state = "CONTINUE_SENDING"
      BY <2>2, SoundAtState DEF Fine, AllStates, Reading, Parts
    <2>5. Rests([k EXCEPT !.state = "CONTINUE_SENDING"])
      BY <2>4 DEF Rests, Resting, Ending
    <2>6. QED
      BY <1>2, <2>2, <2>3, <2>4, <2>5 DEF Moved
  <1>5. QED
    BY <1>2, <1>3, <1>4 DEF FirstCalls

(* The states of the body.                                                 *)
LEMMA BodyMoved ==
  ASSUME Fine(K), ContinueSending \/ ReadChunkLine \/ DataCall \/ BodyWaits \/ BodyEnds
  PROVE  \E k : Moved(k)
  <1>1. K.state \in {"CONTINUE_SENDING", "CONTINUE_SENT"}
    BY DEF ContinueSending, ReadChunkLine, DataCall, BodyWaits, BodyEnds, Idle
  <1> DEFINE state == IF K.chunked /\ ~K.readClosed THEN "BODY_RECEIVED" ELSE "FOOTERS_RECEIVED"
             n == [K EXCEPT !.state = "CONTINUE_SENT"]
  <1>3. \/ Go(n) \/ Go(Processed(n)) \/ Go(Close(n)) \/ Break(K) \/ (Go(ChunkLine(K)) /\ K.buf # << >>)
        \/ Go(Processed(K)) \/ Go(Close(K)) \/ Go([K EXCEPT !.state = state])
    BY DEF ContinueSending, ReadChunkLine, DataCall, BodyWaits, BodyEnds, HasBody
  <1>4. state \in AllStates \ Parts /\ state # "CLOSED"
    BY DEF AllStates, Reading, Parts
  <1> HIDE DEF state
  <1>5. Fine(n) /\ Fine([K EXCEPT !.state = state])
    BY <1>1, <1>4, SoundAtState DEF Fine, AllStates, Reading, Parts
  <1> HIDE DEF n
  <1>6. Fine(Close(K)) /\ Fine(Close(n))
    BY <1>5, FineBase, CloseSound DEF Fine
  <1>7. Fine(Processed(K)) /\ Fine(Processed(n))
    BY <1>5, FineBase, ProcessedMemory DEF Fine, Sound
  <1>8. K.buf # << >> => Fine(ChunkLine(K))
    <2>1. CASE Head(K.buf).kind = "chunk"
      <3>1. \A t \in Sent(Cur) : t.n \in Nat
        BY DEF Sent, Byte
      <3>2. QED
        BY <2>1, <3>1, FineBase, ChunkMemory DEF Fine, Sound
    <2>2. CASE Head(K.buf).kind # "chunk"
      <3>1. ChunkLine(K) = Close(K)
        BY <2>2 DEF ChunkLine
      <3>2. QED
        BY <1>6, <3>1
    <2>3. QED
      BY <2>1, <2>2
  <1>9. Rests(K)
    BY <1>1 DEF Rests, Resting, GrowingStates, Ending
  <1>10. QED
    BY <1>3, <1>5, <1>6, <1>7, <1>8, <1>9 DEF Moved

(* The final call and the response's header.                               *)
LEMMA FinalCallMoved == ASSUME Fine(K), FinalCall PROVE \E k : Moved(k)
  <1>1. K.state = "FOOTERS_RECEIVED"
    BY DEF FinalCall, Idle
  <1>2. PICK k \in (IF K.response # NULL THEN {K} ELSE {Answer(K), Close(K)}) :
          \/ k.state = "CLOSED" /\ Go(k)
          \/ k.state # "CLOSED" /\ k.response = NULL /\ Break(k)
          \/ k.state # "CLOSED" /\ Go(Close(BuildHeader(k)))
          \/ k.state # "CLOSED" /\ Break([BuildHeader(k) EXCEPT !.state = "HEADERS_SENDING"])
    <2>1. PICK k \in (IF K.response # NULL THEN {K} ELSE {Answer(K), Close(K)}) :
            CASE k.state = "CLOSED" -> Go(k)
              [] k.state # "CLOSED" /\ k.response = NULL -> Break(k)
              [] k.response # NULL /\ ~Built(k) -> Go(Close(BuildHeader(k)))
              [] OTHER -> Break([BuildHeader(k) EXCEPT !.state = "HEADERS_SENDING"])
      BY DEF FinalCall
    <2>2. CASE k.state = "CLOSED" /\ k.response = NULL
      BY <2>1, <2>2
    <2>3. CASE k.state # "CLOSED"
      BY <2>1, <2>3
    <2>4. CASE k.state = "CLOSED" /\ k.response # NULL
      <3> DEFINE d == DestroyResponse(K)
      <3>1. Close(K).response = NULL
        <4>1. d.response = NULL /\ {"state", "eli", "response"} \subseteq DOMAIN d
          BY FineBase, DestroyTyped DEF Typed
        <4>2. Close(K) = [d EXCEPT !.state = "CLOSED", !.eli = "CLEANUP", !.shutWr = TRUE]
          BY DEF Close
        <4> HIDE DEF d
        <4>3. QED
          BY <4>1, <4>2
      <3>2. k = Answer(K) \/ k = K
        BY <2>1, <2>4, <3>1
      <3>3. k.state = "FOOTERS_RECEIVED"
        BY <1>1, <3>2, AnswerFine
      <3>4. QED
        BY <2>4, <3>3
    <2>5. QED
      BY <2>2, <2>3, <2>4
  <1>3. Fine(k) /\ k.state \in {"FOOTERS_RECEIVED", "CLOSED"}
    <2>1. Fine(Close(K)) /\ Close(K).state = "CLOSED"
      BY FineBase, CloseSound DEF Fine
    <2>2. QED
      BY <1>1, <1>2, <2>1, AnswerFine
  <1>4. k.state # "CLOSED" => Rests(k)
    BY <1>3 DEF Rests, Resting, Ending
  <1> DEFINE h == [BuildHeader(k) EXCEPT !.state = "HEADERS_SENDING"]
  <1>5. k.state # "CLOSED" => Fine(h) /\ h.state = "HEADERS_SENDING" /\ Fine(Close(BuildHeader(k)))
    BY <1>3, BuiltSound DEF Fine
  <1>6. k.state # "CLOSED" => Rests(h)
    BY <1>5 DEF Rests, Resting, Ending
  <1> HIDE DEF h
  <1>7. QED
    BY <1>2, <1>3, <1>4, <1>5, <1>6 DEF Moved, h

(* The states in which the response is sent.                               *)
LEMMA SendMoved ==
  ASSUME Fine(K), ResetFits, Sending \/ HeadersSent \/ BodySent \/ FootersSent
  PROVE  \E k : Moved(k)
  <1>1. CASE Sending
    <2>1. Break(K) /\ K.state \in {"HEADERS_SENDING"} \cup BodyReady
      BY <1>1 DEF Sending
    <2>2. Rests(K)
      BY <2>1 DEF Rests, Resting, Ending, BodyReady
    <2>3. QED
      BY <2>1, <2>2 DEF Moved
  <1>2. CASE HeadersSent
    <2> DEFINE b == [K EXCEPT !.state = "BODY_SENT"]
               d == [K EXCEPT !.state = "CRASHED"]
               state == IF K.chunked THEN "CHUNKED_BODY_READY" ELSE "NORMAL_BODY_READY"
               n == [K EXCEPT !.state = state]
    <2>1. (Go(d) \/ Go(b) \/ Break(n)) /\ K.state = "HEADERS_SENT"
      BY <1>2 DEF HeadersSent, Idle
    <2>2. state \in BodyReady
      BY DEF BodyReady
    <2> HIDE DEF state
    <2>3. Fine(b) /\ Fine(d) /\ Fine(n) /\ n.state = state
      BY <2>1, <2>2, SoundAtState DEF Fine, AllStates, Reading, Parts, BodyReady
    <2>4. Rests(n)
      BY <2>2, <2>3 DEF Rests, Resting, Ending, BodyReady
    <2> HIDE DEF b, d, n
    <2>5. QED
      BY <2>1, <2>3, <2>4 DEF Moved
  <1>3. CASE BodySent
    <2>1. K.state = "BODY_SENT" /\ (Go([BuildHeader(K) EXCEPT !.state = "FOOTERS_SENT"]) \/ Go(Close(BuildHeader(K))))
      BY <1>3 DEF BodySent, Idle
    <2>2. QED
      BY <2>1, BuiltSound DEF Fine, Moved
  <1>4. CASE FootersSent
    <2>1. Go(NextRequest(K)) /\ K.state = "FOOTERS_SENT" /\ dpc = "idle"
      BY <1>4 DEF FootersSent, Idle
    <2>2. Fine(NextRequest(K))
      BY <2>1, FineBase, NextMemory, NextTyped DEF Fine, Sound, ResetFits, Contexts
    <2>3. QED
      BY <2>1, <2>2 DEF Moved
  <1>5. QED
    BY <1>1, <1>2, <1>3, <1>4

(* Every case of MHD_connection_handle_idle but the last.                  *)
LEMMA IdleMoved ==
  ASSUME Fine(K), script[Cur] \in Seq(Request), ResetFits, HandleIdle, ~Closed
  PROVE  dpc = "idle" /\ \E k : Moved(k)
  <1>1. dpc = "idle"
    BY DEF HandleIdle, NoLine, FirstLine, HeaderLine, HeaderPart, HeadersReceived, FirstCall, ContinueSending, 
           ReadChunkLine, DataCall, BodyWaits, BodyEnds, FinalCall, Sending, HeadersSent, BodySent, FootersSent,
           Idle, AtLine
  <1>2. CASE HeadersReceived
    <2> DEFINE p == ParseHeaders(K, shutdown)
               n == [p EXCEPT !.state = "HEADERS_PROCESSED"]
    <2>1. (Go(p) \/ Go(n)) /\ K.state = "HEADERS_RECEIVED"
      BY <1>2 DEF HeadersReceived, Idle
    <2>2. MayParse(K)
      BY <2>1, FineBase DEF Memory, Stage, MayParse
    <2>3. Fine(p) /\ MayParse(p)
      BY <2>2, ParseSound DEF Fine
    <2> HIDE DEF p
    <2>4. Fine(n)
      BY <2>3, SoundAtState DEF Fine, AllStates, Reading, Parts
    <2> HIDE DEF n
    <2>5. Moved(p) \/ Moved(n)
      BY <2>1, <2>3, <2>4 DEF Moved
    <2>6. QED
      BY <1>1, <2>5
  <1>3. QED
    BY <1>1, <1>2, NoLineMoved, FirstLineMoved, HeaderLineMoved, HeaderPartMoved, FirstCallMoved, BodyMoved,
       FinalCallMoved, SendMoved DEF HandleIdle

-----------------------------------------------------------------------------
(* The thread is at work on a connection.                                  *)
AtWork(c) == (dpc = "idle" /\ c = Cur) \/ dpc = "crashed"

(* A connection's buffers are apart, what is under way is what its client  *)
(* has chosen to send, and between two turns it is dead only if the pool   *)
(* had no room for the response.                                           *)
ConOK(c) ==
  /\ script[c] \in Scripts[c] \cup {<< >>}
  /\ wire[c] \in Seq(Sent(c)) /\ todo[c] \in Seq(Sent(c))
  /\ Sound(con[c], Sent(c), Contexts)
  /\ phase[c] = "new" => con[c] = NewConnection /\ wire[c] = << >>
  /\ con[c].eli = "CLEANUP" => NoRoom(con[c].pool) \/ c \in cleanup \/ AtWork(c)

MemInv ==
  /\ script = [c \in Conns |-> script[c]] /\ todo = [c \in Conns |-> todo[c]] /\ wire = [c \in Conns |-> wire[c]]
  /\ \A c \in Conns : ConOK(c)

(* The rest of the daemon's state.                                         *)
RoundInv ==
  /\ \A c \in Conns : phase[c] \in {"new", "backlog", "held", "closed"}
  /\ gone \subseteq Conns /\ ready \subseteq ToSet(open) \cup cleanup /\ ToSet(turn) \subseteq ToSet(open) \cup cleanup
  /\ connections <= ConnLimit
  /\ atLimit \in BOOLEAN /\ pending \in BOOLEAN /\ shutdown \in BOOLEAN
  /\ dpc \in {"select", "turn", "idle", "done", "cleanup", "ended", "crashed"}
  /\ fast \in {"no", "header", "body"}
  /\ dpc \in {"select", "cleanup"} => turn = << >>
  /\ dpc = "select" => ready = {}

(* There is nothing in an empty list.                                      *)
LEMMA EmptySet == ToSet(<< >>) = {}
  <1>1. << >> \in Seq({}) /\ Len(<< >>) = 0
    BY EmptySeq
  <1>2. \A e : e \in ToSet(<< >>) <=> \E i \in 1 .. Len(<< >>) : << >>[i] = e
    BY <1>1, ToSetOf
  <1>3. QED
    BY <1>1, <1>2

(* The connection at turn is held by the daemon.                           *)
LEMMA CurHeld ==
  ASSUME DInv, dpc \in {"turn", "idle"} \/ (dpc = "done" /\ K.state # "CLOSED")
  PROVE  Cur \in Conns /\ Cur \in ToSet(open) /\ phase[Cur] = "held"
  <1>1. turn # << >> /\ Head(turn) = turn[1]
    BY DEF DInv, ListInv, Turns
  <1>2. turn[1] \in ToSet(open)
    BY <1>1 DEF DInv, ListInv, Turns, K, Cur
  <1>3. turn[1] \in Conns
    BY <1>2, ToSetOf DEF DInv, ListInv, Lists
  <1>4. QED
    BY <1>1, <1>2, <1>3 DEF DInv, ListInv, Lists, Held, Cur

-----------------------------------------------------------------------------
(* The daemon's own state.                                                 *)
LEMMA TurnRound ==
  ASSUME DInv, RoundInv, HandleRead \/ Write \/ NeitherReadNorWrite \/ FastWrite
  PROVE  RoundInv'
  <1>1. dpc' \in {"idle", "crashed"} /\ fast' \in {"no", "header", "body"}
    BY DEF HandleRead, Write, NeitherReadNorWrite, FastWrite, Became
  <1>2. UNCHANGED <<phase, gone, ready, open, cleanup, turn, connections, atLimit, pending, shutdown>>
    BY DEF HandleRead, Write, NeitherReadNorWrite, FastWrite, clientVars, listVars, roundVars
  <1>3. QED
    BY <1>1, <1>2 DEF RoundInv

(* MHD_connection_handle_idle leaves it alone, until the connection is     *)
(* closed.                                                                 *)
LEMMA IdleRound == ASSUME DInv, RoundInv, HandleIdle, ~Closed PROVE RoundInv'
  <1>1. dpc = "idle"
    BY DEF HandleIdle, NoLine, FirstLine, HeaderLine, HeaderPart, HeadersReceived, FirstCall, 
           ContinueSending, ReadChunkLine, DataCall, BodyWaits, BodyEnds, FinalCall, Sending, HeadersSent,
           BodySent, FootersSent, Idle, AtLine
  <1>2. Counted(K)
    BY <1>1, CurRef
  <1>3. PICK k : Go(k) \/ Break(k)
    BY <1>2, IdleMoves DEF Moves
  <1>4. /\ UNCHANGED <<phase, gone, ready, open, cleanup, turn, connections, atLimit, pending, shutdown, fast>>
        /\ dpc' \in {"idle", "done", "crashed"}
    BY <1>3 DEF Go, Break, Became, clientVars, listVars, roundVars
  <1>5. QED
    BY <1>4, SMTT(60) DEF RoundInv

(* A round begins with the connections there are.                          *)
LEMMA SelectRound ==
  ASSUME DInv, RoundInv, Select \/ AcceptFails \/ (\E c \in Conns : Reject(c))
  PROVE  RoundInv'
  <1>1. /\ UNCHANGED <<open, cleanup, connections, gone, shutdown, fast>> /\ dpc = "select"
        /\ turn' = open /\ ready' = ReadyConns /\ pending' = FALSE
        /\ dpc' = IF open = << >> THEN "cleanup" ELSE "turn"
        /\ atLimit' = (connections # 0) \/ atLimit' = atLimit
        /\ phase' = phase \/ \E c \in Conns : phase' = [phase EXCEPT ![c] = "closed"]
    BY DEF Select, AcceptFails, Reject, Round, listVars, clientVars
  <1>2. ReadyConns \subseteq ToSet(open)
    BY DEF ReadyConns
  <1>3. \A c \in Conns : phase'[c] \in {phase[c], "closed"}
    BY <1>1 DEF DInv, ListInv, Lists
  <1>4. QED
    BY <1>1, <1>2, <1>3 DEF RoundInv

(* A connection is accepted only below the limit.                          *)
LEMMA AcceptRound == ASSUME DInv, RoundInv, NEW c \in Conns, Accept(c) PROVE RoundInv'
  <1>1. /\ UNCHANGED <<cleanup, atLimit, gone, shutdown, fast>> /\ dpc = "select" /\ phase[c] = "backlog"
        /\ turn' = open' /\ ready' = ReadyConns /\ pending' = FALSE /\ open' = Append(open, c)
        /\ dpc' = IF open' = << >> THEN "cleanup" ELSE "turn"
        /\ connections' = connections + 1 /\ connections # ConnLimit
        /\ phase' = [phase EXCEPT ![c] = "held"]
    BY DEF Accept, Round, clientVars, Listening, Backlog
  <1>2. c \notin ToSet(open)
    BY <1>1 DEF DInv, ListInv, Lists, Held
  <1>3. ToSet(open') = ToSet(open) \cup {c}
    BY <1>1, <1>2, AppendOnce DEF DInv, ListInv, Lists
  <1>4. ReadyConns \subseteq ToSet(open)
    BY DEF ReadyConns
  <1>5. \A d \in Conns : phase'[d] \in {phase[d], "held"}
    BY <1>1 DEF DInv, ListInv, Lists
  <1>6. connections' <= ConnLimit
    BY <1>1, CountFacts, MDAssumption DEF DInv, ListInv, RoundInv
  <1>7. QED
    BY <1>1, <1>3, <1>4, <1>5, <1>6 DEF RoundInv

(* The next connection has its turn.                                       *)
LEMMA EndTurnRound == ASSUME DInv, RoundInv, EndTurn PROVE RoundInv'
  <1>1. /\ dpc = "done" /\ turn' = Tail(turn) /\ dpc' = IF Tail(turn) = << >> THEN "cleanup" ELSE "turn"
        /\ UNCHANGED <<phase, gone, ready, open, cleanup, connections, atLimit, shutdown>>
        /\ fast' = "no" /\ pending' \in BOOLEAN
    BY DEF EndTurn, listVars, clientVars, RoundInv
  <1>2. /\ turn' \in Seq(Conns)
        /\ \A i \in 1 .. Len(turn') : i + 1 \in 2 .. Len(turn) /\ turn'[i] = turn[i + 1]
    BY <1>1, TailOnce DEF DInv, ListInv, Turns
  <1>3. ToSet(turn') \subseteq ToSet(open)
    <2>1. \A e : e \in ToSet(turn') <=> \E i \in 1 .. Len(turn') : turn'[i] = e
      BY <1>2, ToSetOf
    <2>2. \A i \in 2 .. Len(turn) : turn[i] \in ToSet(open)
      BY <1>1 DEF DInv, ListInv, Turns
    <2>3. QED
      BY <1>2, <2>1, <2>2
  <1>4. QED
    BY <1>1, <1>3 DEF RoundInv

(* cleanup_connection moves a connection from one list to the other.       *)
LEMMA ClosedRound == ASSUME DInv, RoundInv, Closed PROVE RoundInv'
  <1>1. /\ dpc = "idle" /\ open' = RemoveFirst(open, Cur) /\ cleanup' = cleanup \cup {Cur} /\ dpc' = "done"
        /\ UNCHANGED <<phase, gone, ready, connections, atLimit, pending, shutdown, turn, fast>>
    BY DEF Closed, Idle, roundVars, clientVars
  <1>2. Cur \in ToSet(open)
    BY <1>1, CurHeld
  <1>3. ToSet(open') = ToSet(open) \ {Cur}
    BY <1>1, <1>2, RemoveOnce DEF DInv, ListInv, Lists
  <1>4. QED
    BY <1>1, <1>3 DEF RoundInv

(* Connections that are freed have no turn left.                           *)
LEMMA FreedRound == ASSUME DInv, RoundInv, CleanupConnections \/ LeaveLoop PROVE RoundInv'
  <1>1. /\ turn' = turn /\ turn = << >> /\ ready' = {} /\ gone' \subseteq gone
        /\ dpc' \in {"select", "ended"} /\ atLimit' \in BOOLEAN /\ UNCHANGED <<pending, shutdown, fast>>
        /\ \E conns : phase' = [c \in Conns |-> IF c \in conns THEN "closed" ELSE phase[c]]
    BY DEF CleanupConnections, LeaveLoop, Freed, RoundInv, roundVars
  <1>2. \A c \in Conns : phase'[c] \in {phase[c], "closed"}
    BY <1>1
  <1>3. connections' <= ConnLimit
    <2>1. /\ connections \in Nat /\ Cardinality(cleanup) \in Nat /\ Len(open) \in Nat /\ connections <= ConnLimit
          /\ ConnLimit \in Nat
      BY CountFacts, MDAssumption DEF DInv, ListInv, RoundInv
    <2>2. connections' \in {connections - Cardinality(cleanup), connections - Len(open)}
      BY DEF CleanupConnections, LeaveLoop
    <2>3. QED
      BY <2>1, <2>2
  <1>4. QED
    BY <1>1, <1>2, <1>3, EmptySet DEF RoundInv

(* The clients and MHD_stop_daemon do not touch it.                        *)
LEMMA OthersRound ==
  ASSUME DInv, RoundInv, (\E c \in Conns : Client(c)) \/ Stop \/ UNCHANGED vars
  PROVE  RoundInv'
  <1>1. /\ UNCHANGED <<open, cleanup, connections, atLimit, pending, dpc, turn, ready, fast>>
        /\ shutdown' \in {shutdown, TRUE} /\ gone' \in {gone} \cup {gone \cup {c} : c \in Conns}
        /\ phase' = phase \/ \E c \in Conns : phase' = [phase EXCEPT ![c] = "backlog"]
    BY DEF Client, Connect, Send, Leave, Stop, vars, clientVars, listVars, roundVars
  <1>2. \A c \in Conns : phase'[c] \in {phase[c], "backlog"}
    BY <1>1 DEF DInv, ListInv, Lists
  <1>3. gone' \subseteq Conns
    BY <1>1 DEF RoundInv
  <1>4. QED
    BY <1>1, <1>2, <1>3 DEF RoundInv

(* No step breaks it.                                                      *)
LEMMA RoundStep == ASSUME DInv, RoundInv, [MhdNext]_vars PROVE RoundInv'
  <1>1. CASE (\E c \in Conns : Client(c)) \/ Stop \/ UNCHANGED vars
    BY <1>1, OthersRound
  <1>2. CASE HandleRead \/ Write \/ NeitherReadNorWrite \/ FastWrite
    BY <1>2, TurnRound
  <1>3. CASE Select \/ AcceptFails \/ (\E c \in Conns : Accept(c) \/ Reject(c))
    BY <1>3, SelectRound, AcceptRound
  <1>4. CASE EndTurn \/ Closed \/ CleanupConnections \/ LeaveLoop
    BY <1>4, EndTurnRound, ClosedRound, FreedRound
  <1>5. CASE HandleIdle /\ ~Closed
    BY <1>5, IdleRound
  <1>6. QED
    BY <1>1, <1>2, <1>3, <1>4, <1>5 DEF MhdNext, PollingThread

-----------------------------------------------------------------------------
(* A connection that is left alone.                                        *)
LEMMA LeftAlone ==
  ASSUME NEW c \in Conns, ConOK(c), ~AtWork(c) \/ AtWork(c)', con'[c] = con[c], script'[c] = script[c],
         todo'[c] \in Seq(Sent(c)), wire'[c] \in Seq(Sent(c)), cleanup \subseteq cleanup' \/ c \notin cleanup,
         phase'[c] = phase[c] \/ phase'[c] # "new", phase'[c] = "new" => wire'[c] = wire[c]
  PROVE  ConOK(c)'
  <1>1. Sent(c)' = Sent(c)
    BY DEF Sent
  <1>2. QED
    BY <1>1 DEF ConOK

(* The connection at turn becomes k.                                       *)
LEMMA BecameMem ==
  ASSUME DInv, MemInv, NEW k, Fine(k), NEW where \in {"idle", "done"}, Became(k, where),
         dpc \in {"turn", "idle"} \/ (dpc = "done" /\ K.state # "CLOSED"),
         where = "done" /\ k.eli = "CLEANUP" => NoRoom(k.pool) \/ k.state = "CRASHED",
         UNCHANGED <<script, todo, phase, cleanup, turn>>,
         wire' = [c \in Conns |-> wire'[c]], \A c \in Conns : wire'[c] \in Seq(Sent(c)) /\ (c # Cur => wire'[c] = wire[c])
  PROVE  MemInv'
  <1>1. Cur \in Conns /\ phase[Cur] = "held"
    BY CurHeld
  <1>2. /\ con' = [con EXCEPT ![Cur] = k] /\ con = [c \in Conns |-> con[c]]
        /\ dpc' = IF k.state = "CRASHED" THEN "crashed" ELSE where
    BY DEF Became, DInv, ListInv, Lists
  <1>3. Cur' = Cur
    BY DEF Cur
  <1>4. ASSUME NEW c \in Conns, c = Cur PROVE ConOK(c)'
    <2>1. con'[c] = k /\ Sent(c)' = Sent(c)
      BY <1>2, <1>4 DEF Sent
    <2>2. /\ script'[c] \in Scripts[c] \cup {<< >>}
          /\ wire'[c] \in Seq(Sent(c)) /\ todo'[c] \in Seq(Sent(c))
          /\ Sound(k, Sent(c), Contexts) /\ phase'[c] # "new"
      BY <1>1, <1>4 DEF MemInv, ConOK, Fine
    <2>3. k.state = "CRASHED" \/ where = "idle" => dpc' = "crashed" \/ (dpc' = "idle" /\ c = Cur')
      BY <1>2, <1>3, <1>4
    <2>4. k.eli = "CLEANUP" => NoRoom(k.pool) \/ AtWork(c)'
      BY <2>3 DEF AtWork
    <2>5. QED
      BY <2>1, <2>2, <2>4 DEF ConOK
  <1>5. ASSUME NEW c \in Conns, c # Cur PROVE ConOK(c)'
    <2>1. con'[c] = con[c] /\ ~AtWork(c) /\ ConOK(c)
      BY <1>2, <1>5 DEF AtWork, MemInv
    <2>2. todo[c] \in Seq(Sent(c))
      BY <2>1 DEF ConOK
    <2>3. QED
      BY <1>5, <2>1, <2>2, LeftAlone
  <1>6. QED
    BY <1>4, <1>5 DEF MemInv

(* The connection at turn is one whose buffers are apart.                  *)
LEMMA CurFine ==
  ASSUME DInv, MemInv, dpc \in {"turn", "idle"} \/ (dpc = "done" /\ K.state # "CLOSED")
  PROVE  Fine(K) /\ script[Cur] \in Seq(Request) /\ wire[Cur] \in Seq(Sent(Cur))
  <1>1. Cur \in Conns
    BY CurHeld
  <1>2. ConOK(Cur)
    BY <1>1 DEF MemInv
  <1>3. script[Cur] \in Seq(Request)
    BY <1>1, <1>2, MDAssumption, EmptySeq DEF ConOK
  <1>4. QED
    BY <1>2, <1>3 DEF ConOK, Fine, K

(* A case of MHD_connection_handle_idle keeps the memory in order.         *)
LEMMA MovedKeeps == ASSUME DInv, MemInv, dpc = "idle", NEW k, Moved(k) PROVE MemInv'
  <1>1. CASE Go(k)
    <2>1. Became(k, "idle") /\ UNCHANGED <<script, todo, wire, phase, cleanup, turn>> /\ Fine(k)
      BY <1>1 DEF Go, Moved, clientVars, listVars, roundVars
    <2>2. QED
      BY <2>1, BecameMem DEF MemInv, ConOK
  <1>2. CASE Break(k) /\ Rests(k)
    <2>1. Became(Settled(k, shutdown), "done") /\ UNCHANGED <<script, todo, wire, phase, cleanup, turn>>
      BY <1>2 DEF Break, Settled, clientVars, listVars, roundVars
    <2> DEFINE n == Settled(k, shutdown)
    <2>2. Fine(n) /\ (n.eli = "CLEANUP" => NoRoom(n.pool) \/ n.state = "CRASHED")
      BY <1>2, SettledSound DEF Moved, Fine
    <2> HIDE DEF n
    <2>3. Became(n, "done")
      BY <2>1 DEF n
    <2>4. QED
      BY <2>1, <2>2, <2>3, BecameMem DEF MemInv, ConOK
  <1>3. QED
    BY <1>1, <1>2 DEF Moved

(* recv takes what fits of what has arrived.                               *)
LEMMA HandleReadMem == ASSUME DInv, MemInv, HandleRead PROVE MemInv'
  <1> DEFINE r == ReadyToRead(K)
             w == wire[Cur]
             room == r.rbSize - Len(r.buf)
             n == IF room < 0 THEN Len(w) ELSE Smaller(Len(w), room)
             bytes == SubSeq(w, 1, n)
             rest == SubSeq(w, n + 1, Len(w))
  <1>1. /\ dpc = "turn" /\ K.eli = "READ"
        /\ Became(r, "idle") \/ Became(Received(r, bytes), "idle")
        /\ wire' = [wire EXCEPT ![Cur] = rest]
        /\ UNCHANGED <<script, todo, phase, cleanup, turn>>
    BY DEF HandleRead, listVars, roundVars
  <1>2. Fine(K) /\ w \in Seq(Sent(Cur)) /\ Cur \in Conns
    BY <1>1, CurFine, CurHeld
  <1>3. Fine(r)
    BY <1>2, ReadSound DEF Fine
  <1> HIDE DEF r, w
  <1>4. Len(w) \in Nat /\ r.rbSize \in Nat /\ Len(r.buf) \in Nat /\ Len(r.buf) <= r.rbSize
    BY <1>2, <1>3, LenProperties, FineBase, BaseFacts DEF Base
  <1>5. n \in Nat /\ n <= Len(w) /\ Len(r.buf) + n <= r.rbSize
    BY <1>4 DEF Smaller
  <1> HIDE DEF n
  <1>6. bytes \in Seq(Sent(Cur)) /\ Len(bytes) = n /\ rest \in Seq(Sent(Cur))
    BY <1>2, <1>5, Taken
  <1> HIDE DEF bytes, rest
  <1>7. Fine(Received(r, bytes))
    BY <1>3, <1>5, <1>6, ReceivedSound DEF Fine
  <1>8. /\ wire' = [c \in Conns |-> wire'[c]]
        /\ \A c \in Conns : wire'[c] \in Seq(Sent(c)) /\ (c # Cur => wire'[c] = wire[c])
    BY <1>1, <1>2, <1>6 DEF MemInv, ConOK
  <1>9. QED
    BY <1>1, <1>3, <1>7, <1>8, BecameMem

(* send takes no more than it was given.                                   *)
LEMMA TurnMem == ASSUME DInv, MemInv, Write \/ NeitherReadNorWrite \/ FastWrite PROVE MemInv'
  <1>1. dpc = "turn" \/ (dpc = "done" /\ K.state # "CLOSED")
    BY DEF Write, NeitherReadNorWrite, FastWrite, BodyReady
  <1>2. Fine(K)
    BY <1>1, CurFine
  <1>3. \A k \in Written : Fine(k)
    BY <1>2, WriteSound, FineBase, CloseSound DEF Written, Fine
  <1>4. PICK k : Fine(k) /\ Became(k, "idle")
    BY <1>2, <1>3 DEF Write, NeitherReadNorWrite, FastWrite
  <1>5. UNCHANGED <<script, todo, wire, phase, cleanup, turn>>
    BY DEF Write, NeitherReadNorWrite, FastWrite, clientVars, listVars, roundVars
  <1>6. QED
    BY <1>1, <1>4, <1>5, BecameMem DEF MemInv, ConOK

(* The other steps of the thread.                                          *)
LEMMA ListStepsMem ==
  ASSUME DInv, MemInv, Select \/ AcceptFails \/ (\E c \in Conns : Reject(c)) \/ EndTurn
  PROVE  MemInv'
  <1>1. /\ UNCHANGED <<con, script, todo, wire, cleanup>> /\ dpc \in {"select", "done"}
        /\ phase' = phase \/ \E c \in Conns : phase' = [phase EXCEPT ![c] = "closed"]
    BY DEF Select, AcceptFails, Reject, Round, EndTurn, listVars, clientVars
  <1>2. \A c \in Conns : phase'[c] \in {phase[c], "closed"}
    BY <1>1 DEF DInv, ListInv, Lists
  <1>3. ASSUME NEW c \in Conns PROVE ConOK(c)'
    <2>1. ConOK(c) /\ ~AtWork(c) /\ todo[c] \in Seq(Sent(c)) /\ wire[c] \in Seq(Sent(c))
      BY <1>1 DEF MemInv, ConOK, AtWork
    <2>2. QED
      BY <1>1, <1>2, <2>1, LeftAlone
  <1>4. QED
    BY <1>1, <1>3 DEF MemInv

(* A connection that has just been made.                                   *)
LEMMA JustMade ==
  ASSUME NEW c \in Conns, con'[c] = NewConnection, script'[c] \in Scripts[c] \cup {<< >>},
         wire'[c] \in Seq(Sent(c)'), todo'[c] \in Seq(Sent(c)'), phase'[c] = "new" => wire'[c] = << >>
  PROVE  ConOK(c)'
  <1>1. Sound(NewConnection, Sent(c)', Contexts)
    BY NewSound DEF Contexts
  <1>2. NewConnection.eli = "READ"
    BY DEF NewConnection
  <1>3. QED
    BY <1>1, <1>2 DEF ConOK

(* An accepted connection is a new one.                                    *)
LEMMA AcceptMem == ASSUME DInv, MemInv, NEW d \in Conns, Accept(d) PROVE MemInv'
  <1>1. /\ UNCHANGED <<script, todo, wire, cleanup>> /\ dpc = "select"
        /\ phase' = [phase EXCEPT ![d] = "held"] /\ con' = [con EXCEPT ![d] = NewConnection]
    BY DEF Accept, Round, clientVars
  <1>2. ASSUME NEW c \in Conns PROVE ConOK(c)'
    <2>1. ConOK(c) /\ ~AtWork(c) /\ todo[c] \in Seq(Sent(c)) /\ wire[c] \in Seq(Sent(c))
      BY <1>1 DEF MemInv, ConOK, AtWork
    <2>2. Sent(c)' = Sent(c)
      BY <1>1 DEF Sent
    <2>3. CASE c = d
      <3>1. con'[c] = NewConnection /\ phase'[c] = "held"
        BY <1>1, <2>3 DEF DInv, ListInv, Lists
      <3>2. script'[c] \in Scripts[c] \cup {<< >>}
        BY <1>1, <2>1 DEF ConOK
      <3>3. QED
        BY <1>1, <2>1, <2>2, <3>1, <3>2, JustMade
    <2>4. CASE c # d
      <3>1. con'[c] = con[c] /\ phase'[c] = phase[c]
        BY <1>1, <2>4 DEF DInv, ListInv, Lists
      <3>2. QED
        BY <1>1, <2>1, <3>1, LeftAlone
    <2>5. QED
      BY <2>3, <2>4
  <1>3. QED
    BY <1>1, <1>2 DEF MemInv

(* A closed connection is on the list of those to be cleaned up.           *)
LEMMA ClosedMem == ASSUME DInv, MemInv, Closed PROVE MemInv'
  <1>1. /\ dpc = "idle" /\ K.state = "CLOSED" /\ cleanup' = cleanup \cup {Cur} /\ dpc' = "done"
        /\ UNCHANGED <<con, script, todo, wire, phase>>
    BY DEF Closed, Idle, clientVars
  <1>2. Fine(K) /\ Cur \in Conns /\ phase[Cur] = "held"
    BY <1>1, CurFine, CurHeld
  <1>3. K.eli = "CLEANUP"
    BY <1>1, <1>2, FineBase DEF Typed
  <1>4. ASSUME NEW c \in Conns, c = Cur PROVE ConOK(c)'
    <2>1. ConOK(c) /\ Sent(c)' = Sent(c)
      BY <1>1, <1>4 DEF MemInv, Sent
    <2>2. /\ con'[c] = con[c] /\ script'[c] = script[c] /\ todo'[c] = todo[c] /\ wire'[c] = wire[c]
          /\ phase'[c] = phase[c]
          /\ c \in cleanup' /\ con[c].eli = "CLEANUP"
      BY <1>1, <1>3, <1>4 DEF K
    <2>3. QED
      BY <2>1, <2>2 DEF ConOK
  <1>5. ASSUME NEW c \in Conns, c # Cur PROVE ConOK(c)'
    <2>1. ConOK(c) /\ ~AtWork(c) /\ todo[c] \in Seq(Sent(c)) /\ wire[c] \in Seq(Sent(c))
      BY <1>1, <1>5 DEF MemInv, ConOK, AtWork
    <2>2. QED
      BY <1>1, <2>1, LeftAlone
  <1>6. QED
    BY <1>1, <1>4, <1>5 DEF MemInv

(* Connections that are freed.                                             *)
LEMMA FreedMem == ASSUME DInv, MemInv, CleanupConnections \/ LeaveLoop PROVE MemInv'
  <1>1. PICK conns : /\ Freed(conns) /\ dpc \in {"cleanup", "select"}
                     /\ (conns = cleanup /\ cleanup' = {}) \/ cleanup' = cleanup
    BY DEF CleanupConnections, LeaveLoop
  <1>2. ASSUME NEW c \in Conns PROVE ConOK(c)'
    <2>1. ConOK(c) /\ ~AtWork(c) /\ todo[c] \in Seq(Sent(c)) /\ wire[c] \in Seq(Sent(c))
      BY <1>1 DEF MemInv, ConOK, AtWork
    <2>2. CASE c \in conns
      <3>1. /\ con'[c] = NewConnection /\ script'[c] = << >> /\ wire'[c] = << >> /\ todo'[c] = << >>
            /\ phase'[c] = "closed"
        BY <1>1, <2>2 DEF Freed
      <3>2. << >> \in Seq(Sent(c)')
        BY EmptySeq
      <3>3. QED
        BY <3>1, <3>2, JustMade
    <2>3. CASE c \notin conns
      <3>1. /\ con'[c] = con[c] /\ script'[c] = script[c] /\ wire'[c] = wire[c] /\ todo'[c] = todo[c]
            /\ phase'[c] = phase[c] /\ (cleanup \subseteq cleanup' \/ c \notin cleanup)
        BY <1>1, <2>3 DEF Freed
      <3>2. QED
        BY <2>1, <3>1, LeftAlone
    <2>4. QED
      BY <2>2, <2>3
  <1>3. /\ script' = [c \in Conns |-> script'[c]] /\ todo' = [c \in Conns |-> todo'[c]]
        /\ wire' = [c \in Conns |-> wire'[c]]
    BY <1>1 DEF Freed
  <1>4. QED
    BY <1>2, <1>3 DEF MemInv

(* A client that connects chooses its requests.                            *)
LEMMA ConnectMem == ASSUME DInv, MemInv, NEW d \in Conns, NEW s \in Scripts[d], Connect(d, s) PROVE MemInv'
  <1>1. /\ dpc = "select" /\ phase[d] = "new" /\ phase' = [phase EXCEPT ![d] = "backlog"]
        /\ script' = [script EXCEPT ![d] = s] /\ todo' = [todo EXCEPT ![d] = Stream(s)]
        /\ UNCHANGED <<con, wire, cleanup>>
    BY DEF Connect
  <1>2. ASSUME NEW c \in Conns PROVE ConOK(c)'
    <2>1. ConOK(c) /\ ~AtWork(c) /\ todo[c] \in Seq(Sent(c)) /\ wire[c] \in Seq(Sent(c))
      BY <1>1 DEF MemInv, ConOK, AtWork
    <2>2. CASE c = d
      <3>1. con[c] = NewConnection /\ wire[c] = << >>
        BY <1>1, <2>1, <2>2 DEF ConOK
      <3>2. script'[c] = s /\ todo'[c] = Stream(s) /\ phase'[c] = "backlog"
        BY <1>1, <2>2 DEF MemInv, DInv, ListInv, Lists
      <3>3. s \in Seq(Request)
        BY MDAssumption
      <3>4. Stream(s) \in Seq(Sent(c)')
        BY <3>2, <3>3, StreamType DEF Sent
      <3>5. << >> \in Seq(Sent(c)')
        BY EmptySeq
      <3>6. QED
        BY <1>1, <2>2, <3>1, <3>2, <3>4, <3>5, JustMade
    <2>3. CASE c # d
      <3>1. script'[c] = script[c] /\ todo'[c] = todo[c] /\ phase'[c] = phase[c]
        BY <1>1, <2>3 DEF MemInv, DInv, ListInv, Lists
      <3>2. QED
        BY <1>1, <2>1, <3>1, LeftAlone
    <2>4. QED
      BY <2>2, <2>3
  <1>3. QED
    BY <1>1, <1>2 DEF MemInv

(* What it sends is on its way.                                            *)
LEMMA SendMem == ASSUME DInv, MemInv, NEW d \in Conns, Send(d) PROVE MemInv'
  <1>1. PICK n \in 1 .. Len(todo[d]) :
          /\ dpc = "select" /\ UNCHANGED <<con, script, phase, cleanup>>
          /\ wire' = [wire EXCEPT ![d] = @ \o SubSeq(todo[d], 1, n)]
          /\ todo' = [todo EXCEPT ![d] = SubSeq(@, n + 1, Len(@))]
    BY DEF Send, listVars
  <1>2. ASSUME NEW c \in Conns PROVE ConOK(c)'
    <2>1. ConOK(c) /\ ~AtWork(c) /\ todo[c] \in Seq(Sent(c)) /\ wire[c] \in Seq(Sent(c))
      BY <1>1 DEF MemInv, ConOK, AtWork
    <2>2. CASE c = d
      <3>1. Len(todo[c]) \in Nat /\ n \in Nat /\ n <= Len(todo[c])
        BY <1>1, <2>1, <2>2, LenProperties
      <3>2. SubSeq(todo[c], 1, n) \in Seq(Sent(c)) /\ SubSeq(todo[c], n + 1, Len(todo[c])) \in Seq(Sent(c))
        BY <2>1, <3>1, Taken
      <3>3. wire[c] \o SubSeq(todo[c], 1, n) \in Seq(Sent(c))
        BY <2>1, <3>2, ConcatProperties
      <3>4. /\ wire'[c] = wire[c] \o SubSeq(todo[c], 1, n)
            /\ todo'[c] = SubSeq(todo[c], n + 1, Len(todo[c]))
        BY <1>1, <2>2 DEF MemInv
      <3>5. phase[c] # "new"
        BY <2>2 DEF Send
      <3>6. QED
        BY <1>1, <2>1, <3>2, <3>3, <3>4, <3>5, LeftAlone
    <2>3. CASE c # d
      <3>1. wire'[c] = wire[c] /\ todo'[c] = todo[c]
        BY <1>1, <2>3 DEF MemInv
      <3>2. QED
        BY <1>1, <2>1, <3>1, LeftAlone
    <2>4. QED
      BY <2>2, <2>3
  <1>3. QED
    BY <1>1, <1>2 DEF MemInv

(* Steps that leave the connections alone.                                 *)
LEMMA OthersMem ==
  ASSUME DInv, MemInv, (\E c \in Conns : Leave(c)) \/ Stop \/ UNCHANGED vars
  PROVE  MemInv'
  <1>1. UNCHANGED <<con, script, todo, wire, phase, cleanup, dpc, turn>>
    BY DEF Leave, Stop, vars, clientVars, listVars, roundVars
  <1>2. ASSUME NEW c \in Conns PROVE ConOK(c)'
    <2>1. ConOK(c) /\ todo[c] \in Seq(Sent(c)) /\ wire[c] \in Seq(Sent(c))
      BY DEF MemInv, ConOK
    <2>2. ~AtWork(c) \/ AtWork(c)'
      BY <1>1 DEF AtWork, Cur
    <2>3. QED
      BY <1>1, <2>1, <2>2, LeftAlone
  <1>3. QED
    BY <1>1, <1>2 DEF MemInv

(* No step breaks the order of the memory.                                 *)
LEMMA MemStep == ASSUME DInv, MemInv, ResetFits, [MhdNext]_vars PROVE MemInv'
  <1>1. CASE \E c \in Conns : Client(c)
    BY <1>1, ConnectMem, SendMem, OthersMem DEF Client
  <1>2. CASE Stop \/ UNCHANGED vars
    BY <1>2, OthersMem
  <1>3. CASE HandleRead \/ Write \/ NeitherReadNorWrite \/ FastWrite
    BY <1>3, HandleReadMem, TurnMem
  <1>4. CASE Select \/ AcceptFails \/ (\E c \in Conns : Accept(c) \/ Reject(c)) \/ EndTurn
    BY <1>4, ListStepsMem, AcceptMem
  <1>5. CASE Closed \/ CleanupConnections \/ LeaveLoop
    BY <1>5, ClosedMem, FreedMem
  <1>6. CASE HandleIdle /\ ~Closed
    <2>1. dpc = "idle"
      BY <1>6 DEF HandleIdle, NoLine, FirstLine, HeaderLine, HeaderPart, HeadersReceived, FirstCall, 
           ContinueSending, ReadChunkLine, DataCall, BodyWaits, BodyEnds, FinalCall, Sending, HeadersSent,
           BodySent, FootersSent, Idle, AtLine
    <2>2. Fine(K) /\ script[Cur] \in Seq(Request)
      BY <2>1, CurFine
    <2>3. PICK k : Moved(k)
      BY <1>6, <2>2, IdleMoved
    <2>4. QED
      BY <2>1, <2>3, MovedKeeps, SMTT(60)
  <1>7. QED
    BY <1>1, <1>2, <1>3, <1>4, <1>5, <1>6 DEF MhdNext, PollingThread

(* Both hold before the first connection.                                  *)
LEMMA InitMem == MhdInit => RoundInv /\ MemInv
  <1> SUFFICES ASSUME MhdInit PROVE RoundInv /\ MemInv
    OBVIOUS
  <1>1. RoundInv
    <2>1. connections <= ConnLimit
      <3>1. connections = 0
        BY DEF MhdInit
      <3>2. QED
        BY <3>1, MDAssumption
    <2>2. atLimit \in BOOLEAN /\ pending \in BOOLEAN /\ shutdown \in BOOLEAN
      BY DEF MhdInit
    <2>3. QED
      BY <2>1, <2>2, EmptySet DEF MhdInit, RoundInv
  <1>2. ASSUME NEW c \in Conns PROVE ConOK(c)
    <2>1. con[c] = NewConnection /\ script[c] = << >> /\ wire[c] = << >> /\ todo[c] = << >>
      BY DEF MhdInit
    <2>2. << >> \in Seq(Sent(c))
      BY EmptySeq
    <2>3. Sound(NewConnection, Sent(c), Contexts)
      BY NewSound DEF Contexts
    <2>4. NewConnection.eli = "READ" /\ NewConnection.state \in Reading
      BY DEF NewConnection, Reading
    <2>5. QED
      BY <2>1, <2>2, <2>3, <2>4 DEF ConOK
  <1>3. MemInv
    BY <1>2 DEF MhdInit, MemInv
  <1>4. QED
    BY <1>1, <1>3

-----------------------------------------------------------------------------
(* The thread's own state, whatever its clients send.                      *)
THEOREM RoundInvariant == MhdSpec => [](DInv /\ RoundInv)
  <1>1. MhdInit => RoundInv
    BY InitMem
  <1>2. DInv /\ RoundInv /\ [MhdNext]_vars => RoundInv'
    BY RoundStep
  <1>3. QED
    BY <1>1, <1>2, DaemonInvariant, PTL DEF MhdSpec

(* Every connection's memory, as long as the pool is never reset with more *)
(* than half of it in the read buffer: MHD_pool_reset's own condition.     *)
THEOREM MemoryInvariant == MhdSpec /\ []ResetFits => [](DInv /\ RoundInv /\ MemInv)
  <1>1. MhdInit => MemInv
    BY InitMem
  <1>2. DInv /\ MemInv /\ ResetFits /\ [MhdNext]_vars => MemInv'
    BY MemStep
  <1>3. QED
    BY <1>1, <1>2, RoundInvariant, DaemonInvariant, PTL DEF MhdSpec

(* What is known of one connection says that its buffers are apart.        *)
LEMMA SoundIsApart ==
  ASSUME NEW k, NEW S, Memory(k, S)
  PROVE  /\ Len(k.buf) <= k.rbSize /\ 0 <= k.pool.pos /\ k.pool.pos <= k.pool.end /\ k.pool.end <= PoolSize
         /\ k.rb = NoBlock \/ k.rb + k.rbSize <= k.pool.pos
         /\ InPool(k, k.wb, k.wbSize) /\ Apart(k.rb, k.rbSize, k.wb, k.wbSize)
         /\ k.state \in {"HEADER_PART_RECEIVED", "FOOTER_PART_RECEIVED"} =>
              InPool(k, k.last.at, k.last.size) /\ Apart(k.last.at, k.last.size, k.rb, k.rbSize)
  <1>1. Base(k, S) /\ Stage(k)
    BY DEF Memory
  <1>2. /\ k.pool.pos \in Nat /\ k.pool.end \in Nat /\ k.pool.pos <= k.pool.end /\ k.pool.end <= PoolSize
        /\ k.rb + k.rbSize <= k.pool.pos /\ Len(k.buf) <= k.rbSize
    BY <1>1, BaseFacts DEF Base
  <1>3. InPool(k, k.wb, k.wbSize) /\ Apart(k.rb, k.rbSize, k.wb, k.wbSize)
    <2>1. CASE k.wbSize = 0
      BY <2>1 DEF InPool, Apart
    <2>2. CASE k.wbSize # 0
      <3>1. WriteApart(k)
        BY <1>1, <2>2 DEF Base
      <3>2. k.wb \in Nat /\ k.wb + k.wbSize <= k.pool.pos
            /\ (k.rb + k.rbSize <= k.wb \/ k.wb + k.wbSize <= k.rb)
        BY <3>1 DEF WriteApart, AtStart
      <3>3. QED
        BY <3>2 DEF InPool, Apart
    <2>3. QED
      BY <2>1, <2>2
  <1>4. ASSUME k.state \in Parts
        PROVE  InPool(k, k.last.at, k.last.size) /\ Apart(k.last.at, k.last.size, k.rb, k.rbSize)
    <2>1. LastApart(k) /\ k.rb \in Int /\ k.rbSize \in Nat
      BY <1>1, <1>4, BaseFacts DEF Stage
    <2>2. QED
      BY <2>1 DEF LastApart, InPool, Apart, AtStart, Disjoint
  <1>5. QED
    BY <1>2, <1>3, <1>4 DEF Parts

(* The buffers of every connection lie in its pool and apart: the read     *)
(* buffer through every growth, shift and reset, the write buffer behind   *)
(* it or before it, and the header line that a later line may continue.    *)
THEOREM BuffersStayApart == MhdSpec /\ []ResetFits => []BuffersApart
  <1>1. MemInv => BuffersApart
    <2> SUFFICES ASSUME MemInv PROVE BuffersApart
      OBVIOUS
    <2>1. ASSUME NEW c \in Conns PROVE Memory(con[c], Sent(c))
      BY DEF MemInv, ConOK, Sound
    <2>2. QED
      BY <2>1, SoundIsApart DEF BuffersApart
  <1>2. QED
    BY <1>1, MemoryInvariant, PTL

(* Every field of the daemon and of its connections keeps to its values.   *)
THEOREM DaemonIsTyped == MhdSpec /\ []ResetFits => []MhdTypeOK
  <1>1. DInv /\ RoundInv /\ MemInv => MhdTypeOK
    <2> SUFFICES ASSUME DInv, RoundInv, MemInv PROVE MhdTypeOK
      OBVIOUS
    <2>1. ASSUME NEW c \in Conns
          PROVE  /\ con[c].state \in States /\ con[c].eli \in {"READ", "WRITE", "BLOCK", "CLEANUP"}
                 /\ con[c].response \in {NULL, "app", "error"} /\ con[c].keepalive \in {"unknown", "use", "must_close"}
                 /\ con[c].context \in {NULL, App} /\ con[c].remaining \in Int /\ con[c].chunk >= 0
                 /\ con[c].unsent >= 0 /\ con[c].left >= 0 /\ con[c].continued \in 0 .. ContinueLength
                 /\ script[c] \in Scripts[c] \cup {<< >>} /\ phase[c] \in {"new", "backlog", "held", "closed"}
      <3>1. Typed(con[c], Contexts) /\ script[c] \in Scripts[c] \cup {<< >>}
        BY DEF MemInv, ConOK, Sound
      <3>2. AllStates \subseteq States
        BY DEF AllStates, Reading, States, LineStates, BodyReady
      <3>3. con[c].state \in States /\ con[c].context \in {NULL, App}
        BY <3>1, <3>2 DEF Typed, Contexts
      <3>4. con[c].remaining \in Int /\ con[c].chunk >= 0 /\ con[c].unsent >= 0 /\ con[c].left >= 0
        <4>1. /\ con[c].remaining \in Int
              /\ con[c].chunk \in Nat /\ con[c].unsent \in Nat /\ con[c].left \in Nat
          BY <3>1 DEF Typed
        <4>2. QED
          BY <4>1
      <3>5. QED
        BY <3>1, <3>3, <3>4 DEF Typed, RoundInv
    <2>2. connections \in 0 .. ConnLimit /\ cleanup \subseteq Conns
      <3>1. connections \in Nat /\ connections <= ConnLimit /\ ConnLimit \in Nat
        BY CountFacts, MDAssumption DEF DInv, ListInv, RoundInv
      <3>2. cleanup \subseteq Conns
        BY DEF DInv, ListInv, Lists
      <3>3. QED
        BY <3>1, <3>2
    <2>3. {atLimit, pending, shutdown} \subseteq BOOLEAN
      BY DEF RoundInv
    <2>4. QED
      BY <2>1, <2>2, <2>3 DEF MhdTypeOK, RoundInv
  <1>2. QED
    BY <1>1, MemoryInvariant, PTL

(* When the thread waits, a connection in its list that is to be cleaned   *)
(* up is one whose pool had no room for the error response.                *)
THEOREM ClosedAreCleaned == MhdSpec /\ []ResetFits => []ClosedIsCleaned
  <1>1. DInv /\ MemInv => ClosedIsCleaned
    <2> SUFFICES ASSUME DInv, MemInv, dpc = "select", NEW c \in ToSet(open), con[c].eli = "CLEANUP"
                 PROVE  ~Fits(con[c].pool, RoundToAlign(ReplyHeader + 1))
      BY DEF ClosedIsCleaned
    <2>1. c \in Conns /\ c \notin cleanup
      BY ToSetOf DEF DInv, ListInv, Lists
    <2>2. NoRoom(con[c].pool)
      BY <2>1 DEF MemInv, ConOK, AtWork
    <2>3. QED
      BY <2>2 DEF NoRoom
  <1>2. QED
    BY <1>1, MemoryInvariant, PTL
=============================================================================

------------------------- MODULE TerminalListProofs -------------------------
(***************************************************************************)
(* What holds of the terminals' list for every heap and any requests:      *)
(* ListIInv is inductive, and with it the ids count the list and no walk   *)
(* follows a pointer into freed memory.  AnswerIInv adds the text printed  *)
(* from the list, and with it the list implements TerminalStore.           *)
(***************************************************************************)
EXTENDS TerminalList, FiniteSetTheorems, TLAPS

(* The history variable is only ever extended.                             *)
LEMMA AppendFacts ==
  ASSUME NEW S, NEW s \in Seq(S), NEW x \in S
  PROVE  /\ Append(s, x) \in Seq(S)
         /\ Append(s, x) # << >>
         /\ Len(Append(s, x)) = Len(s) + 1
         /\ Append(s, x)[Len(s) + 1] = x
         /\ \A i \in 1 .. Len(s) : Append(s, x)[i] = s[i]
         /\ DOMAIN Append(s, x) = 1 .. Len(s) + 1
  OBVIOUS

(* The length and the elements of a sequence.                              *)
LEMMA SeqFacts ==
  ASSUME NEW S, NEW s \in Seq(S)
  PROVE  /\ DOMAIN s = 1 .. Len(s)
         /\ Len(s) \in Nat
         /\ s = << >> <=> Len(s) = 0
         /\ \A i \in 1 .. Len(s) : s[i] \in S
  OBVIOUS

(* The state mgrInit leaves satisfies the invariant.                       *)
LEMMA InitListIInv == Init => ListIInv
  <1> SUFFICES ASSUME Init PROVE ListIInv
    OBVIOUS
  <1> USE TLAssumption DEF Init
  <1>1. ListTypeOK
    BY DEF ListTypeOK, Pointer, InOperation
  <1>2. ListInv
    BY DEF ListInv
  <1>3. LoopInv
    BY DEF LoopInv
  <1>4. QED
    BY <1>1, <1>2, <1>3 DEF ListIInv

(* A walk over the list is somewhere in it or at its end.                  *)
LEMMA WalkFacts ==
  ASSUME ListIInv, NEW i \in 1 .. Len(stored) + 1, At(i)
  PROVE  /\ Len(stored) \in Nat /\ DOMAIN stored = 1 .. Len(stored)
         /\ runner = NULL <=> i = Len(stored) + 1
         /\ runner # NULL => /\ i \in DOMAIN stored /\ i + 1 \in 1 .. Len(stored) + 1
                             /\ runner = stored[i] /\ runner \in Blocks
                             /\ node[runner].id = i
                             /\ node[runner].next = IF i + 1 > Len(stored) THEN NULL ELSE stored[i + 1]
  <1>1. stored \in Seq(Blocks)
    BY DEF ListIInv, ListTypeOK
  <1>2. Len(stored) \in Nat /\ DOMAIN stored = 1 .. Len(stored) /\ \A j \in DOMAIN stored : stored[j] \in Blocks
    BY <1>1, SeqFacts
  <1>3. runner = NULL <=> i = Len(stored) + 1
    BY <1>2, TLAssumption DEF At
  <1>4. ASSUME runner # NULL
        PROVE /\ i \in DOMAIN stored /\ i + 1 \in 1 .. Len(stored) + 1
              /\ runner = stored[i] /\ runner \in Blocks
              /\ node[runner].id = i
              /\ node[runner].next = IF i + 1 > Len(stored) THEN NULL ELSE stored[i + 1]
    <2>1. i \in DOMAIN stored /\ i + 1 \in 1 .. Len(stored) + 1 /\ runner = stored[i]
      BY <1>2, <1>3, <1>4 DEF At
    <2>2. QED
      BY <2>1, <1>2 DEF ListIInv, ListInv
  <1>5. QED
    BY <1>2, <1>3, <1>4

(* The head of the list is where every walk starts.                        *)
LEMMA HeadFacts ==
  ASSUME ListIInv, pc \notin {"freeNodeList", "ended"}
  PROVE  /\ Len(stored) \in Nat /\ 1 \in 1 .. Len(stored) + 1
         /\ termList = IF 1 > Len(stored) THEN NULL ELSE stored[1]
         /\ live = {stored[j] : j \in 1 .. Len(stored)}
  <1>1. stored \in Seq(Blocks)
    BY DEF ListIInv, ListTypeOK
  <1>2. Len(stored) \in Nat /\ DOMAIN stored = 1 .. Len(stored) /\ (stored = << >> <=> Len(stored) = 0)
    BY <1>1, SeqFacts
  <1>3. QED
    BY <1>2 DEF ListIInv, ListInv

(* addNodeToList writes the new node and the next field of the old tail.   *)
Nodes == [id : Nat, transactions : Payloads \cup {NULL}, next : Pointer]

(* What addNodeToList makes of the pointers.                               *)
LEMMA AddNodeFacts ==
  ASSUME ListTypeOK, NEW b \in Blocks, NEW newNode \in Nodes, AddNodeToList(b, newNode),
         termListTail # b
  PROVE  /\ node' \in [Blocks -> Nodes]
         /\ node'[b] = newNode
         /\ \A x \in Blocks \ {b} : node'[x].id = node[x].id
         /\ \A x \in Blocks \ {b} : node'[x].transactions = node[x].transactions
         /\ \A x \in Blocks \ {b} : x # termListTail => node'[x].next = node[x].next
         /\ termListTail # NULL => node'[termListTail].next = b
  <1>1. node \in [Blocks -> Nodes] /\ termListTail \in Blocks \cup {NULL}
    BY DEF ListTypeOK, Nodes, Pointer
  <1>2. CASE termListTail = NULL
    <2>1. node' = [node EXCEPT ![b] = newNode]
      BY <1>2 DEF AddNodeToList
    <2>2. QED
      BY <1>1, <1>2, <2>1, TLAssumption
  <1>3. CASE termListTail # NULL
    <2> DEFINE first == [node EXCEPT ![b] = newNode]
               linked == [first[termListTail] EXCEPT !.next = b]
    <2>1. first \in [Blocks -> Nodes] /\ first[b] = newNode /\ \A x \in Blocks \ {b} : first[x] = node[x]
      BY <1>1
    <2>2. termListTail \in Blocks \ {b}
      BY <1>1, <1>3
    <2>3. node' = [first EXCEPT ![termListTail] = linked]
      BY <1>3 DEF AddNodeToList
    <2>4. first[termListTail] \in Nodes /\ first[termListTail] = node[termListTail]
      BY <2>1, <2>2
    <2> HIDE DEF first
    <2>5. linked \in Nodes /\ linked.next = b
          /\ linked.id = node[termListTail].id /\ linked.transactions = node[termListTail].transactions
      BY <2>4 DEF Nodes, Pointer
    <2> HIDE DEF linked
    <2>6. QED
      BY <2>1, <2>2, <2>3, <2>5
  <1>4. QED
    BY <1>2, <1>3

(* What writeToDb finds: a block that no terminal has.                     *)
LEMMA WriteFacts ==
  ASSUME ListIInv, NEW b \in Blocks, WriteToDb(b)
  PROVE  /\ stored \in Seq(Blocks) /\ stored' = Append(stored, b)
         /\ \A i \in DOMAIN stored : stored[i] # b
         /\ termListTail # b
         /\ TerminalFromJson(globalTermCtr + 1, op.json) \in Nodes
         /\ op.json \in Payloads
         /\ AddNodeToList(b, TerminalFromJson(globalTermCtr + 1, op.json))
  <1>1. stored \in Seq(Blocks) /\ stored' = Append(stored, b)
    BY DEF ListIInv, ListTypeOK, WriteToDb, CreateNode
  <1>2. pc = "writeToDb" /\ b \notin live
    BY DEF WriteToDb, CreateNode
  <1>3. \A i \in DOMAIN stored : stored[i] # b
    BY <1>2 DEF ListIInv, ListInv
  <1>4. termListTail # b
    BY <1>1, <1>3, SeqFacts, TLAssumption DEF ListIInv, ListInv
  <1>5. op \in Calls /\ op.json \in Payloads /\ globalTermCtr + 1 \in Nat
    BY <1>2, TLAssumption DEF ListIInv, ListTypeOK, InOperation
  <1>6. TerminalFromJson(globalTermCtr + 1, op.json) \in Nodes
    BY <1>5 DEF TerminalFromJson, Nodes, Pointer
  <1>7. AddNodeToList(b, TerminalFromJson(globalTermCtr + 1, op.json))
    BY DEF WriteToDb
  <1>8. QED
    BY <1>1, <1>3, <1>4, <1>5, <1>6, <1>7

(* Types are preserved by every step that starts from the invariant.       *)
LEMMA NextListTypeOK == ListIInv /\ [Next]_listVars => ListTypeOK'
  <1> SUFFICES ASSUME ListIInv, [Next]_listVars PROVE ListTypeOK'
    OBVIOUS
  <1> USE TLAssumption DEF ListTypeOK, Pointer, InOperation, ListIInv
  <1>1. ASSUME NEW c \in Calls, Call(c) PROVE ListTypeOK'
    BY <1>1 DEF Call
  <1>2. ASSUME ShutDown PROVE ListTypeOK'
    BY <1>2 DEF ShutDown
  <1>3. ASSUME NEW b \in Blocks, WriteToDb(b) PROVE ListTypeOK'
    <2>1. stored' \in Seq(Blocks)
      <3>1. stored \in Seq(Blocks) /\ stored' = Append(stored, b)
        BY <1>3, WriteFacts
      <3>2. QED
        BY <3>1
    <2>2. node' \in [Blocks -> Nodes]
      BY <1>3, WriteFacts, AddNodeFacts
    <2>3. termList' \in Pointer /\ termListTail' \in Pointer
      BY <1>3 DEF WriteToDb, AddNodeToList
    <2>4. QED
      BY <1>3, <2>1, <2>2, <2>3 DEF WriteToDb, CreateNode, Nodes
  <1>4. ASSUME OutOfMemory PROVE ListTypeOK'
    BY <1>4 DEF OutOfMemory
  <1>5. ASSUME ReadFromDb PROVE ListTypeOK'
    BY <1>5 DEF ReadFromDb
  <1>6. ASSUME GetTerminalById PROVE ListTypeOK'
    BY <1>6 DEF GetTerminalById
  <1>7. ASSUME PrintTerminal PROVE ListTypeOK'
    BY <1>7 DEF PrintTerminal
  <1>8. ASSUME PrintClosing PROVE ListTypeOK'
    BY <1>8 DEF PrintClosing
  <1>9. ASSUME FreeNode PROVE ListTypeOK'
    BY <1>9 DEF FreeNode
  <1>10. CASE UNCHANGED listVars
    BY <1>10 DEF listVars
  <1>11. QED
    BY <1>1, <1>2, <1>3, <1>4, <1>5, <1>6, <1>7, <1>8, <1>9, <1>10 DEF Next, Operation

(* Adding a terminal: the new block becomes the last of the list.          *)
LEMMA WriteListInv ==
  ASSUME ListIInv, NEW b \in Blocks, WriteToDb(b)
  PROVE  ListInv'
  <1> DEFINE n == Len(stored)
             newNode == TerminalFromJson(globalTermCtr + 1, op.json)
  <1>1. /\ stored \in Seq(Blocks) /\ stored' = Append(stored, b)
        /\ \A i \in DOMAIN stored : stored[i] # b
        /\ termListTail # b /\ newNode \in Nodes /\ op.json \in Payloads
        /\ AddNodeToList(b, newNode)
    BY WriteFacts
  <1>2. /\ n \in Nat /\ DOMAIN stored = 1 .. n /\ (stored = << >> <=> n = 0)
        /\ \A i \in 1 .. n : stored[i] \in Blocks
    BY <1>1, SeqFacts
  <1>3. /\ Len(stored') = n + 1 /\ DOMAIN stored' = 1 .. n + 1 /\ stored' # << >>
        /\ stored'[n + 1] = b
        /\ \A i \in 1 .. n : stored'[i] = stored[i]
    BY <1>1, AppendFacts
  <1>4. globalTermCtr = n /\ globalTermCtr' = n + 1
    BY DEF ListIInv, ListInv, WriteToDb, CreateNode
  <1>5. pc = "writeToDb" /\ pc' = "loop" /\ live' = live \cup {b}
    BY DEF WriteToDb, CreateNode
  <1>6. newNode.id = n + 1 /\ newNode.transactions \in Payloads /\ newNode.next = NULL
    BY <1>1, <1>4 DEF TerminalFromJson
  <1>7. ListTypeOK
    BY DEF ListIInv
  <1>8. /\ node'[b] = newNode
        /\ \A x \in Blocks \ {b} : node'[x].id = node[x].id
        /\ \A x \in Blocks \ {b} : node'[x].transactions = node[x].transactions
        /\ \A x \in Blocks \ {b} : x # termListTail => node'[x].next = node[x].next
        /\ termListTail # NULL => node'[termListTail].next = b
    BY <1>1, <1>7, AddNodeFacts
  <1> HIDE DEF newNode
  <1>9. /\ \A i, j \in 1 .. n : stored[i] = stored[j] => i = j
        /\ \A i \in 1 .. n : /\ node[stored[i]].id = i
                             /\ node[stored[i]].transactions \in Payloads
                             /\ node[stored[i]].next = IF i = n THEN NULL ELSE stored[i + 1]
    BY <1>2, <1>5 DEF ListIInv, ListInv
  <1>10. /\ termListTail = IF n = 0 THEN NULL ELSE stored[n]
         /\ termList = IF n = 0 THEN NULL ELSE stored[1]
    BY <1>2, <1>5 DEF ListIInv, ListInv
  <1>11. live = {stored[i] : i \in 1 .. n}
    BY <1>2, <1>5 DEF ListIInv, ListInv
  <1> HIDE DEF n
  <1>12. \A i, j \in DOMAIN stored' : stored'[i] = stored'[j] => i = j
    BY <1>1, <1>2, <1>3, <1>9
  <1>13. ASSUME NEW i \in DOMAIN stored'
         PROVE /\ node'[stored'[i]].id = i
               /\ node'[stored'[i]].transactions \in Payloads
               /\ node'[stored'[i]].next = IF i = Len(stored') THEN NULL ELSE stored'[i + 1]
    <2>1. CASE i = n + 1
      BY <2>1, <1>2, <1>3, <1>6, <1>8
    <2>2. CASE i \in 1 .. n
      <3>1. stored'[i] = stored[i] /\ stored[i] \in Blocks \ {b}
        BY <2>2, <1>1, <1>2, <1>3
      <3>2. node'[stored'[i]].id = i /\ node'[stored'[i]].transactions \in Payloads
        BY <2>2, <3>1, <1>8, <1>9
      <3>3. CASE i = n
        <4>1. termListTail = stored[i] /\ termListTail # NULL
          BY <3>3, <2>2, <1>2, <1>10, TLAssumption
        <4>2. node'[stored'[i]].next = b
          BY <4>1, <3>1, <1>8
        <4>3. QED
          BY <4>2, <3>2, <3>3, <1>2, <1>3
      <3>4. CASE i # n
        <4>1. i + 1 \in 1 .. n /\ n \in 1 .. n
          BY <3>4, <2>2, <1>2
        <4>2. stored[i] # termListTail
          BY <4>1, <3>4, <2>2, <1>2, <1>9, <1>10
        <4>3. node'[stored'[i]].next = stored[i + 1]
          BY <4>2, <3>1, <3>4, <2>2, <1>8, <1>9
        <4>4. QED
          BY <4>1, <4>3, <3>2, <2>2, <1>2, <1>3
      <3>5. QED
        BY <3>3, <3>4
    <2>3. QED
      BY <2>1, <2>2, <1>2, <1>3
  <1>14. termListTail' = b /\ termList' = stored'[1]
    <2>1. CASE termListTail = NULL
      <3>1. n = 0
        BY <2>1, <1>2, <1>10, TLAssumption
      <3>2. termListTail' = b /\ termList' = b
        BY <2>1, <1>1 DEF AddNodeToList
      <3>3. QED
        BY <3>1, <3>2, <1>3
    <2>2. CASE termListTail # NULL
      <3>1. n # 0 /\ 1 \in 1 .. n
        BY <2>2, <1>2, <1>10
      <3>2. termListTail' = b /\ termList' = termList
        BY <2>2, <1>1 DEF AddNodeToList
      <3>3. QED
        BY <3>1, <3>2, <1>3, <1>10
    <2>3. QED
      BY <2>1, <2>2
  <1>15. live' = {stored'[i] : i \in DOMAIN stored'}
    <2>1. \A x \in live : \E i \in 1 .. n : x = stored'[i]
      BY <1>3, <1>11
    <2>2. \A i \in 1 .. n : stored'[i] \in live
      BY <1>3, <1>11
    <2>3. \A i \in DOMAIN stored' : i = n + 1 \/ i \in 1 .. n
      BY <1>2, <1>3
    <2>4. 1 .. n \subseteq DOMAIN stored' /\ n + 1 \in DOMAIN stored'
      BY <1>2, <1>3
    <2>5. QED
      BY <1>3, <1>5, <2>1, <2>2, <2>3, <2>4
  <1>16. QED
    BY <1>3, <1>4, <1>12, <1>13, <1>14, <1>15 DEF ListInv

(* No other operation changes a terminal, and freeNodeList takes the list  *)
(* apart from the head.                                                    *)
LEMMA NextListInv == ListIInv /\ [Next]_listVars => ListInv'
  <1> SUFFICES ASSUME ListIInv, [Next]_listVars PROVE ListInv'
    OBVIOUS
  <1> USE DEF ListIInv, ListInv
  <1>1. ASSUME NEW c \in Calls, Call(c) PROVE ListInv'
    BY <1>1 DEF Call
  <1>2. ASSUME ShutDown PROVE ListInv'
    BY <1>2 DEF ShutDown
  <1>3. ASSUME NEW b \in Blocks, WriteToDb(b) PROVE ListInv'
    BY <1>3, WriteListInv
  <1>4. ASSUME OutOfMemory PROVE ListInv'
    BY <1>4 DEF OutOfMemory
  <1>5. ASSUME ReadFromDb PROVE ListInv'
    BY <1>5 DEF ReadFromDb
  <1>6. ASSUME GetTerminalById PROVE ListInv'
    BY <1>6 DEF GetTerminalById
  <1>7. ASSUME PrintTerminal PROVE ListInv'
    BY <1>7 DEF PrintTerminal
  <1>8. ASSUME PrintClosing PROVE ListInv'
    BY <1>8 DEF PrintClosing
  <1>9. ASSUME FreeNode PROVE ListInv'
    BY <1>9 DEF FreeNode
  <1>10. CASE UNCHANGED listVars
    BY <1>10 DEF listVars
  <1>11. QED
    BY <1>1, <1>2, <1>3, <1>4, <1>5, <1>6, <1>7, <1>8, <1>9, <1>10 DEF Next, Operation

(* Freeing: what is left of the list is what has not been freed.           *)
LEMMA FreeLoopInv ==
  ASSUME ListIInv, FreeNode
  PROVE  LoopInv'
  <1>1. /\ pc = "freeNodeList" /\ runner = termList
        /\ UNCHANGED <<node, stored>>
    BY DEF FreeNode, ListIInv, LoopInv
  <1>2. PICK i \in 1 .. Len(stored) + 1 : At(i) /\ live = {stored[j] : j \in i .. Len(stored)}
    BY <1>1 DEF ListIInv, LoopInv
  <1>3. /\ Len(stored) \in Nat /\ DOMAIN stored = 1 .. Len(stored)
        /\ runner = NULL <=> i = Len(stored) + 1
        /\ runner # NULL => /\ i \in DOMAIN stored /\ i + 1 \in 1 .. Len(stored) + 1
                            /\ runner = stored[i]
                            /\ node[runner].next = IF i + 1 > Len(stored) THEN NULL ELSE stored[i + 1]
    BY <1>2, WalkFacts
  <1>4. CASE termList = NULL
    <2>1. live = {}
      BY <1>1, <1>2, <1>3, <1>4
    <2>2. pc' = "ended" /\ UNCHANGED <<termList, live, runner>>
      BY <1>4 DEF FreeNode
    <2>3. QED
      BY <1>1, <1>4, <2>1, <2>2 DEF LoopInv
  <1>5. CASE termList # NULL
    <2>1. /\ pc' = "freeNodeList" /\ termList' = node[termList].next
          /\ live' = live \ {runner} /\ runner' = termList'
      BY <1>1, <1>5 DEF FreeNode
    <2>2. At(i + 1)'
      BY <1>1, <1>3, <1>5, <2>1 DEF At
    <2>3. \A j \in i .. Len(stored) : stored[j] = runner <=> j = i
      BY <1>1, <1>2, <1>3, <1>5 DEF ListIInv, ListInv
    <2>4. live' = {stored[j] : j \in i + 1 .. Len(stored)}
      <3>1. \A x \in live' : \E j \in i + 1 .. Len(stored) : x = stored[j]
        BY <1>2, <1>3, <2>1, <2>3
      <3>2. \A j \in i + 1 .. Len(stored) : stored[j] \in live'
        BY <1>2, <1>3, <2>1, <2>3
      <3>3. QED
        BY <3>1, <3>2
    <2>5. i + 1 \in 1 .. Len(stored') + 1 /\ live' = {stored'[j] : j \in i + 1 .. Len(stored')}
      BY <1>1, <1>3, <1>5, <2>4
    <2>6. QED
      BY <1>1, <2>1, <2>2, <2>5 DEF LoopInv
  <1>6. QED
    BY <1>4, <1>5

(* Every loop stays inside the list.                                       *)
LEMMA NextLoopInv == ListIInv /\ [Next]_listVars => LoopInv'
  <1> SUFFICES ASSUME ListIInv, [Next]_listVars PROVE LoopInv'
    OBVIOUS
  <1>1. ASSUME NEW c \in Calls, Call(c) PROVE LoopInv'
    BY <1>1 DEF Call, ListIInv, LoopInv
  <1>2. ASSUME ShutDown PROVE LoopInv'
    <2>1. /\ pc = "loop" /\ pc' = "freeNodeList" /\ runner' = termList
          /\ UNCHANGED <<termList, live, stored>>
      BY <1>2 DEF ShutDown
    <2>2. /\ 1 \in 1 .. Len(stored) + 1
          /\ termList = IF 1 > Len(stored) THEN NULL ELSE stored[1]
          /\ live = {stored[j] : j \in 1 .. Len(stored)}
      BY <2>1, HeadFacts
    <2>3. QED
      BY <2>1, <2>2 DEF LoopInv, At
  <1>3. ASSUME NEW b \in Blocks, WriteToDb(b) PROVE LoopInv'
    BY <1>3 DEF WriteToDb, ListIInv, LoopInv
  <1>4. ASSUME OutOfMemory PROVE LoopInv'
    BY <1>4 DEF OutOfMemory, ListIInv, LoopInv
  <1>5. ASSUME ReadFromDb PROVE LoopInv'
    <2>1. /\ pc = "readFromDb" /\ runner' = termList
          /\ UNCHANGED <<termList, live, stored, op>>
          /\ \/ termList = NULL /\ pc' = "loop"
             \/ op.termId = ALL /\ pc' = "createJsonFromList"
             \/ op.termId # ALL /\ pc' = "getTerminalById"
      BY <1>5 DEF ReadFromDb
    <2>2. /\ Len(stored) \in Nat /\ 1 \in 1 .. Len(stored) + 1
          /\ termList = IF 1 > Len(stored) THEN NULL ELSE stored[1]
      BY <2>1, HeadFacts
    <2>3. At(1)' /\ 1 \in 1 .. Len(stored') + 1 /\ op'.termId \notin 1 .. 1 - 1
      BY <2>1, <2>2 DEF At
    <2>4. QED
      BY <2>1, <2>3 DEF LoopInv
  <1>6. ASSUME GetTerminalById PROVE LoopInv'
    <2>1. pc = "getTerminalById" /\ UNCHANGED <<node, stored, op>> /\ op.termId # ALL
      BY <1>6 DEF GetTerminalById, ListIInv, LoopInv
    <2>2. PICK i \in 1 .. Len(stored) + 1 : At(i) /\ op.termId \notin 1 .. i - 1
      BY <2>1 DEF ListIInv, LoopInv
    <2>3. CASE runner # NULL /\ node[runner].id # op.termId
      <3>1. runner' = node[runner].next /\ pc' = pc
        BY <1>6, <2>3 DEF GetTerminalById
      <3>2. /\ Len(stored) \in Nat /\ i \in Nat /\ i + 1 \in 1 .. Len(stored) + 1
            /\ node[runner].id = i
            /\ node[runner].next = IF i + 1 > Len(stored) THEN NULL ELSE stored[i + 1]
        BY <2>2, <2>3, WalkFacts
      <3>3. At(i + 1)' /\ op'.termId \notin 1 .. (i + 1) - 1
        BY <2>1, <2>2, <2>3, <3>1, <3>2 DEF At
      <3>4. QED
        BY <2>1, <3>1, <3>2, <3>3 DEF LoopInv
    <2>4. CASE runner = NULL \/ node[runner].id = op.termId
      <3>1. pc' = "loop" /\ runner' = NULL
        BY <1>6, <2>4 DEF GetTerminalById
      <3>2. QED
        BY <3>1 DEF LoopInv
    <2>5. QED
      BY <2>3, <2>4
  <1>7. ASSUME PrintTerminal PROVE LoopInv'
    <2>1. /\ pc = "createJsonFromList" /\ runner # NULL /\ runner' = node[runner].next
          /\ UNCHANGED <<pc, op, stored>>
      BY <1>7 DEF PrintTerminal
    <2>2. op.termId = ALL /\ \E i \in 1 .. Len(stored) + 1 : At(i)
      BY <2>1 DEF ListIInv, LoopInv
    <2>3. PICK i \in 1 .. Len(stored) + 1 : At(i)
      BY <2>2
    <2>4. i + 1 \in 1 .. Len(stored) + 1
          /\ node[runner].next = IF i + 1 > Len(stored) THEN NULL ELSE stored[i + 1]
      BY <2>1, <2>3, WalkFacts
    <2>5. At(i + 1)'
      BY <2>1, <2>4 DEF At
    <2>6. QED
      BY <2>1, <2>2, <2>4, <2>5 DEF LoopInv
  <1>8. ASSUME PrintClosing PROVE LoopInv'
    BY <1>8 DEF PrintClosing, LoopInv
  <1>9. ASSUME FreeNode PROVE LoopInv'
    BY <1>9, FreeLoopInv
  <1>10. CASE UNCHANGED listVars
    BY <1>10 DEF listVars, ListIInv, LoopInv, At
  <1>11. QED
    BY <1>1, <1>2, <1>3, <1>4, <1>5, <1>6, <1>7, <1>8, <1>9, <1>10 DEF Next, Operation
-----------------------------------------------------------------------------
(* The inductive invariant: types, the shape of the list, and where the    *)
(* loops of equipmentMgr.c are in it.                                      *)
THEOREM ListIsInductive == Spec => []ListIInv
  <1>1. ListIInv /\ [Next]_listVars => ListIInv'
    BY NextListTypeOK, NextListInv, NextLoopInv DEF ListIInv
  <1>2. QED
    BY InitListIInv, <1>1, PTL DEF Spec

(* The ids writeToDb hands out count up from 1 along the list, and the     *)
(* tail addNodeToList keeps is its end, after any requests.                *)
THEOREM ListIsWhole == Spec => []ListInv
  <1>1. ListIInv => ListInv
    BY DEF ListIInv
  <1>2. QED
    BY ListIsInductive, <1>1, PTL

(* Every loop is somewhere in the list; the search has passed other ids    *)
(* only, and freeNodeList has freed exactly what it has passed.            *)
THEOREM LoopsStayInList == Spec => []LoopInv
  <1>1. ListIInv => LoopInv
    BY DEF ListIInv
  <1>2. QED
    BY ListIsInductive, <1>1, PTL

(* getTerminalById, createJsonFromList, addNodeToList and freeNodeList     *)
(* never follow a pointer to a freed terminal, and none is left at the end. *)
THEOREM TerminalsAreMemorySafe == Spec => []NoUseAfterFree
  <1>1. ASSUME ListIInv PROVE NoUseAfterFree
    <2>1. runner # NULL => runner \in live
      <3>1. CASE pc = "getTerminalById" \/ pc = "createJsonFromList"
        <4>1. PICK i \in 1 .. Len(stored) + 1 : At(i)
          BY <1>1, <3>1 DEF ListIInv, LoopInv
        <4>2. runner # NULL => i \in DOMAIN stored /\ runner = stored[i]
          BY <1>1, <4>1, WalkFacts
        <4>3. QED
          BY <1>1, <3>1, <4>2 DEF ListIInv, ListInv
      <3>2. CASE pc = "freeNodeList"
        <4>1. PICK i \in 1 .. Len(stored) + 1 : At(i) /\ live = {stored[j] : j \in i .. Len(stored)}
          BY <1>1, <3>2 DEF ListIInv, LoopInv
        <4>2. runner # NULL => i \in i .. Len(stored) /\ runner = stored[i]
          BY <1>1, <4>1, WalkFacts
        <4>3. QED
          BY <4>1, <4>2
      <3>3. CASE pc \in {"loop", "writeToDb", "readFromDb", "ended", "exited"}
        BY <1>1, <3>3 DEF ListIInv, LoopInv
      <3>4. QED
        BY <1>1, <3>1, <3>2, <3>3 DEF ListIInv, ListTypeOK, InOperation
    <2>2. pc \in InOperation /\ termListTail # NULL => termListTail \in live
      <3>1. stored \in Seq(Blocks)
        BY <1>1 DEF ListIInv, ListTypeOK
      <3>2. QED
        BY <1>1, <3>1, SeqFacts DEF ListIInv, ListInv, InOperation
    <2>3. pc = "freeNodeList" /\ termList # NULL => termList = runner
      BY <1>1 DEF ListIInv, LoopInv
    <2>4. pc = "ended" => live = {}
      BY <1>1 DEF ListIInv, LoopInv
    <2>5. QED
      BY <2>1, <2>2, <2>3, <2>4 DEF NoUseAfterFree
  <1>2. QED
    BY ListIsInductive, <1>1, PTL
-----------------------------------------------------------------------------
(* What is printed, before it has a place in the text.                     *)
Parts == {"open", "entry", "id", "separator", "close", "error"}
PieceFields == [part : Parts, size : Nat, id : Nat, json : Payloads \cup {NULL}]

(* %d prints something for every id.                                       *)
LEMMA DigitsFacts ==
  ASSUME NEW n \in Nat
  PROVE  Digits(n) \in Nat
  <1> DEFINE powers == {k \in 1 .. 9 : n >= 10 ^ k}
  <1>1. IsFiniteSet(1 .. 9)
    <2>1. 1 \in Int /\ 9 \in Int
      OBVIOUS
    <2>2. QED
      BY <2>1, FS_Interval, Zenon
  <1>2. powers \subseteq 1 .. 9
    OBVIOUS
  <1>3. Cardinality(powers) \in Nat
    BY <1>1, <1>2, FS_Subset, FS_CardinalityType
  <1>4. QED
    BY <1>3 DEF Digits

(* The pieces of an answer; an entry carries an id and what was posted.    *)
LEMMA LiteralFacts ==
  ASSUME NEW part \in Parts, NEW size \in Nat
  PROVE  /\ Literal(part, size) \in PieceFields
         /\ Literal(part, size).part = part /\ Literal(part, size).size = size
  BY DEF Literal, PieceFields

(* The piece that tells a new terminal's id.                               *)
LEMMA NewIdFacts ==
  ASSUME NEW id \in Nat
  PROVE  /\ NewId(id) \in PieceFields
         /\ NewId(id).part = "id" /\ NewId(id).id = id /\ NewId(id).size > 0
  BY DigitsFacts DEF NewId, PieceFields, Parts

(* The piece that is one terminal in an answer.                            *)
LEMMA EntryFacts ==
  ASSUME NEW b \in Blocks, node[b].id \in Nat, node[b].transactions \in Payloads
  PROVE  /\ Entry(b) \in PieceFields
         /\ Entry(b).part = "entry" /\ Entry(b).id = node[b].id
         /\ Entry(b).json = node[b].transactions /\ Entry(b).size > 0
  <1>1. EntrySize(node[b].id, node[b].transactions) \in Nat \ {0}
    BY DigitsFacts, TLAssumption DEF EntrySize
  <1>2. QED
    BY <1>1 DEF Entry, PieceFields, Parts

(* Printing at an index keeps the n pieces before it and adds one.         *)
Before(text, index, n) ==
  n \in 0 .. Len(text) /\ \A i \in 1 .. Len(text) : text[i].at < index <=> i <= n

PrintedOver(new, text, index, piece, n) ==
  /\ new \in Seq(Pieces) /\ Len(new) = n + 1
  /\ \A i \in 1 .. n : new[i] = text[i]
  /\ new[n + 1] = PieceAt(index, piece)

(* sprintf at an offset: what lies before it stays, what lies behind is    *)
(* cut off.                                                                *)
LEMMA PrintAtFacts ==
  ASSUME NEW text \in Seq(Pieces), NEW index \in Nat, NEW piece \in PieceFields,
         NEW n, Before(text, index, n)
  PROVE  PrintedOver(PrintAt(text, index, piece), text, index, piece, n)
  <1> DEFINE kept == {i \in DOMAIN text : text[i].at < index}
             before == [i \in kept |-> text[i]]
             new == PrintAt(text, index, piece)
  <1>1. Len(text) \in Nat /\ DOMAIN text = 1 .. Len(text) /\ \A i \in 1 .. Len(text) : text[i] \in Pieces
    BY SeqFacts
  <1>2. kept = 1 .. n /\ n \in Nat
    BY <1>1 DEF Before
  <1>3. before = [i \in 1 .. n |-> text[i]]
    BY <1>2
  <1>4. before \in Seq(Pieces) /\ Len(before) = n /\ \A i \in 1 .. n : before[i] = text[i]
    <2>1. n \in Nat /\ \A i \in 1 .. n : text[i] \in Pieces
      BY <1>1, <1>2 DEF Before
    <2> HIDE DEF before
    <2>2. before \in Seq(Pieces)
      BY <2>1, <1>3
    <2>3. DOMAIN before = 1 .. n /\ \A i \in 1 .. n : before[i] = text[i]
      BY <1>3
    <2>4. Len(before) = n
      BY <2>1, <2>2, <2>3
    <2>5. QED
      BY <2>2, <2>3, <2>4
  <1>5. PieceAt(index, piece) \in Pieces
    BY DEF PieceAt, PieceFields, Parts, Pieces
  <1>6. new = Append(before, PieceAt(index, piece))
    BY DEF PrintAt
  <1> HIDE DEF before, kept, new
  <1>7. PrintedOver(new, text, index, piece, n)
    BY <1>2, <1>4, <1>5, <1>6, AppendFacts DEF PrintedOver
  <1>8. QED
    BY <1>7 DEF new

(* The first piece of a text.                                              *)
LEMMA FirstPrintFacts ==
  ASSUME NEW piece \in PieceFields, NEW new, new = PrintAt(<< >>, 0, piece)
  PROVE  new \in Seq(Pieces) /\ Len(new) = 1 /\ new[1] = PieceAt(0, piece)
  <1>1. << >> \in Seq(Pieces) /\ Len(<< >>) = 0
    OBVIOUS
  <1>2. Before(<< >>, 0, 0)
    BY <1>1 DEF Before
  <1>3. PrintedOver(new, << >>, 0, piece, 0)
    BY <1>1, <1>2, PrintAtFacts
  <1>4. QED
    BY <1>3 DEF PrintedOver

(* The pieces of an answer around one piece.                               *)
LEMMA WrappedFacts ==
  ASSUME NEW piece \in PieceFields, piece.size > 0, NEW new, new = Wrapped(piece)
  PROVE  /\ new \in Seq(Pieces) /\ Len(new) = 3
         /\ new[1] = PieceAt(0, Literal("open", 16)) /\ new[2] = PieceAt(16, piece)
         /\ new[3] = PieceAt(16 + piece.size, Literal("close", 4))
  <1> DEFINE first == PrintAt(<< >>, 0, Literal("open", 16))
             body == PrintAt(first, 16, piece)
             all == PrintAt(body, 16 + piece.size, Literal("close", 4))
  <1>1. Literal("open", 16) \in PieceFields /\ Literal("close", 4) \in PieceFields
    BY LiteralFacts DEF Parts
  <1>2. first \in Seq(Pieces) /\ Len(first) = 1 /\ first[1] = PieceAt(0, Literal("open", 16))
    BY <1>1, FirstPrintFacts
  <1>3. first[1].at = 0
    BY <1>2 DEF PieceAt
  <1> HIDE DEF first
  <1>4. /\ body \in Seq(Pieces) /\ Len(body) = 2 /\ body[1] = first[1]
        /\ body[2] = PieceAt(16, piece)
    <2>1. Before(first, 16, 1)
      BY <1>2, <1>3 DEF Before
    <2>2. 16 \in Nat /\ piece \in PieceFields /\ first \in Seq(Pieces)
      BY <1>2
    <2> HIDE DEF body
    <2>3. body = PrintAt(first, 16, piece)
      BY DEF body
    <2>4. PrintedOver(body, first, 16, piece, 1)
      BY <2>1, <2>2, <2>3, PrintAtFacts
    <2>5. QED
      BY <2>4 DEF PrintedOver
  <1>5. body[2].at = 16
    BY <1>4 DEF PieceAt
  <1> HIDE DEF body
  <1>6. /\ all \in Seq(Pieces) /\ Len(all) = 3 /\ all[1] = body[1] /\ all[2] = body[2]
        /\ all[3] = PieceAt(16 + piece.size, Literal("close", 4))
    <2>1. 16 + piece.size \in Nat /\ 16 + piece.size > 16
      BY DEF PieceFields
    <2>2. Before(body, 16 + piece.size, 2)
      BY <1>3, <1>4, <1>5, <2>1 DEF Before
    <2> HIDE DEF all
    <2>3. all = PrintAt(body, 16 + piece.size, Literal("close", 4))
      BY DEF all
    <2>4. PrintedOver(all, body, 16 + piece.size, Literal("close", 4), 2)
      BY <2>1, <2>2, <2>3, <1>1, <1>4, PrintAtFacts
    <2>5. QED
      BY <2>4 DEF PrintedOver
  <1>7. Wrapped(piece) = all
    BY DEF Wrapped, body, first
  <1>8. QED
    BY <1>2, <1>4, <1>6, <1>7

(* The two pieces of the frame.                                            *)
LEMMA FrameFacts ==
  /\ Frame \in Seq(Pieces) /\ Len(Frame) = 2
  /\ Frame[1] = PieceAt(0, Literal("open", 18)) /\ Frame[2] = PieceAt(18, Literal("close", 3))
  <1> DEFINE first == PrintAt(<< >>, 0, Literal("open", 18))
  <1>1. Literal("open", 18) \in PieceFields /\ Literal("close", 3) \in PieceFields
    BY LiteralFacts DEF Parts
  <1>2. first \in Seq(Pieces) /\ Len(first) = 1 /\ first[1] = PieceAt(0, Literal("open", 18))
    BY <1>1, FirstPrintFacts
  <1>3. first[1].at = 0
    BY <1>2 DEF PieceAt
  <1> HIDE DEF first
  <1>4. Before(first, 18, 1)
    BY <1>2, <1>3 DEF Before
  <1>5. 18 \in Nat /\ Frame = PrintAt(first, 18, Literal("close", 3))
    BY DEF Frame, first
  <1>6. PrintedOver(Frame, first, 18, Literal("close", 3), 1)
    BY <1>1, <1>2, <1>4, <1>5, PrintAtFacts
  <1>7. QED
    BY <1>2, <1>6 DEF PrintedOver

(* What createJsonFromList finds of its own text: n terminals are in it,   *)
(* and what it prints next keeps the first 2 * n + 1 pieces.               *)
LEMMA PrintedFacts ==
  ASSUME TypeOK, NEW n \in Nat, Printed(n)
  PROVE  /\ 2 * n + 1 \in 0 .. Len(respJson) /\ lastIndex \in Nat
         /\ \A j \in 1 .. Len(respJson) : respJson[j].at < lastIndex <=> j <= 2 * n + 1
         /\ respJson[2 * n + 1].at + respJson[2 * n + 1].size = lastIndex
         /\ respJson[1].part = "open"
         /\ \A k \in 1 .. n :
              /\ respJson[2 * k].part = "entry" /\ respJson[2 * k].id = k
              /\ respJson[2 * k].json = node[stored[k]].transactions
              /\ respJson[2 * k + 1].part = "separator" /\ respJson[2 * k + 1].size = 2
         /\ \A i \in 1 .. 2 * n : respJson[i].at + respJson[i].size = respJson[i + 1].at
         /\ \A i, j \in 1 .. 2 * n + 1 : i < j => respJson[i].at < respJson[j].at
  <1>1. CASE n = 0
    <2>1. respJson = Frame /\ lastIndex = 18
      BY <1>1 DEF Printed
    <2>2. Len(respJson) = 2 /\ respJson[1] = PieceAt(0, Literal("open", 18))
          /\ respJson[2] = PieceAt(18, Literal("close", 3))
      BY <2>1, FrameFacts
    <2>3. /\ respJson[1].at = 0 /\ respJson[1].size = 18 /\ respJson[1].part = "open"
          /\ respJson[2].at = 18
      BY <2>2 DEF PieceAt, Literal
    <2>4. QED
      BY <1>1, <2>1, <2>2, <2>3
  <1>2. CASE n # 0
    <2>1. /\ Len(respJson) = 2 * n + 1 /\ lastIndex = EndOf(respJson)
          /\ respJson[1].part = "open"
          /\ \A k \in 1 .. n :
               /\ respJson[2 * k].part = "entry" /\ respJson[2 * k].id = k
               /\ respJson[2 * k].json = node[stored[k]].transactions
               /\ respJson[2 * k + 1].part = "separator" /\ respJson[2 * k + 1].size = 2
          /\ \A i \in 1 .. 2 * n : respJson[i].at + respJson[i].size = respJson[i + 1].at
          /\ \A i, j \in 1 .. 2 * n + 1 : i < j => respJson[i].at < respJson[j].at
      BY <1>2 DEF Printed
    <2>2. lastIndex \in Nat /\ \A j \in 1 .. 2 * n + 1 : respJson[j].at \in Nat
      <3>1. respJson \in Seq(Pieces) /\ lastIndex \in Nat
        BY DEF TypeOK
      <3>2. \A j \in 1 .. 2 * n + 1 : respJson[j] \in Pieces
        BY <2>1, <3>1, SeqFacts
      <3>3. QED
        BY <3>1, <3>2 DEF Pieces
    <2>3. respJson[2 * n + 1].size = 2
      BY <1>2, <2>1
    <2>4. respJson[2 * n + 1].at + 2 = lastIndex
      BY <2>1, <2>3 DEF EndOf
    <2>5. \A j \in 1 .. 2 * n + 1 : respJson[j].at < lastIndex
      <3>1. TAKE j \in 1 .. 2 * n + 1
      <3>2. 2 * n + 1 \in 1 .. 2 * n + 1
        OBVIOUS
      <3>3. CASE j = 2 * n + 1
        BY <2>2, <2>4, <3>2, <3>3
      <3>4. CASE j < 2 * n + 1
        BY <2>1, <2>2, <2>4, <3>2, <3>4
      <3>5. QED
        BY <3>3, <3>4
    <2>6. QED
      BY <2>1, <2>2, <2>3, <2>4, <2>5
  <1>3. QED
    BY <1>1, <1>2

(* The terminal the listing has reached.                                   *)
LEMMA ListedFacts ==
  ASSUME AnswerIInv, pc = "createJsonFromList"
  PROVE  \E i \in 1 .. Len(stored) + 1 :
           /\ At(i) /\ Printed(i - 1) /\ i - 1 \in Nat /\ i \in Nat /\ Len(stored) \in Nat \ {0}
           /\ runner = NULL <=> i = Len(stored) + 1
           /\ runner # NULL => /\ i + 1 \in 1 .. Len(stored) + 1
                               /\ runner = stored[i] /\ runner \in Blocks
                               /\ node[runner].id = i /\ node[runner].transactions \in Payloads
                               /\ node[runner].next = IF i + 1 > Len(stored) THEN NULL ELSE stored[i + 1]
  <1>1. PICK i \in 1 .. Len(stored) + 1 : At(i) /\ Printed(i - 1)
    BY DEF AnswerIInv, TextInv
  <1>2. /\ Len(stored) \in Nat /\ DOMAIN stored = 1 .. Len(stored)
        /\ runner = NULL <=> i = Len(stored) + 1
        /\ runner # NULL => /\ i \in DOMAIN stored /\ i + 1 \in 1 .. Len(stored) + 1
                            /\ runner = stored[i] /\ runner \in Blocks
                            /\ node[runner].id = i
                            /\ node[runner].next = IF i + 1 > Len(stored) THEN NULL ELSE stored[i + 1]
    BY <1>1, WalkFacts DEF AnswerIInv
  <1>3. runner # NULL => node[runner].transactions \in Payloads
    BY <1>2 DEF AnswerIInv, ListIInv, ListInv
  <1>4. stored # << >> /\ stored \in Seq(Blocks)
    BY DEF AnswerIInv, TextInv, ListIInv, ListTypeOK
  <1>5. Len(stored) # 0
    BY <1>4, SeqFacts
  <1>6. i \in Nat /\ i - 1 \in Nat
    BY <1>2
  <1>7. QED
    BY <1>1, <1>2, <1>3, <1>5, <1>6

(* One round of createJsonFromList prints the next terminal and leaves the *)
(* text as the next round expects it.                                      *)
LEMMA PrintTerminalText ==
  ASSUME AnswerIInv, PrintTerminal
  PROVE  respJson' \in Seq(Pieces) /\ lastIndex' \in Nat /\ TextInv'
  <1>1. /\ pc = "createJsonFromList" /\ runner # NULL /\ runner' = node[runner].next
        /\ UNCHANGED <<pc, node, stored>>
    BY DEF PrintTerminal
  <1>2. PICK i \in 1 .. Len(stored) + 1 :
           /\ At(i) /\ Printed(i - 1) /\ i - 1 \in Nat /\ i \in Nat /\ Len(stored) \in Nat \ {0}
           /\ i + 1 \in 1 .. Len(stored) + 1
           /\ runner = stored[i] /\ runner \in Blocks
           /\ node[runner].id = i /\ node[runner].transactions \in Payloads
           /\ node[runner].next = IF i + 1 > Len(stored) THEN NULL ELSE stored[i + 1]
    BY <1>1, ListedFacts
  <1> DEFINE n == i - 1
             m == 2 * n + 1
             entry == Entry(runner)
             separator == lastIndex + entry.size
             first == PrintAt(respJson, lastIndex, entry)
  <1>3. /\ m \in 0 .. Len(respJson) /\ lastIndex \in Nat
        /\ \A j \in 1 .. Len(respJson) : respJson[j].at < lastIndex <=> j <= m
        /\ respJson[m].at + respJson[m].size = lastIndex
        /\ respJson[1].part = "open"
        /\ \A k \in 1 .. n :
             /\ respJson[2 * k].part = "entry" /\ respJson[2 * k].id = k
             /\ respJson[2 * k].json = node[stored[k]].transactions
             /\ respJson[2 * k + 1].part = "separator" /\ respJson[2 * k + 1].size = 2
        /\ \A j \in 1 .. 2 * n : respJson[j].at + respJson[j].size = respJson[j + 1].at
        /\ \A j, k \in 1 .. m : j < k => respJson[j].at < respJson[k].at
    BY <1>2, PrintedFacts DEF AnswerIInv
  <1>4. /\ entry \in PieceFields /\ entry.part = "entry" /\ entry.id = i
        /\ entry.json = node[stored[i]].transactions /\ entry.size \in Nat \ {0}
    <2>1. node[runner].id \in Nat
      BY <1>2
    <2>2. /\ entry \in PieceFields /\ entry.part = "entry" /\ entry.id = node[runner].id
          /\ entry.json = node[runner].transactions /\ entry.size > 0
      BY <1>2, <2>1, EntryFacts
    <2> HIDE DEF entry
    <2>3. entry.size \in Nat \ {0}
      BY <2>2 DEF PieceFields
    <2>4. QED
      BY <1>2, <2>2, <2>3
  <1>5. /\ respJson' = PrintAt(first, separator, Literal("separator", 2))
        /\ lastIndex' = separator + 2
    BY DEF PrintTerminal
  <1>6. respJson \in Seq(Pieces)
    BY DEF AnswerIInv, TypeOK
  <1> HIDE DEF entry
  <1>7. /\ first \in Seq(Pieces) /\ Len(first) = m + 1
        /\ \A j \in 1 .. m : first[j] = respJson[j]
        /\ first[m + 1] = PieceAt(lastIndex, entry)
    <2>1. Before(respJson, lastIndex, m)
      BY <1>3 DEF Before
    <2>2. PrintedOver(first, respJson, lastIndex, entry, m)
      BY <1>3, <1>4, <1>6, <2>1, PrintAtFacts
    <2>3. QED
      BY <2>2 DEF PrintedOver
  <1>8. m \in Nat /\ m + 1 \in Nat /\ separator \in Nat /\ n \in Nat /\ i = n + 1
        /\ separator > lastIndex
    <2>1. m \in Nat /\ m + 1 \in Nat /\ n \in Nat /\ i = n + 1
      BY <1>2
    <2>2. entry.size \in Nat /\ entry.size > 0 /\ lastIndex \in Nat
      BY <1>3, <1>4, SMTT(60)
    <2>3. separator \in Nat /\ separator > lastIndex
      BY <2>2
    <2>4. QED
      BY <2>1, <2>3
  <1>9. first[m + 1].at = lastIndex
    BY <1>7 DEF PieceAt
  <1> HIDE DEF first, separator
  <1>10. m + 1 \in 0 .. Len(first) /\ \A j \in 1 .. Len(first) : first[j].at < separator <=> j <= m + 1
    <2> HIDE DEF m
    <2>1. \A j \in 1 .. m : first[j].at < lastIndex
      <3>1. TAKE j \in 1 .. m
      <3>2. j \in 1 .. Len(respJson) /\ j <= m
        BY <1>3, <1>8
      <3>3. first[j] = respJson[j]
        BY <1>7
      <3>4. QED
        BY <1>3, <3>2, <3>3
    <2>2. \A j \in 1 .. m : first[j].at \in Nat
      <3>1. \A j \in 1 .. m : first[j] \in Pieces
        BY <1>7, <1>8, SeqFacts
      <3>2. QED
        BY <3>1 DEF Pieces
    <2>3. \A j \in 1 .. m + 1 : j \in 1 .. m \/ j = m + 1
      BY <1>8
    <2>4. lastIndex \in Nat /\ Len(first) = m + 1 /\ m + 1 \in 0 .. Len(first)
      BY <1>3, <1>7, <1>8
    <2>5. \A j \in 1 .. m + 1 : first[j].at < separator
      BY <1>8, <1>9, <2>1, <2>2, <2>3, <2>4
    <2>6. QED
      BY <1>8, <2>4, <2>5
  <1>11. /\ respJson' \in Seq(Pieces) /\ Len(respJson') = (m + 1) + 1
         /\ \A j \in 1 .. m + 1 : respJson'[j] = first[j]
         /\ respJson'[(m + 1) + 1] = PieceAt(separator, Literal("separator", 2))
    <2>1. Literal("separator", 2) \in PieceFields
      BY LiteralFacts DEF Parts
    <2>3. Before(first, separator, m + 1)
      BY <1>10 DEF Before
    <2>4. PrintedOver(respJson', first, separator, Literal("separator", 2), m + 1)
      BY <1>5, <1>7, <1>8, <2>1, <2>3, PrintAtFacts
    <2>5. QED
      BY <2>4 DEF PrintedOver
  <1>12. lastIndex' \in Nat
    BY <1>5, <1>8
  <1> HIDE DEF m
  <1>13. /\ \A j \in 1 .. m : respJson'[j] = respJson[j]
         /\ respJson'[m + 1] = PieceAt(lastIndex, entry)
         /\ respJson'[m + 2] = PieceAt(separator, Literal("separator", 2))
         /\ Len(respJson') = m + 2
    BY <1>7, <1>8, <1>11
  <1>14. /\ respJson'[m + 1].at = lastIndex /\ respJson'[m + 1].size = entry.size
         /\ respJson'[m + 1].part = "entry" /\ respJson'[m + 1].id = i
         /\ respJson'[m + 1].json = node[stored[i]].transactions
         /\ respJson'[m + 2].at = separator /\ respJson'[m + 2].size = 2
         /\ respJson'[m + 2].part = "separator"
    BY <1>13, <1>4 DEF PieceAt, Literal
  <1>15. m = 2 * n + 1 /\ 2 * i = m + 1 /\ 2 * i + 1 = m + 2
    BY <1>8 DEF m
  <1> HIDE DEF n
  <1>16. \A k \in 1 .. i :
           /\ respJson'[2 * k].part = "entry" /\ respJson'[2 * k].id = k
           /\ respJson'[2 * k].json = node[stored[k]].transactions
           /\ respJson'[2 * k + 1].part = "separator" /\ respJson'[2 * k + 1].size = 2
    <2>1. TAKE k \in 1 .. i
    <2>2. CASE k = i
      BY <1>14, <1>15, <2>2
    <2>3. CASE k # i
      <3>1. k \in 1 .. n /\ 2 * k \in 1 .. m /\ 2 * k + 1 \in 1 .. m
        BY <1>8, <1>15, <2>3
      <3>2. respJson'[2 * k] = respJson[2 * k] /\ respJson'[2 * k + 1] = respJson[2 * k + 1]
        BY <3>1, <1>13
      <3>3. /\ respJson[2 * k].part = "entry" /\ respJson[2 * k].id = k
            /\ respJson[2 * k].json = node[stored[k]].transactions
            /\ respJson[2 * k + 1].part = "separator" /\ respJson[2 * k + 1].size = 2
        BY <3>1, <1>3
      <3>4. QED
        BY <3>2, <3>3
    <2>4. QED
      BY <2>2, <2>3
  <1>17. \A j \in 1 .. 2 * i : respJson'[j].at + respJson'[j].size = respJson'[j + 1].at
    <2>1. TAKE j \in 1 .. 2 * i
    <2>2. CASE j = m + 1
      BY <1>13, <1>14, <1>8, <2>2 DEF separator
    <2>3. CASE j = m
      BY <1>3, <1>8, <1>13, <1>14, <1>15, <2>3
    <2>4. CASE j \in 1 .. 2 * n
      <3>1. j \in 1 .. m /\ j + 1 \in 1 .. m
        BY <1>8, <1>15, <2>4
      <3>2. QED
        BY <3>1, <1>3, <1>13, <2>4, ZenonT(60)
    <2>5. QED
      BY <1>8, <1>15, <2>2, <2>3, <2>4
  <1>18. \A j, k \in 1 .. 2 * i + 1 : j < k => respJson'[j].at < respJson'[k].at
    <2>1. \A j \in 1 .. m : respJson'[j].at \in Nat /\ respJson'[j].at < lastIndex
      <3>1. TAKE j \in 1 .. m
      <3>2. j \in 1 .. Len(respJson) /\ j <= m /\ respJson'[j] = respJson[j]
        BY <1>3, <1>8, <1>13
      <3>3. respJson[j] \in Pieces
        BY <3>2, <1>6, SeqFacts
      <3>4. QED
        BY <3>2, <3>3, <1>3 DEF Pieces
    <2>2. \A j \in 1 .. m + 2 : j \in 1 .. m \/ j = m + 1 \/ j = m + 2
      BY <1>8
    <2>3. \A j, k \in 1 .. m : j < k => respJson'[j].at < respJson'[k].at
      BY <1>3, <1>13
    <2>4. TAKE j, k \in 1 .. 2 * i + 1
    <2>5. HAVE j < k
    <2>6. (j \in 1 .. m \/ j = m + 1 \/ j = m + 2) /\ (k \in 1 .. m \/ k = m + 1 \/ k = m + 2)
      BY <1>15, <2>2
    <2>7. CASE k \in 1 .. m
      BY <1>8, <2>3, <2>5, <2>6, <2>7
    <2>8. CASE k = m + 1
      BY <1>8, <1>14, <2>1, <2>5, <2>6, <2>8
    <2>9. CASE k = m + 2
      <3>1. respJson'[k].at = separator /\ separator \in Nat /\ lastIndex \in Nat /\ lastIndex < separator
        BY <1>3, <1>8, <1>14, <2>9
      <3>2. j \in 1 .. m \/ j = m + 1
        BY <1>8, <2>5, <2>6, <2>9
      <3>3. CASE j \in 1 .. m
        BY <2>1, <3>1, <3>3
      <3>4. CASE j = m + 1
        BY <1>14, <3>1, <3>4
      <3>5. QED
        BY <3>2, <3>3, <3>4
    <2>10. QED
      BY <2>6, <2>7, <2>8, <2>9
  <1>19. lastIndex' = EndOf(respJson')
    BY <1>5, <1>13, <1>14 DEF EndOf
  <1>20. respJson'[1].part = "open"
    BY <1>3, <1>8, <1>13, <1>15
  <1>21. Printed(i)'
    BY <1>1, <1>2, <1>13, <1>15, <1>16, <1>17, <1>18, <1>19, <1>20, SMTT(60) DEF Printed
  <1>22. At(i + 1)'
    BY <1>1, <1>2 DEF At
  <1>23. stored' # << >> /\ i + 1 \in 1 .. Len(stored') + 1 /\ (i + 1) - 1 = i
    BY <1>1, <1>2 DEF AnswerIInv, TextInv
  <1>24. TextInv'
    BY <1>21, <1>22, <1>23 DEF TextInv
  <1>25. QED
    BY <1>11, <1>12, <1>24

(* Every place in a listing is the first, an entry's or what follows one.  *)
LEMMA Places ==
  ASSUME NEW n \in Nat, NEW i \in 1 .. 2 * n + 1
  PROVE  i = 1 \/ \E k \in 1 .. n : i = 2 * k \/ i = 2 * k + 1
  <1>1. CASE i # 1
    <2>1. i \div 2 \in 1 .. n
      BY <1>1
    <2>2. i = 2 * (i \div 2) \/ i = 2 * (i \div 2) + 1
      BY <1>1
    <2>3. QED
      BY <2>1, <2>2
  <1>2. QED
    BY <1>1

(* The end of createJsonFromList: the closing takes the place of the last  *)
(* separator, and the text lists every terminal.                           *)
LEMMA PrintClosingText ==
  ASSUME AnswerIInv, PrintClosing
  PROVE  /\ respJson' \in Seq(Pieces) /\ WellFormed(respJson')
         /\ Len(stored) \in Nat \ {0} /\ Len(respJson') = 2 * Len(stored) + 1
         /\ \A k \in 1 .. Len(stored) :
              /\ respJson'[2 * k].part = "entry" /\ respJson'[2 * k].id = k
              /\ respJson'[2 * k].json = node[stored[k]].transactions
  <1>1. pc = "createJsonFromList" /\ runner = NULL
        /\ respJson' = PrintAt(respJson, lastIndex - 2, Literal("close", 4))
    BY DEF PrintClosing
  <1> DEFINE n == Len(stored)
             m == 2 * n
  <1>2. Printed(n) /\ n \in Nat \ {0}
    <2>1. PICK i \in 1 .. Len(stored) + 1 :
            Printed(i - 1) /\ Len(stored) \in Nat \ {0} /\ (runner = NULL <=> i = Len(stored) + 1)
      BY <1>1, ListedFacts
    <2>2. i - 1 = n
      BY <1>1, <2>1
    <2>3. QED
      BY <2>1, <2>2
  <1>3. /\ m + 1 \in 0 .. Len(respJson) /\ lastIndex \in Nat
        /\ respJson[m + 1].at + respJson[m + 1].size = lastIndex
        /\ respJson[1].part = "open"
        /\ \A k \in 1 .. n :
             /\ respJson[2 * k].part = "entry" /\ respJson[2 * k].id = k
             /\ respJson[2 * k].json = node[stored[k]].transactions
             /\ respJson[2 * k + 1].part = "separator" /\ respJson[2 * k + 1].size = 2
        /\ \A j \in 1 .. m : respJson[j].at + respJson[j].size = respJson[j + 1].at
        /\ \A j, k \in 1 .. m + 1 : j < k => respJson[j].at < respJson[k].at
    BY <1>2, PrintedFacts DEF AnswerIInv
  <1>4. Len(respJson) = m + 1
    BY <1>2 DEF Printed
  <1>5. respJson \in Seq(Pieces)
    BY DEF AnswerIInv, TypeOK
  <1>6. \A j \in 1 .. m + 1 : respJson[j].at \in Nat
    <2>1. \A j \in 1 .. m + 1 : respJson[j] \in Pieces
      BY <1>4, <1>5, SeqFacts
    <2>2. QED
      BY <2>1 DEF Pieces
  <1>7. respJson[m + 1].size = 2
    BY <1>2, <1>3
  <1> HIDE DEF n
  <1>8. m \in Nat /\ m + 1 \in 1 .. m + 1 /\ m = 2 * n /\ n \in Nat /\ n > 0
    BY <1>2
  <1> HIDE DEF m
  <1>9. respJson[m + 1].at = lastIndex - 2 /\ lastIndex - 2 \in Nat
    BY <1>3, <1>6, <1>7, <1>8, SMTT(60)
  <1>10. m \in 0 .. Len(respJson) /\ \A j \in 1 .. Len(respJson) : respJson[j].at < lastIndex - 2 <=> j <= m
    <2>1. \A j \in 1 .. m : respJson[j].at < lastIndex - 2
      BY <1>3, <1>8, <1>9
    <2>2. \A j \in 1 .. m + 1 : j \in 1 .. m \/ j = m + 1
      BY <1>8
    <2>3. QED
      BY <1>4, <1>8, <1>9, <2>1, <2>2
  <1>11. /\ respJson' \in Seq(Pieces) /\ Len(respJson') = m + 1
         /\ \A j \in 1 .. m : respJson'[j] = respJson[j]
         /\ respJson'[m + 1] = PieceAt(lastIndex - 2, Literal("close", 4))
    <2>1. Literal("close", 4) \in PieceFields
      BY LiteralFacts DEF Parts
    <2>3. Before(respJson, lastIndex - 2, m)
      BY <1>10 DEF Before
    <2>4. PrintedOver(respJson', respJson, lastIndex - 2, Literal("close", 4), m)
      BY <1>1, <1>5, <1>9, <2>1, <2>3, PrintAtFacts
    <2>5. QED
      BY <2>4 DEF PrintedOver
  <1>12. respJson'[m + 1].at = lastIndex - 2 /\ respJson'[m + 1].part = "close"
    BY <1>11 DEF PieceAt, Literal
  <1>13. \A k \in 1 .. n :
           /\ respJson'[2 * k].part = "entry" /\ respJson'[2 * k].id = k
           /\ respJson'[2 * k].json = node[stored[k]].transactions
    <2>1. TAKE k \in 1 .. n
    <2>2. 2 * k \in 1 .. m
      BY <1>8
    <2>3. respJson'[2 * k] = respJson[2 * k]
      BY <2>2, <1>11
    <2>4. respJson[2 * k].part = "entry" /\ respJson[2 * k].id = k
          /\ respJson[2 * k].json = node[stored[k]].transactions
      BY <1>3
    <2>5. QED
      BY <2>3, <2>4
  <1>14. \A k \in 1 .. n : k # n => 2 * k + 1 \in 1 .. m /\ respJson'[2 * k + 1].part = "separator"
    <2>1. TAKE k \in 1 .. n
    <2>2. HAVE k # n
    <2>3. 2 * k + 1 \in 1 .. m
      BY <1>8, <2>2
    <2>4. QED
      BY <2>3, <1>3, <1>11, SMTT(60)
  <1>15. 1 \in 1 .. m /\ respJson'[1].part = "open"
    BY <1>3, <1>8, <1>11
  <1>16. \A j \in 1 .. m : respJson'[j].at + respJson'[j].size = respJson'[j + 1].at
    <2>1. TAKE j \in 1 .. m
    <2>2. CASE j = m
      BY <1>3, <1>8, <1>9, <1>11, <1>12, <2>2, SMTT(60)
    <2>3. CASE j # m
      <3>1. j + 1 \in 1 .. m
        BY <1>8, <2>3
      <3>2. QED
        BY <3>1, <1>3, <1>11, SMTT(60)
    <2>4. QED
      BY <2>2, <2>3
  <1>17. ASSUME NEW i \in 1 .. m + 1
         PROVE  /\ respJson'[i].part = "separator" =>
                     i \in 2 .. m /\ respJson'[i - 1].part = "entry" /\ respJson'[i + 1].part = "entry"
                /\ respJson'[i].part = "close" => i = m + 1
    <2>1. CASE i = 1
      BY <2>1, <1>15
    <2>2. CASE i = m + 1
      BY <2>2, <1>12
    <2>3. ASSUME NEW k \in 1 .. n, i = 2 * k
          PROVE  respJson'[i].part = "entry"
      BY <2>3, <1>13
    <2>4. ASSUME NEW k \in 1 .. n, i = 2 * k + 1, k # n
          PROVE  /\ respJson'[i].part = "separator" /\ i \in 2 .. m
                 /\ respJson'[i - 1].part = "entry" /\ respJson'[i + 1].part = "entry"
      <3>1. k + 1 \in 1 .. n /\ i - 1 = 2 * k /\ i + 1 = 2 * (k + 1) /\ i \in 2 .. m
        BY <2>4, <1>8
      <3>2. respJson'[i].part = "separator"
        BY <2>4, <1>14
      <3>3. QED
        BY <3>1, <3>2, <1>13
    <2>5. i = 1 \/ i = m + 1 \/ \E k \in 1 .. n : i = 2 * k \/ (i = 2 * k + 1 /\ k # n)
      <3>1. i = 1 \/ \E k \in 1 .. n : i = 2 * k \/ i = 2 * k + 1
        BY <1>8, Places
      <3>2. QED
        BY <3>1, <1>8
    <2>6. QED
      BY <2>1, <2>2, <2>3, <2>4, <2>5
  <1>18. DOMAIN respJson' = 1 .. m + 1 /\ Len(respJson') - 1 = m
    BY <1>8, <1>11, SeqFacts
  <1>19. WellFormed(respJson')
    BY <1>11, <1>12, <1>15, <1>16, <1>17, <1>18 DEF WellFormed
  <1>20. QED
    BY <1>2, <1>8, <1>11, <1>13, <1>19 DEF n

(* The answers around one piece, and the error.                            *)
LEMMA WrappedWellFormed ==
  ASSUME NEW piece \in PieceFields, piece.size > 0, piece.part \in {"entry", "id"},
         NEW new, new = Wrapped(piece)
  PROVE  WellFormed(new)
  <1>1. /\ new \in Seq(Pieces) /\ Len(new) = 3
        /\ new[1] = PieceAt(0, Literal("open", 16)) /\ new[2] = PieceAt(16, piece)
        /\ new[3] = PieceAt(16 + piece.size, Literal("close", 4))
    BY WrappedFacts
  <1>2. /\ new[1].at = 0 /\ new[1].size = 16 /\ new[1].part = "open"
        /\ new[2].at = 16 /\ new[2].size = piece.size /\ new[2].part = piece.part
        /\ new[3].at = 16 + piece.size /\ new[3].part = "close"
    BY <1>1 DEF PieceAt, Literal
  <1>3. DOMAIN new = 1 .. 3
    BY <1>1, SeqFacts
  <1>4. \A i \in 1 .. 2 : new[i].at + new[i].size = new[i + 1].at
    BY <1>2
  <1>5. \A i \in 1 .. 3 : new[i].part # "separator" /\ (new[i].part = "close" => i = 3)
    BY <1>2
  <1>6. QED
    BY <1>1, <1>2, <1>3, <1>4, <1>5 DEF WellFormed

(* The answer for an id that no terminal has is well formed.               *)
LEMMA NoSuchTerminalFacts ==
  /\ NoSuchTerminal \in Seq(Pieces) /\ Len(NoSuchTerminal) = 1
  /\ WellFormed(NoSuchTerminal)
  <1>1. Literal("error", 39) \in PieceFields
    BY LiteralFacts DEF Parts
  <1>2. /\ NoSuchTerminal \in Seq(Pieces) /\ Len(NoSuchTerminal) = 1
        /\ NoSuchTerminal[1] = PieceAt(0, Literal("error", 39))
    BY <1>1, FirstPrintFacts DEF NoSuchTerminal
  <1>3. NoSuchTerminal[1].part = "error"
    BY <1>2 DEF PieceAt, Literal
  <1> HIDE DEF NoSuchTerminal
  <1>4. DOMAIN NoSuchTerminal = 1 .. 1
    BY <1>2, SeqFacts
  <1>5. QED
    BY <1>2, <1>3, <1>4 DEF WellFormed

(* What a finished search returns, in terms of the terminals.              *)
LEMMA SearchFacts ==
  ASSUME AnswerIInv, GetTerminalById
  PROVE  \/ /\ respJson' = NoSuchTerminal /\ pc' = "loop"
            /\ op.termId \notin 1 .. Len(stored)
         \/ /\ pc' = "loop" /\ op.termId \in 1 .. Len(stored)
            /\ stored[op.termId] \in Blocks /\ node[stored[op.termId]].id = op.termId
            /\ node[stored[op.termId]].transactions \in Payloads
            /\ respJson' = Wrapped(Entry(stored[op.termId]))
         \/ UNCHANGED <<respJson, pc>>
  <1>1. pc = "getTerminalById"
    BY DEF GetTerminalById
  <1>2. PICK i \in 1 .. Len(stored) + 1 : At(i) /\ op.termId \notin 1 .. i - 1
    BY <1>1 DEF AnswerIInv, ListIInv, LoopInv
  <1>3. /\ Len(stored) \in Nat /\ DOMAIN stored = 1 .. Len(stored)
        /\ runner = NULL <=> i = Len(stored) + 1
        /\ runner # NULL => /\ i \in DOMAIN stored
                            /\ runner = stored[i] /\ runner \in Blocks
                            /\ node[runner].id = i
    BY <1>2, WalkFacts DEF AnswerIInv
  <1>4. CASE runner = NULL
    <2>1. respJson' = NoSuchTerminal /\ pc' = "loop"
      BY <1>4 DEF GetTerminalById
    <2>2. i - 1 = Len(stored)
      BY <1>3, <1>4
    <2>3. QED
      BY <1>2, <2>1, <2>2
  <1>5. CASE runner # NULL /\ node[runner].id = op.termId
    <2>1. respJson' = Wrapped(Entry(runner)) /\ pc' = "loop"
      BY <1>5 DEF GetTerminalById
    <2>2. i \in DOMAIN stored /\ runner = stored[i] /\ runner \in Blocks /\ op.termId = i
      BY <1>3, <1>5
    <2>3. node[stored[i]].id = i /\ node[stored[i]].transactions \in Payloads
      BY <2>2 DEF AnswerIInv, ListIInv, ListInv
    <2>4. QED
      BY <1>3, <2>1, <2>2, <2>3
  <1>6. CASE runner # NULL /\ node[runner].id # op.termId
    BY <1>6 DEF GetTerminalById
  <1>7. QED
    BY <1>4, <1>5, <1>6

(* The answer about one terminal.                                          *)
LEMMA OneEntryFacts ==
  ASSUME NEW b \in Blocks, NEW id \in Nat, node[b].id = id, node[b].transactions \in Payloads,
         NEW new, new = Wrapped(Entry(b))
  PROVE  /\ new \in Seq(Pieces) /\ Len(new) = 3 /\ WellFormed(new)
         /\ new[2].part = "entry" /\ new[2].id = id /\ new[2].json = node[b].transactions
  <1>1. /\ Entry(b) \in PieceFields /\ Entry(b).part = "entry" /\ Entry(b).id = id
        /\ Entry(b).json = node[b].transactions /\ Entry(b).size > 0
    BY EntryFacts
  <1>2. new \in Seq(Pieces) /\ Len(new) = 3 /\ new[2] = PieceAt(16, Entry(b))
    BY <1>1, WrappedFacts
  <1>3. WellFormed(new)
    BY <1>1, WrappedWellFormed
  <1>4. QED
    BY <1>1, <1>2, <1>3 DEF PieceAt

(* The answer to a POST.                                                   *)
LEMMA NewIdWrapped ==
  ASSUME NEW id \in Nat, NEW new, new = Wrapped(NewId(id))
  PROVE  /\ new \in Seq(Pieces) /\ Len(new) = 3 /\ WellFormed(new)
         /\ new[2].part = "id" /\ new[2].id = id
  <1>1. /\ NewId(id) \in PieceFields /\ NewId(id).part = "id" /\ NewId(id).id = id
        /\ NewId(id).size > 0
    BY NewIdFacts
  <1>2. new \in Seq(Pieces) /\ Len(new) = 3 /\ new[2] = PieceAt(16, NewId(id))
    BY <1>1, WrappedFacts
  <1>3. WellFormed(new)
    BY <1>1, WrappedWellFormed
  <1>4. QED
    BY <1>1, <1>2, <1>3 DEF PieceAt

(* A listing starts with the bare frame and the first terminal.            *)
LEMMA FrameText ==
  ASSUME AnswerIInv, ReadFromDb, respJson' = Frame, lastIndex' = EndOf(respJson') - 3,
         termList # NULL
  PROVE  respJson' \in Seq(Pieces) /\ lastIndex' \in Nat /\ TextInv'
  <1>1. /\ Frame \in Seq(Pieces) /\ Len(Frame) = 2 /\ Frame[2].at = 18 /\ Frame[2].size = 3
    BY FrameFacts DEF PieceAt, Literal
  <1>2. lastIndex' = 18
    BY <1>1 DEF EndOf
  <1>3. pc = "readFromDb" /\ runner' = termList /\ UNCHANGED stored
    BY DEF ReadFromDb
  <1>4. /\ Len(stored) \in Nat /\ 1 \in 1 .. Len(stored) + 1
        /\ termList = IF 1 > Len(stored) THEN NULL ELSE stored[1]
    BY <1>3, HeadFacts DEF AnswerIInv
  <1>5. stored # << >>
    <2>1. stored \in Seq(Blocks) /\ Len(stored) # 0
      BY <1>4 DEF AnswerIInv, ListIInv, ListTypeOK
    <2>2. QED
      BY <2>1, SeqFacts
  <1>6. At(1)' /\ 1 \in 1 .. Len(stored') + 1 /\ stored' # << >>
    BY <1>3, <1>4, <1>5 DEF At
  <1>7. Printed(1 - 1)'
    <2>1. 1 - 1 = 0
      OBVIOUS
    <2>2. QED
      BY <1>2, <2>1 DEF Printed
  <1>8. QED
    BY <1>1, <1>2, <1>6, <1>7 DEF TextInv

(* mgrInit leaves no text.                                                 *)
LEMMA InitAnswerIInv == Init => AnswerIInv
  <1> SUFFICES ASSUME Init PROVE AnswerIInv
    OBVIOUS
  <1>1. ListIInv
    BY InitListIInv
  <1>2. respJson = << >> /\ lastIndex = 0 /\ pc = "loop"
    BY DEF Init
  <1>3. TypeOK
    BY <1>1, <1>2 DEF TypeOK, ListIInv
  <1>4. TextInv /\ ResponseWellFormed
    BY <1>2 DEF TextInv, ResponseWellFormed
  <1>5. QED
    BY <1>1, <1>3, <1>4 DEF AnswerIInv

(* Every step leaves a text that is typed and printed as far as it goes.   *)
LEMMA NextTextInv ==
  ASSUME AnswerIInv, [Next]_listVars
  PROVE  respJson' \in Seq(Pieces) /\ lastIndex' \in Nat /\ TextInv' /\ ResponseWellFormed'
  <1> DEFINE Goal == respJson' \in Seq(Pieces) /\ lastIndex' \in Nat /\ TextInv' /\ ResponseWellFormed'
  <1>1. respJson \in Seq(Pieces) /\ lastIndex \in Nat
    BY DEF AnswerIInv, TypeOK
  <1>2. ASSUME NEW c \in Calls, Call(c) PROVE Goal
    <2>1. respJson' = << >> /\ lastIndex' = lastIndex /\ pc' # "createJsonFromList"
      BY <1>2 DEF Call
    <2>2. QED
      BY <1>1, <2>1 DEF TextInv, ResponseWellFormed
  <1>3. ASSUME ShutDown PROVE Goal
    <2>1. respJson' = respJson /\ lastIndex' = lastIndex /\ pc' = "freeNodeList"
      BY <1>3 DEF ShutDown
    <2>2. QED
      BY <1>1, <2>1 DEF TextInv, ResponseWellFormed
  <1>4. ASSUME NEW b \in Blocks, WriteToDb(b) PROVE Goal
    <2>1. respJson' = Wrapped(NewId(globalTermCtr + 1)) /\ lastIndex' = lastIndex /\ pc' = "loop"
      BY <1>4 DEF WriteToDb
    <2>2. globalTermCtr + 1 \in Nat
      BY DEF AnswerIInv, ListIInv, ListTypeOK
    <2>3. respJson' \in Seq(Pieces) /\ WellFormed(respJson')
      BY <2>1, <2>2, NewIdWrapped
    <2>4. QED
      BY <1>1, <2>1, <2>3 DEF TextInv, ResponseWellFormed, WellFormed
  <1>5. ASSUME OutOfMemory PROVE Goal
    <2>1. respJson' = respJson /\ lastIndex' = lastIndex /\ pc' = "exited"
      BY <1>5 DEF OutOfMemory
    <2>2. QED
      BY <1>1, <2>1 DEF TextInv, ResponseWellFormed
  <1>6. ASSUME ReadFromDb PROVE Goal
    <2>1. CASE respJson' = NoSuchTerminal /\ pc' = "loop" /\ lastIndex' = lastIndex
      <3>1. respJson' \in Seq(Pieces) /\ WellFormed(respJson')
        BY <2>1, NoSuchTerminalFacts DEF WellFormed
      <3>2. QED
        BY <1>1, <2>1, <3>1 DEF TextInv, ResponseWellFormed, WellFormed
    <2>2. CASE /\ respJson' = Frame /\ lastIndex' = EndOf(respJson') - 3
               /\ termList # NULL /\ pc' = "createJsonFromList"
      <3>1. ResponseWellFormed'
        BY <2>2 DEF ResponseWellFormed
      <3>2. QED
        BY <1>6, <2>2, <3>1, FrameText
    <2>3. CASE pc' = "getTerminalById" /\ UNCHANGED <<respJson, lastIndex>>
      BY <1>1, <2>3 DEF TextInv, ResponseWellFormed
    <2>4. QED
      BY <1>6, <2>1, <2>2, <2>3 DEF ReadFromDb
  <1>7. ASSUME GetTerminalById PROVE Goal
    <2>1. lastIndex' = lastIndex /\ pc = "getTerminalById"
      BY <1>7 DEF GetTerminalById
    <2>2. CASE respJson' = NoSuchTerminal /\ pc' = "loop"
      <3>1. respJson' \in Seq(Pieces) /\ WellFormed(respJson')
        BY <2>2, NoSuchTerminalFacts DEF WellFormed
      <3>2. QED
        BY <1>1, <2>1, <2>2, <3>1 DEF TextInv, ResponseWellFormed, WellFormed
    <2>3. CASE /\ pc' = "loop" /\ op.termId \in 1 .. Len(stored)
               /\ stored[op.termId] \in Blocks /\ node[stored[op.termId]].id = op.termId
               /\ node[stored[op.termId]].transactions \in Payloads
               /\ respJson' = Wrapped(Entry(stored[op.termId]))
      <3>1. op.termId \in Nat
        BY <2>3
      <3>2. respJson' \in Seq(Pieces) /\ WellFormed(respJson')
        BY <2>3, <3>1, OneEntryFacts
      <3>3. QED
        BY <1>1, <2>1, <2>3, <3>2 DEF TextInv, ResponseWellFormed, WellFormed
    <2>4. CASE UNCHANGED <<respJson, pc>>
      BY <1>1, <2>1, <2>4 DEF TextInv, ResponseWellFormed
    <2>5. QED
      BY <1>7, <2>2, <2>3, <2>4, SearchFacts
  <1>8. ASSUME PrintTerminal PROVE Goal
    <2>1. pc' = "createJsonFromList"
      BY <1>8 DEF PrintTerminal
    <2>2. QED
      BY <1>8, <2>1, PrintTerminalText DEF ResponseWellFormed
  <1>9. ASSUME PrintClosing PROVE Goal
    <2>1. pc' = "loop" /\ lastIndex' = lastIndex
      BY <1>9 DEF PrintClosing
    <2>2. respJson' \in Seq(Pieces) /\ WellFormed(respJson')
      BY <1>9, PrintClosingText
    <2>3. QED
      BY <1>1, <2>1, <2>2 DEF TextInv, ResponseWellFormed, WellFormed
  <1>10. ASSUME FreeNode PROVE Goal
    <2>1. respJson' = respJson /\ lastIndex' = lastIndex /\ pc' \in {"freeNodeList", "ended"}
      BY <1>10 DEF FreeNode
    <2>2. QED
      BY <1>1, <2>1 DEF TextInv, ResponseWellFormed
  <1>11. CASE UNCHANGED listVars
    <2>1. /\ UNCHANGED <<respJson, lastIndex, pc, stored, runner, node>>
      BY <1>11 DEF listVars
    <2>2. TextInv'
      BY <2>1 DEF AnswerIInv, TextInv, At, Printed, EndOf
    <2>3. ResponseWellFormed'
      BY <2>1 DEF AnswerIInv, ResponseWellFormed, WellFormed
    <2>4. QED
      BY <1>1, <2>1, <2>2, <2>3
  <1>12. QED
    BY <1>2, <1>3, <1>4, <1>5, <1>6, <1>7, <1>8, <1>9, <1>10, <1>11 DEF Next, Operation
-----------------------------------------------------------------------------
(* The inductive invariant of the list together with the text that is      *)
(* printed from it.                                                        *)
THEOREM AnswersAreInductive == Spec => []AnswerIInv
  <1>1. AnswerIInv /\ [Next]_listVars => AnswerIInv'
    <2> SUFFICES ASSUME AnswerIInv, [Next]_listVars PROVE AnswerIInv'
      OBVIOUS
    <2>1. ListIInv'
      BY NextListTypeOK, NextListInv, NextLoopInv DEF AnswerIInv, ListIInv
    <2>2. respJson' \in Seq(Pieces) /\ lastIndex' \in Nat /\ TextInv' /\ ResponseWellFormed'
      BY NextTextInv
    <2>3. TypeOK'
      BY <2>1, <2>2 DEF TypeOK, ListIInv
    <2>4. QED
      BY <2>1, <2>2, <2>3 DEF AnswerIInv
  <1>2. QED
    BY InitAnswerIInv, <1>1, PTL DEF Spec

(* The text buffer and its index are typed: every piece starts at or after *)
(* the start of the buffer.                                                *)
THEOREM TerminalsAreTyped == Spec => []TypeOK
  <1>1. AnswerIInv => TypeOK
    BY DEF AnswerIInv
  <1>2. QED
    BY AnswersAreInductive, <1>1, PTL

(* While it is printed, a listing is the frame or the terminals passed.    *)
THEOREM ListingsArePrintedInOrder == Spec => []TextInv
  <1>1. AnswerIInv => TextInv
    BY DEF AnswerIInv
  <1>2. QED
    BY AnswersAreInductive, <1>1, PTL

(* What createJsonFromList, readFromDb and writeToDb leave in the buffer   *)
(* is one text: its pieces adjoin, a separator stands between two entries, *)
(* and one closing ends what an opening begins.                            *)
THEOREM ResponsesAreWellFormed == Spec => []ResponseWellFormed
  <1>1. AnswerIInv => ResponseWellFormed
    BY DEF AnswerIInv
  <1>2. QED
    BY AnswersAreInductive, <1>1, PTL
-----------------------------------------------------------------------------
(* The refinement of the store.  What is stored, by terminal id.           *)
Db == [i \in DOMAIN stored |-> node[stored[i]].transactions]

(* It is a sequence, as long as the list.                                  *)
LEMMA DbFacts ==
  ASSUME ListIInv
  PROVE  /\ Db \in Seq(Payloads) /\ Len(Db) = Len(stored) /\ DOMAIN Db = 1 .. Len(stored)
         /\ Len(stored) \in Nat
         /\ \A i \in 1 .. Len(stored) : Db[i] = node[stored[i]].transactions
  <1>1. stored \in Seq(Blocks)
    BY DEF ListIInv, ListTypeOK
  <1>2. Len(stored) \in Nat /\ DOMAIN stored = 1 .. Len(stored)
    BY <1>1, SeqFacts
  <1>3. \A i \in 1 .. Len(stored) : node[stored[i]].transactions \in Payloads
    BY <1>2 DEF ListIInv, ListInv
  <1>4. Db = [i \in 1 .. Len(stored) |-> node[stored[i]].transactions]
    BY <1>2 DEF Db
  <1>5. Db \in Seq(Payloads)
    BY <1>2, <1>3, <1>4
  <1>6. QED
    BY <1>2, <1>4, <1>5

(* A function on 1 .. 1 is a sequence of one.                              *)
LEMMA OneElement ==
  ASSUME NEW f, DOMAIN f = 1 .. 1, f = [i \in 1 .. 1 |-> f[i]]
  PROVE  f = << f[1] >>
  OBVIOUS

(* How the answers are read: the error, one piece, all terminals.          *)
LEMMA AnswerOfError ==
  ASSUME respJson' = NoSuchTerminal
  PROVE  Answer' = Store!NoSuchTerminal
  <1>1. Len(respJson') = 1 /\ respJson' # << >>
    BY NoSuchTerminalFacts, SeqFacts
  <1>2. Entries' = [k \in 1 .. 0 |-> respJson'[2 * k]]
    <2>1. 1 \div 2 = 0
      OBVIOUS
    <2>2. QED
      BY <1>1, <2>1 DEF Entries
  <1>3. Entries' = << >> /\ DOMAIN Entries' = 1 .. 0
    BY <1>2
  <1> HIDE DEF NoSuchTerminal
  <1>4. [i \in DOMAIN Entries' |-> Entries'[i].id] = << >>
    BY <1>3
  <1>5. [i \in DOMAIN Entries' |-> Entries'[i].json] = << >>
    BY <1>3
  <1>6. ~ \E i \in DOMAIN Entries' : Entries'[i].part = "id"
    BY <1>3
  <1>7. QED
    BY <1>1, <1>3, <1>4, <1>5, <1>6 DEF Answer, Store!NoSuchTerminal

(* The answer of a POST or of one terminal is the store's.                 *)
LEMMA AnswerOfOne ==
  ASSUME respJson' \in Seq(Pieces), Len(respJson') = 3, respJson'[2].part \in {"id", "entry"}
  PROVE  Answer' = IF respJson'[2].part = "id" THEN Store!Posted(respJson'[2].id)
                   ELSE Store!TerminalsOf(<< respJson'[2].id >>, << respJson'[2].json >>)
  <1>1. respJson' # << >>
    <2>1. Len(<< >>) = 0
      OBVIOUS
    <2>2. QED
      BY <2>1
  <1>2. Entries' = [k \in 1 .. 1 |-> respJson'[2 * k]]
    <2>1. 3 \div 2 = 1
      OBVIOUS
    <2>2. QED
      BY <2>1 DEF Entries
  <1>3. DOMAIN Entries' = 1 .. 1 /\ Entries'[1] = respJson'[2] /\ Entries' # << >>
    BY <1>2
  <1>4. [i \in DOMAIN Entries' |-> Entries'[i].id] = << respJson'[2].id >>
    BY <1>3, OneElement
  <1>5. [i \in DOMAIN Entries' |-> Entries'[i].json] = << respJson'[2].json >>
    BY <1>3, OneElement
  <1>6. (\E i \in DOMAIN Entries' : Entries'[i].part = "id") <=> respJson'[2].part = "id"
    BY <1>3
  <1>7. QED
    BY <1>1, <1>3, <1>4, <1>5, <1>6 DEF Answer, Store!Posted, Store!TerminalsOf

(* The listing of all terminals is the store's.                            *)
LEMMA AnswerOfAll ==
  ASSUME NEW n \in Nat \ {0}, respJson' \in Seq(Pieces), Len(respJson') = 2 * n + 1,
         \A k \in 1 .. n : respJson'[2 * k].part = "entry" /\ respJson'[2 * k].id = k,
         NEW data, data = [k \in 1 .. n |-> respJson'[2 * k].json]
  PROVE  Answer' = Store!TerminalsOf([k \in 1 .. n |-> k], data)
  <1>1. respJson' # << >> /\ (2 * n + 1) \div 2 = n
    BY SeqFacts
  <1>2. Entries' = [k \in 1 .. n |-> respJson'[2 * k]]
    BY <1>1 DEF Entries
  <1>3. /\ DOMAIN Entries' = 1 .. n /\ \A k \in 1 .. n : Entries'[k] = respJson'[2 * k]
        /\ Entries' # << >> /\ 1 \in 1 .. n
    <2>1. DOMAIN Entries' = 1 .. n /\ \A k \in 1 .. n : Entries'[k] = respJson'[2 * k]
      BY <1>2
    <2>2. 1 \in 1 .. n /\ 1 \notin DOMAIN << >>
      OBVIOUS
    <2>3. QED
      BY <2>1, <2>2
  <1>4. [i \in DOMAIN Entries' |-> Entries'[i].id] = [k \in 1 .. n |-> k]
    BY <1>3
  <1>5. [i \in DOMAIN Entries' |-> Entries'[i].json] = data
    BY <1>3
  <1>6. \A i \in DOMAIN Entries' : Entries'[i].part # "id"
    BY <1>3, SMTT(60)
  <1>7. QED
    BY <1>1, <1>3, <1>4, <1>5, <1>6 DEF Answer, Store!TerminalsOf

(* writeToDb stores the transactions under the next id and answers it.     *)
LEMMA WriteStores ==
  ASSUME AnswerIInv, NEW b \in Blocks, WriteToDb(b)
  PROVE  Store!Store
  <1> DEFINE n == Len(stored)
             newNode == TerminalFromJson(globalTermCtr + 1, op.json)
  <1>1. /\ stored \in Seq(Blocks) /\ stored' = Append(stored, b)
        /\ \A i \in DOMAIN stored : stored[i] # b
        /\ termListTail # b /\ newNode \in Nodes /\ op.json \in Payloads
        /\ AddNodeToList(b, newNode) /\ ListTypeOK
    BY WriteFacts DEF AnswerIInv, ListIInv
  <1>2. /\ Db \in Seq(Payloads) /\ Len(Db) = n /\ DOMAIN Db = 1 .. n /\ n \in Nat
        /\ \A i \in 1 .. n : Db[i] = node[stored[i]].transactions
    BY DbFacts DEF AnswerIInv
  <1>3. /\ DOMAIN stored' = 1 .. n + 1 /\ stored'[n + 1] = b
        /\ \A i \in 1 .. n : stored'[i] = stored[i] /\ stored[i] \in Blocks \ {b}
    BY <1>1, <1>2, AppendFacts, SeqFacts
  <1>4. /\ node'[b] = newNode
        /\ \A x \in Blocks \ {b} : node'[x].transactions = node[x].transactions
    BY <1>1, AddNodeFacts
  <1>5. newNode.transactions = op.json
    BY DEF TerminalFromJson
  <1> HIDE DEF newNode
  <1>6. \A i \in 1 .. n + 1 :
           node'[stored'[i]].transactions = IF i = n + 1 THEN op.json ELSE Db[i]
    <2>1. TAKE i \in 1 .. n + 1
    <2>2. CASE i = n + 1
      BY <2>2, <1>3, <1>4, <1>5
    <2>3. CASE i # n + 1
      <3>1. i \in 1 .. n
        BY <2>3, <1>2
      <3>2. stored'[i] = stored[i] /\ stored[i] \in Blocks \ {b} /\ Db[i] = node[stored[i]].transactions
        BY <3>1, <1>2, <1>3
      <3>3. QED
        BY <2>3, <3>2, <1>4
    <2>4. QED
      BY <2>2, <2>3
  <1>7. Db' = [i \in 1 .. n + 1 |-> IF i = n + 1 THEN op.json ELSE Db[i]]
    BY <1>3, <1>6 DEF Db
  <1> HIDE DEF Db, n
  <1>8. Db' = Append(Db, op.json)
    <2>1. /\ Append(Db, op.json) \in Seq(Payloads)
          /\ DOMAIN Append(Db, op.json) = 1 .. n + 1
          /\ Append(Db, op.json)[n + 1] = op.json
          /\ \A i \in 1 .. n : Append(Db, op.json)[i] = Db[i]
      BY <1>1, <1>2, AppendFacts
    <2>2. Append(Db, op.json) = [i \in 1 .. n + 1 |-> Append(Db, op.json)[i]]
      <3> DEFINE longer == Append(Db, op.json)
      <3>1. longer \in Seq(Payloads) /\ DOMAIN longer = 1 .. n + 1
        BY <2>1
      <3> HIDE DEF longer
      <3>2. longer = [i \in DOMAIN longer |-> longer[i]]
        BY <3>1
      <3>3. longer = [i \in 1 .. n + 1 |-> longer[i]]
        BY <3>1, <3>2
      <3>4. QED
        BY <3>3 DEF longer
    <2>3. \A i \in 1 .. n + 1 : Append(Db, op.json)[i] = IF i = n + 1 THEN op.json ELSE Db[i]
      BY <1>2, <2>1
    <2>4. QED
      BY <1>7, <2>2, <2>3
  <1>9. pc = "writeToDb" /\ pc' = "loop" /\ op \in Calls /\ op.method = "POST" /\ op # NULL
    BY TLAssumption DEF WriteToDb, AnswerIInv, ListIInv, ListTypeOK, InOperation
  <1>10. respJson' = Wrapped(NewId(n + 1)) /\ n + 1 \in Nat
    BY <1>2 DEF WriteToDb, AnswerIInv, ListIInv, ListInv, n
  <1>11. Answer' = Store!Posted(n + 1)
    <2>1. respJson' \in Seq(Pieces) /\ Len(respJson') = 3 /\ respJson'[2].part = "id" /\ respJson'[2].id = n + 1
      BY <1>10, NewIdWrapped
    <2>2. QED
      BY <2>1, AnswerOfOne
  <1>12. Store!Posted(n + 1) = Store!AnswerToPost(Db)
    BY <1>2 DEF Store!AnswerToPost
  <1>13. QED
    BY <1>8, <1>9, <1>11, <1>12 DEF Store!Store, InOperation, Db

(* An operation that reads returns what the store holds.                   *)
LEMMA ReadFetches ==
  ASSUME AnswerIInv, pc \in InOperation \ {"writeToDb"}, pc' = "loop", UNCHANGED <<node, stored>>,
         Answer' = Store!AnswerToGet(Db, op.termId)
  PROVE  Store!Fetch
  <1>1. op \in Calls /\ op.method = "GET" /\ op # NULL
    BY TLAssumption DEF AnswerIInv, ListIInv, ListTypeOK
  <1>2. Db' = Db
    BY DEF Db
  <1>3. QED
    BY <1>1, <1>2 DEF Store!Fetch, InOperation, Db

(* The search for a terminal returns what was posted under its id.         *)
LEMMA SearchFetches ==
  ASSUME AnswerIInv, GetTerminalById
  PROVE  Store!Fetch \/ UNCHANGED <<respJson, pc>>
  <1>1. pc = "getTerminalById" /\ UNCHANGED <<node, stored>>
    BY DEF GetTerminalById
  <1>2. op.termId # ALL
    BY <1>1 DEF AnswerIInv, ListIInv, LoopInv
  <1>3. /\ Db \in Seq(Payloads) /\ DOMAIN Db = 1 .. Len(stored)
        /\ \A i \in 1 .. Len(stored) : Db[i] = node[stored[i]].transactions
    BY DbFacts DEF AnswerIInv
  <1>4. CASE respJson' = NoSuchTerminal /\ pc' = "loop" /\ op.termId \notin 1 .. Len(stored)
    <2>1. Answer' = Store!NoSuchTerminal
      BY <1>4, AnswerOfError
    <2>2. Store!NoSuchTerminal = Store!AnswerToGet(Db, op.termId)
      BY <1>2, <1>3, <1>4 DEF Store!AnswerToGet, Store!ALL, ALL
    <2>3. Answer' = Store!AnswerToGet(Db, op.termId)
      BY <2>1, <2>2
    <2>4. QED
      BY <1>1, <1>4, <2>3, ReadFetches DEF InOperation
  <1>5. CASE /\ pc' = "loop" /\ op.termId \in 1 .. Len(stored)
             /\ stored[op.termId] \in Blocks /\ node[stored[op.termId]].id = op.termId
             /\ node[stored[op.termId]].transactions \in Payloads
             /\ respJson' = Wrapped(Entry(stored[op.termId]))
    <2>1. op.termId \in Nat
      BY <1>5
    <2>2. /\ respJson' \in Seq(Pieces) /\ Len(respJson') = 3 /\ respJson'[2].part = "entry"
          /\ respJson'[2].id = op.termId /\ respJson'[2].json = node[stored[op.termId]].transactions
      BY <1>5, <2>1, OneEntryFacts
    <2>3. Answer' = Store!TerminalsOf(<< op.termId >>, << Db[op.termId] >>)
      BY <1>3, <1>5, <2>2, AnswerOfOne
    <2>4. Answer' = Store!AnswerToGet(Db, op.termId)
      BY <1>2, <1>3, <1>5, <2>3 DEF Store!AnswerToGet, Store!ALL, ALL
    <2>5. QED
      BY <1>1, <1>5, <2>4, ReadFetches DEF InOperation
  <1>6. QED
    BY <1>4, <1>5, SearchFacts

(* A GET of all terminals returns the whole store in the order of the ids. *)
LEMMA ListingFetches ==
  ASSUME AnswerIInv, PrintClosing
  PROVE  Store!Fetch
  <1> DEFINE n == Len(stored)
  <1>1. pc = "createJsonFromList" /\ pc' = "loop" /\ UNCHANGED <<node, stored>>
    BY DEF PrintClosing
  <1>2. op.termId = ALL
    BY <1>1 DEF AnswerIInv, ListIInv, LoopInv
  <1>3. /\ Db \in Seq(Payloads) /\ DOMAIN Db = 1 .. n /\ Len(Db) = n
        /\ \A i \in 1 .. n : Db[i] = node[stored[i]].transactions
    BY DbFacts DEF AnswerIInv
  <1>4. /\ respJson' \in Seq(Pieces) /\ n \in Nat \ {0} /\ Len(respJson') = 2 * n + 1
        /\ \A k \in 1 .. n :
             /\ respJson'[2 * k].part = "entry" /\ respJson'[2 * k].id = k
             /\ respJson'[2 * k].json = node[stored[k]].transactions
    BY PrintClosingText
  <1> HIDE DEF n
  <1>5. Db = [k \in 1 .. n |-> respJson'[2 * k].json]
    <2>1. Db = [k \in 1 .. n |-> Db[k]]
      BY <1>3
    <2>2. QED
      BY <1>3, <1>4, <2>1, ZenonT(60)
  <1>6. Answer' = Store!TerminalsOf([k \in 1 .. n |-> k], Db)
    BY <1>4, <1>5, AnswerOfAll
  <1>7. Db # << >>
    BY <1>3, <1>4, SeqFacts
  <1>8. Answer' = Store!AnswerToGet(Db, op.termId)
    BY <1>2, <1>3, <1>6, <1>7 DEF Store!AnswerToGet, Store!ALL, ALL
  <1>9. QED
    BY <1>1, <1>8, ReadFetches DEF InOperation

(* A GET of all terminals of an empty store, and the start of the loops.   *)
LEMMA ReadStarts ==
  ASSUME AnswerIInv, ReadFromDb
  PROVE  Store!Fetch \/ (pc' \in InOperation /\ UNCHANGED <<node, stored, op>>)
  <1>1. pc = "readFromDb" /\ UNCHANGED <<node, stored, op>>
    BY DEF ReadFromDb
  <1>2. CASE op.termId = ALL /\ termList = NULL
    <2>1. respJson' = NoSuchTerminal /\ pc' = "loop"
      BY <1>2 DEF ReadFromDb
    <2>2. Answer' = Store!NoSuchTerminal
      BY <2>1, AnswerOfError
    <2>3. Len(stored) = 0
      <3>1. /\ Len(stored) \in Nat
            /\ termList = IF 1 > Len(stored) THEN NULL ELSE stored[1]
        BY <1>1, HeadFacts DEF AnswerIInv
      <3>2. stored \in Seq(Blocks)
        BY DEF AnswerIInv, ListIInv, ListTypeOK
      <3>3. Len(stored) # 0 => 1 \in 1 .. Len(stored) /\ stored[1] \in Blocks
        BY <3>1, <3>2, SeqFacts
      <3>4. QED
        BY <1>2, <3>1, <3>3, TLAssumption
    <2>4. Db \in Seq(Payloads) /\ DOMAIN Db = 1 .. 0 /\ Len(Db) = 0
      BY <2>3, DbFacts DEF AnswerIInv
    <2>5. Db = << >>
      BY <2>4, SeqFacts
    <2>6. Answer' = Store!AnswerToGet(Db, op.termId)
      BY <1>2, <2>2, <2>4, <2>5 DEF Store!AnswerToGet, Store!ALL, ALL
    <2>7. QED
      BY <1>1, <2>1, <2>6, ReadFetches DEF InOperation
  <1>3. CASE ~(op.termId = ALL /\ termList = NULL)
    BY <1>1, <1>3 DEF ReadFromDb, InOperation
  <1>4. QED
    BY <1>2, <1>3
-----------------------------------------------------------------------------
(* The linked list and the text buffer of equipmentMgr.c implement         *)
(* TerminalStore for any heap and any requests: a POST is stored under the *)
(* next id, a GET by id answers exactly what was posted under it, a GET of *)
(* all lists every terminal once, in the order of the ids.                 *)
THEOREM ListImplementsStore == Spec => ImplementsStore
  <1>1. Init => Store!InitStore
    <2> SUFFICES ASSUME Init PROVE Store!InitStore
      OBVIOUS
    <2>1. stored = << >> /\ pc = "loop" /\ respJson = << >>
      BY DEF Init
    <2>2. Db = << >>
      <3>1. ListIInv
        BY InitListIInv
      <3>2. Db \in Seq(Payloads) /\ Len(Db) = 0
        BY <2>1, <3>1, DbFacts
      <3>3. QED
        BY <3>2, SeqFacts
    <2>3. Answer = NULL
      BY <2>1 DEF Answer
    <2>4. QED
      BY <2>1, <2>2, <2>3 DEF Store!InitStore, InOperation, Db
  <1>2. AnswerIInv /\ [Next]_listVars => [Store!NextStore]_(Store!storeVars)
    <2> SUFFICES ASSUME AnswerIInv, [Next]_listVars
                 PROVE  Store!NextStore \/ UNCHANGED Store!storeVars
      OBVIOUS
    <2> USE DEF Store!NextStore
    <2>1. ASSUME NEW c \in Calls, Call(c) PROVE Store!Invoke(c)
      <3>1. /\ pc = "loop" /\ op' = c /\ pc' \in {"readFromDb", "writeToDb"}
            /\ UNCHANGED <<node, stored>>
        BY <2>1 DEF Call
      <3>2. QED
        BY <3>1 DEF Store!Invoke, InOperation
    <2>2. ASSUME UNCHANGED <<node, stored, op>>, pc \in InOperation, pc' \in InOperation \cup {"exited"}
          PROVE  UNCHANGED Store!storeVars
      BY <2>2 DEF Store!storeVars, InOperation
    <2>3. ASSUME UNCHANGED <<node, stored, respJson>>, pc \notin InOperation \cup {"exited"},
                 pc' \notin InOperation \cup {"exited"}
          PROVE  UNCHANGED Store!storeVars
      BY <2>3 DEF Store!storeVars, Answer, Entries
    <2>4. CASE ShutDown
      BY <2>3, <2>4 DEF ShutDown, InOperation
    <2>5. ASSUME NEW b \in Blocks, WriteToDb(b) PROVE Store!NextStore
      BY <2>5, WriteStores
    <2>6. CASE OutOfMemory
      BY <2>2, <2>6 DEF OutOfMemory, InOperation
    <2>7. CASE ReadFromDb
      <3>1. CASE Store!Fetch
        BY <3>1
      <3>2. CASE pc' \in InOperation /\ UNCHANGED <<node, stored, op>>
        <4>1. pc \in InOperation
          BY <2>7 DEF ReadFromDb, InOperation
        <4>2. QED
          BY <2>2, <3>2, <4>1
      <3>3. QED
        BY <2>7, <3>1, <3>2, ReadStarts
    <2>8. CASE GetTerminalById
      <3>1. CASE Store!Fetch
        BY <3>1
      <3>2. CASE UNCHANGED <<respJson, pc>>
        BY <2>2, <2>8, <3>2 DEF GetTerminalById, InOperation
      <3>3. QED
        BY <2>8, <3>1, <3>2, SearchFetches
    <2>9. CASE PrintTerminal
      BY <2>2, <2>9 DEF PrintTerminal, InOperation
    <2>10. CASE PrintClosing
      BY <2>10, ListingFetches
    <2>11. CASE FreeNode
      BY <2>3, <2>11 DEF FreeNode, InOperation
    <2>12. CASE UNCHANGED listVars
      BY <2>12 DEF listVars, Store!storeVars, Answer, Entries
    <2>13. QED
      BY <2>1, <2>4, <2>5, <2>6, <2>7, <2>8, <2>9, <2>10, <2>11, <2>12 DEF Next, Operation
  <1>3. QED
    BY AnswersAreInductive, <1>1, <1>2, PTL DEF Spec, ImplementsStore, Store!SpecStore
=============================================================================

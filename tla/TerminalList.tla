---------------------------- MODULE TerminalList ----------------------------
(***************************************************************************)
(* The terminal database of equipmentMgr.c: a singly linked list of        *)
(* malloc'ed terminals with a head, a tail and an id counter, and the      *)
(* answers sprintf'ed from it into a request's json buffer.  Only the      *)
(* manager thread touches it, from mgrInit to freeNodeList.  A loop makes  *)
(* one step per iteration; an operation without a loop is one step.        *)
(*                                                                         *)
(* A text is kept as the pieces that were printed and the offset of each,  *)
(* so that the index arithmetic of createJsonFromList can be checked.      *)
(***************************************************************************)
EXTENDS Integers, Sequences, FiniteSets

CONSTANTS Blocks,      \* heap blocks malloc may return for a terminal
          Payloads,    \* the transactions a POST may carry
          Length,      \* Length[p]: characters of payload p
          Calls,       \* operations the manager may be asked for
          NULL         \* the null pointer

ALL == -1                 \* equipmentMgr.h: a GET of every terminal
MAXRESPONSESIZE == 1024   \* runHttpServer.h, and DATASIZE of equipmentMgr.h

ASSUME TLAssumption ==
  /\ NULL \notin Blocks \cup Payloads \cup Calls
  /\ Length \in [Payloads -> Nat]
  /\ Calls \subseteq [method : {"GET", "POST"}, termId : Int, json : Payloads \cup {NULL}]
  /\ \A c \in Calls : c.method = "POST" => c.json # NULL

VARIABLES
  termList,        \* head of the list
  termListTail,    \* tail of the list
  globalTermCtr,   \* the last id given out
  node,            \* the fields of every block: id, transactions, next
  live,            \* blocks that are allocated and not freed
  pc,              \* where the manager is
  op,              \* the request it handles
  runner,          \* the local pointer of its loop (headTerm in freeNodeList), or NULL
  respJson,        \* the answer: pieces of text and where they start
  lastIndex,       \* createJsonFromList's index of the end of the answer
  stored           \* history: the blocks of the terminals, oldest first

listVars == <<termList, termListTail, globalTermCtr, node, live, pc, op, runner,
              respJson, lastIndex, stored>>
-----------------------------------------------------------------------------
(* Decimal digits of a positive id, as %d prints it.                       *)
Digits(n) == 1 + Cardinality({k \in 1 .. 9 : n >= 10 ^ k})

(* postIdTransWraper and postIdWraper filled in, and the rest of the text. *)
EntrySize(id, json) == 36 + Digits(id) + Length[json]
Entry(b) ==
  [part |-> "entry", size |-> EntrySize(node[b].id, node[b].transactions),
   id |-> node[b].id, json |-> node[b].transactions]
NewId(id) == [part |-> "id", size |-> 14 + Digits(id), id |-> id, json |-> NULL]
Literal(part, size) == [part |-> part, size |-> size, id |-> 0, json |-> NULL]

(* sprintf(text + index, ...): what started before index is kept, the      *)
(* string ends where the new piece ends.                                   *)
PieceAt(index, piece) ==
  [at |-> index, part |-> piece.part, size |-> piece.size, id |-> piece.id, json |-> piece.json]
PrintAt(text, index, piece) ==
  LET kept == {i \in DOMAIN text : text[i].at < index}
  IN  Append([i \in kept |-> text[i]], PieceAt(index, piece))

(* basicResponseWraper around one piece.                                   *)
Wrapped(piece) ==
  LET body == PrintAt(PrintAt(<< >>, 0, Literal("open", 16)), 16, piece)
  IN  PrintAt(body, 16 + piece.size, Literal("close", 4))

NoSuchTerminal == PrintAt(<< >>, 0, Literal("error", 39))

(* basicResponseWraper around a blank: the entries go before its closing.  *)
Frame == PrintAt(PrintAt(<< >>, 0, Literal("open", 18)), 18, Literal("close", 3))

EndOf(text) == text[Len(text)].at + text[Len(text)].size
-----------------------------------------------------------------------------
(* Mutant: every request is read from the database.                         *)
CallAlwaysReads(c) ==
  /\ pc = "loop"
  /\ op' = c
  /\ pc' = "readFromDb"
  /\ respJson' = << >>
  /\ UNCHANGED <<termList, termListTail, globalTermCtr, node, live, runner, lastIndex, stored>>

(* mgrRoutine picks the database operation of the next request.            *)
Call(c) ==
  /\ pc = "loop"
  /\ op' = c
  /\ pc' = IF c.method = "GET" THEN "readFromDb" ELSE "writeToDb"
  /\ respJson' = << >>
  /\ UNCHANGED <<termList, termListTail, globalTermCtr, node, live, runner, lastIndex, stored>>

(* createNode: malloc, and the next id.                                    *)
CreateNode(b) ==
  /\ b \notin live
  /\ live' = live \cup {b}
  /\ globalTermCtr' = globalTermCtr + 1
  /\ stored' = Append(stored, b)

(* What createTerminalFromJson puts into the new node.                     *)
TerminalFromJson(id, json) == [id |-> id, transactions |-> json, next |-> NULL]

(* Mutant: termListTail is not moved to the new node.                      *)
AddNodeToListKeepsTail(b, newNode) ==
  \/ /\ termListTail = NULL
     /\ termList' = b /\ termListTail' = b
     /\ node' = [node EXCEPT ![b] = newNode]
  \/ /\ termListTail # NULL
     /\ node' = [node EXCEPT ![b] = newNode, ![termListTail].next = b]
     /\ UNCHANGED <<termList, termListTail>>

(* addNodeToList.                                                          *)
AddNodeToList(b, newNode) ==
  \/ /\ termListTail = NULL
     /\ termList' = b /\ termListTail' = b
     /\ node' = [node EXCEPT ![b] = newNode]
  \/ /\ termListTail # NULL
     /\ node' = [node EXCEPT ![b] = newNode, ![termListTail].next = b]
     /\ termListTail' = b
     /\ UNCHANGED termList

(* writeToDb: the new terminal, and its id as the answer.                  *)
WriteToDb(b) ==
  LET id == globalTermCtr + 1
  IN  /\ pc = "writeToDb"
      /\ CreateNode(b)
      /\ AddNodeToList(b, TerminalFromJson(id, op.json))
      /\ respJson' = Wrapped(NewId(id))
      /\ pc' = "loop"
      /\ UNCHANGED <<op, runner, lastIndex>>

(* createNode: malloc fails and the process ends, exit(1).                 *)
OutOfMemory ==
  /\ pc = "writeToDb"
  /\ live = Blocks
  /\ pc' = "exited"
  /\ UNCHANGED <<termList, termListTail, globalTermCtr, node, live, op, runner, respJson, lastIndex, stored>>

(* readFromDb up to the first iteration of its loop: getAllTerminals and   *)
(* the frame createJsonFromList prints, or the start of getTerminalById.   *)
ReadFromDb ==
  /\ pc = "readFromDb"
  /\ runner' = termList
  /\ \/ /\ op.termId = ALL /\ termList = NULL
        /\ respJson' = NoSuchTerminal
        /\ pc' = "loop"
        /\ UNCHANGED lastIndex
     \/ /\ op.termId = ALL /\ termList # NULL
        /\ respJson' = Frame
        /\ lastIndex' = EndOf(respJson') - 3
        /\ pc' = "createJsonFromList"
     \/ /\ op.termId # ALL
        /\ pc' = "getTerminalById"
        /\ UNCHANGED <<respJson, lastIndex>>
  /\ UNCHANGED <<termList, termListTail, globalTermCtr, node, live, op, stored>>

(* Mutants: the walk stops at the last node without looking at it; it does  *)
(* not move on.                                                             *)
GetTerminalByIdStopsEarly ==
  LET atEnd == IF runner = NULL THEN TRUE ELSE node[runner].next = NULL
      found == ~atEnd /\ node[runner].id = op.termId
  IN  /\ pc = "getTerminalById"
      /\ respJson' = IF atEnd THEN NoSuchTerminal ELSE IF found THEN Wrapped(Entry(runner)) ELSE respJson
      /\ pc' = IF atEnd \/ found THEN "loop" ELSE pc
      /\ runner' = IF atEnd \/ found THEN NULL ELSE node[runner].next
      /\ UNCHANGED <<termList, termListTail, globalTermCtr, node, live, op, lastIndex, stored>>

GetTerminalByIdStays ==
  LET found == IF runner = NULL THEN FALSE ELSE node[runner].id = op.termId
  IN  /\ pc = "getTerminalById"
      /\ runner = NULL \/ found
      /\ respJson' = IF found THEN Wrapped(Entry(runner)) ELSE NoSuchTerminal
      /\ pc' = "loop"
      /\ runner' = NULL
      /\ UNCHANGED <<termList, termListTail, globalTermCtr, node, live, op, lastIndex, stored>>

(* One iteration of getTerminalById, or its return with what follows it.   *)
GetTerminalById ==
  /\ pc = "getTerminalById"
  /\ \/ /\ runner = NULL
        /\ respJson' = NoSuchTerminal
        /\ pc' = "loop"
        /\ UNCHANGED runner
     \/ /\ runner # NULL /\ node[runner].id = op.termId
        /\ respJson' = Wrapped(Entry(runner))
        /\ pc' = "loop"
        /\ runner' = NULL
     \/ /\ runner # NULL /\ node[runner].id # op.termId
        /\ runner' = node[runner].next
        /\ UNCHANGED <<respJson, pc>>
  /\ UNCHANGED <<termList, termListTail, globalTermCtr, node, live, op, lastIndex, stored>>

(* Mutant: lastIndex is not moved past the separator.                       *)
PrintTerminalKeepsIndex ==
  /\ pc = "createJsonFromList" /\ runner # NULL
  /\ LET separator == lastIndex + Entry(runner).size
     IN  /\ respJson' = PrintAt(PrintAt(respJson, lastIndex, Entry(runner)), separator, Literal("separator", 2))
         /\ lastIndex' = separator
  /\ runner' = node[runner].next
  /\ UNCHANGED <<termList, termListTail, globalTermCtr, node, live, pc, op, stored>>

(* One iteration of createJsonFromList's loop: an entry and a separator.   *)
PrintTerminal ==
  /\ pc = "createJsonFromList" /\ runner # NULL
  /\ LET separator == lastIndex + Entry(runner).size
     IN  /\ respJson' = PrintAt(PrintAt(respJson, lastIndex, Entry(runner)), separator, Literal("separator", 2))
         /\ lastIndex' = separator + 2
  /\ runner' = node[runner].next
  /\ UNCHANGED <<termList, termListTail, globalTermCtr, node, live, pc, op, stored>>

(* Mutant: the closing brackets follow the last separator.                  *)
PrintClosingAfterSeparator ==
  /\ pc = "createJsonFromList" /\ runner = NULL
  /\ respJson' = PrintAt(respJson, lastIndex, Literal("close", 4))
  /\ pc' = "loop"
  /\ UNCHANGED <<termList, termListTail, globalTermCtr, node, live, op, runner, lastIndex, stored>>

(* The end of the loop: the closing brackets, over the last separator.     *)
PrintClosing ==
  /\ pc = "createJsonFromList" /\ runner = NULL
  /\ respJson' = PrintAt(respJson, lastIndex - 2, Literal("close", 4))
  /\ pc' = "loop"
  /\ UNCHANGED <<termList, termListTail, globalTermCtr, node, live, op, runner, lastIndex, stored>>

(* Mutant: freeNodeList starts at the other end.                            *)
ShutDownFromTail ==
  /\ pc = "loop"
  /\ pc' = "freeNodeList"
  /\ runner' = termListTail
  /\ UNCHANGED <<termList, termListTail, globalTermCtr, node, live, op, respJson, lastIndex, stored>>

(* shutDown calls freeNodeList, which starts with headTerm = termList.     *)
ShutDown ==
  /\ pc = "loop"
  /\ pc' = "freeNodeList"
  /\ runner' = termList
  /\ UNCHANGED <<termList, termListTail, globalTermCtr, node, live, op, respJson, lastIndex, stored>>

(* Mutant: headTerm stays on the node that was freed.                       *)
FreeNodeKeepsHeadTerm ==
  /\ pc = "freeNodeList"
  /\ \/ /\ termList # NULL
        /\ termList' = node[termList].next
        /\ live' = live \ {runner}
        /\ UNCHANGED pc
     \/ /\ termList = NULL
        /\ pc' = "ended"
        /\ UNCHANGED <<termList, live>>
  /\ UNCHANGED <<termListTail, globalTermCtr, node, op, runner, respJson, lastIndex, stored>>

(* One iteration of freeNodeList's first loop, or its end.                 *)
FreeNode ==
  /\ pc = "freeNodeList"
  /\ \/ /\ termList # NULL
        /\ termList' = node[termList].next
        /\ live' = live \ {runner}
        /\ runner' = termList'
        /\ UNCHANGED pc
     \/ /\ termList = NULL
        /\ pc' = "ended"
        /\ UNCHANGED <<termList, live, runner>>
  /\ UNCHANGED <<termListTail, globalTermCtr, node, op, respJson, lastIndex, stored>>
-----------------------------------------------------------------------------
(* mgrInit.                                                                *)
Init ==
  /\ termList = NULL
  /\ termListTail = NULL
  /\ globalTermCtr = 0
  /\ node = [b \in Blocks |-> [id |-> 0, transactions |-> NULL, next |-> NULL]]
  /\ live = {}
  /\ pc = "loop"
  /\ op = NULL
  /\ runner = NULL
  /\ respJson = << >>
  /\ lastIndex = 0
  /\ stored = << >>

Operation ==
  (\E b \in Blocks : WriteToDb(b)) \/ OutOfMemory \/ ReadFromDb \/ GetTerminalById
  \/ PrintTerminal \/ PrintClosing \/ FreeNode

Next == (\E c \in Calls : Call(c)) \/ ShutDown \/ Operation

Spec == Init /\ [][Next]_listVars

(* The manager thread keeps running; nothing makes requests arrive.        *)
FairSpec == Spec /\ WF_listVars(Operation)
-----------------------------------------------------------------------------
Pointer == Blocks \cup {NULL}
InOperation == {"writeToDb", "readFromDb", "getTerminalById", "createJsonFromList"}
Pieces ==
  [at : Nat, part : {"open", "entry", "id", "separator", "close", "error"}, size : Nat,
   id : Nat, json : Payloads \cup {NULL}]

ListTypeOK ==
  /\ termList \in Pointer /\ termListTail \in Pointer /\ runner \in Pointer
  /\ globalTermCtr \in Nat
  /\ node \in [Blocks -> [id : Nat, transactions : Payloads \cup {NULL}, next : Pointer]]
  /\ live \subseteq Blocks
  /\ pc \in InOperation \cup {"loop", "freeNodeList", "ended", "exited"}
  /\ op \in Calls \cup {NULL}
  /\ (pc \in InOperation => op \in Calls)
  /\ (pc = "writeToDb" => op.method = "POST")
  /\ (pc \in InOperation \ {"writeToDb"} => op.method = "GET")
  /\ stored \in Seq(Blocks)

TypeOK == ListTypeOK /\ respJson \in Seq(Pieces) /\ lastIndex \in Nat

(* The terminals are linked in the order of their ids, which count up from *)
(* 1, and the tail is the last of them.                                    *)
ListInv ==
  /\ globalTermCtr = Len(stored)
  /\ \A i, j \in DOMAIN stored : stored[i] = stored[j] => i = j
  /\ \A i \in DOMAIN stored :
       /\ node[stored[i]].id = i
       /\ node[stored[i]].transactions \in Payloads
       /\ node[stored[i]].next = IF i = Len(stored) THEN NULL ELSE stored[i + 1]
  /\ termListTail = IF stored = << >> THEN NULL ELSE stored[Len(stored)]
  /\ pc \notin {"freeNodeList", "ended"} =>
       /\ termList = IF stored = << >> THEN NULL ELSE stored[1]
       /\ live = {stored[i] : i \in DOMAIN stored}

(* The loops: outside them there is no walk; in them a walk has passed      *)
(* terminals with other ids only, the listing is somewhere in the list,     *)
(* and freeing has freed what it passed.                                    *)
At(i) == runner = IF i > Len(stored) THEN NULL ELSE stored[i]

LoopInv ==
  /\ pc \in {"loop", "writeToDb", "readFromDb", "ended", "exited"} => runner = NULL
  /\ pc = "getTerminalById" =>
       op.termId # ALL /\ \E i \in 1 .. Len(stored) + 1 : At(i) /\ op.termId \notin 1 .. i - 1
  /\ pc = "createJsonFromList" => op.termId = ALL /\ \E i \in 1 .. Len(stored) + 1 : At(i)
  /\ pc = "freeNodeList" =>
       /\ runner = termList
       /\ \E i \in 1 .. Len(stored) + 1 : At(i) /\ live = {stored[j] : j \in i .. Len(stored)}
  /\ pc = "ended" => live = {} /\ termList = NULL

(* The text while createJsonFromList prints it: still the bare frame, or   *)
(* the terminals passed, in their order, each with a separator after it,   *)
(* and lastIndex where the text ends.                                      *)
Printed(n) ==
  IF n = 0 THEN respJson = Frame /\ lastIndex = 18
  ELSE /\ Len(respJson) = 2 * n + 1
       /\ lastIndex = EndOf(respJson)
       /\ respJson[1].part = "open"
       /\ \A k \in 1 .. n :
            /\ respJson[2 * k].part = "entry" /\ respJson[2 * k].id = k
            /\ respJson[2 * k].json = node[stored[k]].transactions
            /\ respJson[2 * k + 1].part = "separator" /\ respJson[2 * k + 1].size = 2
       /\ \A i \in 1 .. 2 * n : respJson[i].at + respJson[i].size = respJson[i + 1].at
       /\ \A i, j \in 1 .. 2 * n + 1 : i < j => respJson[i].at < respJson[j].at

TextInv ==
  pc = "createJsonFromList" =>
    /\ stored # << >>
    /\ \E i \in 1 .. Len(stored) + 1 : At(i) /\ Printed(i - 1)

(* The inductive invariant of the list, which no text of an answer enters. *)
ListIInv == ListTypeOK /\ ListInv /\ LoopInv
-----------------------------------------------------------------------------
(* No loop follows a pointer into freed memory, freeNodeList's included,   *)
(* and when the manager ends every terminal has been freed.                *)
NoUseAfterFree ==
  /\ runner # NULL => runner \in live
  /\ pc \in InOperation /\ termListTail # NULL => termListTail \in live
  /\ pc = "freeNodeList" /\ termList # NULL => termList = runner
  /\ pc = "ended" => live = {}

(* The finished answer is one well-formed text although it is printed      *)
(* piece by piece over a frame: pieces adjoin, separators stand only       *)
(* between entries, and one closing ends it.                               *)
WellFormed(text) ==
  /\ \A i \in 1 .. Len(text) - 1 : text[i].at + text[i].size = text[i + 1].at
  /\ \A i \in DOMAIN text :
       /\ text[i].part = "separator" =>
            i \in 2 .. Len(text) - 1 /\ text[i - 1].part = "entry" /\ text[i + 1].part = "entry"
       /\ text[i].part = "close" => i = Len(text)
  /\ text[1].part = "open" <=> text[Len(text)].part = "close"

ResponseWellFormed == pc = "loop" /\ respJson # << >> => WellFormed(respJson)

(* The inductive invariant of the list and of the text printed from it.     *)
AnswerIInv == ListIInv /\ TypeOK /\ TextInv /\ ResponseWellFormed

(* The list and its walks implement the store: a GET by id finds exactly   *)
(* what was posted under that id, a GET of all lists every terminal once   *)
(* in id order, for any history of requests.                               *)
Entries == [k \in 1 .. Len(respJson) \div 2 |-> respJson[2 * k]]   \* data and punctuation alternate
Answer ==
  IF respJson = << >> THEN NULL
  ELSE [kind |-> IF Entries = << >> THEN "noSuchTerminal"
                 ELSE IF Entries[1].part = "id" THEN "posted" ELSE "terminals",
        ids  |-> [i \in DOMAIN Entries |-> Entries[i].id],
        data |-> IF \E i \in DOMAIN Entries : Entries[i].part = "id" THEN << >>
                 ELSE [i \in DOMAIN Entries |-> Entries[i].json]]

Store == INSTANCE TerminalStore WITH
  db    <- [i \in DOMAIN stored |-> node[stored[i]].transactions],
  call  <- IF pc \in InOperation \cup {"exited"} THEN op ELSE NULL,
  reply <- IF pc \in InOperation \cup {"exited"} THEN NULL ELSE Answer
ImplementsStore == Store!SpecStore

(* Every operation the manager starts returns (or the process runs out of  *)
(* memory), and freeNodeList ends: no walk goes round in circles.          *)
EveryOperationEnds ==
  /\ (pc \in InOperation) ~> (pc \in {"loop", "exited"})
  /\ (pc = "freeNodeList") ~> (pc = "ended")

(* runHttpServer.h: `max json response size'; the text and its final NUL   *)
(* have to fit a request's json field and the callback's jResponse.        *)
ResponseFits == respJson # << >> => EndOf(respJson) < MAXRESPONSESIZE
=============================================================================

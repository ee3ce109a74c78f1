----------------------------- MODULE Terminals -----------------------------
(* The answers of the terminal database, as a function of what is stored:  *)
(* db[id] is what was posted for terminal id.                              *)
EXTENDS Integers, Sequences

(* equipmentMgr.h: the termId of a GET of every terminal.                  *)
ALL == -1

Posted(id) == [kind |-> "posted", ids |-> <<id>>, data |-> << >>]
NoSuchTerminal == [kind |-> "noSuchTerminal", ids |-> << >>, data |-> << >>]
TerminalsOf(ids, data) == [kind |-> "terminals", ids |-> ids, data |-> data]

(* readFromDb and writeToDb.                                               *)
AnswerToGet(db, termId) ==
  IF termId = ALL /\ db # << >> THEN TerminalsOf([i \in DOMAIN db |-> i], db)
  ELSE IF termId \in DOMAIN db THEN TerminalsOf(<<termId>>, <<db[termId]>>)
  ELSE NoSuchTerminal

AnswerToPost(db) == Posted(Len(db) + 1)
=============================================================================

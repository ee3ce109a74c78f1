--------------------------- MODULE TerminalStore ---------------------------
(***************************************************************************)
(* What the terminal database promises to the manager: a POST stores its   *)
(* transactions under the next id, a GET returns what was stored under an  *)
(* id, or everything in the order of the ids.  TerminalList implements     *)
(* this with a linked list and a text buffer.                              *)
(***************************************************************************)
EXTENDS Terminals

CONSTANTS Calls,   \* the operations asked for: [method, termId, json]
          NULL     \* no operation, no reply

VARIABLES db,      \* the transactions of every terminal, by terminal id
          call,    \* the operation in progress, or NULL
          reply    \* what the last operation returned, or NULL

storeVars == <<db, call, reply>>

InitStore == db = << >> /\ call = NULL /\ reply = NULL

Invoke(c) == call = NULL /\ call' = c /\ reply' = NULL /\ UNCHANGED db

Store ==
  /\ call # NULL /\ call.method = "POST"
  /\ db' = Append(db, call.json)
  /\ reply' = AnswerToPost(db)
  /\ call' = NULL

Fetch ==
  /\ call # NULL /\ call.method = "GET"
  /\ reply' = AnswerToGet(db, call.termId)
  /\ call' = NULL
  /\ UNCHANGED db

NextStore == (\E c \in Calls : Invoke(c)) \/ Store \/ Fetch

SpecStore == InitStore /\ [][NextStore]_storeVars
=============================================================================

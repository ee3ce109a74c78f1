-------------------------- MODULE TerminalService --------------------------
(***************************************************************************)
(* What a client of the server may rely on: each request it gets an answer *)
(* to was applied to the terminals exactly once, at one moment between the *)
(* request and the answer, and the answer is what the terminals were at    *)
(* that moment.  Threads, queue and shutdown are the business of SmartPay. *)
(***************************************************************************)
EXTENDS Terminals

CONSTANTS Conns,     \* client connections
          Asks,      \* requests a client may send: [method, termId, json]
          NULL       \* no request, no answer

VARIABLES db,        \* the transactions of every terminal, by terminal id
          asked,     \* per connection: the request that has not been answered, or NULL
          outcome,   \* per connection: the effect of that request, or NULL if it had none yet
          answer,    \* per connection: the last answer it received, or NULL
          stopped    \* the server has closed its connections

serviceVars == <<db, asked, outcome, answer, stopped>>

InitService ==
  /\ db = << >>
  /\ asked = [c \in Conns |-> NULL]
  /\ outcome = [c \in Conns |-> NULL]
  /\ answer = [c \in Conns |-> NULL]
  /\ stopped = FALSE

Request(c, a) ==
  /\ ~stopped /\ asked[c] = NULL
  /\ asked' = [asked EXCEPT ![c] = a]
  /\ answer' = [answer EXCEPT ![c] = NULL]
  /\ UNCHANGED <<db, outcome, stopped>>

Apply(c) ==
  /\ asked[c] # NULL /\ outcome[c] = NULL
  /\ \/ /\ asked[c].method = "GET"
        /\ outcome' = [outcome EXCEPT ![c] = AnswerToGet(db, asked[c].termId)]
        /\ UNCHANGED db
     \/ /\ asked[c].method = "POST"
        /\ outcome' = [outcome EXCEPT ![c] = AnswerToPost(db)]
        /\ db' = Append(db, asked[c].json)
  /\ UNCHANGED <<asked, answer, stopped>>

(* The outcome is sent, or the connection is closed because it cannot be.  *)
Reply(c) ==
  /\ outcome[c] # NULL
  /\ answer' = [answer EXCEPT ![c] = outcome[c]] \/ UNCHANGED answer
  /\ asked' = [asked EXCEPT ![c] = NULL]
  /\ outcome' = [outcome EXCEPT ![c] = NULL]
  /\ UNCHANGED <<db, stopped>>

(* The server stops and closes every connection without an answer.         *)
Stop ==
  /\ ~stopped /\ stopped' = TRUE
  /\ asked' = [c \in Conns |-> NULL]
  /\ outcome' = [c \in Conns |-> NULL]
  /\ UNCHANGED <<db, answer>>

NextService ==
  \/ \E c \in Conns : (\E a \in Asks : Request(c, a)) \/ Apply(c) \/ Reply(c)
  \/ Stop

SpecService == InitService /\ [][NextService]_serviceVars
=============================================================================

---------------------------- MODULE MhdCallback ----------------------------
(***************************************************************************)
(* The contract of MHD_AccessHandlerCallback: in which order the library   *)
(* calls the application for a request, what of the body it has given when, *)
(* and what the application finds in *con_cls.  HttpServer relies on it,   *)
(* MhdDaemon shows that the library keeps to it.                           *)
(***************************************************************************)
EXTENDS Integers

CONSTANTS Conns,  \* client connections
          NULL    \* the null pointer

VARIABLES calls,    \* per connection: "none", "started" or "answered"
          size,     \* per connection: the size of the body of its request
          given,    \* per connection: how much of it the application was given
          context   \* per connection: *con_cls

callbackVars == <<calls, size, given, context>>

InitCallback ==
  /\ calls = [c \in Conns |-> "none"]
  /\ size = [c \in Conns |-> 0]
  /\ given = [c \in Conns |-> 0]
  /\ context = [c \in Conns |-> NULL]

(* A request comes in.                                                     *)
NewRequest(c) ==
  /\ calls[c] = "none"
  /\ size'[c] \in Nat
  /\ \A d \in Conns \ {c} : size'[d] = size[d]
  /\ UNCHANGED <<calls, given, context>>

(* The application may set *con_cls in a call and may answer in it.        *)
Call(c) ==
  /\ \E outcome \in {"started", "answered"} : calls' = [calls EXCEPT ![c] = outcome]
  /\ \A d \in Conns \ {c} : context'[d] = context[d]
  /\ UNCHANGED size

(* The call for the headers: nothing is left in *con_cls by the request    *)
(* before, and nothing of the body has been given.                         *)
FirstCall(c) ==
  /\ calls[c] = "none" /\ context[c] = NULL
  /\ Call(c)
  /\ UNCHANGED given

(* A call for a part of the body; it cannot be answered.                   *)
DataCall(c) ==
  /\ calls[c] = "started"
  /\ \E n \in given[c] + 1 .. size[c] : given' = [given EXCEPT ![c] = n]
  /\ \A d \in Conns \ {c} : context'[d] = context[d]
  /\ UNCHANGED <<calls, size>>

(* The final call comes when all of the body was given.  It is made again  *)
(* if no response was queued.                                              *)
FinalCall(c) ==
  /\ calls[c] = "started" /\ given[c] = size[c]
  /\ Call(c)
  /\ UNCHANGED given

(* The answer has been sent, or connections are closed: no more calls.     *)
End(over) ==
  /\ calls' = [c \in Conns |-> IF c \in over THEN "none" ELSE calls[c]]
  /\ size' = [c \in Conns |-> IF c \in over THEN 0 ELSE size[c]]
  /\ given' = [c \in Conns |-> IF c \in over THEN 0 ELSE given[c]]
  /\ context' = [c \in Conns |-> IF c \in over THEN NULL ELSE context[c]]

NextCallback ==
  \/ \E c \in Conns : NewRequest(c) \/ FirstCall(c) \/ DataCall(c) \/ FinalCall(c)
  \/ \E over \in SUBSET Conns : End(over)

SpecCallback == InitCallback /\ [][NextCallback]_callbackVars
=============================================================================

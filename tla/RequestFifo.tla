---------------------------- MODULE RequestFifo ----------------------------
(***************************************************************************)
(* What the shared request queue promises to the two threads that use it:  *)
(* requests come out in the order in which they went in, one at a time,    *)
(* none twice and none that was never put in.  The pointers, the mutex and *)
(* the heap are the business of RequestQueue, which implements this.       *)
(***************************************************************************)
EXTENDS Sequences

CONSTANTS Requests,   \* request nodes
          NULL        \* the null pointer, in hand when the consumer has none

VARIABLES waiting,    \* the requests in the queue, oldest first
          inHand      \* the request the consumer is working on, or NULL

fifoVars == <<waiting, inHand>>

InitFifo == waiting = << >> /\ inHand = NULL

(* A producer adds a request that is neither waiting nor being worked on.  *)
Put(r) ==
  /\ r # inHand
  /\ \A i \in DOMAIN waiting : waiting[i] # r
  /\ waiting' = Append(waiting, r)
  /\ UNCHANGED inHand

(* The idle consumer takes the oldest request.                             *)
Get ==
  /\ inHand = NULL
  /\ waiting # << >>
  /\ inHand' = Head(waiting)
  /\ waiting' = Tail(waiting)

(* The consumer is done with its request.                                  *)
Finish ==
  /\ inHand # NULL
  /\ inHand' = NULL
  /\ UNCHANGED waiting

NextFifo == (\E r \in Requests : Put(r)) \/ Get \/ Finish

SpecFifo == InitFifo /\ [][NextFifo]_fifoVars
=============================================================================

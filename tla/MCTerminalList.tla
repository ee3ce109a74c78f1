--------------------------- MODULE MCTerminalList ---------------------------
(* TerminalList with the payloads of the repository's tests.               *)
EXTENDS TerminalList, TLC

CONSTANTS b1, b2, b3, b4, b5, b6, b7, b8, b9, b10, b11, transData, transData2

(* The lengths of transData and transData2 of the tests.                   *)
MCLength == (transData :> 106) @@ (transData2 :> 109)

Get(id) == [method |-> "GET", termId |-> id, json |-> NULL]
Post(json) == [method |-> "POST", termId |-> -1, json |-> json]

(* Every id the list can hold, the ids next to it, and ALL.                *)
MCCalls == {Get(id) : id \in -1 .. 4} \cup {Post(json) : json \in Payloads}

(* To fill the list and read it all.                                       *)
FillCalls == {Get(ALL), Post(transData)}

(* Eleven blocks are too many to permute: since they are interchangeable   *)
(* and freed only at the end, it is enough to hand them out in one order.  *)
Heap == <<b1, b2, b3, b4, b5, b6, b7, b8, b9, b10, b11>>
InHeapOrder == \A i, j \in 1 .. 11 : i < j /\ Heap[j] \in live /\ pc # "freeNodeList" => Heap[i] \in live
=============================================================================

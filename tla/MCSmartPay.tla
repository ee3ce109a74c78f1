----------------------------- MODULE MCSmartPay -----------------------------
(* SmartPay with two connections, and requests of every kind.              *)
EXTENDS SmartPay, TLC

CONSTANTS r1, r2, c1, c2, transData, transData2

Get(id) == [method |-> "GET", termId |-> id, json |-> NULL]
Post(json) == [method |-> "POST", termId |-> -1, json |-> json]

MCAsks == {Get(ALL), Get(1), Post(transData), Post(transData2)}
FewAsks == {Get(ALL), Post(transData)}
=============================================================================

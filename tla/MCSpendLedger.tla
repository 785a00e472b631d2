---------------------------- MODULE MCSpendLedger ----------------------------
(* Providers on one topic and two mandate nodes: two transactions in the   *)
(* tree's asset on different paths, one in another asset.                   *)
EXTENDS SpendLedger, TLC

CONSTANTS t1, t2, t3, root, team

MCPath == [t \in Txs |-> IF t = t2 THEN {root} ELSE {root, team}]
MCAmount == [t \in Txs |-> IF t = t2 THEN 2 ELSE 1]
=============================================================================

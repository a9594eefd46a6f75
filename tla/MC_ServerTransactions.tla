----------------------- MODULE MC_ServerTransactions -----------------------
(***************************************************************************)
(* A small instance of ServerTransactions: three requests to two Peers     *)
(* whose counters are one apart, so that the second request to one has the *)
(* hop-by-hop of the first to the other.  The third request comes with     *)
(* that hop-by-hop already in it.                                          *)
(***************************************************************************)
EXTENDS ServerTransactions

CONSTANTS t1, t2, t3, p1, p2

TwoCommands == [t \in Txn |-> IF t = t3 THEN "RAR" ELSE "CCR"]
OneChosen == [t \in Txn |-> IF t = t3 THEN {5} ELSE {0}]
OneApart == [p \in Peers |-> IF p = p1 THEN 4 ELSE 5]
=============================================================================

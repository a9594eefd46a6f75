----------------------- MODULE MC_ClientTransactions -----------------------
(***************************************************************************)
(* Small instances of ClientTransactions: three calls of send(), of which  *)
(* the first two share their command code where a run says so.             *)
(***************************************************************************)
EXTENDS ClientTransactions

CONSTANTS t1, t2, t3

OneCommand == [t \in Txn |-> "CCR"]
TwoCommands == [t \in Txn |-> IF t = t3 THEN "RAR" ELSE "CCR"]
=============================================================================

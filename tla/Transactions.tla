---------------------------- MODULE Transactions ----------------------------
(***************************************************************************)
(* What a node promises about the requests it sends, whatever its table,   *)
(* identifiers and timers look like: a request that was accepted is        *)
(* pending, and leaves that state once and for ever.  It is answered, it   *)
(* times out, or it is dropped without a callback.                         *)
(***************************************************************************)
CONSTANT Txn
VARIABLE status

Status == {"new", "pending", "answered", "timedOut", "dropped"}

Init == status = [t \in Txn |-> "new"]

Pending == {t \in Txn : status[t] = "pending"}

\* Several pending requests may be dropped at once.
Drop(D) == [t \in Txn |-> IF t \in D THEN "dropped" ELSE status[t]]

\* A request is accepted; it may take the place of a pending one.
Accept(t) ==
  /\ status[t] = "new"
  /\ \E D \in SUBSET Pending : status' = [Drop(D) EXCEPT ![t] = "pending"]

Complete(t, how) ==
  /\ status[t] = "pending"
  /\ status' = [status EXCEPT ![t] = how]

Next ==
  \/ \E t \in Txn : Accept(t) \/ Complete(t, "answered") \/ Complete(t, "timedOut")
  \/ \E D \in SUBSET Pending : status' = Drop(D)

Spec == Init /\ [][Next]_status
=============================================================================

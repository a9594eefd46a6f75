------------------------------ MODULE MC_Framing ------------------------------
(***************************************************************************)
(* A small instance of Framing: strings of one to four bytes, so that each *)
(* padding occurs, up to three requests after the CER, and requests in     *)
(* both directions at once.                                                *)
(***************************************************************************)
EXTENDS Framing

ThisNode(n, applications) ==
  [host |-> Text(n, 1), realm |-> Text(n + 1, 2), product |-> Text(1, 3), address |-> 4,
   vendor |-> 5, applications |-> applications]
ThisClient == ThisNode(3, <<0, 16>>)
ThisServer == ThisNode(1, <<>>)

Bare(kind) == [kind |-> kind, avps |-> <<>>]
Some(code, vendor, len) == [code |-> code, vendor |-> vendor, data |-> Text(len, 6)]
App(vendor, len) == [kind |-> "APP", avps |-> <<Some(OriginHost, vendor, len), Some(1, 0, 2)>>]

Said(client, server) == [there |-> <<Bare("CER")>> \o client, back |-> server]

Conversations ==
  {Said(<<Bare("PING"), Bare("DWR"), Bare("DPR")>>, <<>>),
   Said(<<Bare("PING")>>, <<App(9, 1)>>),
   Said(<<Bare("DWR")>>, <<Bare("PING")>>)}
    \cup {Said(<<App(v, n), Bare("DPR")>>, <<>>) : v \in {0, 9}, n \in 0 .. 4}
=============================================================================

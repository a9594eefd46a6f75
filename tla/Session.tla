-------------------------------- MODULE Session --------------------------------
(***************************************************************************)
(* What the owners of two Peers are promised about the session between     *)
(* them, whatever messages, timers and errors it is made of: each side     *)
(* waits, may open, the server's first, may begin to disconnect, and ends  *)
(* once and for ever.  A side that ends before it opens was never in the   *)
(* session: it keeps waiting, as far as this module can tell.              *)
(***************************************************************************)
VARIABLE life

Side == {"client", "server"}

Init == life = [p \in Side |-> "waiting"]

Open(p) ==
  /\ life[p] = "waiting"
  /\ p = "client" => life["server"] # "waiting"
  /\ life' = [life EXCEPT ![p] = "open"]

Disconnect(p) ==
  /\ life[p] = "open"
  /\ life' = [life EXCEPT ![p] = "closing"]

End(p) ==
  /\ life[p] \in {"open", "closing"}
  /\ life' = [life EXCEPT ![p] = "ended"]

Next == \E p \in Side : Open(p) \/ Disconnect(p) \/ End(p)

Spec == Init /\ [][Next]_life
=============================================================================

---------------------------- MODULE MC_ServerPeers ----------------------------
(***************************************************************************)
(* Small instances of ServerPeers: two connections.                        *)
(***************************************************************************)
EXTENDS ServerPeers

CONSTANTS c1, c2
=============================================================================

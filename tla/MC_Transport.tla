--------------------------- MODULE MC_Transport ---------------------------
(* The transport with two peers, one Connect call (a rendezvous pair is   *)
(* two connections) and one inbound handshake: enough for a rendezvous    *)
(* pair racing an inbound bootstrap to the same peer, and for Close to    *)
(* overtake handlers already posted.                                       *)
EXTENDS Transport

CONSTANTS p1, p2

MCPeers == {p1, p2}
=============================================================================

---------------------------- MODULE MC_Dispatcher ----------------------------
(* Two peers, one public address and one LAN address, two ports, socket   *)
(* ids 0 .. 2 and three sockets: enough for an id to be freed and reused, *)
(* for a peer to show a port it was not told of, and for two sockets to   *)
(* compete for one handshake.                                              *)
EXTENDS Dispatcher

CONSTANTS a, b

MCNodes == {a, b}

\* Each peer has an address of its own: a is public, b on the LAN.
DistinctAddr == [n \in MCNodes |-> IF n = a THEN "pub" ELSE "lan"]

\* Both peers sit behind one NAT and show its public address.
SharedAddr == [n \in MCNodes |-> "pub"]
\* Each peer may show either port of its address.
AnyPort == [n \in MCNodes |-> {1, 2}]

\* Behind one NAT, a is seen on port 1 and b on port 2; either may have
\* been told to be at port 3.
NatPorts == [n \in MCNodes |-> IF n = a THEN {1} ELSE {2}]
==============================================================================

----------------------------- MODULE Dispatcher -----------------------------
(***************************************************************************)
(* Routing of inbound handshakes and the socket registry of one transport: *)
(* ConnectionManager::GetSocket, AddSocket and RemoveSocket                *)
(* (connection_manager.cc).                                                *)
(*                                                                         *)
(* A packet whose destination socket id is 0 is a handshake not yet bound  *)
(* to a socket.  GetSocket hands it to the socket expecting the sender's   *)
(* endpoint; failing that, a Normal handshake may revise the endpoint of a *)
(* socket expecting the sender's address (a peer behind a symmetric NAT    *)
(* shows another port than it was told to), and any other handshake goes  *)
(* to HandlePingFrom.  The socket that takes a handshake completes its     *)
(* own handshake with the sender; the Socket class is not part of the      *)
(* sources and that step follows the specification (sections 3, 4.1).     *)
(* All of it runs on the transport's strand, so every step is atomic.      *)
(***************************************************************************)
EXTENDS Naturals, FiniteSets

CONSTANTS
    Nodes,        \* node ids of remote peers
    Addrs,        \* IP addresses
    PrivateAddrs, \* the addresses OnPrivateNetwork accepts
    Ports,        \* UDP ports a peer may be seen sending from
    NodeAddr,     \* NodeAddr[n]: the address node n's packets come from
    NodePorts,    \* NodePorts[n]: the ports they may come from
    MaxId,        \* socket ids are 0 .. MaxId (RandomUint32's range, shrunk)
    MaxSockets    \* bound on the sockets created

ASSUME DispatcherAssumption ==
    /\ Nodes # {} /\ Addrs # {} /\ Ports # {}
    /\ PrivateAddrs \subseteq Addrs
    /\ NodeAddr \in [Nodes -> Addrs]
    /\ NodePorts \in [Nodes -> SUBSET Ports]
    \* a NAT maps two hosts behind it to different external ports
    /\ \A m, n \in Nodes :
          m # n /\ NodeAddr[m] = NodeAddr[n] => NodePorts[m] \cap NodePorts[n] = {}
    /\ MaxId \in Nat
    /\ MaxSockets \in Nat

Endpoint == Addrs \X Ports

\* OnPrivateNetwork(endpoint)
OnPrivateNetwork(ep) == ep[1] \in PrivateAddrs

IdSpace == 0 .. MaxId
SocketNums == 1 .. MaxSockets
NoSocket == 0
NoNode == "none"

Reasons == {"Normal", "Other"}

\* What the socket's owner knows of it: the peer it was opened for, the
\* endpoint it expects that peer at (PeerEndpoint), the port that endpoint
\* had before a revision (PeerGuessedPort, 0 for none), IsConnected, and
\* the node whose handshake completed it.
SocketInfo == [peer : Nodes, ep : Endpoint, guessed : Ports \cup {0},
               connected : BOOLEAN, by : Nodes \cup {NoNode}, id : IdSpace]

\* The outcome of routing the last handshake.
Route == [reason : Reasons \cup {"None"}, expected : BOOLEAN,
          outcome : {"Socket", "Ping", "Drop", "None"},
          to : SocketNums \cup {NoSocket}]

VARIABLES
    registry,  \* sockets_: registry[i] is the socket with id i, or NoSocket
    sock,      \* sock[s]: socket s
    nSocks,    \* sockets 1 .. nSocks have been created
    removed,   \* the sockets that have closed and called RemoveSocket
    route      \* the routing of the last handshake received

vars == <<registry, sock, nSocks, removed, route>>

Registered == {i \in IdSpace : registry[i] # NoSocket}

-----------------------------------------------------------------------------
(* The socket registry.                                                    *)

\* Mutant: the id loop forgetting that 0 means "unbound handshake".
FreshIdNoZeroCheck(id) == registry[id] = NoSocket

\* AddSocket's loop stops at a random id that is neither 0 nor in use.
FreshId(id) == ~(id = 0 \/ registry[id] # NoSocket)

\* A Connection opens a socket towards peer n, expected at endpoint ep:
\* the socket registers itself with AddSocket.
AddSocket(n, ep) ==
    /\ nSocks < MaxSockets
    /\ \E id \in IdSpace :
          /\ FreshId(id)
          /\ registry' = [registry EXCEPT ![id] = nSocks + 1]
          /\ sock' = [sock EXCEPT ![nSocks + 1] =
                        [peer |-> n, ep |-> ep, guessed |-> 0,
                         connected |-> FALSE, by |-> NoNode, id |-> id]]
    /\ nSocks' = nSocks + 1
    /\ UNCHANGED <<removed, route>>

\* RemoveSocket(id): ignores 0, otherwise erases the entry.
RemoveSocket(id) ==
    IF id # 0 THEN [registry EXCEPT ![id] = NoSocket] ELSE registry

\* Socket s closes and deregisters the id AddSocket gave it.
CloseSocket(s) ==
    /\ s \in 1 .. nSocks
    /\ s \notin removed
    /\ registry' = RemoveSocket(sock[s].id)
    /\ removed' = removed \cup {s}
    /\ UNCHANGED <<sock, nSocks, route>>

-----------------------------------------------------------------------------
(* GetSocket for a handshake (destination id 0).                           *)

\* The find_if predicates of GetSocket over the entry with id i.
ExpectsEndpoint(i, ep) == sock[registry[i]].ep = ep

\* Mutant: the symmetric-NAT search forgetting to compare addresses.
RevisableAnyAddress(i, ep) ==
    /\ ~OnPrivateNetwork(sock[registry[i]].ep)
    /\ ~sock[registry[i]].connected

\* Mutant: the symmetric-NAT search forgetting IsConnected.
RevisableConnected(i, ep) ==
    /\ sock[registry[i]].ep[1] = ep[1]
    /\ ~OnPrivateNetwork(sock[registry[i]].ep)

Revisable(i, ep) ==
    /\ sock[registry[i]].ep[1] = ep[1]
    /\ ~OnPrivateNetwork(sock[registry[i]].ep)
    /\ ~sock[registry[i]].connected

\* The socket with id i takes node n's handshake, sent from ep, having
\* expected it at `was'.  A socket not yet connected completes its
\* handshake with the sender.
Deliver(i, n, ep, was) ==
    LET s == registry[i] IN
    sock' = [sock EXCEPT ![s] =
               [peer |-> sock[s].peer, ep |-> ep,
                guessed |-> IF was = ep THEN sock[s].guessed ELSE was[2],
                connected |-> TRUE,
                by |-> IF sock[s].by = NoNode THEN n ELSE sock[s].by,
                id |-> sock[s].id]]

\* The endpoint a packet of node n sent from `port' comes from.
From(n, port) == <<NodeAddr[n], port>>

\* The entries the two find_if searches of GetSocket may return.
ExpectedAt(ep) == {i \in Registered : ExpectsEndpoint(i, ep)}
RevisableFor(ep) == {i \in Registered : Revisable(i, ep)}

\* Record how a handshake with reason `reason' from ep was routed.
Routed(reason, ep, outcome, to) ==
    route' = [reason |-> reason, expected |-> ExpectedAt(ep) # {},
              outcome |-> outcome, to |-> to]

\* Node n's handshake with connection reason `reason' arrives from port
\* `port' of its address: GetSocket routes it (a socket, HandlePingFrom,
\* or a drop).
Handshake(n, port, reason) ==
    LET ep == From(n, port) IN
    /\ \/ /\ Registered = {}
          /\ Routed(reason, ep, "Drop", NoSocket)
          /\ UNCHANGED sock
       \/ /\ Registered # {}
          /\ \E i \in ExpectedAt(ep) :
                /\ Deliver(i, n, ep, ep)
                /\ Routed(reason, ep, "Socket", registry[i])
       \/ /\ Registered # {}
          /\ ExpectedAt(ep) = {}
          /\ reason = "Normal"
          /\ \E i \in RevisableFor(ep) :
                /\ Deliver(i, n, ep, sock[registry[i]].ep)
                /\ Routed(reason, ep, "Socket", registry[i])
       \/ /\ Registered # {}
          /\ ExpectedAt(ep) = {}
          /\ reason = "Normal"
          /\ RevisableFor(ep) = {}
          /\ Routed(reason, ep, "Drop", NoSocket)
          /\ UNCHANGED sock
       \/ /\ Registered # {}
          /\ ExpectedAt(ep) = {}
          /\ reason # "Normal"
          /\ Routed(reason, ep, "Ping", NoSocket)
          /\ UNCHANGED sock
    /\ UNCHANGED <<registry, nSocks, removed>>

-----------------------------------------------------------------------------
Init ==
    /\ registry = [i \in IdSpace |-> NoSocket]
    /\ sock = [s \in SocketNums |->
                 [peer |-> CHOOSE n \in Nodes : TRUE,
                  ep |-> CHOOSE ep \in Endpoint : TRUE, guessed |-> 0,
                  connected |-> FALSE, by |-> NoNode, id |-> 0]]
    /\ nSocks = 0
    /\ removed = {}
    /\ route = [reason |-> "None", expected |-> FALSE, outcome |-> "None",
                 to |-> NoSocket]

\* The ports a peer may have been told to be at: its address with a port
\* that may or may not be one it sends from, but not one the NAT has given
\* another host behind it.
ToldPorts(n) ==
    Ports \ UNION {NodePorts[m] : m \in {k \in Nodes \ {n} :
                                            NodeAddr[k] = NodeAddr[n]}}

Next ==
    \/ \E n \in Nodes : \E p \in ToldPorts(n) : AddSocket(n, <<NodeAddr[n], p>>)
    \/ \E s \in SocketNums : CloseSocket(s)
    \/ \E n \in Nodes : \E p \in NodePorts[n], r \in Reasons : Handshake(n, p, r)

Spec == Init /\ [][Next]_vars

-----------------------------------------------------------------------------
(* Properties.                                                             *)

TypeOK ==
    /\ registry \in [IdSpace -> SocketNums \cup {NoSocket}]
    /\ sock \in [SocketNums -> SocketInfo]
    /\ nSocks \in 0 .. MaxSockets
    /\ removed \subseteq SocketNums
    /\ route \in Route

\* A socket completes its handshake only with the node it was opened for:
\* GetSocket's exact-endpoint search and its symmetric-NAT revision never
\* hand one peer's handshake to the socket expecting another.
ConnectedToOwnPeer ==
    \A s \in 1 .. nSocks : sock[s].connected => sock[s].by = sock[s].peer

\* Endpoint revision never touches a connected socket: once a socket's
\* handshake is complete the endpoint it talks to stays put, however the
\* peer's port is later seen to change (specification, section 9).
ConnectedEndpointStable ==
    [][\A s \in 1 .. nSocks :
          sock[s].connected => sock'[s].ep = sock[s].ep]_vars

\* A socket that has closed is gone from sockets_: RemoveSocket with the
\* id AddSocket returned erases it, so no later packet reaches it.
NoClosedRegistered ==
    \A i \in Registered : registry[i] \notin removed

\* A handshake that is not Normal and that no socket expects is handed to
\* HandlePingFrom, which answers a peer trying to ping this node or join
\* the network through it (specification, section 4.1).
PingReachesManager ==
    route.reason = "Other" /\ ~route.expected => route.outcome = "Ping"

=============================================================================

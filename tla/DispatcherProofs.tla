------------------------- MODULE DispatcherProofs -------------------------
(***************************************************************************)
(* Proofs about handshake routing and the socket registry, for every value *)
(* of the constants: type correctness, and that a socket which has closed  *)
(* is never left in sockets_.                                              *)
(***************************************************************************)
EXTENDS Dispatcher, TLAPS

\* Every entry of sockets_ has a non-zero id, names a created socket, and
\* that socket holds the id AddSocket returned for it.
RegistryConsistent ==
    \A i \in Registered :
        /\ i # 0
        /\ registry[i] \in 1 .. nSocks
        /\ sock[registry[i]].id = i

\* Only created sockets have closed.
RemovedCreated == removed \subseteq 1 .. nSocks

IInv == TypeOK /\ RegistryConsistent /\ RemovedCreated /\ NoClosedRegistered

USE DispatcherAssumption DEF IdSpace, SocketNums, NoSocket, Endpoint

-----------------------------------------------------------------------------
(* Type correctness.                                                       *)

\* A socket taking a handshake stays typed and keeps its id.
LEMMA DeliverType ==
    ASSUME TypeOK, NEW i \in Registered, NEW n \in Nodes, NEW ep \in Endpoint,
           NEW was \in Endpoint, Deliver(i, n, ep, was)
    PROVE  /\ sock' \in [SocketNums -> SocketInfo]
           /\ \A s \in SocketNums : sock'[s].id = sock[s].id
<1>1. registry[i] \in SocketNums
  BY DEF Registered, TypeOK
<1>2. (IF was = ep THEN sock[registry[i]].guessed ELSE was[2]) \in Ports \cup {0}
  BY <1>1 DEF TypeOK, SocketInfo
<1>. QED
  BY <1>1, <1>2 DEF Deliver, TypeOK, SocketInfo

LEMMA HandshakeType ==
    ASSUME TypeOK, NEW n \in Nodes, NEW p \in NodePorts[n], NEW r \in Reasons,
           Handshake(n, p, r)
    PROVE  TypeOK' /\ \A s \in SocketNums : sock'[s].id = sock[s].id
<1> DEFINE ep == From(n, p)
<1>1. ep \in Endpoint
  BY DEF From, TypeOK
<1>2. \A i \in Registered : /\ registry[i] \in SocketNums
                            /\ sock[registry[i]].ep \in Endpoint
  BY DEF Registered, TypeOK, SocketInfo
<1>3. \/ UNCHANGED sock /\ \E o \in {"Drop", "Ping"} : Routed(r, ep, o, NoSocket)
      \/ \E i \in Registered :
            /\ Deliver(i, n, ep, ep) \/ Deliver(i, n, ep, sock[registry[i]].ep)
            /\ Routed(r, ep, "Socket", registry[i])
  BY DEF Handshake, ExpectedAt, RevisableFor
<1>4. CASE UNCHANGED sock /\ \E o \in {"Drop", "Ping"} : Routed(r, ep, o, NoSocket)
  BY <1>4 DEF Handshake, Routed, Route, Reasons, TypeOK
<1>5. ASSUME NEW i \in Registered,
             Deliver(i, n, ep, ep) \/ Deliver(i, n, ep, sock[registry[i]].ep),
             Routed(r, ep, "Socket", registry[i])
      PROVE  TypeOK' /\ \A s \in SocketNums : sock'[s].id = sock[s].id
  <2>1. /\ sock' \in [SocketNums -> SocketInfo]
        /\ \A s \in SocketNums : sock'[s].id = sock[s].id
    BY <1>1, <1>2, <1>5, DeliverType
  <2>2. route' \in Route
    BY <1>2, <1>5 DEF Routed, Route, Reasons
  <2>. QED
    BY <2>1, <2>2 DEF Handshake, TypeOK
<1>. QED
  BY <1>3, <1>4, <1>5 DEF Handshake, TypeOK

LEMMA InitTypeOK == Init => TypeOK
<1>1. (CHOOSE n \in Nodes : TRUE) \in Nodes
  OBVIOUS
<1>2. \E ep \in Endpoint : TRUE
  <2>1. PICK ad \in Addrs : TRUE
    OBVIOUS
  <2>2. PICK po \in Ports : TRUE
    OBVIOUS
  <2>3. <<ad, po>> \in Endpoint
    BY <2>1, <2>2
  <2>. QED
    BY <2>3
<1>3. (CHOOSE ep \in Endpoint : TRUE) \in Endpoint
  BY <1>2
<1>. QED
  BY <1>1, <1>3 DEF Init, TypeOK, SocketInfo, Route, NoNode

LEMMA NextTypeOK ==
    TypeOK /\ [Next]_vars => TypeOK' /\ \A s \in SocketNums :
                                           sock'[s].id = sock[s].id \/ s = nSocks'
<1> SUFFICES ASSUME TypeOK, [Next]_vars
             PROVE  TypeOK' /\ \A s \in SocketNums :
                                  sock'[s].id = sock[s].id \/ s = nSocks'
  OBVIOUS
<1>1. ASSUME NEW n \in Nodes, NEW p \in ToldPorts(n),
             AddSocket(n, <<NodeAddr[n], p>>)
      PROVE  TypeOK' /\ \A s \in SocketNums :
                           sock'[s].id = sock[s].id \/ s = nSocks'
  <2>1. <<NodeAddr[n], p>> \in Endpoint
    BY DEF ToldPorts, TypeOK
  <2>. QED
    BY <1>1, <2>1 DEF AddSocket, FreshId, TypeOK, SocketInfo, NoNode
<1>2. ASSUME NEW s \in SocketNums, CloseSocket(s)
      PROVE  TypeOK' /\ \A t \in SocketNums :
                           sock'[t].id = sock[t].id \/ t = nSocks'
  BY <1>2 DEF CloseSocket, RemoveSocket, TypeOK, SocketInfo
<1>3. ASSUME NEW n \in Nodes, NEW p \in NodePorts[n], NEW r \in Reasons,
             Handshake(n, p, r)
      PROVE  TypeOK' /\ \A s \in SocketNums :
                           sock'[s].id = sock[s].id \/ s = nSocks'
  BY <1>3, HandshakeType
<1>4. CASE UNCHANGED vars
  BY <1>4 DEF vars, TypeOK
<1>. QED
  BY <1>1, <1>2, <1>3, <1>4 DEF Next

\* The registry, the sockets and the routing record always have their
\* types, whatever sockets open and close and whatever handshakes arrive.
THEOREM DispatcherTypeCorrect == Spec => []TypeOK
BY InitTypeOK, NextTypeOK, PTL DEF Spec

-----------------------------------------------------------------------------
(* No closed socket stays registered.  NoClosedRegistered alone is not     *)
(* inductive: closing a socket erases only the entry under the id the      *)
(* socket holds, so the proof needs every entry to sit under its socket's  *)
(* own non-zero id (RegistryConsistent), and a new socket to be one that   *)
(* has not closed (RemovedCreated).                                        *)

LEMMA AddSocketInv ==
    ASSUME IInv, TypeOK', NEW n \in Nodes, NEW ep \in Endpoint, AddSocket(n, ep)
    PROVE  IInv'
<1>1. PICK id \in IdSpace :
        /\ FreshId(id)
        /\ registry' = [registry EXCEPT ![id] = nSocks + 1]
        /\ sock' = [sock EXCEPT ![nSocks + 1] =
                      [peer |-> n, ep |-> ep, guessed |-> 0,
                       connected |-> FALSE, by |-> NoNode, id |-> id]]
  BY DEF AddSocket
<1>2. /\ id # 0
      /\ registry[id] = NoSocket
      /\ nSocks' = nSocks + 1
      /\ nSocks + 1 \in SocketNums
      /\ removed' = removed
  BY <1>1 DEF FreshId, AddSocket, IInv, TypeOK
<1>3. sock'[nSocks + 1].id = id
  BY <1>1, <1>2 DEF IInv, TypeOK
<1>4. \A s \in 1 .. nSocks : sock'[s] = sock[s]
  BY <1>1, <1>2 DEF IInv, TypeOK
<1>5. RegistryConsistent'
  BY <1>1, <1>2, <1>3, <1>4 DEF RegistryConsistent, Registered, IInv, TypeOK
<1>6. RemovedCreated' /\ NoClosedRegistered'
  BY <1>1, <1>2 DEF RemovedCreated, NoClosedRegistered, Registered, IInv,
     TypeOK
<1>. QED
  BY <1>5, <1>6 DEF IInv

LEMMA CloseSocketInv ==
    ASSUME IInv, TypeOK', NEW s \in SocketNums, CloseSocket(s)
    PROVE  IInv'
<1>1. \A j \in Registered : registry[j] = s => j = sock[s].id /\ j # 0
  BY DEF IInv, RegistryConsistent
<1>2. \A j \in IdSpace : registry'[j] # NoSocket =>
          registry'[j] = registry[j] /\ registry[j] # s
  BY <1>1 DEF CloseSocket, RemoveSocket, Registered, IInv, TypeOK
<1>3. UNCHANGED <<sock, nSocks>> /\ removed' = removed \cup {s}
      /\ s \in 1 .. nSocks
  BY DEF CloseSocket
<1>. QED
  BY <1>2, <1>3 DEF IInv, RegistryConsistent, RemovedCreated,
     NoClosedRegistered, Registered

LEMMA HandshakeInv ==
    ASSUME IInv, NEW n \in Nodes, NEW p \in NodePorts[n], NEW r \in Reasons,
           Handshake(n, p, r)
    PROVE  IInv'
<1>1. TypeOK' /\ \A s \in SocketNums : sock'[s].id = sock[s].id
  BY HandshakeType DEF IInv
<1>2. UNCHANGED <<registry, nSocks, removed>>
  BY DEF Handshake
<1>. QED
  BY <1>1, <1>2 DEF IInv, RegistryConsistent, RemovedCreated,
     NoClosedRegistered, Registered, TypeOK

LEMMA InitIInv == Init => IInv
BY InitTypeOK DEF Init, IInv, RegistryConsistent, RemovedCreated,
   NoClosedRegistered, Registered

LEMMA NextIInv == IInv /\ [Next]_vars => IInv'
<1> SUFFICES ASSUME IInv, [Next]_vars PROVE IInv'
  OBVIOUS
<1>1. TypeOK'
  BY NextTypeOK DEF IInv
<1>2. ASSUME NEW n \in Nodes, NEW p \in ToldPorts(n),
             AddSocket(n, <<NodeAddr[n], p>>)
      PROVE  IInv'
  <2>1. <<NodeAddr[n], p>> \in Endpoint
    BY DEF ToldPorts
  <2>. QED
    BY <1>1, <1>2, <2>1, AddSocketInv
<1>3. ASSUME NEW s \in SocketNums, CloseSocket(s)
      PROVE  IInv'
  BY <1>1, <1>3, CloseSocketInv
<1>4. ASSUME NEW n \in Nodes, NEW p \in NodePorts[n], NEW r \in Reasons,
             Handshake(n, p, r)
      PROVE  IInv'
  BY <1>4, HandshakeInv
<1>5. CASE UNCHANGED vars
  BY <1>1, <1>5 DEF vars, IInv, RegistryConsistent, RemovedCreated,
     NoClosedRegistered, Registered
<1>. QED
  BY <1>2, <1>3, <1>4, <1>5 DEF Next

\* Whatever sockets open and close and whatever handshakes arrive, a
\* socket that has closed and called RemoveSocket is no longer in
\* sockets_: AddSocket never hands out id 0, which RemoveSocket ignores,
\* and never an id in use.
THEOREM RegistryForgetsClosed == Spec => []NoClosedRegistered
BY InitIInv, NextIInv, PTL DEF Spec, IInv

-----------------------------------------------------------------------------
(* Endpoint revision never moves a connected socket.  The step relation    *)
(* needs only the registry invariant: a handshake changes the socket an    *)
(* entry of sockets_ names, a created one, and a new socket is beyond the  *)
(* created ones.                                                           *)

\* The step of ConnectedEndpointStable.
EndpointKept ==
    \A s \in 1 .. nSocks : sock[s].connected => sock'[s].ep = sock[s].ep

LEMMA HandshakeEndpoint ==
    ASSUME IInv, NEW n \in Nodes, NEW p \in NodePorts[n], NEW r \in Reasons,
           Handshake(n, p, r)
    PROVE  EndpointKept
<1> DEFINE ep == From(n, p)
<1>1. CASE UNCHANGED sock
  BY <1>1 DEF EndpointKept
<1>2. ASSUME NEW i \in Registered, NEW was,
             sock[registry[i]].connected => sock[registry[i]].ep = ep,
             Deliver(i, n, ep, was)
      PROVE  EndpointKept
  <2> DEFINE t == registry[i]
  <2>1. t \in SocketNums
    BY DEF IInv, RegistryConsistent, TypeOK
  <2>2. sock'[t].ep = ep /\ \A u \in SocketNums : u # t => sock'[u] = sock[u]
    BY <1>2, <2>1 DEF Deliver, IInv, TypeOK
  <2>3. 1 .. nSocks \subseteq SocketNums
    BY DEF IInv, TypeOK
  <2>. QED
    BY <1>2, <2>2, <2>3 DEF EndpointKept
<1>. QED
  <2>1. \/ UNCHANGED sock
        \/ \E i \in Registered :
              /\ sock[registry[i]].connected => sock[registry[i]].ep = ep
              /\ \/ Deliver(i, n, ep, ep)
                 \/ Deliver(i, n, ep, sock[registry[i]].ep)
    BY DEF Handshake, ExpectedAt, ExpectsEndpoint, RevisableFor, Revisable
  <2>. QED
    BY <2>1, <1>1, <1>2

LEMMA NextEndpoint == IInv /\ [Next]_vars => [EndpointKept]_vars
<1> SUFFICES ASSUME IInv, [Next]_vars PROVE [EndpointKept]_vars
  OBVIOUS
<1>1. ASSUME NEW n \in Nodes, NEW p \in ToldPorts(n),
             AddSocket(n, <<NodeAddr[n], p>>)
      PROVE  EndpointKept
  <2>1. PICK id \in IdSpace :
          sock' = [sock EXCEPT ![nSocks + 1] =
                     [peer |-> n, ep |-> <<NodeAddr[n], p>>, guessed |-> 0,
                      connected |-> FALSE, by |-> NoNode, id |-> id]]
    BY <1>1 DEF AddSocket
  <2>2. nSocks \in Nat /\ nSocks + 1 \in SocketNums /\ nSocks' = nSocks + 1
    BY <1>1 DEF AddSocket, IInv, TypeOK
  <2>3. \A s \in 1 .. nSocks : sock'[s] = sock[s]
    BY <2>1, <2>2 DEF IInv, TypeOK
  <2>. QED
    BY <2>3 DEF EndpointKept
<1>2. ASSUME NEW s \in SocketNums, CloseSocket(s)
      PROVE  EndpointKept
  BY <1>2 DEF CloseSocket, EndpointKept
<1>3. ASSUME NEW n \in Nodes, NEW p \in NodePorts[n], NEW r \in Reasons,
             Handshake(n, p, r)
      PROVE  EndpointKept
  BY <1>3, HandshakeEndpoint
<1>. QED
  BY <1>1, <1>2, <1>3 DEF Next

\* A socket whose handshake is complete keeps the endpoint it talks to,
\* whatever ports its peer is later seen sending from: GetSocket revises
\* only a socket that is not connected, and a handshake it routes by the
\* exact endpoint finds the endpoint already in place.
THEOREM EndpointStable == Spec => ConnectedEndpointStable
<1>1. Spec => []IInv
  BY InitIInv, NextIInv, PTL DEF Spec
<1>2. []IInv /\ [][Next]_vars => [][EndpointKept]_vars
  BY NextEndpoint, PTL
<1>. QED
  BY <1>1, <1>2 DEF Spec, ConnectedEndpointStable, EndpointKept

-----------------------------------------------------------------------------
(* A socket is completed only by its own peer, when peers have addresses   *)
(* of their own.  Behind one NAT two peers share an address, and the       *)
(* symmetric-NAT revision of GetSocket, which compares addresses only,     *)
(* hands one peer's handshake to the socket opened for the other (the      *)
(* dispatcher_shared_nat run); so the theorem assumes distinct addresses.  *)
(* The induction needs more than ConnectedToOwnPeer: that every created    *)
(* socket expects an endpoint at its peer's address (so the two searches   *)
(* of GetSocket find only the peer's own sockets), and that the node a     *)
(* socket records is its peer or none yet.                                 *)

\* No two peers show the same address.
DistinctAddresses == \A m, n \in Nodes : NodeAddr[m] = NodeAddr[n] => m = n

\* Every created socket expects its peer's address and has been completed
\* by its peer or by nobody.
AtPeerAddress ==
    \A s \in 1 .. nSocks :
        /\ sock[s].ep[1] = NodeAddr[sock[s].peer]
        /\ sock[s].by \in {NoNode, sock[s].peer}
        /\ sock[s].connected => sock[s].by = sock[s].peer

PInv == IInv /\ AtPeerAddress

LEMMA AddSocketPeer ==
    ASSUME IInv, AtPeerAddress, NEW n \in Nodes, NEW p \in Ports,
           AddSocket(n, <<NodeAddr[n], p>>)
    PROVE  AtPeerAddress'
<1>1. PICK id \in IdSpace :
        sock' = [sock EXCEPT ![nSocks + 1] =
                   [peer |-> n, ep |-> <<NodeAddr[n], p>>, guessed |-> 0,
                    connected |-> FALSE, by |-> NoNode, id |-> id]]
  BY DEF AddSocket
<1>2. nSocks' = nSocks + 1 /\ nSocks + 1 \in SocketNums
  BY DEF AddSocket, IInv, TypeOK
<1>3. \A s \in 1 .. nSocks : sock'[s] = sock[s]
  BY <1>1, <1>2 DEF IInv, TypeOK
<1>4. sock'[nSocks + 1].peer = n /\ sock'[nSocks + 1].ep = <<NodeAddr[n], p>>
      /\ sock'[nSocks + 1].by = NoNode /\ ~sock'[nSocks + 1].connected
  BY <1>1, <1>2 DEF IInv, TypeOK
<1>5. ASSUME NEW s \in 1 .. nSocks'
      PROVE  /\ sock'[s].ep[1] = NodeAddr[sock'[s].peer]
             /\ sock'[s].by \in {NoNode, sock'[s].peer}
             /\ sock'[s].connected => sock'[s].by = sock'[s].peer
  <2>1. CASE s = nSocks + 1
    <3>1. <<NodeAddr[n], p>>[1] = NodeAddr[n]
      OBVIOUS
    <3>. QED
      BY <1>4, <2>1, <3>1
  <2>2. CASE s # nSocks + 1
    <3>1. s \in 1 .. nSocks
      BY <1>2, <2>2 DEF IInv, TypeOK
    <3>. QED
      BY <1>3, <3>1 DEF AtPeerAddress
  <2>. QED
    BY <2>1, <2>2
<1>. QED
  BY <1>5 DEF AtPeerAddress

\* A handshake reaches, by either search of GetSocket, only a socket
\* expecting the sender's address, so only a socket of the sender.
LEMMA HandshakePeer ==
    ASSUME DistinctAddresses, IInv, AtPeerAddress, NEW n \in Nodes,
           NEW p \in NodePorts[n], NEW r \in Reasons, Handshake(n, p, r)
    PROVE  AtPeerAddress'
<1> DEFINE ep == From(n, p)
<1>1. UNCHANGED nSocks
  BY DEF Handshake
<1>2. CASE UNCHANGED sock
  BY <1>1, <1>2 DEF AtPeerAddress
<1>3. ASSUME NEW i \in Registered, NEW was,
             sock[registry[i]].ep[1] = ep[1],
             Deliver(i, n, ep, was)
      PROVE  AtPeerAddress'
  <2> DEFINE s == registry[i]
  <2>1. s \in 1 .. nSocks /\ s \in SocketNums
    BY DEF IInv, RegistryConsistent, TypeOK
  <2>2. sock[s].peer = n
    <3>1. NodeAddr[sock[s].peer] = NodeAddr[n]
      BY <1>3, <2>1 DEF AtPeerAddress, From
    <3>2. sock[s].peer \in Nodes
      BY <2>1 DEF IInv, TypeOK, SocketInfo
    <3>. QED
      BY <3>1, <3>2 DEF DistinctAddresses
  <2>3. sock[s].by \in {NoNode, n}
    BY <2>1, <2>2 DEF AtPeerAddress
  <2>4. /\ sock'[s].peer = n /\ sock'[s].ep = ep /\ sock'[s].by = n
        /\ \A t \in 1 .. nSocks : t # s => sock'[t] = sock[t]
    BY <1>3, <2>1, <2>2, <2>3 DEF Deliver, IInv, TypeOK
  <2>. QED
    BY <1>1, <2>4 DEF AtPeerAddress, From
<1>. QED
  <2>1. \/ UNCHANGED sock
        \/ \E i \in Registered :
              /\ sock[registry[i]].ep[1] = ep[1]
              /\ \/ Deliver(i, n, ep, ep)
                 \/ Deliver(i, n, ep, sock[registry[i]].ep)
    BY DEF Handshake, ExpectedAt, ExpectsEndpoint, RevisableFor, Revisable
  <2>. QED
    BY <2>1, <1>2, <1>3

\* When no two peers share an address, a socket only ever completes its
\* handshake with the peer it was opened for, whatever sockets open and
\* close and whatever handshakes arrive from whichever port: GetSocket's
\* exact-endpoint search and its symmetric-NAT revision both match the
\* sender's address.
THEOREM OwnPeer ==
    ASSUME DistinctAddresses
    PROVE  Spec => []ConnectedToOwnPeer
<1>1. Init => PInv
  BY InitTypeOK DEF Init, PInv, IInv, RegistryConsistent, RemovedCreated,
     NoClosedRegistered, Registered, AtPeerAddress
<1>2. PInv /\ [Next]_vars => PInv'
  <2> SUFFICES ASSUME PInv, [Next]_vars PROVE PInv'
    OBVIOUS
  <2>1. IInv'
    BY NextIInv DEF PInv
  <2>2. ASSUME NEW n \in Nodes, NEW p \in ToldPorts(n),
               AddSocket(n, <<NodeAddr[n], p>>)
        PROVE  AtPeerAddress'
    BY <2>2, AddSocketPeer DEF PInv, ToldPorts
  <2>3. ASSUME NEW s \in SocketNums, CloseSocket(s)
        PROVE  AtPeerAddress'
    BY <2>3 DEF CloseSocket, AtPeerAddress, PInv
  <2>4. ASSUME NEW n \in Nodes, NEW p \in NodePorts[n], NEW r \in Reasons,
               Handshake(n, p, r)
        PROVE  AtPeerAddress'
    BY <2>4, HandshakePeer DEF PInv
  <2>5. CASE UNCHANGED vars
    <3>1. sock' = sock /\ nSocks' = nSocks
      BY <2>5 DEF vars
    <3>. QED
      BY <2>1, <3>1 DEF AtPeerAddress, PInv
  <2>. QED
    BY <2>1, <2>2, <2>3, <2>4, <2>5 DEF Next, PInv
<1>3. PInv => ConnectedToOwnPeer
  BY DEF PInv, AtPeerAddress, ConnectedToOwnPeer
<1>. QED
  BY <1>1, <1>2, <1>3, PTL DEF Spec

=============================================================================

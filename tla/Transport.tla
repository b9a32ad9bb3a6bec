----------------------------- MODULE Transport -----------------------------
(***************************************************************************)
(* The connection lifecycle of one RUDP transport: Transport (transport.cc) *)
(* and the connection set of its ConnectionManager (connection_manager.cc).*)
(*                                                                         *)
(* All connection-state mutations and I/O completions of one transport run *)
(* on a single strand, modelled as a FIFO queue of posted handlers plus the *)
(* handshake/close completions that the sockets deliver onto it.  A strand  *)
(* handler that invokes a user callback first copies the callback slot      *)
(* under callback_mutex_ and calls the copy after releasing the mutex: the *)
(* steps of a handler that follow such a copy are kept in `cont`, so that  *)
(* the user threads (Connect, CloseConnection, MakeConnectionPermanent,    *)
(* Close) can interleave with them exactly where the code lets them.       *)
(*                                                                         *)
(* The Connection class is not part of the sources: its state machine and  *)
(* the order in which it calls its on_connect / on_close handlers follow   *)
(* the specification (sections 4.3, 4.4, 4.6, 5 and 7).                    *)
(***************************************************************************)
EXTENDS Naturals, Sequences, FiniteSets, Functions

CONSTANTS
    Peers,        \* node ids of remote peers
    MaxRequests,  \* bound on Transport::Connect calls
    MaxInbound,   \* bound on unbound handshakes routed to HandlePingFrom
    MaxQueue      \* bound on handlers posted to the strand by user threads

ASSUME BoundsAssumption ==
    /\ Peers # {}
    /\ MaxRequests \in Nat
    /\ MaxInbound \in Nat
    /\ MaxQueue \in Nat

\* A rendezvous Connect creates at most two connections, an inbound
\* handshake at most one.
MaxConnIds == 2 * MaxRequests + MaxInbound
ConnIds == 1 .. MaxConnIds
Requests == 1 .. MaxRequests

\* Connection::State
ConnState == {"Pending", "Bootstrapping", "Temporary", "Unvalidated",
              "Permanent", "Duplicate"}

\* The lifespan argument of Connect: bptime::time_duration() (zero),
\* Parameters::bootstrap_connection_lifespan, bptime::pos_infin.
Lifespans == {"Zero", "Bootstrap", "Infinite"}

\* The on_connect handler a connection was started with:
\*   "Default"    - DefaultOnConnectHandler alone (inbound bootstrap),
\*   "Request"    - on_connect of DoConnect (default handler, then the user's),
\*   "Rendezvous" - on_connect2 of DoConnect (external attempt of a pair).
Handlers == {"Default", "Request", "Rendezvous"}

\* The shape of the EndpointPair given to Transport::Connect.
\*   "Both"      - external valid and local # external,
\*   "Same"      - external valid and local = external,
\*   "LocalOnly" - external invalid.
PairKinds == {"Both", "Same", "LocalOnly"}

\* What ConnectionManager::Connect gives a new Connection and never changes.
ConnInfo == [peer : Peers, life : Lifespans, handler : Handlers,
             req : 0 .. MaxRequests]

\* Handlers posted to the strand.
Task == [kind : {"DoConnect"}, req : Requests, peer : Peers, pair : PairKinds]
        \cup [kind : {"CloseConn"}, conn : ConnIds]
        \cup [kind : {"CloseAll"}]

\* The remaining steps of the strand handler in progress.
Effect == [kind : {"CopyAdded", "CallAdded", "CopyLost", "CallLost"},
           conn : ConnIds]
          \cup [kind : {"Reply"}, req : Requests]

VARIABLES
    open,        \* multiplexer_->IsOpen()
    attached,    \* the multiplexer's dispatcher points at the ConnectionManager
    slots,       \* on_message_, on_connection_added_, on_connection_lost_ are set
    connections, \* ConnectionManager::connections_
    conn,        \* conn[c]: what connection c was started with
    state,       \* state[c]: Connection::state() of connection c
    closed,      \* the connections that have closed
    nConns,      \* connections 1 .. nConns have been created
    strand,      \* handlers posted to the strand, in order
    cont,        \* remaining steps of the handler the strand is running
    nReqs,       \* number of Transport::Connect calls
    nInbound,    \* number of handshakes handed to HandlePingFrom
    replies,     \* replies[r]: invocations of request r's user handler
    added,       \* connections announced through on_connection_added
    lost         \* connections announced through on_connection_lost

vars == <<open, attached, slots, connections, conn, state, closed, nConns,
          strand, cont, nReqs, nInbound, replies, added, lost>>

Created == 1 .. nConns

-----------------------------------------------------------------------------
(* Helpers of connection_manager.cc.                                       *)

\* Mutant: IsNormal forgetting kPermanent.
IsNormalNoPermanent(s) == s \in {"Unvalidated", "Bootstrapping"}

\* IsNormal (unnamed namespace): the states kept in connections_.
IsNormal(s) == s \in {"Permanent", "Unvalidated", "Bootstrapping"}

\* FindConnection: std::find_if over a set ordered by pointer value, so
\* any connection of the set to that peer may be the one returned.
FindConnection(p) == {c \in connections : conn[c].peer = p}

\* ConnectionManager::AddConnection for a connection reaching state s.
AddConnection(c, s) == IF IsNormal(s) THEN connections \cup {c}
                                      ELSE connections

\* ConnectionManager::RemoveConnection.
RemoveConnection(c) == connections \ {c}

\* ConnectionManager::Connect: a new Connection, which starts handshaking
\* (a Connection is constructed kPending, the state every connection
\* not yet created keeps).
NewConnection(p, l, h, r) ==
    /\ nConns < MaxConnIds
    /\ conn' = [conn EXCEPT ![nConns + 1] =
                  [peer |-> p, life |-> l, handler |-> h, req |-> r]]
    /\ nConns' = nConns + 1

(* Helpers of transport.cc.                                                *)

CopyAdded(c) == [kind |-> "CopyAdded", conn |-> c]
CopyLost(c) == [kind |-> "CopyLost", conn |-> c]
Reply(r) == [kind |-> "Reply", req |-> r]

\* Transport::AddConnection for a connection reaching state s: the set
\* after it.  A Temporary connection skips the manager.  The manager's
\* bool result is compared with kInvalidConnection and
\* kConnectionAlreadyExists, negative return codes no bool equals, so
\* neither early return is ever taken and on_connection_added is always
\* copied (the CopyAdded step).
TransportAddConnection(c, s) ==
    IF s = "Temporary" THEN connections ELSE AddConnection(c, s)

\* Transport::RemoveConnection: the steps it leaves for the strand.
TransportRemoveConnection(c) ==
    IF state[c] # "Duplicate" THEN <<CopyLost(c)>> ELSE <<>>

\* Mutant: the request's handler is called for every connection, also
\* for one started by HandlePingFrom, which has none.
OnConnectStepsAll(c, ok) ==
    (IF ok THEN <<CopyAdded(c)>> ELSE <<>>) \o <<Reply(conn[c].req)>>

\* The steps of on_connect(error, c) after the state change, for the
\* handlers that do not start another attempt: DefaultOnConnectHandler
\* (AddConnection on success) followed, for a request, by handler(error).
OnConnectSteps(c, ok) ==
    (IF ok THEN <<CopyAdded(c)>> ELSE <<>>)
    \o (IF conn[c].handler = "Request" \/ conn[c].handler = "Rendezvous"
          THEN <<Reply(conn[c].req)>> ELSE <<>>)

\* Mutants of on_connect2: it always passes the outcome on, or it forgets
\* the closed-multiplexer fallback.
RunsOnConnectAlways(c) == TRUE
RunsOnConnectNoFallback(c) == conn[c].handler # "Rendezvous"

\* on_connect2 (transport.cc:294-302) hands the outcome of the external
\* attempt to on_connect only when the multiplexer has been closed ...
RunsOnConnect(c) == conn[c].handler # "Rendezvous" \/ ~open

\* ... and otherwise starts the attempt on the local endpoint, whatever
\* that outcome was.
StartsLocalAttempt(c) == conn[c].handler = "Rendezvous" /\ open

\* The connections created by on_connect2 of c.
OnConnect2(c) ==
    IF StartsLocalAttempt(c)
      THEN NewConnection(conn[c].peer, "Infinite", "Request", conn[c].req)
      ELSE UNCHANGED <<conn, nConns>>

-----------------------------------------------------------------------------
(* The Connection (spec-modelled).                                         *)

\* The state a completed handshake leads to, by lifespan.
StateAfterHandshake(l) ==
    IF l = "Zero" THEN "Temporary"
    ELSE IF l = "Bootstrap" THEN "Bootstrapping"
    ELSE "Unvalidated"

\* The connection's handshake completes: on_connect(success, c).
HandshakeSucceeds(c) ==
    LET s == StateAfterHandshake(conn[c].life) IN
    /\ cont = <<>>
    /\ c \in Created
    /\ state[c] = "Pending"
    /\ c \notin closed
    /\ open
    /\ state' = [state EXCEPT ![c] = s]
    /\ OnConnect2(c)
    /\ connections' = IF RunsOnConnect(c) THEN TransportAddConnection(c, s)
                                          ELSE connections
    /\ cont' = IF RunsOnConnect(c) THEN OnConnectSteps(c, TRUE) ELSE <<>>
    /\ UNCHANGED <<open, attached, slots, closed, strand, nReqs, nInbound,
                   replies, added, lost>>

\* The connection closes: Connection::Close, a peer drop or a timeout.  A
\* handshake still pending fails first (on_connect(error, c)); a normal
\* connection leaves the manager's set; then on_close(error, c) runs the
\* DefaultOnCloseHandler, Transport::RemoveConnection.
Shutdown(c) ==
    LET pending == state[c] = "Pending" IN
    /\ closed' = closed \cup {c}
    /\ IF pending THEN OnConnect2(c) ELSE UNCHANGED <<conn, nConns>>
    /\ cont' = (IF pending /\ RunsOnConnect(c) THEN OnConnectSteps(c, FALSE)
                                                ELSE <<>>)
               \o TransportRemoveConnection(c)
    /\ connections' = IF IsNormal(state[c]) THEN RemoveConnection(c)
                                            ELSE connections
    /\ UNCHANGED state

\* A pending handshake times out or is refused, or an established
\* connection is dropped by the peer or expires.
ConnectionFails(c) ==
    /\ cont = <<>>
    /\ c \in Created
    /\ c \notin closed
    /\ Shutdown(c)
    /\ UNCHANGED <<open, attached, slots, strand, nReqs, nInbound, replies,
                   added, lost>>

-----------------------------------------------------------------------------
(* ConnectionManager operations.                                           *)

\* HandlePingFrom for a handshake from peer p with reason `drop'
\* (kBootstrapAndDrop) or another non-normal reason, from a valid endpoint
\* that no socket expects.  A peer already in the set is disconnected
\* unless it bootstraps-and-drops; otherwise a bootstrap or temporary
\* connection is started towards it.
HandlePingFrom(p, drop) ==
    /\ cont = <<>>
    /\ attached
    /\ open
    /\ nInbound < MaxInbound
    /\ nInbound' = nInbound + 1
    /\ \/ /\ ~drop
          /\ \E c \in FindConnection(p) : Shutdown(c)
       \/ /\ drop \/ FindConnection(p) = {}
          /\ NewConnection(p, IF drop THEN "Zero" ELSE "Bootstrap", "Default", 0)
          /\ UNCHANGED <<state, closed, connections, cont>>
    /\ UNCHANGED <<open, attached, slots, strand, nReqs, replies, added, lost>>

\* ConnectionManager::CloseConnection (user thread): the connection found
\* under the mutex is closed by a handler posted to the strand.
CloseConnection(p) ==
    /\ Len(strand) < MaxQueue
    /\ \E c \in FindConnection(p) :
          strand' = Append(strand, [kind |-> "CloseConn", conn |-> c])
    /\ UNCHANGED <<open, attached, slots, connections, conn, state, closed,
                   nConns, cont, nReqs, nInbound, replies, added, lost>>

\* ConnectionManager::MakeConnectionPermanent (user thread).
MakeConnectionPermanent(p) ==
    /\ \E c \in FindConnection(p) : state' = [state EXCEPT ![c] = "Permanent"]
    /\ UNCHANGED <<open, attached, slots, connections, conn, closed, nConns,
                   strand, cont, nReqs, nInbound, replies, added, lost>>

\* Mutant: ConnectionManager::Close posting nothing.
CMCloseNoPosts == strand' = Tail(strand)

\* ConnectionManager::Close posts Connection::Close for every member of
\* the set, in the set's (pointer) order.
CMClose ==
    \E order \in Bijection(1 .. Cardinality(connections), connections) :
       strand' = Tail(strand)
                 \o [i \in 1 .. Cardinality(connections) |->
                       [kind |-> "CloseConn", conn |-> order[i]]]

-----------------------------------------------------------------------------
(* Transport operations.                                                   *)

\* Transport::Connect (user thread) posts DoConnect to the strand.
Connect(p, pair) ==
    /\ nReqs < MaxRequests
    /\ Len(strand) < MaxQueue
    /\ nReqs' = nReqs + 1
    /\ strand' = Append(strand, [kind |-> "DoConnect", req |-> nReqs + 1,
                                 peer |-> p, pair |-> pair])
    /\ UNCHANGED <<open, attached, slots, connections, conn, state, closed,
                   nConns, cont, nInbound, replies, added, lost>>

\* Transport::Close (user thread): clear the callback slots under
\* callback_mutex_, then post the manager's and the multiplexer's Close.
Close ==
    /\ Len(strand) < MaxQueue
    /\ slots' = FALSE
    /\ strand' = Append(strand, [kind |-> "CloseAll"])
    /\ UNCHANGED <<open, attached, connections, conn, state, closed, nConns,
                   cont, nReqs, nInbound, replies, added, lost>>

\* The strand is free to take the next posted handler, of kind k.
NextHandler(k) == cont = <<>> /\ strand # <<>> /\ Head(strand).kind = k

\* Transport::DoConnect (strand): a closed multiplexer fails the request;
\* otherwise the external endpoint is tried first (with on_connect2 when
\* the local endpoint differs), or the local one when external is invalid.
DoConnect ==
    LET t == Head(strand) IN
    /\ NextHandler("DoConnect")
    /\ strand' = Tail(strand)
    /\ IF ~open
         THEN /\ cont' = <<Reply(t.req)>>
              /\ UNCHANGED <<conn, nConns>>
         ELSE /\ NewConnection(t.peer, "Infinite",
                               IF t.pair = "Both" THEN "Rendezvous"
                                                  ELSE "Request", t.req)
              /\ UNCHANGED cont
    /\ UNCHANGED <<open, attached, slots, connections, state, closed, nReqs,
                   nInbound, replies, added, lost>>

\* The strand runs Connection::Close for a connection: a no-op once closed.
DoCloseConn ==
    LET c == Head(strand).conn IN
    /\ NextHandler("CloseConn")
    /\ strand' = Tail(strand)
    /\ IF c \in closed
         THEN UNCHANGED <<connections, conn, closed, nConns, cont>>
         ELSE Shutdown(c)
    /\ UNCHANGED <<open, attached, slots, state, nReqs, nInbound, replies,
                   added, lost>>

\* The handler Transport::Close posted: ConnectionManager::Close (detach
\* from the dispatcher, post a close per connection), then
\* Multiplexer::Close.
DoCloseAll ==
    /\ NextHandler("CloseAll")
    /\ attached' = FALSE
    /\ CMClose
    /\ open' = FALSE
    /\ UNCHANGED <<slots, connections, conn, state, closed, nConns, cont,
                   nReqs, nInbound, replies, added, lost>>

\* The next step of the handler in progress, of kind k.
NextStep(k) == cont # <<>> /\ Head(cont).kind = k

\* Copy a callback slot under callback_mutex_: nothing is left to call if
\* Close has cleared it.
CopySlot ==
    LET e == Head(cont) IN
    /\ NextStep("CopyAdded") \/ NextStep("CopyLost")
    /\ cont' = IF slots
                 THEN <<[kind |-> IF e.kind = "CopyAdded" THEN "CallAdded"
                                                         ELSE "CallLost",
                         conn |-> e.conn]>> \o Tail(cont)
                 ELSE Tail(cont)
    /\ UNCHANGED <<open, attached, slots, connections, conn, state, closed,
                   nConns, strand, nReqs, nInbound, replies, added, lost>>

\* Call the copy of on_connection_added_.
CallAdded ==
    /\ NextStep("CallAdded")
    /\ cont' = Tail(cont)
    /\ added' = added \cup {Head(cont).conn}
    /\ UNCHANGED <<open, attached, slots, connections, conn, state, closed,
                   nConns, strand, nReqs, nInbound, replies, lost>>

\* Call the copy of on_connection_lost_.
CallLost ==
    /\ NextStep("CallLost")
    /\ cont' = Tail(cont)
    /\ lost' = lost \cup {Head(cont).conn}
    /\ UNCHANGED <<open, attached, slots, connections, conn, state, closed,
                   nConns, strand, nReqs, nInbound, replies, added>>

\* Call the handler given to Transport::Connect.
CallReply ==
    /\ NextStep("Reply")
    /\ cont' = Tail(cont)
    /\ replies' = [replies EXCEPT ![Head(cont).req] = @ + 1]
    /\ UNCHANGED <<open, attached, slots, connections, conn, state, closed,
                   nConns, strand, nReqs, nInbound, added, lost>>

-----------------------------------------------------------------------------
(* The transport after a successful Bootstrap: multiplexer open, manager   *)
(* attached to the dispatcher, callback slots installed, no connection.    *)
Init ==
    /\ open = TRUE
    /\ attached = TRUE
    /\ slots = TRUE
    /\ connections = {}
    /\ conn = [c \in ConnIds |-> [peer |-> CHOOSE p \in Peers : TRUE,
                                  life |-> "Zero", handler |-> "Default",
                                  req |-> 0]]
    /\ state = [c \in ConnIds |-> "Pending"]
    /\ closed = {}
    /\ nConns = 0
    /\ strand = <<>>
    /\ cont = <<>>
    /\ nReqs = 0
    /\ nInbound = 0
    /\ replies = [r \in Requests |-> 0]
    /\ added = {}
    /\ lost = {}

UserStep ==
    \/ \E p \in Peers, pair \in PairKinds : Connect(p, pair)
    \/ \E p \in Peers : CloseConnection(p)
    \/ \E p \in Peers : MakeConnectionPermanent(p)
    \/ Close

NetworkStep ==
    \/ \E c \in ConnIds : HandshakeSucceeds(c) \/ ConnectionFails(c)
    \/ \E p \in Peers, drop \in BOOLEAN : HandlePingFrom(p, drop)

RunHandler == DoConnect \/ DoCloseConn \/ DoCloseAll

Continue == CopySlot \/ CallAdded \/ CallLost \/ CallReply

Next == UserStep \/ NetworkStep \/ RunHandler \/ Continue

\* The strand runs what is posted to it; a pending handshake is resolved
\* by its attempt timeout at the latest.  Peers and users owe nothing.
Fairness ==
    /\ WF_vars(RunHandler)
    /\ WF_vars(Continue)
    /\ \A c \in ConnIds :
          WF_vars(state[c] = "Pending" /\ ConnectionFails(c))

Spec == Init /\ [][Next]_vars /\ Fairness

-----------------------------------------------------------------------------
(* Properties.                                                             *)

TypeOK ==
    /\ open \in BOOLEAN
    /\ attached \in BOOLEAN
    /\ slots \in BOOLEAN
    /\ connections \subseteq ConnIds
    /\ conn \in [ConnIds -> ConnInfo]
    /\ state \in [ConnIds -> ConnState]
    /\ closed \subseteq ConnIds
    /\ nConns \in 0 .. MaxConnIds
    /\ strand \in Seq(Task)
    /\ cont \in Seq(Effect)
    /\ nReqs \in 0 .. MaxRequests
    /\ nInbound \in 0 .. MaxInbound
    /\ replies \in [Requests -> Nat]
    /\ added \subseteq ConnIds
    /\ lost \subseteq ConnIds

\* Every member of ConnectionManager::connections_ is a live connection in
\* a normal state: AddConnection admits only normal connections, a closing
\* normal connection leaves the set, and MakeConnectionPermanent keeps a
\* member normal, whatever order strand handlers and user threads run in.
SetHoldsLiveNormal ==
    \A c \in connections :
        /\ c \in Created
        /\ c \notin closed
        /\ IsNormal(state[c])

\* The handler given to Transport::Connect is called at most once, also
\* for a rendezvous pair whose two attempts chain through on_connect2.
ReplyAtMostOnce == \A r \in Requests : replies[r] <= 1

\* Every Transport::Connect call is eventually answered through its
\* handler, also when the transport is closed while it is in flight.
ReplyEventually == \A r \in Requests : (nReqs >= r) ~> (replies[r] >= 1)

\* After Transport::Close, ConnectionManager::connections_ eventually
\* becomes empty and stays empty (spec section 8, property 5).
CloseDrains == ~slots ~> [](connections = {})

\* At most one connection to a peer is in the set (spec section 3 and
\* section 8, property 1: add_connection rejects a second one).
OnePerPeer ==
    \A c, d \in connections : conn[c].peer = conn[d].peer => c = d

\* Every established normal connection is in the manager's set, so that
\* CloseConnection, Send and Close reach it (spec section 3, lifecycle).
NoOrphan ==
    \A c \in Created :
        c \notin closed /\ IsNormal(state[c]) => c \in connections

\* Once Transport::Close has cleared the callback slots, no
\* on_connection_added or on_connection_lost is invoked any more (spec
\* scenario S6).
NoCallbackAfterClose ==
    [][~slots => added' = added /\ lost' = lost]_vars

=============================================================================

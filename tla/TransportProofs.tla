-------------------------- MODULE TransportProofs --------------------------
(***************************************************************************)
(* Proofs about the transport's connection lifecycle, for every value of   *)
(* the constants: type correctness, and that the ConnectionManager's set   *)
(* only ever holds live connections in a normal state.                     *)
(***************************************************************************)
EXTENDS Transport, TLAPS, SequenceTheorems, FiniteSetTheorems

\* Connections started on behalf of a Transport::Connect call carry the
\* number of that call; only HandlePingFrom's connections carry none.
ReqTyped ==
    \A c \in ConnIds :
        conn[c].handler # "Default" => conn[c].req \in Requests

TypeInv == TypeOK /\ ReqTyped

USE BoundsAssumption DEF MaxConnIds, ConnIds, Requests

-----------------------------------------------------------------------------
(* Lemmas on the operators the actions are built from.                     *)

LEMMA StateAfterHandshakeType ==
    ASSUME NEW l \in Lifespans
    PROVE  StateAfterHandshake(l) \in ConnState
BY DEF StateAfterHandshake, Lifespans, ConnState

\* ConnectionManager::Connect keeps the connection table typed, and a
\* connection of a request carries that request.
LEMMA NewConnectionType ==
    ASSUME TypeInv, NEW p \in Peers, NEW l \in Lifespans, NEW h \in Handlers,
           NEW r \in 0 .. MaxRequests, h # "Default" => r \in Requests,
           NewConnection(p, l, h, r)
    PROVE  /\ conn' \in [ConnIds -> ConnInfo]
           /\ ReqTyped'
           /\ nConns' \in 0 .. MaxConnIds
BY DEF NewConnection, TypeInv, TypeOK, ReqTyped, ConnInfo

\* on_connect2's local attempt keeps the table typed.
LEMMA OnConnect2Type ==
    ASSUME TypeInv, NEW c \in ConnIds, OnConnect2(c)
    PROVE  /\ conn' \in [ConnIds -> ConnInfo]
           /\ ReqTyped'
           /\ nConns' \in 0 .. MaxConnIds
<1>1. CASE StartsLocalAttempt(c)
  <2>1. conn[c].peer \in Peers /\ conn[c].req \in Requests
    BY <1>1 DEF StartsLocalAttempt, TypeInv, TypeOK, ReqTyped, ConnInfo
  <2>2. NewConnection(conn[c].peer, "Infinite", "Request", conn[c].req)
    BY <1>1 DEF OnConnect2
  <2>. QED
    BY <2>1, <2>2, NewConnectionType DEF Lifespans, Handlers
<1>2. CASE ~StartsLocalAttempt(c)
  BY <1>2 DEF OnConnect2, TypeInv, TypeOK, ReqTyped
<1>. QED
  BY <1>1, <1>2

\* The steps on_connect leaves for the strand are effects.
LEMMA OnConnectStepsType ==
    ASSUME TypeInv, NEW c \in ConnIds, NEW ok \in BOOLEAN
    PROVE  OnConnectSteps(c, ok) \in Seq(Effect)
<1>1. <<CopyAdded(c)>> \in Seq(Effect) /\ << >> \in Seq(Effect)
  BY DEF CopyAdded, Effect
<1>2. conn[c].handler = "Request" \/ conn[c].handler = "Rendezvous"
        => <<Reply(conn[c].req)>> \in Seq(Effect)
  BY DEF TypeInv, ReqTyped, Reply, Effect
<1>3. (IF ok THEN <<CopyAdded(c)>> ELSE << >>) \in Seq(Effect)
  BY <1>1
<1>4. (IF conn[c].handler = "Request" \/ conn[c].handler = "Rendezvous"
         THEN <<Reply(conn[c].req)>> ELSE << >>) \in Seq(Effect)
  BY <1>1, <1>2
<1>. QED
  BY <1>3, <1>4, ConcatProperties DEF OnConnectSteps

LEMMA TransportRemoveConnectionType ==
    ASSUME NEW c \in ConnIds
    PROVE  TransportRemoveConnection(c) \in Seq(Effect)
<1>1. <<CopyLost(c)>> \in Seq(Effect)
  BY DEF CopyLost, Effect
<1>. QED
  BY <1>1, EmptySeq DEF TransportRemoveConnection

\* The sequence of Connection::Close handlers ConnectionManager::Close posts.
LEMMA ClosePostsType ==
    ASSUME TypeOK, NEW order \in Bijection(1 .. Cardinality(connections),
                                           connections)
    PROVE  [i \in 1 .. Cardinality(connections) |->
              [kind |-> "CloseConn", conn |-> order[i]]] \in Seq(Task)
<1>0. IsFiniteSet(ConnIds)
  BY FS_Interval
<1>1. IsFiniteSet(connections)
  BY <1>0, FS_Subset DEF TypeOK
<1>2. Cardinality(connections) \in Nat
  BY <1>1, FS_CardinalityType
<1>3. \A i \in 1 .. Cardinality(connections) : order[i] \in ConnIds
  BY DEF Bijection, Injection, Surjection, TypeOK
<1>. QED
  BY <1>2, <1>3 DEF Task

-----------------------------------------------------------------------------
(* Type correctness.                                                       *)

\* A connection's own steps: its handshake completes, or it closes.
LEMMA HandshakeSucceedsTypeInv ==
    ASSUME TypeInv, NEW c \in ConnIds, HandshakeSucceeds(c)
    PROVE  TypeInv'
<1> DEFINE s == StateAfterHandshake(conn[c].life)
<1>1. s \in ConnState
  BY StateAfterHandshakeType DEF TypeInv, TypeOK, ConnInfo
<1>2. state' \in [ConnIds -> ConnState]
  BY <1>1 DEF HandshakeSucceeds, TypeInv, TypeOK
<1>3. /\ conn' \in [ConnIds -> ConnInfo]
      /\ ReqTyped'
      /\ nConns' \in 0 .. MaxConnIds
  BY OnConnect2Type DEF HandshakeSucceeds
<1>4. cont' \in Seq(Effect)
  BY OnConnectStepsType, EmptySeq DEF HandshakeSucceeds
<1>5. connections' \subseteq ConnIds
  BY DEF HandshakeSucceeds, TransportAddConnection, AddConnection, TypeInv,
     TypeOK
<1>. QED
  BY <1>2, <1>3, <1>4, <1>5 DEF HandshakeSucceeds, TypeInv, TypeOK

LEMMA ShutdownTypeInv ==
    ASSUME TypeInv, NEW c \in ConnIds, Shutdown(c)
    PROVE  /\ conn' \in [ConnIds -> ConnInfo]
           /\ ReqTyped'
           /\ nConns' \in 0 .. MaxConnIds
           /\ closed' \subseteq ConnIds
           /\ cont' \in Seq(Effect)
           /\ connections' \subseteq ConnIds
           /\ state' = state
<1> DEFINE pending == state[c] = "Pending"
<1>1. /\ conn' \in [ConnIds -> ConnInfo]
      /\ ReqTyped'
      /\ nConns' \in 0 .. MaxConnIds
  <2>1. CASE pending
    BY <2>1, OnConnect2Type DEF Shutdown
  <2>2. CASE ~pending
    BY <2>2 DEF Shutdown, TypeInv, TypeOK, ReqTyped
  <2>. QED
    BY <2>1, <2>2
<1>2. (IF pending /\ RunsOnConnect(c) THEN OnConnectSteps(c, FALSE)
                                       ELSE << >>) \in Seq(Effect)
  BY OnConnectStepsType, EmptySeq
<1>3. cont' \in Seq(Effect)
  BY <1>2, TransportRemoveConnectionType, ConcatProperties DEF Shutdown
<1>. QED
  BY <1>1, <1>3 DEF Shutdown, RemoveConnection, TypeInv, TypeOK

LEMMA ConnectionFailsTypeInv ==
    ASSUME TypeInv, NEW c \in ConnIds, ConnectionFails(c)
    PROVE  TypeInv'
BY ShutdownTypeInv DEF ConnectionFails, TypeInv, TypeOK

\* The user threads' calls.
LEMMA UserStepTypeInv ==
    ASSUME TypeInv, UserStep
    PROVE  TypeInv'
<1>1. ASSUME NEW p \in Peers, NEW pair \in PairKinds, Connect(p, pair)
      PROVE  TypeInv'
  <2>1. [kind |-> "DoConnect", req |-> nReqs + 1, peer |-> p, pair |-> pair]
          \in Task
    BY <1>1 DEF Connect, Task, TypeInv, TypeOK
  <2>2. strand' \in Seq(Task)
    BY <1>1, <2>1, AppendProperties DEF Connect, TypeInv, TypeOK
  <2>3. nReqs' \in 0 .. MaxRequests
    BY <1>1 DEF Connect, TypeInv, TypeOK
  <2>. QED
    BY <1>1, <2>2, <2>3 DEF Connect, TypeInv, TypeOK, ReqTyped
<1>2. ASSUME NEW p \in Peers, CloseConnection(p)
      PROVE  TypeInv'
  BY <1>2, AppendProperties DEF CloseConnection, FindConnection, Task,
     TypeInv, TypeOK, ReqTyped
<1>3. ASSUME NEW p \in Peers, MakeConnectionPermanent(p)
      PROVE  TypeInv'
  BY <1>3 DEF MakeConnectionPermanent, FindConnection, TypeInv, TypeOK,
     ReqTyped, ConnState
<1>4. ASSUME Close
      PROVE  TypeInv'
  BY <1>4, AppendProperties DEF Close, Task, TypeInv, TypeOK, ReqTyped
<1>. QED
  BY <1>1, <1>2, <1>3, <1>4 DEF UserStep

LEMMA NetworkStepTypeInv ==
    ASSUME TypeInv, NetworkStep
    PROVE  TypeInv'
<1>1. ASSUME NEW c \in ConnIds, HandshakeSucceeds(c) \/ ConnectionFails(c)
      PROVE  TypeInv'
  BY <1>1, HandshakeSucceedsTypeInv, ConnectionFailsTypeInv
<1>2. ASSUME NEW p \in Peers, NEW drop \in BOOLEAN, HandlePingFrom(p, drop)
      PROVE  TypeInv'
  <2>1. nInbound' \in 0 .. MaxInbound
    BY <1>2 DEF HandlePingFrom, TypeInv, TypeOK
  <2>2. CASE ~drop /\ \E c \in FindConnection(p) : Shutdown(c)
    BY <1>2, <2>1, <2>2, ShutdownTypeInv DEF HandlePingFrom, FindConnection,
       TypeInv, TypeOK
  <2>3. CASE /\ drop \/ FindConnection(p) = {}
             /\ NewConnection(p, IF drop THEN "Zero" ELSE "Bootstrap",
                              "Default", 0)
             /\ UNCHANGED <<state, closed, connections, cont>>
    <3>1. (IF drop THEN "Zero" ELSE "Bootstrap") \in Lifespans
      BY DEF Lifespans
    <3>2. /\ conn' \in [ConnIds -> ConnInfo]
          /\ ReqTyped'
          /\ nConns' \in 0 .. MaxConnIds
      BY <2>3, <3>1, NewConnectionType DEF Handlers
    <3>3. UNCHANGED <<open, attached, slots, strand, nReqs, replies, added,
                      lost, state, closed, connections, cont>>
      BY <1>2, <2>3 DEF HandlePingFrom
    <3>. QED
      BY <2>1, <3>2, <3>3 DEF TypeInv, TypeOK
  <2>. QED
    BY <1>2, <2>2, <2>3 DEF HandlePingFrom
<1>. QED
  BY <1>1, <1>2 DEF NetworkStep

\* The strand runs a posted handler.
LEMMA RunHandlerTypeInv ==
    ASSUME TypeInv, RunHandler
    PROVE  TypeInv'
<1> DEFINE t == Head(strand)
<1>1. ASSUME strand # << >>
      PROVE  t \in Task /\ Tail(strand) \in Seq(Task)
  BY <1>1, HeadTailProperties DEF TypeInv, TypeOK
<1>2. CASE DoConnect
  <2>1. t \in [kind : {"DoConnect"}, req : Requests, peer : Peers,
               pair : PairKinds]
    BY <1>1, <1>2 DEF DoConnect, NextHandler, Task
  <2>2. ~open => cont' \in Seq(Effect)
    <3>1. <<Reply(t.req)>> \in Seq(Effect)
      BY <2>1 DEF Reply, Effect
    <3>. QED
      BY <1>2, <3>1 DEF DoConnect
  <2>3. open => /\ conn' \in [ConnIds -> ConnInfo]
                /\ ReqTyped'
                /\ nConns' \in 0 .. MaxConnIds
    <3>1. (IF t.pair = "Both" THEN "Rendezvous" ELSE "Request") \in Handlers
      BY DEF Handlers
    <3>. QED
      BY <1>2, <2>1, <3>1, NewConnectionType DEF DoConnect, Lifespans
  <2>. QED
    BY <1>1, <1>2, <2>2, <2>3 DEF DoConnect, NextHandler, TypeInv, TypeOK,
       ReqTyped
<1>3. CASE DoCloseConn
  <2>1. t.conn \in ConnIds
    BY <1>1, <1>3 DEF DoCloseConn, NextHandler, Task
  <2>2. t.conn \notin closed => TypeInv'
    BY <1>1, <1>3, <2>1, ShutdownTypeInv DEF DoCloseConn, NextHandler,
       TypeInv, TypeOK
  <2>. QED
    BY <1>1, <1>3, <2>2 DEF DoCloseConn, NextHandler, TypeInv, TypeOK,
       ReqTyped
<1>4. CASE DoCloseAll
  <2>2. PICK order \in Bijection(1 .. Cardinality(connections), connections) :
          strand' = Tail(strand)
                    \o [i \in 1 .. Cardinality(connections) |->
                          [kind |-> "CloseConn", conn |-> order[i]]]
    BY <1>4 DEF DoCloseAll, CMClose
  <2>3. strand' \in Seq(Task)
    BY <1>1, <1>4, <2>2, ClosePostsType, ConcatProperties
       DEF TypeInv, DoCloseAll, NextHandler
  <2>. QED
    BY <1>4, <2>3 DEF DoCloseAll, TypeInv, TypeOK, ReqTyped
<1>. QED
  BY <1>2, <1>3, <1>4 DEF RunHandler

\* The strand continues the handler in progress.
LEMMA ContinueTypeInv ==
    ASSUME TypeInv, Continue
    PROVE  TypeInv'
<1> DEFINE e == Head(cont)
<1>1. ASSUME cont # << >>
      PROVE  e \in Effect /\ Tail(cont) \in Seq(Effect)
  BY <1>1, HeadTailProperties DEF TypeInv, TypeOK
<1>2. CASE CopySlot
  <2>1. e.conn \in ConnIds
    BY <1>1, <1>2 DEF CopySlot, NextStep, Effect
  <2>2. /\ <<[kind |-> "CallAdded", conn |-> e.conn]>> \o Tail(cont)
             \in Seq(Effect)
        /\ <<[kind |-> "CallLost", conn |-> e.conn]>> \o Tail(cont)
             \in Seq(Effect)
    BY <1>1, <1>2, <2>1, ConcatProperties DEF CopySlot, NextStep, Effect
  <2>. QED
    BY <1>1, <1>2, <2>2 DEF CopySlot, NextStep, TypeInv, TypeOK, ReqTyped
<1>3. CASE CallAdded \/ CallLost
  <2>1. e.conn \in ConnIds
    BY <1>1, <1>3 DEF CallAdded, CallLost, NextStep, Effect
  <2>. QED
    BY <1>1, <1>3, <2>1 DEF CallAdded, CallLost, NextStep, TypeInv, TypeOK,
       ReqTyped
<1>4. CASE CallReply
  <2>1. e.req \in Requests
    BY <1>1, <1>4 DEF CallReply, NextStep, Effect
  <2>2. replies' = [replies EXCEPT ![e.req] = replies[e.req] + 1]
    BY <1>4 DEF CallReply
  <2>3. replies[e.req] + 1 \in Nat
    BY <2>1 DEF TypeInv, TypeOK
  <2>4. replies' \in [Requests -> Nat]
    BY <2>2, <2>3 DEF TypeInv, TypeOK
  <2>. QED
    BY <1>1, <1>4, <2>4 DEF CallReply, NextStep, TypeInv, TypeOK, ReqTyped
<1>. QED
  BY <1>2, <1>3, <1>4 DEF Continue

LEMMA InitTypeInv == Init => TypeInv
BY DEF Init, TypeInv, TypeOK, ReqTyped, ConnInfo, ConnState, Lifespans,
   Handlers

LEMMA NextTypeInv == TypeInv /\ [Next]_vars => TypeInv'
<1> SUFFICES ASSUME TypeInv, [Next]_vars PROVE TypeInv'
  OBVIOUS
<1>1. CASE UserStep
  BY <1>1, UserStepTypeInv
<1>2. CASE NetworkStep
  BY <1>2, NetworkStepTypeInv
<1>3. CASE RunHandler
  BY <1>3, RunHandlerTypeInv
<1>4. CASE Continue
  BY <1>4, ContinueTypeInv
<1>5. CASE UNCHANGED vars
  BY <1>5 DEF vars, TypeInv, TypeOK, ReqTyped
<1>. QED
  BY <1>1, <1>2, <1>3, <1>4, <1>5 DEF Next

\* The transport's variables always have their types, whatever the order
\* in which user threads, the network and the strand take their steps.
THEOREM TypeCorrect == Spec => []TypeOK
<1>1. Spec => []TypeInv
  BY InitTypeInv, NextTypeInv, PTL DEF Spec
<1>. QED
  BY <1>1, PTL DEF TypeInv

-----------------------------------------------------------------------------
(* The manager's set holds only live connections in a normal state.       *)
(* SetHoldsLiveNormal is inductive together with TypeInv: TypeInv gives    *)
(* the ranges, SetHoldsLiveNormal itself tells that a connection still     *)
(* Pending is outside the set and that a closing connection outside it     *)
(* needs no removal.                                                       *)

IInv == TypeInv /\ SetHoldsLiveNormal

\* A step that creates connections, touches neither the set nor a state
\* nor the closed ones keeps the set live and normal.
LEMMA SetFrame ==
    ASSUME IInv, TypeInv',
           connections' = connections, state' = state, closed' = closed,
           nConns <= nConns'
    PROVE  SetHoldsLiveNormal'
BY DEF IInv, SetHoldsLiveNormal, Created, TypeInv, TypeOK

\* on_connect2 only ever adds connections.
LEMMA OnConnect2Grows ==
    ASSUME TypeInv, NEW c \in ConnIds, OnConnect2(c)
    PROVE  nConns <= nConns'
BY DEF OnConnect2, NewConnection, TypeInv, TypeOK

\* A closing connection leaves the set if it was in it.
LEMMA ShutdownSet ==
    ASSUME IInv, TypeInv', NEW c \in ConnIds, Shutdown(c)
    PROVE  SetHoldsLiveNormal'
<1>1. nConns <= nConns'
  <2>1. CASE state[c] = "Pending"
    <3>1. OnConnect2(c)
      BY <2>1 DEF Shutdown
    <3>. QED
      BY <3>1, OnConnect2Grows DEF IInv
  <2>2. CASE state[c] # "Pending"
    <3>1. nConns' = nConns
      BY <2>2 DEF Shutdown
    <3>. QED
      BY <3>1 DEF IInv, TypeInv, TypeOK
  <2>. QED
    BY <2>1, <2>2
<1>2. connections' \subseteq connections \ {c}
  BY DEF Shutdown, RemoveConnection, IInv, SetHoldsLiveNormal
<1>3. closed' = closed \cup {c} /\ state' = state
  BY DEF Shutdown
<1>. QED
  BY <1>1, <1>2, <1>3 DEF IInv, SetHoldsLiveNormal, Created, TypeInv, TypeOK

\* A completed handshake adds the connection, if at all, in the normal
\* state it has just reached; it was Pending, so not yet in the set.
LEMMA HandshakeSucceedsSet ==
    ASSUME IInv, TypeInv', NEW c \in ConnIds, HandshakeSucceeds(c)
    PROVE  SetHoldsLiveNormal'
<1> DEFINE s == StateAfterHandshake(conn[c].life)
<1>1. nConns <= nConns'
  BY OnConnect2Grows DEF HandshakeSucceeds, IInv
<1>2. c \notin connections
  BY DEF HandshakeSucceeds, IInv, SetHoldsLiveNormal, IsNormal
<1>3. connections' \subseteq connections \cup {c}
  BY DEF HandshakeSucceeds, TransportAddConnection, AddConnection
<1>4. c \in connections' => IsNormal(s)
  BY <1>2 DEF HandshakeSucceeds, TransportAddConnection, AddConnection
<1>5. state' = [state EXCEPT ![c] = s] /\ closed' = closed
      /\ c \in Created /\ c \notin closed
  BY DEF HandshakeSucceeds
<1>. QED
  BY <1>1, <1>2, <1>3, <1>4, <1>5
     DEF IInv, SetHoldsLiveNormal, Created, TypeInv, TypeOK

LEMMA NextSet == IInv /\ [Next]_vars => SetHoldsLiveNormal'
<1> SUFFICES ASSUME IInv, [Next]_vars PROVE SetHoldsLiveNormal'
  OBVIOUS
<1>0. TypeInv'
  BY NextTypeInv DEF IInv
<1>1. CASE UserStep
  <2>1. ASSUME NEW p \in Peers, MakeConnectionPermanent(p)
        PROVE  SetHoldsLiveNormal'
    BY <2>1 DEF MakeConnectionPermanent, FindConnection, IInv,
       SetHoldsLiveNormal, IsNormal, Created, TypeInv, TypeOK
  <2>2. ASSUME ~\E p \in Peers : MakeConnectionPermanent(p)
        PROVE  SetHoldsLiveNormal'
    <3>1. UNCHANGED <<connections, state, closed, nConns>>
      BY <1>1, <2>2 DEF UserStep, Connect, CloseConnection, Close
    <3>. QED
      BY <1>0, <3>1, SetFrame DEF IInv, TypeInv, TypeOK
  <2>. QED
    BY <2>1, <2>2
<1>2. CASE NetworkStep
  <2>1. ASSUME NEW c \in ConnIds, HandshakeSucceeds(c)
        PROVE  SetHoldsLiveNormal'
    BY <1>0, <2>1, HandshakeSucceedsSet
  <2>2. ASSUME NEW c \in ConnIds, ConnectionFails(c)
        PROVE  SetHoldsLiveNormal'
    BY <1>0, <2>2, ShutdownSet DEF ConnectionFails
  <2>3. ASSUME NEW p \in Peers, NEW drop \in BOOLEAN, HandlePingFrom(p, drop)
        PROVE  SetHoldsLiveNormal'
    <3>1. CASE \E c \in FindConnection(p) : Shutdown(c)
      BY <1>0, <3>1, ShutdownSet DEF FindConnection, IInv, TypeInv, TypeOK
    <3>2. CASE NewConnection(p, IF drop THEN "Zero" ELSE "Bootstrap",
                             "Default", 0)
               /\ UNCHANGED <<state, closed, connections, cont>>
      BY <1>0, <3>2, SetFrame DEF NewConnection, IInv, TypeInv, TypeOK
    <3>. QED
      BY <2>3, <3>1, <3>2 DEF HandlePingFrom
  <2>. QED
    BY <1>2, <2>1, <2>2, <2>3 DEF NetworkStep
<1>3. CASE RunHandler
  <2>1. CASE DoConnect
    <3>1. UNCHANGED <<connections, state, closed>> /\ nConns <= nConns'
      BY <2>1 DEF DoConnect, NewConnection, IInv, TypeInv, TypeOK
    <3>. QED
      BY <1>0, <3>1, SetFrame
  <2>2. CASE DoCloseConn
    <3>1. Head(strand).conn \in ConnIds
      BY <2>2, HeadTailProperties DEF DoCloseConn, NextHandler, Task, IInv,
         TypeInv, TypeOK
    <3>2. CASE Head(strand).conn \notin closed
      BY <1>0, <2>2, <3>1, <3>2, ShutdownSet DEF DoCloseConn
    <3>3. CASE Head(strand).conn \in closed
      <4>1. UNCHANGED <<connections, state, closed, nConns>>
        BY <2>2, <3>3 DEF DoCloseConn
      <4>2. nConns <= nConns'
        BY <4>1 DEF IInv, TypeInv, TypeOK
      <4>. QED
        BY <1>0, <4>1, <4>2, SetFrame
    <3>. QED
      BY <3>2, <3>3
  <2>3. CASE DoCloseAll
    <3>1. UNCHANGED <<connections, state, closed, nConns>>
      BY <2>3 DEF DoCloseAll
    <3>2. nConns <= nConns'
      BY <3>1 DEF IInv, TypeInv, TypeOK
    <3>. QED
      BY <1>0, <3>1, <3>2, SetFrame
  <2>. QED
    BY <1>3, <2>1, <2>2, <2>3 DEF RunHandler
<1>4. CASE Continue
  <2>1. UNCHANGED <<connections, state, closed, nConns>>
    BY <1>4 DEF Continue, CopySlot, CallAdded, CallLost, CallReply
  <2>. QED
    BY <1>0, <2>1, SetFrame DEF IInv, TypeInv, TypeOK
<1>5. CASE UNCHANGED vars
  BY <1>5 DEF vars, IInv, SetHoldsLiveNormal, Created
<1>. QED
  BY <1>1, <1>2, <1>3, <1>4, <1>5 DEF Next

\* Whatever the interleaving of strand handlers, user threads and network
\* events, ConnectionManager::connections_ holds only created connections
\* that have not closed and are Bootstrapping, Unvalidated or Permanent:
\* AddConnection's IsNormal filter, the removal of a closing normal
\* connection, and MakeConnectionPermanent keep it so.
THEOREM SetLiveNormal == Spec => []SetHoldsLiveNormal
<1>1. Init => IInv
  BY InitTypeInv DEF Init, IInv, SetHoldsLiveNormal
<1>2. IInv /\ [Next]_vars => IInv'
  BY NextTypeInv, NextSet DEF IInv
<1>. QED
  BY <1>1, <1>2, PTL DEF Spec, IInv

=====

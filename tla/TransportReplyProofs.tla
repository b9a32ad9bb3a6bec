------------------------ MODULE TransportReplyProofs ------------------------
(***************************************************************************)
(* Proof that the handler given to Transport::Connect is called at most    *)
(* once, for every value of the constants.  A request's answer is owed by *)
(* at most one holder at a time: the DoConnect posted to the strand, then *)
(* the connection attempt DoConnect starts (and, for a rendezvous pair,   *)
(* the local attempt on_connect2 chains to), then the Reply step the      *)
(* attempt's on_connect leaves for the strand; the call pays it.          *)
(***************************************************************************)
EXTENDS TransportProofs

USE BoundsAssumption DEF MaxConnIds, ConnIds, Requests

\* The positions of a handler queue s holding a step of kind k for
\* request r.
Holds(s, k, r) == {i \in 1 .. Len(s) : s[i].kind = k /\ s[i].req = r}

\* The DoConnect handlers of request r waiting on the strand.
Queued(r) == Holds(strand, "DoConnect", r)

\* The live, pending connections whose on_connect answers request r.
Attempts(r) ==
    {c \in ConnIds : /\ c \notin closed
                     /\ state[c] = "Pending"
                     /\ conn[c].handler \in {"Request", "Rendezvous"}
                     /\ conn[c].req = r}

\* The steps of the running handler that call request r's handler.
Answers(r) == Holds(cont, "Reply", r)

AtMostOne(S) == \A x, y \in S : x = y

\* A connection not yet created is still as Init left it.
Uncreated == \A c \in ConnIds \ Created : conn[c].handler = "Default"

\* At most one holder owes request r its answer, and none once it has
\* been answered or before it has been made.
OwedAt(r) ==
    /\ replies[r] \in 0 .. 1
    /\ AtMostOne(Queued(r))
    /\ AtMostOne(Attempts(r))
    /\ AtMostOne(Answers(r))
    /\ Queued(r) # {} => Attempts(r) = {} /\ Answers(r) = {}
    /\ Attempts(r) # {} => Answers(r) = {}
    /\ replies[r] = 1 \/ r > nReqs =>
          Queued(r) = {} /\ Attempts(r) = {} /\ Answers(r) = {}
    /\ r > nReqs => replies[r] = 0

ReplyOwed == \A r \in Requests : OwedAt(r)

RInv == IInv /\ Uncreated /\ ReplyOwed

-----------------------------------------------------------------------------
(* Lemmas on handler queues.                                               *)

\* Every position of B - d holding a step is a position of A holding it.
Shifted(B, A, d) == \A i \in B : i + d \in A

\* A set that maps into a set of at most one element into it has at most
\* one element too, and none if that one is empty.
LEMMA ShiftedAtMostOne ==
    ASSUME NEW A, NEW B \in SUBSET Int, NEW d \in {0, 1}, Shifted(B, A, d),
           AtMostOne(A)
    PROVE  AtMostOne(B) /\ (A = {} => B = {})
BY DEF Shifted, AtMostOne

\* Taking the head off a queue shifts every position down by one.
LEMMA HoldsTail ==
    ASSUME NEW S, NEW s \in Seq(S), s # << >>, NEW k, NEW r
    PROVE  Shifted(Holds(Tail(s), k, r), Holds(s, k, r), 1)
BY DEF Shifted, Holds

\* Appending a step of another kind or request leaves the positions.
LEMMA HoldsAppendOther ==
    ASSUME NEW S, NEW s \in Seq(S), NEW e \in S, NEW k, NEW r,
           ~(e.kind = k /\ e.req = r)
    PROVE  Holds(Append(s, e), k, r) = Holds(s, k, r)
BY AppendProperties DEF Holds

\* Appending a step of kind k for request r adds its position.
LEMMA HoldsAppendSame ==
    ASSUME NEW S, NEW s \in Seq(S), NEW e \in S, NEW k, NEW r,
           e.kind = k /\ e.req = r
    PROVE  Holds(Append(s, e), k, r) = Holds(s, k, r) \cup {Len(s) + 1}
BY AppendProperties DEF Holds

\* The tail of a queue followed by steps of other kinds.
LEMMA HoldsTailConcat ==
    ASSUME NEW S, NEW s \in Seq(S), s # << >>, NEW t \in Seq(S), NEW k, NEW r,
           \A i \in 1 .. Len(t) : t[i].kind # k
    PROVE  Shifted(Holds(Tail(s) \o t, k, r), Holds(s, k, r), 1)
BY DEF Shifted, Holds

\* A queue whose head is replaced by a step of another kind.
LEMMA HoldsReplaceHead ==
    ASSUME NEW S, NEW s \in Seq(S), s # << >>, NEW e, NEW k, NEW r,
           e.kind # k
    PROVE  Shifted(Holds(<<e>> \o Tail(s), k, r), Holds(s, k, r), 0)
BY DEF Shifted, Holds

\* The positions of a queue are numbers.
LEMMA HoldsInt ==
    ASSUME NEW S, NEW s \in Seq(S), NEW k, NEW r
    PROVE  Holds(s, k, r) \in SUBSET Int
BY DEF Holds

-----------------------------------------------------------------------------
(* Steps that only move or drop what owes a request its answer.            *)

\* Every holder of request r's answer after the step was one before it, at
\* the same position or one further on in a queue whose head it took.
Keeps(r) ==
    /\ \E d \in {0, 1} : Shifted(Queued(r)', Queued(r), d)
    /\ Attempts(r)' \subseteq Attempts(r)
    /\ \E d \in {0, 1} : Shifted(Answers(r)', Answers(r), d)

\* A step that pays no answer and makes no request keeps OwedAt(r) when
\* it keeps the holders of r.
LEMMA KeepsOne ==
    ASSUME NEW r \in Requests, OwedAt(r), Keeps(r),
           strand' \in Seq(Task), cont' \in Seq(Effect),
           replies'[r] = replies[r], nReqs' = nReqs
    PROVE  OwedAt(r)'
<1>1. PICK d \in {0, 1} : Shifted(Queued(r)', Queued(r), d)
  BY DEF Keeps
<1>2. PICK e \in {0, 1} : Shifted(Answers(r)', Answers(r), e)
  BY DEF Keeps
<1>3. Queued(r)' \in SUBSET Int /\ Answers(r)' \in SUBSET Int
  BY HoldsInt DEF Queued, Answers
<1>4. /\ AtMostOne(Queued(r))' /\ (Queued(r) = {} => Queued(r)' = {})
      /\ AtMostOne(Answers(r))' /\ (Answers(r) = {} => Answers(r)' = {})
  BY <1>1, <1>2, <1>3, ShiftedAtMostOne DEF OwedAt
<1>5. Attempts(r)' \subseteq Attempts(r)
  BY DEF Keeps
<1>. QED
  BY <1>4, <1>5 DEF OwedAt, AtMostOne

\* Request r's answer has at most one holder.
OneHolder(r) ==
    /\ AtMostOne(Queued(r))
    /\ AtMostOne(Attempts(r))
    /\ AtMostOne(Answers(r))
    /\ \/ Queued(r) = {} /\ Attempts(r) = {}
       \/ Queued(r) = {} /\ Answers(r) = {}
       \/ Attempts(r) = {} /\ Answers(r) = {}

\* A request made and not answered whose answer has at most one holder
\* after the step satisfies OwedAt(r) after it.
LEMMA MovedOne ==
    ASSUME NEW r \in Requests, nReqs' \in Nat, r <= nReqs', replies'[r] = 0,
           OneHolder(r)'
    PROVE  OwedAt(r)'
<1>1. ~(r > nReqs')
  OBVIOUS
<1>. QED
  BY <1>1 DEF OwedAt, OneHolder

\* A holder that owes r its answer makes r a request made and not yet
\* answered, and is the only holder.
LEMMA HolderOwes ==
    ASSUME NEW r \in Requests, nReqs \in Nat, OwedAt(r),
           Queued(r) # {} \/ Attempts(r) # {} \/ Answers(r) # {}
    PROVE  r <= nReqs /\ replies[r] = 0
<1>1. ~(replies[r] = 1 \/ r > nReqs)
  BY Zenon DEF OwedAt
<1>2. replies[r] \in 0 .. 1
  BY DEF OwedAt
<1>. QED
  BY <1>1, <1>2

-----------------------------------------------------------------------------
(* What on_connect and on_close leave for the strand.                      *)

\* Appending steps of other kinds leaves the positions of kind k.
LEMMA HoldsConcatOther ==
    ASSUME NEW S, NEW s \in Seq(S), NEW t \in Seq(S), NEW k, NEW r,
           \A i \in 1 .. Len(t) : t[i].kind # k
    PROVE  Holds(s \o t, k, r) = Holds(s, k, r)
<1>1. /\ Len(s \o t) = Len(s) + Len(t)
      /\ \A i \in 1 .. Len(s) + Len(t) :
            (s \o t)[i] = IF i <= Len(s) THEN s[i] ELSE t[i - Len(s)]
  BY ConcatProperties
<1>. QED
  BY <1>1 DEF Holds

\* Transport::RemoveConnection calls no request's handler.
LEMMA RemoveNoReply ==
    ASSUME NEW c \in ConnIds
    PROVE  /\ TransportRemoveConnection(c) \in Seq(Effect)
           /\ \A i \in 1 .. Len(TransportRemoveConnection(c)) :
                 TransportRemoveConnection(c)[i].kind # "Reply"
<1>1. TransportRemoveConnection(c) \in {<<CopyLost(c)>>, << >>}
  BY DEF TransportRemoveConnection
<1>. QED
  BY <1>1, TransportRemoveConnectionType DEF CopyLost

\* Concatenations of the steps on_connect leaves.
LEMMA ConcatSingletons ==
    ASSUME NEW x, NEW y
    PROVE  /\ <<x>> \o <<y>> = <<x, y>> /\ << >> \o <<y>> = <<y>>
           /\ <<x>> \o << >> = <<x>> /\ << >> \o << >> = << >>
<1>1. <<x>> \in Seq({x, y}) /\ <<y>> \in Seq({x, y}) /\ << >> \in Seq({x, y})
       /\ <<x, y>> \in Seq({x, y})
       /\ Len(<<x, y>>) = 2 /\ <<x, y>>[1] = x /\ <<x, y>>[2] = y
  OBVIOUS
<1>2. /\ <<x>> \o <<y>> \in Seq({x, y})
      /\ Len(<<x>> \o <<y>>) = 2
      /\ (<<x>> \o <<y>>)[1] = x /\ (<<x>> \o <<y>>)[2] = y
  BY <1>1, ConcatProperties
<1>3. <<x>> \o <<y>> = <<x, y>>
  <2>1. \A i \in 1 .. Len(<<x>> \o <<y>>) : (<<x>> \o <<y>>)[i] = <<x, y>>[i]
    BY <1>1, <1>2
  <2>. QED
    BY <1>1, <1>2, <2>1, SeqEqual, Zenon
<1>. QED
  BY <1>1, <1>3, ConcatEmptySeq

\* on_connect calls at most one handler, and only the one of the request
\* its connection was started for.
LEMMA OnConnectReplies ==
    ASSUME TypeInv, NEW c \in ConnIds, NEW ok \in BOOLEAN, NEW pre \in BOOLEAN,
           NEW r
    PROVE  LET H == Holds(IF pre THEN OnConnectSteps(c, ok) ELSE << >>,
                          "Reply", r)
           IN  /\ AtMostOne(H)
               /\ H # {} => /\ pre
                            /\ conn[c].handler \in {"Request", "Rendezvous"}
                            /\ conn[c].req = r
<1>1. CASE pre /\ conn[c].handler \in {"Request", "Rendezvous"}
  <2>1. OnConnectSteps(c, ok) = IF ok THEN <<CopyAdded(c), Reply(conn[c].req)>>
                                     ELSE <<Reply(conn[c].req)>>
    BY <1>1, ConcatSingletons DEF OnConnectSteps
  <2>. QED
    BY <1>1, <2>1 DEF Holds, AtMostOne, CopyAdded, Reply
<1>2. CASE ~(pre /\ conn[c].handler \in {"Request", "Rendezvous"})
  <2>1. pre => OnConnectSteps(c, ok) = IF ok THEN <<CopyAdded(c)>> ELSE << >>
    BY <1>2, ConcatSingletons DEF OnConnectSteps
  <2>. QED
    BY <1>2, <2>1 DEF Holds, AtMostOne, CopyAdded
<1>. QED
  BY <1>1, <1>2


-----------------------------------------------------------------------------
(* The steps of a connection.                                              *)

\* ConnectionManager::Connect creates the next connection and leaves the
\* ones after it as Init left them.
LEMMA UncreatedStep ==
    ASSUME TypeOK, Uncreated,
           \/ UNCHANGED <<conn, nConns>>
           \/ \E p, l, h, q : NewConnection(p, l, h, q)
    PROVE  Uncreated'
<1>1. CASE UNCHANGED <<conn, nConns>>
  BY <1>1 DEF Uncreated, Created
<1>2. CASE \E p, l, h, q : NewConnection(p, l, h, q)
  <2>1. PICK p, l, h, q : NewConnection(p, l, h, q)
    BY <1>2
  <2>2. nConns \in Nat /\ nConns' = nConns + 1
    BY <2>1 DEF NewConnection, TypeOK
  <2>3. \A c \in ConnIds \ Created' : c \in ConnIds \ Created /\ c # nConns + 1
    BY <2>2 DEF Created
  <2>. QED
    BY <2>1, <2>3 DEF Uncreated, NewConnection, TypeOK
<1>. QED
  BY <1>1, <1>2

\* A queue that did not change holds the same positions.
LEMMA SameShifted ==
    ASSUME NEW S, NEW s \in Seq(S), NEW k, NEW r
    PROVE  Shifted(Holds(s, k, r), Holds(s, k, r), 0)
BY DEF Shifted, Holds

\* A connection closes (Connection::Close, a drop or a timeout) while the
\* strand runs no handler: a pending attempt answers its request, or
\* hands it to the local attempt on_connect2 starts.
LEMMA ShutdownOwed ==
    ASSUME RInv, NEW c \in ConnIds, c \notin closed, cont = << >>, Shutdown(c),
           strand' \in Seq(Task),
           \A q \in Requests : \E d \in {0, 1} : Shifted(Queued(q)', Queued(q), d),
           UNCHANGED <<replies, nReqs, open>>
    PROVE  ReplyOwed' /\ Uncreated'
<1>0. TypeInv /\ Uncreated /\ ReplyOwed
  BY DEF RInv, IInv
<1>1. /\ conn' \in [ConnIds -> ConnInfo]
      /\ cont' \in Seq(Effect)
      /\ state' = state
      /\ closed' = closed \cup {c}
  BY <1>0, ShutdownTypeInv DEF Shutdown
<1>2. /\ replies' = replies /\ nReqs' = nReqs /\ nReqs' \in Nat
  BY <1>0 DEF TypeInv, TypeOK
<1>3. Uncreated'
  BY <1>0, UncreatedStep DEF Shutdown, OnConnect2, TypeInv
<1> DEFINE pre == state[c] = "Pending" /\ RunsOnConnect(c)
           steps == IF pre THEN OnConnectSteps(c, FALSE) ELSE << >>
<1>4. ASSUME NEW r
      PROVE  /\ AtMostOne(Answers(r)')
             /\ Answers(r)' # {} =>
                   pre /\ conn[c].handler \in {"Request", "Rendezvous"}
                       /\ conn[c].req = r
  <2>1. steps \in Seq(Effect)
    BY <1>0, OnConnectStepsType, EmptySeq
  <2>2. cont' = steps \o TransportRemoveConnection(c)
    BY DEF Shutdown
  <2>3. Holds(cont', "Reply", r) = Holds(steps, "Reply", r)
    <3>1. /\ TransportRemoveConnection(c) \in Seq(Effect)
          /\ \A i \in 1 .. Len(TransportRemoveConnection(c)) :
                TransportRemoveConnection(c)[i].kind # "Reply"
      BY RemoveNoReply
    <3>2. \A u, t \in Seq(Effect) :
            (\A i \in 1 .. Len(t) : t[i].kind # "Reply")
              => Holds(u \o t, "Reply", r) = Holds(u, "Reply", r)
      BY HoldsConcatOther
    <3>. QED
      BY <2>1, <2>2, <3>1, <3>2
  <2>4. Answers(r)' = Holds(steps, "Reply", r)
    <3>1. Answers(r)' = Holds(cont', "Reply", r)
      BY DEF Answers, Holds
    <3>. QED
      BY <2>3, <3>1
  <2>. QED
    BY <1>0, <2>4, OnConnectReplies
<1> SUFFICES ASSUME NEW r \in Requests PROVE OwedAt(r)'
  BY <1>3 DEF ReplyOwed
<1>5. OwedAt(r)
  BY <1>0 DEF ReplyOwed
<1>6. PICK d \in {0, 1} : Shifted(Queued(r)', Queued(r), d)
  OBVIOUS
<1>9. AtMostOne(Queued(r)') /\ (Queued(r) = {} => Queued(r)' = {})
  <2>1. Queued(r)' \in SUBSET Int
    BY HoldsInt DEF Queued
  <2>. QED
    BY <1>5, <1>6, <2>1, ShiftedAtMostOne DEF OwedAt
<1>7. CASE c \in Attempts(r)
  <2>1. r <= nReqs /\ replies[r] = 0
    BY <1>2, <1>5, <1>7, HolderOwes
  <2>2. Queued(r) = {} /\ Attempts(r) = {c}
    BY <1>5, <1>7 DEF OwedAt, AtMostOne
  <2>3. state[c] = "Pending" /\ conn[c].req = r
        /\ conn[c].handler \in {"Request", "Rendezvous"}
    BY <1>7 DEF Attempts
  <2>4. \/ Attempts(r)' \subseteq {nConns + 1} /\ Answers(r)' = {}
        \/ Attempts(r)' = {} /\ AtMostOne(Answers(r)')
    <3>1. CASE StartsLocalAttempt(c)
      <4>1. /\ NewConnection(conn[c].peer, "Infinite", "Request", r)
            /\ ~pre
        BY <2>3, <3>1 DEF Shutdown, OnConnect2, StartsLocalAttempt, RunsOnConnect
      <4>2. \A x \in ConnIds : x # nConns + 1 => conn'[x] = conn[x]
        BY <4>1 DEF NewConnection
      <4>3. Attempts(r)' \subseteq {nConns + 1}
        BY <1>1, <2>2, <4>2 DEF Attempts
      <4>. QED
        BY <1>4, <4>1, <4>3
    <3>2. CASE ~StartsLocalAttempt(c)
      <4>1. conn' = conn
        BY <2>3, <3>2 DEF Shutdown, OnConnect2
      <4>2. Attempts(r)' = {}
        BY <1>1, <2>2, <4>1 DEF Attempts
      <4>. QED
        BY <1>4, <4>2
    <3>. QED
      BY <3>1, <3>2
  <2>5. OneHolder(r)'
    BY <1>9, <2>2, <2>4 DEF OneHolder, AtMostOne
  <2>. QED
    BY <1>2, <2>1, <2>5, MovedOne
<1>8. CASE c \notin Attempts(r)
  <2>1. Answers(r)' = {}
    BY <1>4, <1>8 DEF Attempts
  <2>2. Attempts(r)' \subseteq Attempts(r)
    <3>1. CASE state[c] = "Pending" /\ StartsLocalAttempt(c)
      <4>1. conn[c].req \in Requests /\ conn[c].req # r
        BY <1>0, <1>8, <3>1 DEF StartsLocalAttempt, Attempts, TypeInv, ReqTyped
      <4>2. NewConnection(conn[c].peer, "Infinite", "Request", conn[c].req)
        BY <3>1 DEF Shutdown, OnConnect2
      <4>. QED
        BY <1>1, <4>1, <4>2 DEF NewConnection, Attempts
    <3>2. CASE ~(state[c] = "Pending" /\ StartsLocalAttempt(c))
      <4>1. conn' = conn
        BY <3>2 DEF Shutdown, OnConnect2
      <4>. QED
        BY <1>1, <4>1 DEF Attempts
    <3>. QED
      BY <3>1, <3>2
  <2>3. Keeps(r)
    BY <1>6, <2>1, <2>2 DEF Keeps, Shifted
  <2>. QED
    BY <1>1, <1>2, <1>5, <2>3, KeepsOne
<1>. QED
  BY <1>7, <1>8

\* A queue the step leaves alone keeps every request's DoConnect handlers.
LEMMA StrandKept ==
    ASSUME strand \in Seq(Task), strand' = strand
    PROVE  \A q \in Requests : \E d \in {0, 1} : Shifted(Queued(q)', Queued(q), d)
<1> SUFFICES ASSUME NEW q \in Requests
             PROVE  Shifted(Queued(q)', Queued(q), 0)
  OBVIOUS
<1>1. Queued(q)' = Queued(q)
  BY DEF Queued, Holds
<1>. QED
  BY <1>1, SameShifted DEF Queued

\* A handler taken off the strand shifts every request's DoConnect
\* handlers down by one.
LEMMA StrandTail ==
    ASSUME strand \in Seq(Task), strand # << >>, strand' = Tail(strand)
    PROVE  \A q \in Requests : \E d \in {0, 1} : Shifted(Queued(q)', Queued(q), d)
<1> SUFFICES ASSUME NEW q \in Requests
             PROVE  Shifted(Queued(q)', Queued(q), 1)
  OBVIOUS
<1>1. Queued(q)' = Holds(Tail(strand), "DoConnect", q)
  BY DEF Queued, Holds
<1>. QED
  BY <1>1, HoldsTail DEF Queued

\* A pending handshake times out or is refused, or a connection drops.
LEMMA ConnectionFailsOwed ==
    ASSUME RInv, NEW c \in ConnIds, ConnectionFails(c)
    PROVE  ReplyOwed' /\ Uncreated'
<1>1. strand \in Seq(Task) /\ strand' = strand
  BY DEF ConnectionFails, RInv, IInv, TypeInv, TypeOK
<1>. QED
  BY <1>1, StrandKept, ShutdownOwed DEF ConnectionFails

\* A step that pays no answer and makes no request, and keeps the holders
\* of every request, keeps every request owed at most once.
LEMMA FrameOwed ==
    ASSUME RInv, strand' \in Seq(Task), cont' \in Seq(Effect),
           \A q \in Requests : \E d \in {0, 1} : Shifted(Queued(q)', Queued(q), d),
           \A q \in Requests : \E d \in {0, 1} : Shifted(Answers(q)', Answers(q), d),
           \A q \in Requests : Attempts(q)' \subseteq Attempts(q),
           UNCHANGED <<replies, nReqs>>
    PROVE  ReplyOwed'
<1> SUFFICES ASSUME NEW r \in Requests PROVE OwedAt(r)'
  BY DEF ReplyOwed
<1>1. OwedAt(r)
  BY DEF RInv, ReplyOwed
<1>2. Keeps(r)
  BY DEF Keeps
<1>. QED
  BY <1>1, <1>2, KeepsOne

\* The running handler is left alone.
LEMMA ContKept ==
    ASSUME cont \in Seq(Effect), cont' = cont
    PROVE  \A q \in Requests : \E d \in {0, 1} : Shifted(Answers(q)', Answers(q), d)
<1> SUFFICES ASSUME NEW q \in Requests
             PROVE  Shifted(Answers(q)', Answers(q), 0)
  OBVIOUS
<1>1. Answers(q)' = Answers(q)
  BY DEF Answers, Holds
<1>. QED
  BY <1>1, SameShifted DEF Answers

\* No connection changes: every attempt stays as it was.
LEMMA AttemptsKept ==
    ASSUME UNCHANGED <<conn, state, closed>>
    PROVE  \A q \in Requests : Attempts(q)' \subseteq Attempts(q)
BY DEF Attempts

\* The user threads post handlers or make a connection permanent.
LEMMA UserStepOwed ==
    ASSUME RInv, UserStep, ~\E p \in Peers, pair \in PairKinds : Connect(p, pair)
    PROVE  ReplyOwed' /\ Uncreated'
<1>0. TypeInv /\ TypeInv'
  BY NextTypeInv DEF RInv, IInv, Next
<1>1. Uncreated'
  <2>1. conn' = conn /\ nConns' = nConns
    BY DEF UserStep, CloseConnection, MakeConnectionPermanent, Close
  <2>. QED
    BY <2>1 DEF RInv, Uncreated, Created
<1>2. /\ strand \in Seq(Task) /\ strand' \in Seq(Task)
      /\ cont \in Seq(Effect) /\ cont' = cont /\ cont' \in Seq(Effect)
      /\ UNCHANGED <<replies, nReqs>>
  BY <1>0 DEF UserStep, CloseConnection, MakeConnectionPermanent, Close,
              TypeInv, TypeOK
<1>3. \A q \in Requests : Attempts(q)' \subseteq Attempts(q)
  <2>1. CASE \E p \in Peers : MakeConnectionPermanent(p)
    <3>0. PICK p \in Peers : MakeConnectionPermanent(p)
      BY <2>1
    <3>1. PICK c \in FindConnection(p) :
              state' = [state EXCEPT ![c] = "Permanent"]
      BY <3>0 DEF MakeConnectionPermanent
    <3>2. \A x \in ConnIds : state'[x] = "Pending" => state[x] = "Pending"
      BY <1>0, <3>1 DEF TypeInv, TypeOK
    <3>. QED
      BY <2>1, <3>2 DEF MakeConnectionPermanent, Attempts
  <2>2. CASE ~\E p \in Peers : MakeConnectionPermanent(p)
    BY <2>2, AttemptsKept DEF UserStep, CloseConnection, Close
  <2>. QED
    BY <2>1, <2>2
<1>4. \A q \in Requests : \E d \in {0, 1} : Shifted(Queued(q)', Queued(q), d)
  <2>1. CASE strand' = strand
    BY <1>2, <2>1, StrandKept
  <2>2. CASE \E p \in Peers : CloseConnection(p)
    <3>0. PICK p \in Peers : CloseConnection(p)
      BY <2>2
    <3>1. PICK c \in FindConnection(p) :
              strand' = Append(strand, [kind |-> "CloseConn", conn |-> c])
      BY <3>0 DEF CloseConnection
    <3>2. ASSUME NEW q \in Requests
          PROVE  Queued(q)' = Queued(q)
      <4>1. [kind |-> "CloseConn", conn |-> c] \in Task
        BY <1>0 DEF Task, FindConnection, TypeInv, TypeOK
      <4>2. Holds(Append(strand, [kind |-> "CloseConn", conn |-> c]),
                  "DoConnect", q) = Holds(strand, "DoConnect", q)
        BY <1>2, <4>1, HoldsAppendOther
      <4>. QED
        BY <3>1, <4>2 DEF Queued, Holds
    <3>. QED
      BY <1>2, <3>2, SameShifted DEF Queued
  <2>3. CASE Close
    <3>1. ASSUME NEW q \in Requests
          PROVE  Queued(q)' = Queued(q)
      <4>1. [kind |-> "CloseAll"] \in Task
        BY DEF Task
      <4>2. Holds(Append(strand, [kind |-> "CloseAll"]), "DoConnect", q)
              = Holds(strand, "DoConnect", q)
        BY <1>2, <4>1, HoldsAppendOther
      <4>. QED
        BY <2>3, <4>2 DEF Close, Queued, Holds
    <3>. QED
      BY <1>2, <3>1, SameShifted DEF Queued
  <2>. QED
    BY <2>1, <2>2, <2>3 DEF UserStep, MakeConnectionPermanent
<1>. QED
  BY <1>1, <1>2, <1>3, <1>4, ContKept, FrameOwed

\* Transport::Connect makes request nReqs + 1, whose only holder is the
\* DoConnect it posts; it leaves every other request as it was.
LEMMA ConnectOwed ==
    ASSUME RInv, NEW p \in Peers, NEW pair \in PairKinds, Connect(p, pair)
    PROVE  ReplyOwed' /\ Uncreated'
<1> DEFINE t == [kind |-> "DoConnect", req |-> nReqs + 1, peer |-> p,
                 pair |-> pair]
<1>0. TypeInv /\ ReplyOwed /\ Uncreated
  BY DEF RInv, IInv
<1>1. /\ nReqs \in Nat /\ nReqs' = nReqs + 1 /\ nReqs + 1 \in Requests
      /\ strand \in Seq(Task) /\ t \in Task /\ strand' = Append(strand, t)
      /\ UNCHANGED <<conn, state, closed, cont, replies, nConns>>
  BY <1>0 DEF Connect, TypeInv, TypeOK, Task
<1>2. Uncreated'
  BY <1>0, <1>1 DEF Uncreated, Created
<1> SUFFICES ASSUME NEW r \in Requests PROVE OwedAt(r)'
  BY <1>2 DEF ReplyOwed
<1>3. OwedAt(r)
  BY <1>0 DEF ReplyOwed
<1>4. Attempts(r)' = Attempts(r) /\ Answers(r)' = Answers(r)
  BY <1>1 DEF Attempts, Answers, Holds
<1>5. CASE r = nReqs + 1
  <2>1. Queued(r) = {} /\ Attempts(r) = {} /\ Answers(r) = {} /\ replies[r] = 0
    BY <1>1, <1>3, <1>5 DEF OwedAt
  <2>2. Holds(Append(strand, t), "DoConnect", r)
          = Holds(strand, "DoConnect", r) \cup {Len(strand) + 1}
    BY <1>1, <1>5, HoldsAppendSame
  <2>3. Queued(r)' = {Len(strand) + 1}
    BY <1>1, <2>1, <2>2 DEF Queued, Holds
  <2>4. OneHolder(r)'
    BY <1>4, <2>1, <2>3 DEF OneHolder, AtMostOne
  <2>. QED
    BY <1>1, <1>5, <2>1, <2>4, MovedOne
<1>6. CASE r # nReqs + 1
  <2>1. Holds(Append(strand, t), "DoConnect", r) = Holds(strand, "DoConnect", r)
    BY <1>1, <1>6, HoldsAppendOther
  <2>2. Queued(r)' = Queued(r)
    BY <1>1, <2>1 DEF Queued, Holds
  <2>3. r \in Nat /\ (r > nReqs' <=> r > nReqs)
    BY <1>1, <1>6
  <2>. QED
    BY <1>1, <1>3, <1>4, <2>2, <2>3 DEF OwedAt
<1>. QED
  BY <1>5, <1>6

\* A handshake completes: the attempt answers its request, or hands it to
\* the local attempt on_connect2 starts.
LEMMA HandshakeSucceedsOwed ==
    ASSUME RInv, NEW c \in ConnIds, HandshakeSucceeds(c)
    PROVE  ReplyOwed' /\ Uncreated'
<1>0. TypeInv /\ Uncreated /\ ReplyOwed
  BY DEF RInv, IInv
<1>1. /\ TypeInv'
      /\ state[c] = "Pending" /\ c \notin closed /\ cont = << >>
      /\ state'[c] # "Pending"
      /\ \A x \in ConnIds : x # c => state'[x] = state[x]
      /\ closed' = closed
  <2>1. StateAfterHandshake(conn[c].life) # "Pending"
    BY DEF StateAfterHandshake
  <2>. QED
    BY <1>0, <2>1, HandshakeSucceedsTypeInv DEF HandshakeSucceeds, TypeInv,
       TypeOK
<1>2. /\ strand \in Seq(Task) /\ strand' = strand
      /\ replies' = replies /\ nReqs' = nReqs /\ nReqs' \in Nat
  BY <1>0 DEF HandshakeSucceeds, TypeInv, TypeOK
<1>3. Uncreated'
  BY <1>0, UncreatedStep DEF HandshakeSucceeds, OnConnect2, TypeInv
<1> DEFINE pre == RunsOnConnect(c)
<1>4. ASSUME NEW r
      PROVE  /\ AtMostOne(Answers(r)')
             /\ Answers(r)' # {} =>
                   pre /\ conn[c].handler \in {"Request", "Rendezvous"}
                       /\ conn[c].req = r
  <2>1. Answers(r)' = Holds(IF pre THEN OnConnectSteps(c, TRUE) ELSE << >>,
                            "Reply", r)
    BY DEF HandshakeSucceeds, Answers, Holds
  <2>. QED
    BY <1>0, <2>1, OnConnectReplies
<1> SUFFICES ASSUME NEW r \in Requests PROVE OwedAt(r)'
  BY <1>3 DEF ReplyOwed
<1>6. OwedAt(r)
  BY <1>0 DEF ReplyOwed
<1>7. Queued(r)' = Queued(r)
  BY <1>2 DEF Queued, Holds
<1>8. CASE c \in Attempts(r)
  <2>1. r <= nReqs /\ replies[r] = 0
    BY <1>2, <1>6, <1>8, HolderOwes
  <2>2. Queued(r) = {} /\ Attempts(r) = {c}
    BY <1>6, <1>8 DEF OwedAt, AtMostOne
  <2>3. conn[c].req = r /\ conn[c].handler \in {"Request", "Rendezvous"}
    BY <1>8 DEF Attempts
  <2>4. \/ Attempts(r)' \subseteq {nConns + 1} /\ Answers(r)' = {}
        \/ Attempts(r)' = {} /\ AtMostOne(Answers(r)')
    <3>1. CASE StartsLocalAttempt(c)
      <4>1. ~pre
        BY <3>1 DEF StartsLocalAttempt, RunsOnConnect
      <4>2. \A x \in ConnIds : x # nConns + 1 => conn'[x] = conn[x]
        BY <1>0, <3>1 DEF HandshakeSucceeds, OnConnect2, NewConnection,
           TypeInv, TypeOK
      <4>3. Attempts(r)' \subseteq {nConns + 1}
        BY <1>1, <2>2, <4>2 DEF Attempts
      <4>. QED
        BY <1>4, <4>1, <4>3
    <3>2. CASE ~StartsLocalAttempt(c)
      <4>1. conn' = conn
        BY <3>2 DEF HandshakeSucceeds, OnConnect2
      <4>2. Attempts(r)' = {}
        BY <1>1, <2>2, <4>1 DEF Attempts
      <4>. QED
        BY <1>4, <4>2
    <3>. QED
      BY <3>1, <3>2
  <2>5. OneHolder(r)'
    BY <1>7, <2>2, <2>4 DEF OneHolder, AtMostOne
  <2>. QED
    BY <1>2, <2>1, <2>5, MovedOne
<1>9. CASE c \notin Attempts(r)
  <2>1. Answers(r)' = {}
    BY <1>1, <1>4, <1>9 DEF Attempts
  <2>2. Attempts(r)' \subseteq Attempts(r)
    <3>1. CASE StartsLocalAttempt(c)
      <4>1. conn[c].req # r
        BY <1>1, <1>9, <3>1 DEF StartsLocalAttempt, Attempts
      <4>2. \A x \in ConnIds : x # nConns + 1 => conn'[x] = conn[x]
        BY <1>0, <3>1 DEF HandshakeSucceeds, OnConnect2, NewConnection,
           TypeInv, TypeOK
      <4>3. conn'[nConns + 1].req # r
        <5>1. NewConnection(conn[c].peer, "Infinite", "Request", conn[c].req)
          BY <3>1 DEF HandshakeSucceeds, OnConnect2
        <5>2. nConns + 1 \in ConnIds
          BY <1>0, <5>1 DEF NewConnection, TypeInv, TypeOK
        <5>. QED
          BY <1>0, <4>1, <5>1, <5>2 DEF NewConnection, TypeInv, TypeOK
      <4>. QED
        BY <1>1, <4>2, <4>3 DEF Attempts
    <3>2. CASE ~StartsLocalAttempt(c)
      <4>1. conn' = conn
        BY <3>2 DEF HandshakeSucceeds, OnConnect2
      <4>. QED
        BY <1>1, <4>1 DEF Attempts
    <3>. QED
      BY <3>1, <3>2
  <2>3. Keeps(r)
    <3>1. Shifted(Queued(r)', Queued(r), 0)
      BY <1>2, <1>7, SameShifted DEF Queued
    <3>. QED
      BY <3>1, <2>1, <2>2 DEF Keeps, Shifted
  <2>. QED
    BY <1>1, <1>2, <1>6, <2>3, KeepsOne DEF TypeInv, TypeOK
<1>. QED
  BY <1>8, <1>9

\* HandlePingFrom closes the peer's connection, or starts an inbound one
\* that answers no request.
LEMMA HandlePingFromOwed ==
    ASSUME RInv, NEW p \in Peers, NEW drop \in BOOLEAN, HandlePingFrom(p, drop)
    PROVE  ReplyOwed' /\ Uncreated'
<1>0. TypeInv /\ SetHoldsLiveNormal /\ Uncreated
  BY DEF RInv, IInv
<1>1. /\ strand \in Seq(Task) /\ strand' = strand
      /\ UNCHANGED <<replies, nReqs, open>> /\ cont = << >>
  BY <1>0 DEF HandlePingFrom, TypeInv, TypeOK
<1>2. CASE ~drop /\ \E c \in FindConnection(p) : Shutdown(c)
  <2>1. PICK c \in FindConnection(p) : Shutdown(c)
    BY <1>2
  <2>2. c \in ConnIds /\ c \notin closed
    BY <1>0 DEF FindConnection, SetHoldsLiveNormal, TypeInv, TypeOK
  <2>. QED
    BY <1>1, <2>1, <2>2, StrandKept, ShutdownOwed
<1>3. CASE /\ drop \/ FindConnection(p) = {}
           /\ NewConnection(p, IF drop THEN "Zero" ELSE "Bootstrap", "Default", 0)
           /\ UNCHANGED <<state, closed, connections, cont>>
  <2>1. \A x \in ConnIds : conn'[x] = conn[x] \/ conn'[x].handler = "Default"
    BY <1>0, <1>3 DEF NewConnection, TypeInv, TypeOK
  <2>2. \A q \in Requests : Attempts(q)' \subseteq Attempts(q)
    BY <1>3, <2>1 DEF Attempts
  <2>3. Uncreated'
    BY <1>0, <1>3, UncreatedStep DEF TypeInv
  <2>4. strand' \in Seq(Task) /\ cont \in Seq(Effect) /\ cont' = cont
        /\ cont' \in Seq(Effect)
    BY <1>0, <1>1, <1>3, EmptySeq
  <2>. QED
    BY <1>1, <2>2, <2>3, <2>4, StrandKept, ContKept, FrameOwed
<1>. QED
  BY <1>2, <1>3 DEF HandlePingFrom

\* The strand runs Connection::Close for a connection posted to it.
LEMMA DoCloseConnOwed ==
    ASSUME RInv, DoCloseConn
    PROVE  ReplyOwed' /\ Uncreated'
<1> DEFINE c == Head(strand).conn
<1>0. TypeInv /\ Uncreated
  BY DEF RInv, IInv
<1>1. /\ strand \in Seq(Task) /\ strand # << >> /\ strand' = Tail(strand)
      /\ strand' \in Seq(Task) /\ cont = << >> /\ c \in ConnIds
      /\ UNCHANGED <<replies, nReqs, open, state>>
  <2>1. strand \in Seq(Task) /\ strand # << >> /\ Head(strand).kind = "CloseConn"
    BY <1>0 DEF DoCloseConn, NextHandler, TypeInv, TypeOK
  <2>2. Head(strand) \in Task /\ Tail(strand) \in Seq(Task)
    BY <2>1, HeadTailProperties
  <2>. QED
    BY <2>1, <2>2 DEF DoCloseConn, NextHandler, Task
<1>2. CASE c \in closed
  <2>1. UNCHANGED <<conn, nConns, closed, cont>>
    BY <1>2 DEF DoCloseConn
  <2>2. Uncreated'
    BY <1>0, <2>1 DEF Uncreated, Created
  <2>3. cont \in Seq(Effect) /\ cont' \in Seq(Effect)
    BY <1>1, <2>1, EmptySeq
  <2>. QED
    BY <1>1, <2>1, <2>2, <2>3, StrandTail, ContKept, AttemptsKept, FrameOwed
<1>3. CASE c \notin closed
  BY <1>1, <1>3, StrandTail, ShutdownOwed DEF DoCloseConn
<1>. QED
  BY <1>2, <1>3

\* ConnectionManager::Close posts a Connection::Close per member of the
\* set, and answers nothing itself.
LEMMA DoCloseAllOwed ==
    ASSUME RInv, DoCloseAll
    PROVE  ReplyOwed' /\ Uncreated'
<1>0. TypeInv /\ Uncreated
  BY DEF RInv, IInv
<1>1. /\ strand \in Seq(Task) /\ strand # << >> /\ cont = << >>
      /\ UNCHANGED <<conn, nConns, state, closed, cont, replies, nReqs>>
  BY <1>0 DEF DoCloseAll, NextHandler, TypeInv, TypeOK
<1>2. PICK order \in Bijection(1 .. Cardinality(connections), connections) :
        strand' = Tail(strand)
                  \o [i \in 1 .. Cardinality(connections) |->
                        [kind |-> "CloseConn", conn |-> order[i]]]
  BY DEF DoCloseAll, CMClose
<1> DEFINE posts == [i \in 1 .. Cardinality(connections) |->
                       [kind |-> "CloseConn", conn |-> order[i]]]
<1>3. posts \in Seq(Task) /\ Tail(strand) \in Seq(Task)
  BY <1>0, <1>1, ClosePostsType, HeadTailProperties DEF TypeInv
<1>4. \A i \in 1 .. Len(posts) : posts[i].kind # "DoConnect"
  <2>1. DOMAIN posts = 1 .. Len(posts)
    BY <1>3, LenProperties
  <2>. QED
    BY <2>1
<1>5. \A q \in Requests : \E d \in {0, 1} : Shifted(Queued(q)', Queued(q), d)
  <2> SUFFICES ASSUME NEW q \in Requests
               PROVE  Shifted(Queued(q)', Queued(q), 1)
    OBVIOUS
  <2>1. Queued(q)' = Holds(Tail(strand) \o posts, "DoConnect", q)
    BY <1>2 DEF Queued, Holds
  <2>. QED
    BY <1>1, <1>3, <1>4, <2>1, HoldsTailConcat DEF Queued
<1>6. strand' \in Seq(Task) /\ cont \in Seq(Effect) /\ cont' \in Seq(Effect)
  BY <1>1, <1>2, <1>3, ConcatProperties, EmptySeq
<1>7. Uncreated'
  BY <1>0, <1>1 DEF Uncreated, Created
<1>. QED
  BY <1>1, <1>5, <1>6, <1>7, ContKept, AttemptsKept, FrameOwed

\* The strand copies a callback slot or calls a copy: no request is
\* answered, and the handler's remaining steps move up.
LEMMA ContinueFrameOwed ==
    ASSUME RInv, CopySlot \/ CallAdded \/ CallLost
    PROVE  ReplyOwed' /\ Uncreated'
<1>0. TypeInv /\ Uncreated
  BY DEF RInv, IInv
<1>1. /\ cont \in Seq(Effect) /\ cont # << >> /\ Head(cont).kind # "Reply"
      /\ Tail(cont) \in Seq(Effect)
      /\ strand \in Seq(Task) /\ strand' = strand
      /\ UNCHANGED <<conn, nConns, state, closed, replies, nReqs>>
  <2>1. cont \in Seq(Effect) /\ cont # << >>
    BY <1>0 DEF CopySlot, CallAdded, CallLost, NextStep, TypeInv, TypeOK
  <2>. QED
    BY <1>0, <2>1, HeadTailProperties DEF CopySlot, CallAdded, CallLost,
       NextStep, TypeInv, TypeOK
<1>2. \A q \in Requests : \E d \in {0, 1} : Shifted(Answers(q)', Answers(q), d)
  <2> SUFFICES ASSUME NEW q \in Requests
               PROVE  \E d \in {0, 1} : Shifted(Answers(q)', Answers(q), d)
    OBVIOUS
  <2>1. CASE cont' = Tail(cont)
    <3>1. Answers(q)' = Holds(Tail(cont), "Reply", q)
      BY <2>1 DEF Answers, Holds
    <3>. QED
      BY <1>1, <3>1, HoldsTail DEF Answers
  <2>2. CASE cont' # Tail(cont)
    <3>1. PICK e : /\ cont' = <<e>> \o Tail(cont)
                   /\ e.kind \in {"CallAdded", "CallLost"}
      BY <2>2 DEF CopySlot, CallAdded, CallLost
    <3>2. Answers(q)' = Holds(<<e>> \o Tail(cont), "Reply", q)
      BY <3>1 DEF Answers, Holds
    <3>. QED
      BY <1>1, <3>1, <3>2, HoldsReplaceHead DEF Answers
  <2>. QED
    BY <2>1, <2>2
<1>3. strand' \in Seq(Task) /\ cont' \in Seq(Effect)
  BY <1>0, ContinueTypeInv DEF Continue, TypeInv, TypeOK
<1>4. Uncreated'
  BY <1>0, <1>1 DEF Uncreated, Created
<1>. QED
  BY <1>1, <1>2, <1>3, <1>4, StrandKept, AttemptsKept, FrameOwed

\* The strand calls the handler given to Transport::Connect: the step
\* that owed that request its answer pays it.
LEMMA CallReplyOwed ==
    ASSUME RInv, CallReply
    PROVE  ReplyOwed' /\ Uncreated'
<1> DEFINE r0 == Head(cont).req
<1>0. TypeInv /\ Uncreated /\ ReplyOwed
  BY DEF RInv, IInv
<1>1. /\ cont \in Seq(Effect) /\ cont # << >> /\ Head(cont).kind = "Reply"
      /\ r0 \in Requests /\ cont' = Tail(cont) /\ cont' \in Seq(Effect)
      /\ strand \in Seq(Task) /\ strand' = strand
      /\ replies \in [Requests -> Nat]
      /\ replies' = [replies EXCEPT ![r0] = @ + 1]
      /\ UNCHANGED <<conn, nConns, state, closed, nReqs>>
  <2>1. cont \in Seq(Effect) /\ cont # << >>
    BY <1>0 DEF CallReply, NextStep, TypeInv, TypeOK
  <2>2. Head(cont) \in Effect /\ Tail(cont) \in Seq(Effect)
    BY <2>1, HeadTailProperties
  <2>. QED
    BY <1>0, <2>1, <2>2 DEF CallReply, NextStep, Effect, TypeInv, TypeOK
<1>2. Uncreated'
  BY <1>0, <1>1 DEF Uncreated, Created
<1> SUFFICES ASSUME NEW r \in Requests PROVE OwedAt(r)'
  BY <1>2 DEF ReplyOwed
<1>3. OwedAt(r)
  BY <1>0 DEF ReplyOwed
<1>4. /\ Queued(r)' = Queued(r) /\ Attempts(r)' = Attempts(r)
      /\ Shifted(Answers(r)', Answers(r), 1)
  <2>1. Answers(r)' = Holds(Tail(cont), "Reply", r)
    BY <1>1 DEF Answers, Holds
  <2>2. Shifted(Holds(Tail(cont), "Reply", r), Holds(cont, "Reply", r), 1)
    BY <1>1, HoldsTail
  <2>. QED
    BY <1>1, <2>1, <2>2 DEF Queued, Holds, Attempts, Answers
<1>5. CASE r = r0
  <2>1. 1 \in Answers(r)
    BY <1>1, <1>5 DEF Answers, Holds
  <2>2. r <= nReqs /\ replies[r] = 0
    BY <1>0, <1>3, <2>1, HolderOwes DEF TypeInv, TypeOK
  <2>3. Answers(r) = {1} /\ Queued(r) = {} /\ Attempts(r) = {}
    BY <1>3, <2>1 DEF OwedAt, AtMostOne
  <2>4. Answers(r)' = {}
    <3>1. Answers(r)' \subseteq 1 .. Len(Tail(cont))
      BY <1>1 DEF Answers, Holds
    <3>. QED
      BY <1>4, <2>3, <3>1 DEF Shifted
  <2>5. replies'[r] = 1
    BY <1>1, <1>5, <2>2
  <2>6. Queued(r)' = {} /\ Attempts(r)' = {}
    BY <1>4, <2>3
  <2>7. nReqs' \in Nat /\ r \in Nat /\ ~(r > nReqs')
    BY <1>0, <1>1, <2>2 DEF TypeInv, TypeOK
  <2>. QED
    BY <2>4, <2>5, <2>6, <2>7 DEF OwedAt, AtMostOne
<1>6. CASE r # r0
  <2>1. replies'[r] = replies[r]
    BY <1>1, <1>6
  <2>2. Keeps(r)
    <3>1. Shifted(Queued(r)', Queued(r), 0)
      BY <1>1, <1>4, SameShifted DEF Queued
    <3>. QED
      BY <1>4, <3>1 DEF Keeps
  <2>. QED
    BY <1>1, <1>3, <2>1, <2>2, KeepsOne
<1>. QED
  BY <1>5, <1>6

\* Transport::DoConnect takes request r0's DoConnect off the strand and
\* answers it at once when the multiplexer is closed, or starts the
\* attempt that owes the answer.
LEMMA DoConnectOwed ==
    ASSUME RInv, DoConnect
    PROVE  ReplyOwed' /\ Uncreated'
<1> DEFINE t == Head(strand)
           r0 == t.req
<1>0. TypeInv /\ Uncreated /\ ReplyOwed
  BY DEF RInv, IInv
<1>1. /\ strand \in Seq(Task) /\ strand # << >> /\ strand' = Tail(strand)
      /\ strand' \in Seq(Task) /\ cont = << >> /\ cont' \in Seq(Effect)
      /\ t \in [kind : {"DoConnect"}, req : Requests, peer : Peers,
                pair : PairKinds]
      /\ UNCHANGED <<replies, nReqs, state, closed>> /\ nReqs \in Nat
  <2>1. strand \in Seq(Task) /\ strand # << >> /\ t.kind = "DoConnect"
    BY <1>0 DEF DoConnect, NextHandler, TypeInv, TypeOK
  <2>2. t \in Task /\ Tail(strand) \in Seq(Task)
    BY <2>1, HeadTailProperties
  <2>3. cont' \in Seq(Effect)
    BY <1>0, RunHandlerTypeInv DEF RunHandler, TypeInv, TypeOK
  <2>4. t \in [kind : {"DoConnect"}, req : Requests, peer : Peers,
               pair : PairKinds]
    BY <2>1, <2>2 DEF Task
  <2>5. /\ strand' = Tail(strand) /\ cont = << >>
        /\ UNCHANGED <<replies, nReqs, state, closed>>
    BY DEF DoConnect, NextHandler
  <2>6. nReqs \in Nat
    BY <1>0 DEF TypeInv, TypeOK
  <2>. QED
    BY <2>1, <2>2, <2>3, <2>4, <2>5, <2>6
<1>2. Uncreated'
  BY <1>0, UncreatedStep DEF DoConnect, TypeInv
<1>3. \A q \in Requests : Shifted(Queued(q)', Queued(q), 1)
  <2> SUFFICES ASSUME NEW q \in Requests
               PROVE  Shifted(Queued(q)', Queued(q), 1)
    OBVIOUS
  <2>1. Queued(q)' = Holds(Tail(strand), "DoConnect", q)
    BY <1>1 DEF Queued, Holds
  <2>. QED
    BY <1>1, <2>1, HoldsTail DEF Queued
<1>4. \A q \in Requests :
         /\ Answers(q)' # {} => ~open /\ q = r0
         /\ AtMostOne(Answers(q)')
  <2> SUFFICES ASSUME NEW q \in Requests
               PROVE  /\ Answers(q)' # {} => ~open /\ q = r0
                      /\ AtMostOne(Answers(q)')
    OBVIOUS
  <2>1. CASE ~open
    <3>1. cont' = <<Reply(r0)>>
      BY <2>1 DEF DoConnect
    <3>. QED
      BY <2>1, <3>1 DEF Answers, Holds, Reply, AtMostOne
  <2>2. CASE open
    BY <1>1, <2>2 DEF DoConnect, Answers, Holds, AtMostOne
  <2>. QED
    BY <2>1, <2>2
<1>5. \A x \in ConnIds : x # nConns + 1 => conn'[x] = conn[x]
  BY <1>0 DEF DoConnect, NewConnection, TypeInv, TypeOK
<1>6. \A x \in ConnIds : conn'[x] # conn[x] => conn'[x].req = r0
  <2>1. CASE ~open
    BY <2>1 DEF DoConnect
  <2>2. CASE open
    <3>1. conn' = [conn EXCEPT ![nConns + 1] =
                     [peer |-> t.peer, life |-> "Infinite",
                      handler |-> IF t.pair = "Both" THEN "Rendezvous"
                                                     ELSE "Request",
                      req |-> r0]]
      BY <2>2 DEF DoConnect, NewConnection
    <3>. QED
      BY <1>0, <3>1 DEF TypeInv, TypeOK
  <2>. QED
    BY <2>1, <2>2
<1> SUFFICES ASSUME NEW r \in Requests PROVE OwedAt(r)'
  BY <1>2 DEF ReplyOwed
<1>7. OwedAt(r)
  BY <1>0 DEF ReplyOwed
<1>8. CASE r = r0
  <2>1. 1 \in Queued(r)
    BY <1>1, <1>8 DEF Queued, Holds
  <2>2. r <= nReqs /\ replies[r] = 0
    BY <1>1, <1>7, <2>1, HolderOwes
  <2>3. Queued(r) = {1} /\ Attempts(r) = {} /\ Answers(r) = {}
    BY <1>7, <2>1 DEF OwedAt, AtMostOne
  <2>4. Queued(r)' = {}
    <3>1. Queued(r)' \subseteq 1 .. Len(Tail(strand))
      BY <1>1 DEF Queued, Holds
    <3>. QED
      BY <1>3, <2>3, <3>1 DEF Shifted
  <2>5. Attempts(r)' \subseteq {nConns + 1}
    BY <1>1, <1>5, <2>3 DEF Attempts
  <2>6. ~open => Attempts(r)' = {}
    BY <1>1, <2>3 DEF DoConnect, Attempts
  <2>7. OneHolder(r)'
    BY <1>4, <2>4, <2>5, <2>6 DEF OneHolder, AtMostOne
  <2>. QED
    BY <1>1, <2>2, <2>7, MovedOne
<1>9. CASE r # r0
  <2>1. Keeps(r)
    <3>1. Attempts(r)' \subseteq Attempts(r)
      BY <1>1, <1>6, <1>9 DEF Attempts
    <3>2. Answers(r)' = {}
      BY <1>4, <1>9
    <3>. QED
      BY <1>3, <3>1, <3>2 DEF Keeps, Shifted
  <2>. QED
    BY <1>1, <1>7, <2>1, KeepsOne
<1>. QED
  BY <1>8, <1>9

-----------------------------------------------------------------------------
(* The reply-holder invariant is inductive.                                *)

LEMMA InitRInv == Init => RInv
<1> SUFFICES ASSUME Init PROVE RInv
  OBVIOUS
<1>1. IInv
  BY InitTypeInv DEF Init, IInv, SetHoldsLiveNormal
<1>2. Uncreated
  BY DEF Init, Uncreated
<1>3. ASSUME NEW r \in Requests
      PROVE  OwedAt(r)
  <2>1. Queued(r) = {} /\ Answers(r) = {} /\ Attempts(r) = {}
    BY DEF Init, Queued, Answers, Holds, Attempts
  <2>2. replies[r] = 0
    BY DEF Init
  <2>. QED
    BY <2>1, <2>2 DEF OwedAt, AtMostOne
<1>. QED
  BY <1>1, <1>2, <1>3 DEF RInv, ReplyOwed

LEMMA NextRInv == RInv /\ [Next]_vars => RInv'
<1> SUFFICES ASSUME RInv, [Next]_vars PROVE RInv'
  OBVIOUS
<1>0. IInv'
  BY NextTypeInv, NextSet DEF RInv, IInv
<1> SUFFICES ReplyOwed' /\ Uncreated'
  BY <1>0 DEF RInv
<1>1. CASE UserStep
  <2>1. CASE \E p \in Peers, pair \in PairKinds : Connect(p, pair)
    BY <2>1, ConnectOwed
  <2>2. CASE ~\E p \in Peers, pair \in PairKinds : Connect(p, pair)
    BY <1>1, <2>2, UserStepOwed
  <2>. QED
    BY <2>1, <2>2
<1>2. CASE NetworkStep
  <2>1. CASE \E c \in ConnIds : HandshakeSucceeds(c)
    BY <2>1, HandshakeSucceedsOwed
  <2>2. CASE \E c \in ConnIds : ConnectionFails(c)
    BY <2>2, ConnectionFailsOwed
  <2>3. CASE \E p \in Peers, drop \in BOOLEAN : HandlePingFrom(p, drop)
    BY <2>3, HandlePingFromOwed
  <2>. QED
    BY <1>2, <2>1, <2>2, <2>3 DEF NetworkStep
<1>3. CASE RunHandler
  BY <1>3, DoConnectOwed, DoCloseConnOwed, DoCloseAllOwed DEF RunHandler
<1>4. CASE Continue
  BY <1>4, ContinueFrameOwed, CallReplyOwed DEF Continue
<1>5. CASE UNCHANGED vars
  <2>1. /\ strand \in Seq(Task) /\ cont \in Seq(Effect)
        /\ strand' = strand /\ cont' = cont
        /\ strand' \in Seq(Task) /\ cont' \in Seq(Effect)
        /\ UNCHANGED <<conn, state, closed, nConns, replies, nReqs>>
    BY <1>5 DEF vars, RInv, IInv, TypeInv, TypeOK
  <2>2. Uncreated'
    BY <2>1 DEF RInv, Uncreated, Created
  <2>. QED
    BY <2>1, <2>2, StrandKept, ContKept, AttemptsKept, FrameOwed
<1>. QED
  BY <1>1, <1>2, <1>3, <1>4, <1>5 DEF Next

\* The handler given to Transport::Connect is called at most once, for
\* every number of peers, requests and inbound handshakes: DoConnect, the
\* attempt it starts, the local attempt on_connect2 chains to for a
\* rendezvous pair, and the Reply step on_connect leaves each hand the
\* answer on, and a connection closing or the transport closing while the
\* request is in flight never duplicates it.
THEOREM ReplyOnce == Spec => []ReplyAtMostOnce
<1>1. RInv => ReplyAtMostOnce
  BY DEF RInv, ReplyOwed, OwedAt, ReplyAtMostOnce
<1>. QED
  BY InitRInv, NextRInv, <1>1, PTL DEF Spec

=============================================================================

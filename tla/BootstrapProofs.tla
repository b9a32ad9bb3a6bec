------------------------- MODULE BootstrapProofs --------------------------
(***************************************************************************)
(* Proofs about the bootstrap chain, for every bootstrap list and every    *)
(* bound on its length: type correctness, that on_bootstrap is called at   *)
(* most once, that its answer agrees with the attempts, and that the       *)
(* chain refines BootstrapService.                                         *)
(***************************************************************************)
EXTENDS Bootstrap, SequenceTheorems, WellFoundedInduction, TLAPS

\* While a continuation of the chain is due, cur is a candidate of the list.
CurInList ==
    pc \in {"Skipping", "Connecting", "Detecting"} => cur \in 1 .. Len(list)

\* Before the chain is done nothing has been dispatched to on_bootstrap;
\* once it is done exactly one call has been dispatched, run or not.
OneAnswer ==
    /\ pc # "Done" => pending = <<>> /\ reported = <<>>
    /\ pc = "Done" => Len(pending) + Len(reported) = 1

IInv == TypeOK /\ CurInList /\ OneAnswer

\* A candidate that was skipped or whose connect failed.
Settled(i) == tried[i] \in {"Invalid", "Failed"}

\* The chain walks the list in order: before it starts nothing is tried;
\* while it is at candidate cur every earlier candidate is settled, no
\* later one is tried, and cur itself is skipped, being connected to, or
\* connected.  After Done no step changes tried.
InOrder ==
    /\ pc = "Start" => \A i \in Slots : tried[i] = "Untried"
    /\ pc \in {"Skipping", "Connecting", "Detecting"} =>
          /\ \A i \in 1 .. cur - 1 : Settled(i)
          /\ \A i \in Slots : i > cur => tried[i] = "Untried"
    /\ pc = "Skipping" => tried[cur] = "Invalid"
    /\ pc = "Connecting" => tried[cur] = "Untried"
    /\ pc = "Detecting" => tried[cur] = "Connected"

\* Every dispatched call of on_bootstrap agrees with the attempts.
PendingAgree == \A k \in 1 .. Len(pending) : AnswerAgrees(pending[k])

\* The strengthening that AnswerMatchesAttempts needs.
AInv == IInv /\ InOrder /\ PendingAgree /\ AnswerMatchesAttempts

USE BootstrapAssumption

-----------------------------------------------------------------------------
(* Lemmas about the helpers.                                               *)

\* find_if yields a candidate of the list, or Contact().
LEMMA FirstWithIdInList ==
    ASSUME NEW n
    PROVE  FirstWithId(n) \in 0 .. Len(list)
<1>1. CASE \E k \in 1 .. Len(list) : IsFirstWithId(k, n)
  BY <1>1 DEF FirstWithId
<1>2. CASE ~\E k \in 1 .. Len(list) : IsFirstWithId(k, n)
  BY <1>2 DEF FirstWithId
<1>. QED
  BY <1>1, <1>2

LEMMA FirstWithIdType ==
    ASSUME TypeOK, NEW n
    PROVE  FirstWithId(n) \in 0 .. MaxCandidates
BY FirstWithIdInList DEF TypeOK

\* find_if finds the candidate it is asked about, or an earlier one with
\* the same id: the ids of the list have a first occurrence, since < is
\* well-founded on the naturals.
LEMMA FirstWithIdFound ==
    ASSUME list \in Seq(Contact), NEW c \in 1 .. Len(list)
    PROVE  /\ FirstWithId(list[c].id) \in 1 .. Len(list)
           /\ list[FirstWithId(list[c].id)].id = list[c].id
<1> DEFINE n == list[c].id
           T == {k \in 1 .. Len(list) : list[k].id = n}
<1>1. T \subseteq Nat /\ T # {}
  OBVIOUS
<1>2. \E x \in T : \A y \in T : ~(<<y, x>> \in OpToRel(<, Nat))
  BY <1>1, NatLessThanWellFounded, WFMin
<1>3. PICK x \in T : \A y \in T : ~(<<y, x>> \in OpToRel(<, Nat))
  BY <1>2
<1>4. IsFirstWithId(x, n)
  <2>1. SUFFICES ASSUME NEW j \in 1 .. x - 1, list[j].id = n PROVE FALSE
    BY DEF IsFirstWithId
  <2>2. j \in T /\ <<j, x>> \in OpToRel(<, Nat)
    BY <2>1 DEF OpToRel
  <2>. QED
    BY <1>3, <2>2
<1>5. \E k \in 1 .. Len(list) : IsFirstWithId(k, n)
  BY <1>4
<1>. QED
  BY <1>5 DEF FirstWithId, IsFirstWithId

\* Reporting the current candidate appends a typed answer.
LEMMA ReportPeerType ==
    ASSUME TypeOK, cur \in 1 .. Len(list), ReportPeer
    PROVE  /\ pending' \in Seq(Answer)
           /\ Len(pending') = Len(pending) + 1
<1>1. list[cur] \in Contact
  BY DEF TypeOK
<1>2. FirstWithId(list[cur].id) \in 0 .. MaxCandidates
  BY FirstWithIdType
<1>3. [code |-> "Success", contact |-> FirstWithId(list[cur].id)] \in Answer
  BY <1>2 DEF Answer, Codes
<1>. QED
  BY <1>3 DEF ReportPeer, TypeOK

\* An attempt at candidate i keeps the invariant, given the outcomes t and
\* the pending calls q that the step before it left.
LEMMA AttemptInv ==
    ASSUME TypeOK, NEW i \in Nat \ {0}, NEW t \in [Slots -> Outcomes],
           NEW q, q = <<>>, reported = <<>>, Attempt(i, t, q),
           UNCHANGED <<list, reported>>
    PROVE  /\ pc' \in Stages
           /\ cur' \in 0 .. MaxCandidates
           /\ pending' \in Seq(Answer)
           /\ tried' \in [Slots -> Outcomes]
           /\ CurInList'
           /\ OneAnswer'
<1>1. CASE i > Len(list)
  <2>1. /\ pc' = "Done"
        /\ pending' = Append(q, [code |-> "NotConnectable", contact |-> 0])
        /\ tried' = t /\ cur' = cur
    BY <1>1 DEF Attempt
  <2>2. [code |-> "NotConnectable", contact |-> 0] \in Answer
    BY DEF Answer, Codes
  <2>3. pending' \in Seq(Answer) /\ Len(pending') = 1
    BY <2>1, <2>2
  <2>. QED
    BY <2>1, <2>3 DEF Stages, CurInList, OneAnswer, TypeOK
<1>2. CASE i <= Len(list)
  <2>1. i \in Slots /\ i \in 0 .. MaxCandidates
    BY <1>2 DEF TypeOK, Slots
  <2>2. /\ pc' \in {"Skipping", "Connecting"}
        /\ cur' = i /\ pending' = q
        /\ tried' \in {t, [t EXCEPT ![i] = "Invalid"]}
    BY <1>2 DEF Attempt
  <2>3. tried' \in [Slots -> Outcomes]
    BY <2>1, <2>2 DEF Outcomes
  <2>. QED
    BY <1>2, <2>1, <2>2, <2>3 DEF Stages, CurInList, OneAnswer
<1>. QED
  BY <1>1, <1>2

-----------------------------------------------------------------------------
(* The inductive invariant.                                                *)

LEMMA InitIInv == Init => IInv
<1> SUFFICES ASSUME Init PROVE IInv
  OBVIOUS
<1>1. list \in Seq(Contact) /\ Len(list) <= MaxCandidates
  <2>1. PICK k \in 0 .. MaxCandidates : list \in [1 .. k -> Contact]
    BY DEF Init
  <2>. QED
    BY <2>1
<1>2. tried \in [Slots -> Outcomes]
  BY DEF Init, Outcomes
<1>3. TypeOK
  <2>1. cur \in 0 .. MaxCandidates
    BY DEF Init
  <2>2. pending \in Seq(Answer) /\ reported \in Seq(Answer)
    BY DEF Init
  <2>3. pc \in Stages
    BY DEF Init, Stages
  <2>. QED
    BY <1>1, <1>2, <2>1, <2>2, <2>3 DEF Init, TypeOK
<1>4. CurInList /\ OneAnswer
  BY DEF Init, CurInList, OneAnswer
<1>. QED
  BY <1>3, <1>4 DEF IInv

LEMMA NextIInv == IInv /\ [Next]_vars => IInv'
<1> SUFFICES ASSUME IInv, [Next]_vars PROVE IInv'
  OBVIOUS
<1>0. TypeOK
  BY DEF IInv
<1>1. CASE Bootstrap
  <2>1. CASE /\ pending' = <<[code |-> "OpenFailed", contact |-> 0]>>
             /\ pc' = "Done"
             /\ UNCHANGED <<muxOpen, cur, tried>>
    <3>1. [code |-> "OpenFailed", contact |-> 0] \in Answer
      BY DEF Answer, Codes
    <3>. QED
      BY <1>0, <1>1, <2>1, <3>1
         DEF Bootstrap, IInv, TypeOK, CurInList, OneAnswer, Stages
  <2>2. CASE /\ muxOpen' = TRUE
             /\ pending' = <<[code |-> "Success", contact |-> 0]>>
             /\ pc' = "Done"
             /\ UNCHANGED <<cur, tried>>
    <3>1. [code |-> "Success", contact |-> 0] \in Answer
      BY DEF Answer, Codes
    <3>. QED
      BY <1>0, <1>1, <2>2, <3>1
         DEF Bootstrap, IInv, TypeOK, CurInList, OneAnswer, Stages
  <2>3. CASE muxOpen' = TRUE /\ Attempt(1, tried, pending)
    <3>1. pending = <<>> /\ reported = <<>>
      BY <1>1 DEF Bootstrap, IInv, OneAnswer
    <3>. QED
      BY <1>0, <1>1, <2>3, <3>1, AttemptInv DEF Bootstrap, IInv, TypeOK
  <2>. QED
    BY <1>1, <2>1, <2>2, <2>3 DEF Bootstrap
<1>2. CASE Skip
  <2>1. pending = <<>> /\ reported = <<>> /\ cur \in 1 .. Len(list)
    BY <1>2 DEF Skip, IInv, OneAnswer, CurInList
  <2>2. NextCandidate \in Nat \ {0}
    BY <2>1 DEF NextCandidate
  <2>. QED
    BY <1>0, <1>2, <2>1, <2>2, AttemptInv DEF Skip, OnRetry, IInv, TypeOK
<1>3. CASE \E hasEp \in BOOLEAN : ConnectSucceeds(hasEp)
  <2>1. PICK hasEp \in BOOLEAN : ConnectSucceeds(hasEp)
    BY <1>3
  <2>2. pending = <<>> /\ reported = <<>> /\ cur \in 1 .. Len(list)
    BY <2>1 DEF ConnectSucceeds, IInv, OneAnswer, CurInList
  <2>3. tried' \in [Slots -> Outcomes]
    BY <1>0, <2>1, <2>2 DEF ConnectSucceeds, TypeOK, Slots, Outcomes
  <2>4. CASE Lifespan = "Bootstrap" /\ hasEp
    BY <1>0, <2>1, <2>2, <2>3, <2>4
       DEF ConnectSucceeds, DetectNatType, IInv, TypeOK, CurInList,
           OneAnswer, Stages
  <2>5. CASE ~(Lifespan = "Bootstrap" /\ hasEp)
    <3>1. pc' = "Done" /\ ReportPeer /\ pinged' = FALSE
      BY <2>1, <2>5 DEF ConnectSucceeds, DetectNatType
    <3>2. pending' \in Seq(Answer) /\ Len(pending') = 1
      BY <1>0, <2>2, <3>1, ReportPeerType
    <3>3. UNCHANGED <<list, offExisting, nat, muxOpen, cur, reported>>
          /\ peerNat' \in BOOLEAN
      BY <2>1 DEF ConnectSucceeds
    <3>4. TypeOK'
      BY <1>0, <2>3, <3>1, <3>2, <3>3 DEF TypeOK, Stages
    <3>5. CurInList' /\ OneAnswer'
      BY <2>2, <3>1, <3>2, <3>3 DEF CurInList, OneAnswer
    <3>. QED
      BY <3>4, <3>5 DEF IInv
  <2>. QED
    BY <2>4, <2>5
<1>4. CASE ConnectFails
  <2>1. pending = <<>> /\ reported = <<>> /\ cur \in 1 .. Len(list)
    BY <1>4 DEF ConnectFails, IInv, OneAnswer, CurInList
  <2>2. NextCandidate \in Nat \ {0}
    BY <2>1 DEF NextCandidate
  <2>3. [tried EXCEPT ![cur] = "Failed"] \in [Slots -> Outcomes]
    BY <1>0, <2>1 DEF TypeOK, Slots, Outcomes
  <2>. QED
    BY <1>0, <1>4, <2>1, <2>2, <2>3, AttemptInv
       DEF ConnectFails, OnRetry, IInv, TypeOK
<1>5. CASE \E ok \in BOOLEAN : PingResult(ok)
  <2>1. PICK ok \in BOOLEAN : PingResult(ok)
    BY <1>5
  <2>2. pending = <<>> /\ reported = <<>> /\ cur \in 1 .. Len(list)
    BY <2>1 DEF PingResult, IInv, OneAnswer, CurInList
  <2>3. pending' \in Seq(Answer) /\ Len(pending') = 1
    BY <1>0, <2>1, <2>2, ReportPeerType DEF PingResult
  <2>. QED
    BY <1>0, <2>1, <2>2, <2>3
       DEF PingResult, IInv, TypeOK, CurInList, OneAnswer, Stages, NatTypes
<1>6. CASE Report
  <2>1. pc = "Done"
    BY <1>6 DEF Report, IInv, OneAnswer
  <2>2. Len(pending) + Len(reported) = 1
    BY <2>1 DEF IInv, OneAnswer
  <2>3. Head(pending) \in Answer /\ Tail(pending) \in Seq(Answer)
    BY <1>0, <1>6 DEF Report, TypeOK
  <2>4. Len(reported') + Len(pending') = 1
    BY <1>0, <1>6, <2>2 DEF Report, TypeOK
  <2>. QED
    BY <1>0, <1>6, <2>1, <2>3, <2>4
       DEF Report, IInv, TypeOK, CurInList, OneAnswer
<1>7. CASE Close
  BY <1>0, <1>7 DEF Close, IInv, TypeOK, CurInList, OneAnswer
<1>8. CASE UNCHANGED vars
  BY <1>8 DEF vars, IInv, TypeOK, CurInList, OneAnswer
<1>. QED
  BY <1>1, <1>2, <1>3, <1>4, <1>5, <1>6, <1>7, <1>8 DEF Next

\* Two lengths that add up to one, the first non-zero.
LEMMA SumIsOne ==
    ASSUME NEW a \in Nat, NEW b \in Nat, a + b = 1, a # 0
    PROVE  a = 1 /\ b = 0
OBVIOUS

-----------------------------------------------------------------------------
(* Refinement of BootstrapService.                                         *)

\* Every dispatched call of on_bootstrap is one BootstrapService allows.
PendingAllowed == \A k \in 1 .. Len(pending) : pending[k] \in BS!Allowed

\* An attempt dispatches nothing, or kNotConnectable with Contact().
LEMMA AttemptAllowed ==
    ASSUME NEW i, NEW t, NEW q, q = <<>>, Attempt(i, t, q), list' = list
    PROVE  PendingAllowed'
<1>1. pending' = <<>> \/ pending' = <<[code |-> "NotConnectable", contact |-> 0]>>
  BY DEF Attempt
<1>. QED
  BY <1>1 DEF PendingAllowed, BS!Allowed

\* Reporting the peer dispatches kSuccess with a contact of the list.
LEMMA ReportPeerAllowed ==
    ASSUME pending = <<>>, ReportPeer, list' = list
    PROVE  PendingAllowed'
<1>1. FirstWithId(list[cur].id) \in 0 .. Len(list)
  BY FirstWithIdInList
<1>2. pending' = <<[code |-> "Success", contact |-> FirstWithId(list[cur].id)]>>
  BY DEF ReportPeer
<1>. QED
  BY <1>1, <1>2 DEF PendingAllowed, BS!Allowed

LEMMA NextAllowed ==
    IInv /\ PendingAllowed /\ [Next]_vars => PendingAllowed'
<1> SUFFICES ASSUME IInv, PendingAllowed, [Next]_vars PROVE PendingAllowed'
  OBVIOUS
<1>0. pc # "Done" => pending = <<>>
  BY DEF IInv, OneAnswer
<1>1. CASE Bootstrap
  <2>1. pending = <<>> /\ list' = list
    BY <1>0, <1>1 DEF Bootstrap
  <2>2. CASE Attempt(1, tried, pending)
    BY <2>1, <2>2, AttemptAllowed
  <2>3. CASE \/ pending' = <<[code |-> "OpenFailed", contact |-> 0]>>
             \/ pending' = <<[code |-> "Success", contact |-> 0]>>
    BY <2>1, <2>3 DEF PendingAllowed, BS!Allowed
  <2>. QED
    BY <1>1, <2>2, <2>3 DEF Bootstrap
<1>2. CASE Skip
  BY <1>0, <1>2, AttemptAllowed DEF Skip, OnRetry
<1>3. CASE ConnectFails
  BY <1>0, <1>3, AttemptAllowed DEF ConnectFails, OnRetry
<1>4. CASE \E hasEp \in BOOLEAN : ConnectSucceeds(hasEp)
  <2>1. PICK hasEp \in BOOLEAN : ConnectSucceeds(hasEp)
    BY <1>4
  <2>2. pending = <<>> /\ list' = list
    BY <1>0, <2>1 DEF ConnectSucceeds
  <2>3. pending' = pending \/ ReportPeer
    BY <2>1 DEF ConnectSucceeds, DetectNatType
  <2>. QED
    BY <2>2, <2>3, ReportPeerAllowed DEF PendingAllowed
<1>5. CASE \E ok \in BOOLEAN : PingResult(ok)
  BY <1>0, <1>5, ReportPeerAllowed DEF PingResult
<1>6. CASE Report
  <2>1. pending \in Seq(Answer) /\ pending # <<>>
    BY <1>6 DEF Report, IInv, TypeOK
  <2>2. pending' = Tail(pending) /\ list' = list
    BY <1>6 DEF Report
  <2>. QED
    BY <2>1, <2>2 DEF PendingAllowed, BS!Allowed
<1>7. CASE Close \/ UNCHANGED vars
  BY <1>7 DEF Close, vars, PendingAllowed, BS!Allowed
<1>. QED
  BY <1>1, <1>2, <1>3, <1>4, <1>5, <1>6, <1>7 DEF Next

\* Each step of the chain is a step of BootstrapService or leaves its
\* state alone.
LEMMA StepRefines ==
    IInv /\ PendingAllowed /\ [Next]_vars => [BS!Next]_BS!svars
<1> SUFFICES ASSUME IInv, PendingAllowed, [Next]_vars
             PROVE  [BS!Next]_BS!svars
  OBVIOUS
<1>1. CASE Bootstrap
  <2>1. pc = "Start" /\ pc' \in {"Done", "Skipping", "Connecting"}
    BY <1>1 DEF Bootstrap, Attempt
  <2>2. reported' = reported /\ list' = list
    BY <1>1 DEF Bootstrap
  <2>. QED
    BY <2>1, <2>2 DEF BS!Next, BS!Start
<1>2. CASE Report
  <2>1. pc = "Done" /\ pc' = pc /\ list' = list
    BY <1>2 DEF Report, IInv, OneAnswer
  <2>2. pending \in Seq(Answer) /\ reported \in Seq(Answer)
    BY DEF IInv, TypeOK
  <2>3. Len(pending) + Len(reported) = 1 /\ pending # <<>>
    BY <1>2, <2>1 DEF Report, IInv, OneAnswer
  <2>4. reported = <<>> /\ Len(pending) = 1
    <3>1. Len(pending) # 0
      BY <2>2, <2>3, EmptySeq
    <3>2. Len(pending) \in Nat /\ Len(reported) \in Nat
      BY <2>2, SMTT(30)
    <3>3. Len(reported) = 0 /\ Len(pending) = 1
      BY <2>3, <3>1, <3>2, SumIsOne
    <3>. QED
      BY <2>2, <3>3, EmptySeq, LenProperties
  <2>5. Head(pending) \in BS!Allowed
    BY <2>2, <2>4 DEF PendingAllowed
  <2>6. reported' = <<Head(pending)>>
    BY <1>2, <2>4 DEF Report
  <2>. QED
    BY <2>1, <2>4, <2>5, <2>6 DEF BS!Next, BS!Answer
<1>3. CASE ~Bootstrap /\ ~Report
  <2>1. \/ /\ reported' = reported /\ list' = list
           /\ pc # "Start" /\ pc' # "Start"
        \/ UNCHANGED vars
    BY <1>3 DEF Next, Skip, OnRetry, Attempt, ConnectSucceeds, DetectNatType,
                ConnectFails, PingResult, Close
  <2>. QED
    BY <2>1 DEF vars, BS!svars
<1>. QED
  BY <1>1, <1>2, <1>3

-----------------------------------------------------------------------------
(* The answer agrees with the attempts.                                    *)

\* Once the chain is done the outcomes, the list, the mode and the NAT
\* type stay put, and with them what an answer must agree with.
LEMMA AgreeFrame ==
    ASSUME UNCHANGED <<list, tried, offExisting, nat>>, NEW a
    PROVE  AnswerAgrees(a)' = AnswerAgrees(a)
BY DEF AnswerAgrees, Slots

\* An attempt at candidate i, every earlier candidate settled and none
\* from i on tried, keeps the walk in order and dispatches only an
\* answer that agrees with it.
LEMMA AttemptAgree ==
    ASSUME TypeOK, NEW i \in Nat \ {0}, NEW t \in [Slots -> Outcomes],
           i - 1 <= Len(list),
           \A j \in 1 .. i - 1 : t[j] \in {"Invalid", "Failed"},
           \A j \in Slots : j >= i => t[j] = "Untried",
           NEW q, q = <<>>, reported = <<>>, Attempt(i, t, q),
           UNCHANGED <<list, reported>>
    PROVE  InOrder' /\ PendingAgree' /\ AnswerMatchesAttempts'
<1>1. AnswerMatchesAttempts'
  BY DEF AnswerMatchesAttempts
<1>2. CASE i > Len(list)
  <2>1. /\ pc' = "Done" /\ tried' = t
        /\ pending' = <<[code |-> "NotConnectable", contact |-> 0]>>
    BY <1>2 DEF Attempt
  <2>2. i - 1 = Len(list)
    BY <1>2 DEF TypeOK
  <2>3. AnswerAgrees([code |-> "NotConnectable", contact |-> 0])'
    BY <2>1, <2>2 DEF AnswerAgrees
  <2>. QED
    BY <1>1, <2>1, <2>3 DEF InOrder, PendingAgree
<1>3. CASE i <= Len(list)
  <2>1. i \in Slots
    BY <1>3 DEF TypeOK, Slots
  <2>2. /\ cur' = i /\ pending' = <<>>
        /\ \/ pc' = "Skipping" /\ tried' = [t EXCEPT ![i] = "Invalid"]
           \/ pc' = "Connecting" /\ tried' = t
    BY <1>3 DEF Attempt
  <2>3. 1 .. i - 1 \subseteq Slots
    BY <1>3 DEF TypeOK, Slots
  <2>4. /\ \A j \in 1 .. i - 1 : tried'[j] \in {"Invalid", "Failed"}
        /\ \A j \in Slots : j > i => tried'[j] = "Untried"
    <3>1. CASE pc' = "Skipping" /\ tried' = [t EXCEPT ![i] = "Invalid"]
      BY <2>1, <2>3, <3>1
    <3>2. CASE pc' = "Connecting" /\ tried' = t
      BY <2>1, <2>3, <3>2
    <3>. QED
      BY <2>2, <3>1, <3>2
  <2>5. /\ pc' = "Skipping" => tried'[i] = "Invalid"
        /\ pc' = "Connecting" => tried'[i] = "Untried"
    BY <2>1, <2>2
  <2>. QED
    BY <1>1, <2>2, <2>4, <2>5 DEF InOrder, Settled, PendingAgree
<1>. QED
  BY <1>2, <1>3

\* Reporting the current candidate, connected after every earlier one
\* settled, dispatches an answer that agrees with the attempts.
LEMMA ReportPeerAgree ==
    ASSUME TypeOK, cur \in 1 .. Len(list), pending = <<>>, ReportPeer,
           tried'[cur] = "Connected",
           \A i \in 1 .. cur - 1 : tried'[i] \in {"Invalid", "Failed"},
           list' = list
    PROVE  PendingAgree'
<1>0. list \in Seq(Contact)
  BY DEF TypeOK
<1>1. /\ FirstWithId(list[cur].id) \in 1 .. Len(list)
      /\ list[FirstWithId(list[cur].id)].id = list[cur].id
  BY <1>0, FirstWithIdFound
<1> DEFINE rec == [code |-> "Success", contact |-> FirstWithId(list[cur].id)]
<1>2. Len(pending') = 1 /\ pending'[1] = rec
  BY EmptySeq, AppendProperties DEF ReportPeer
<1>3. ASSUME NEW a, a = rec PROVE AnswerAgrees(a)'
  <2>1. a.code = "Success" /\ a.contact # 0
    BY <1>1, <1>3
  <2>2. /\ cur \in 1 .. Len(list')
        /\ tried'[cur] = "Connected"
        /\ list'[cur].id = list'[a.contact].id
        /\ \A i \in 1 .. cur - 1 : tried'[i] \in {"Invalid", "Failed"}
    BY <1>1, <1>3
  <2>. QED
    BY <2>1, <2>2 DEF AnswerAgrees
<1>. QED
  BY <1>2, <1>3 DEF PendingAgree

\* The walk in order and the agreement of every answer are inductive,
\* given IInv.
LEMMA NextAgree ==
    AInv /\ [Next]_vars => (InOrder /\ PendingAgree /\ AnswerMatchesAttempts)'
<1> SUFFICES ASSUME IInv, InOrder, PendingAgree, AnswerMatchesAttempts,
                    [Next]_vars
             PROVE  (InOrder /\ PendingAgree /\ AnswerMatchesAttempts)'
  BY DEF AInv
<1>0. TypeOK
  BY DEF IInv
<1>1. CASE Bootstrap
  <2>0. /\ pc = "Start" /\ pending = <<>> /\ reported = <<>>
        /\ \A i \in Slots : tried[i] = "Untried"
        /\ UNCHANGED <<list, offExisting, nat, reported>>
    BY <1>1 DEF Bootstrap, IInv, OneAnswer, InOrder
  <2>1. CASE /\ pending' = <<[code |-> "OpenFailed", contact |-> 0]>>
             /\ pc' = "Done"
    BY <2>0, <2>1 DEF InOrder, PendingAgree, AnswerMatchesAttempts,
                      AnswerAgrees
  <2>2. CASE /\ ~TryConnect
             /\ pending' = <<[code |-> "Success", contact |-> 0]>>
             /\ pc' = "Done"
             /\ UNCHANGED tried
    BY <2>0, <2>2 DEF TryConnect, InOrder, PendingAgree,
                      AnswerMatchesAttempts, AnswerAgrees
  <2>3. CASE Attempt(1, tried, pending)
    <3>1. 1 - 1 <= Len(list) /\ \A j \in Slots : j >= 1 => tried[j] = "Untried"
      BY <1>0, <2>0 DEF TypeOK
    <3>. QED
      BY <1>0, <2>0, <2>3, <3>1, AttemptAgree DEF TypeOK
  <2>. QED
    BY <1>1, <2>1, <2>2, <2>3 DEF Bootstrap
<1>2. CASE Skip
  <2>1. /\ pc = "Skipping" /\ pending = <<>> /\ reported = <<>>
        /\ cur \in 1 .. Len(list)
        /\ UNCHANGED <<list, reported>>
    BY <1>2 DEF Skip, IInv, OneAnswer, CurInList
  <2>2. /\ \A j \in 1 .. cur : tried[j] \in {"Invalid", "Failed"}
        /\ \A j \in Slots : j >= cur + 1 => tried[j] = "Untried"
    BY <1>0, <2>1 DEF InOrder, Settled, TypeOK
  <2>. QED
    BY <1>0, <1>2, <2>1, <2>2, AttemptAgree
       DEF Skip, OnRetry, NextCandidate, TypeOK
<1>3. CASE ConnectFails
  <2>1. /\ pc = "Connecting" /\ pending = <<>> /\ reported = <<>>
        /\ cur \in 1 .. Len(list) /\ cur \in Slots
        /\ UNCHANGED <<list, reported>>
    BY <1>0, <1>3 DEF ConnectFails, IInv, OneAnswer, CurInList, TypeOK, Slots
  <2> DEFINE t == [tried EXCEPT ![cur] = "Failed"]
  <2>2. /\ t \in [Slots -> Outcomes]
        /\ \A j \in 1 .. (cur + 1) - 1 : t[j] \in {"Invalid", "Failed"}
        /\ \A j \in Slots : j >= cur + 1 => t[j] = "Untried"
    BY <1>0, <2>1 DEF InOrder, Settled, TypeOK, Outcomes, Slots
  <2>3. Attempt(cur + 1, t, pending)
    BY <1>3 DEF ConnectFails, OnRetry, NextCandidate
  <2>4. cur + 1 \in Nat \ {0} /\ (cur + 1) - 1 <= Len(list)
    BY <2>1
  <2>. QED
    BY <1>0, <2>1, <2>2, <2>3, <2>4, AttemptAgree, Zenon
<1>4. CASE \E hasEp \in BOOLEAN : ConnectSucceeds(hasEp)
  <2>1. PICK hasEp \in BOOLEAN : ConnectSucceeds(hasEp)
    BY <1>4
  <2>2. /\ pc = "Connecting" /\ pending = <<>> /\ reported = <<>>
        /\ cur \in 1 .. Len(list) /\ cur \in Slots
        /\ UNCHANGED <<list, cur, reported>>
        /\ tried' = [tried EXCEPT ![cur] = "Connected"]
    BY <1>0, <2>1 DEF ConnectSucceeds, IInv, OneAnswer, CurInList, TypeOK,
                      Slots
  <2>3. /\ tried'[cur] = "Connected"
        /\ \A i \in 1 .. cur - 1 : tried'[i] \in {"Invalid", "Failed"}
        /\ \A i \in Slots : i > cur => tried'[i] = "Untried"
    BY <1>0, <2>2 DEF InOrder, Settled, TypeOK, Slots
  <2>4. CASE Lifespan = "Bootstrap" /\ hasEp
    <3>1. pc' = "Detecting" /\ pending' = pending
      BY <2>1, <2>4 DEF ConnectSucceeds, DetectNatType
    <3>. QED
      BY <2>2, <2>3, <3>1 DEF InOrder, Settled, PendingAgree,
                              AnswerMatchesAttempts
  <2>5. CASE ~(Lifespan = "Bootstrap" /\ hasEp)
    <3>1. pc' = "Done" /\ ReportPeer
      BY <2>1, <2>5 DEF ConnectSucceeds, DetectNatType
    <3>2. PendingAgree'
      BY <1>0, <2>2, <2>3, <3>1, ReportPeerAgree
    <3>. QED
      BY <2>2, <3>1, <3>2 DEF InOrder, AnswerMatchesAttempts
  <2>. QED
    BY <2>4, <2>5
<1>5. CASE \E ok \in BOOLEAN : PingResult(ok)
  <2>1. PICK ok \in BOOLEAN : PingResult(ok)
    BY <1>5
  <2>2. /\ pc = "Detecting" /\ pending = <<>> /\ reported = <<>>
        /\ cur \in 1 .. Len(list)
        /\ UNCHANGED <<list, reported, tried>>
        /\ pc' = "Done" /\ ReportPeer
    BY <2>1 DEF PingResult, IInv, OneAnswer, CurInList
  <2>3. /\ tried'[cur] = "Connected"
        /\ \A i \in 1 .. cur - 1 : tried'[i] \in {"Invalid", "Failed"}
    BY <2>2 DEF InOrder, Settled
  <2>4. PendingAgree'
    BY <1>0, <2>2, <2>3, ReportPeerAgree
  <2>. QED
    BY <2>2, <2>4 DEF InOrder, AnswerMatchesAttempts

<1>6. CASE Report
  <2>1. /\ pc = "Done" /\ pc' = pc
        /\ UNCHANGED <<list, tried, offExisting, nat>>
    BY <1>6 DEF Report, IInv, OneAnswer
  <2>2. pending \in Seq(Answer) /\ reported \in Seq(Answer)
    BY DEF IInv, TypeOK
  <2>3. reported = <<>> /\ Len(pending) = 1
    <3>1. Len(pending) + Len(reported) = 1 /\ Len(pending) # 0
      BY <1>6, <2>1, <2>2, EmptySeq DEF Report, IInv, OneAnswer
    <3>2. Len(pending) \in Nat /\ Len(reported) \in Nat
      BY <2>2, LenProperties
    <3>. QED
      BY <2>2, <3>1, <3>2, SumIsOne, EmptySeq
  <2>4. PICK a : a = pending[1]
    OBVIOUS
  <2>5. AnswerAgrees(a) /\ AnswerAgrees(a)'
    BY <2>1, <2>3, <2>4, AgreeFrame DEF PendingAgree
  <2>6. Len(reported') = 1 /\ reported'[1] = a /\ Len(pending') = 0
    BY <1>6, <2>2, <2>3, <2>4 DEF Report
  <2>. QED
    BY <2>1, <2>5, <2>6 DEF InOrder, PendingAgree, AnswerMatchesAttempts
<1>7. CASE Close \/ UNCHANGED vars
  <2>1. UNCHANGED <<list, tried, offExisting, nat, pc, cur, pending, reported>>
    BY <1>7 DEF Close, vars
  <2>. QED
    BY <2>1 DEF InOrder, Settled, PendingAgree, AnswerMatchesAttempts,
                AnswerAgrees
<1>. QED
  BY <1>1, <1>2, <1>3, <1>4, <1>5, <1>6, <1>7 DEF Next

-----------------------------------------------------------------------------
(* Theorems.                                                               *)

\* Every reachable state of the bootstrap chain is well typed.
THEOREM BootstrapTypeCorrect == Spec => []TypeOK
<1>1. IInv => TypeOK
  BY DEF IInv
<1>. QED
  BY InitIInv, NextIInv, <1>1, PTL DEF Spec

\* on_bootstrap is called at most once, for every bootstrap list: the
\* chain of retries, NAT detection and dispatched handlers dispatches one
\* answer and only once it is done.
THEOREM AnsweredOnce == Spec => []AnsweredAtMostOnce
<1>1. IInv => AnsweredAtMostOnce
  BY DEF IInv, OneAnswer, AnsweredAtMostOnce, TypeOK
<1>. QED
  BY InitIInv, NextIInv, <1>1, PTL DEF Spec

\* Every call of on_bootstrap agrees with what happened to the candidates,
\* for every bootstrap list: kSuccess names a contact sharing the id of
\* the first candidate that connected, every earlier one skipped or
\* failed; kNotConnectable follows a failure or skip of every candidate;
\* kSuccess with Contact() comes only from behind a symmetric NAT off an
\* existing connection, with nothing tried.
THEOREM AnswersMatchAttempts == Spec => []AnswerMatchesAttempts
<1>1. Init => AInv
  <2> SUFFICES ASSUME Init PROVE AInv
    OBVIOUS
  <2>1. InOrder
    BY DEF Init, InOrder
  <2>. QED
    BY <2>1, InitIInv DEF Init, AInv, PendingAgree, AnswerMatchesAttempts
<1>2. AInv /\ [Next]_vars => AInv'
  BY NextIInv, NextAgree DEF AInv
<1>3. AInv => AnswerMatchesAttempts
  BY DEF AInv
<1>. QED
  BY <1>1, <1>2, <1>3, PTL DEF Spec

\* The bootstrap chain implements the safety part of BootstrapService for
\* every bootstrap list: Transport::Bootstrap is started once, and
\* on_bootstrap is then called at most once, with a failure code and
\* Contact(), or with kSuccess and Contact() or a contact of the list.
THEOREM BootstrapRefinesService == Spec => BS!SafeSpec
<1>1. Init => BS!Init
  <2> SUFFICES ASSUME Init PROVE BS!Init
    OBVIOUS
  <2>1. list \in Seq(Contact)
    BY InitIInv DEF IInv, TypeOK
  <2>. QED
    BY <2>1 DEF Init, BS!Init
<1>2. Init => PendingAllowed
  BY DEF Init, PendingAllowed
<1>3. IInv /\ PendingAllowed /\ [Next]_vars => (IInv /\ PendingAllowed)'
  BY NextIInv, NextAllowed
<1>. QED
  BY <1>1, <1>2, <1>3, InitIInv, StepRefines, PTL DEF Spec, BS!SafeSpec

=============================================================================

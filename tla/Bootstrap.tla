----------------------------- MODULE Bootstrap -----------------------------
(***************************************************************************)
(* Transport::Bootstrap and the chain it starts (transport.cc 61-208):     *)
(* TryBootstrapping, the two ConnectToBootstrapEndpoint overloads and      *)
(* DetectNatType.  The candidates are tried one after the other: a         *)
(* candidate with an invalid external endpoint is skipped by a handler     *)
(* dispatched to the strand, a failed connect moves on to the next one,    *)
(* and the first connect that succeeds is followed by NAT detection and    *)
(* the report to on_bootstrap.                                             *)
(*                                                                         *)
(* Each continuation of the chain runs on the strand, one at a time; the   *)
(* variable pc says which one is due.  Whether a connect attempt or the   *)
(* NAT ping succeeds is the network's choice.  A connection's lifespan     *)
(* decides its state as in Transport (spec section 4.3): the zero lifespan *)
(* of a bootstrap off an existing connection gives a Temporary connection, *)
(* which ConnectionManager::AddConnection keeps out of connections_.       *)
(***************************************************************************)
EXTENDS Naturals, Sequences

CONSTANTS
    Nodes,          \* node ids of the candidates
    Endpoints,      \* valid external endpoints
    NoEndpoint,     \* the invalid (default-constructed) endpoint
    MaxCandidates   \* bound on the length of the bootstrap list

ASSUME BootstrapAssumption ==
    /\ NoEndpoint \notin Endpoints
    /\ MaxCandidates \in Nat

\* Contact, abstracted to its id and external endpoint.
Contact == [id : Nodes, ep : Endpoints \cup {NoEndpoint}]

\* detail::IsValid(endpoint)
IsValid(ep) == ep # NoEndpoint

\* NatType
NatTypes == {"Unknown", "Other", "Symmetric"}

\* The ReturnCode given to on_bootstrap; contact 0 is Contact().
Codes == {"Success", "NotConnectable", "OpenFailed"}
Answer == [code : Codes, contact : 0 .. MaxCandidates]

\* What became of each candidate.
Outcomes == {"Untried", "Invalid", "Failed", "Connected"}

Stages == {"Start", "Skipping", "Connecting", "Detecting", "Done"}

VARIABLES
    list,        \* bootstrap_list, the candidates in order
    offExisting, \* bootstrap_off_existing_connection
    nat,         \* nat_type_
    muxOpen,     \* multiplexer_->IsOpen()
    pc,          \* the continuation of the chain that is due
    cur,         \* the candidate ConnectToBootstrapEndpoint is at
    pending,     \* calls of on_bootstrap dispatched and not yet run
    reported,    \* the calls of on_bootstrap so far, in order
    tried,       \* tried[i]: what became of candidate i
    peerNat,     \* the connected peer gave a NAT detection endpoint
    pinged       \* DetectNatType issued its ping

vars == <<list, offExisting, nat, muxOpen, pc, cur, pending, reported, tried,
          peerNat, pinged>>

Slots == 1 .. MaxCandidates

-----------------------------------------------------------------------------
(* TryBootstrapping.                                                       *)

\* A bootstrap off an existing connection makes no outgoing attempt from
\* behind a symmetric NAT.
TryConnect == offExisting => nat # "Symmetric"

\* The lifespan of the bootstrap connections: bptime::time_duration()
\* (zero) off an existing connection, bootstrap_connection_lifespan
\* otherwise.
Lifespan == IF offExisting THEN "Zero" ELSE "Bootstrap"

\* The on_bootstrap lambda: std::find_if for the first candidate whose id
\* is the connected peer's (0, Contact(), if there is none).
IsFirstWithId(k, n) ==
    list[k].id = n /\ \A j \in 1 .. k - 1 : list[j].id # n

FirstWithId(n) ==
    IF \E k \in 1 .. Len(list) : IsFirstWithId(k, n)
    THEN CHOOSE k \in 1 .. Len(list) : IsFirstWithId(k, n)
    ELSE 0

(* ConnectToBootstrapEndpoint.                                             *)

\* ConnectToBootstrapEndpoint(begin, end, ...) with begin at candidate i,
\* t being what became of the candidates and q the calls of on_bootstrap
\* pending so far: past the end it reports kNotConnectable; an invalid
\* endpoint dispatches handler(NodeId()) to the strand; otherwise
\* ConnectionManager::Connect starts the attempt.
Attempt(i, t, q) ==
    \/ /\ i > Len(list)
       /\ pc' = "Done"
       /\ pending' = Append(q, [code |-> "NotConnectable", contact |-> 0])
       /\ tried' = t
       /\ UNCHANGED cur
    \/ /\ i <= Len(list)
       /\ ~IsValid(list[i].ep)
       /\ pc' = "Skipping"
       /\ cur' = i
       /\ tried' = [t EXCEPT ![i] = "Invalid"]
       /\ pending' = q
    \/ /\ i <= Len(list)
       /\ IsValid(list[i].ep)
       /\ pc' = "Connecting"
       /\ cur' = i
       /\ tried' = t
       /\ pending' = q

\* Mutants: the retry lambda repeats the same candidate, or skips one.
NextCandidateSame == cur
NextCandidateSkip == cur + 2

\* std::next(begin)
NextCandidate == cur + 1

\* The retry lambda of ConnectToBootstrapEndpoint given NodeId(): it goes
\* on with the next candidate and returns.
OnRetry(t) == Attempt(NextCandidate, t, pending)

-----------------------------------------------------------------------------
(* The steps.                                                              *)

\* Transport::Bootstrap on the user's thread: open the multiplexer; on
\* failure dispatch on_bootstrap(result); otherwise install the slots,
\* create the manager, start the dispatch loop and call TryBootstrapping,
\* which either reports success at once or starts on the first candidate.
Bootstrap ==
    /\ pc = "Start"
    /\ \/ /\ pending' = <<[code |-> "OpenFailed", contact |-> 0]>>
          /\ pc' = "Done"
          /\ UNCHANGED <<muxOpen, cur, tried>>
       \/ /\ muxOpen' = TRUE
          /\ ~TryConnect
          /\ pending' = <<[code |-> "Success", contact |-> 0]>>
          /\ pc' = "Done"
          /\ UNCHANGED <<cur, tried>>
       \/ /\ muxOpen' = TRUE
          /\ TryConnect
          /\ Attempt(1, tried, pending)
    /\ UNCHANGED <<list, offExisting, nat, reported, peerNat, pinged>>

\* The handler(NodeId()) dispatched for an invalid endpoint runs.
Skip ==
    /\ pc = "Skipping"
    /\ OnRetry(tried)
    /\ UNCHANGED <<list, offExisting, nat, muxOpen, reported, peerNat, pinged>>

\* on_nat_detected: the retry lambda gets the peer's id and calls the
\* on_bootstrap lambda, which reports the first candidate with that id.
ReportPeer ==
    pending' = Append(pending, [code |-> "Success",
                                contact |-> FirstWithId(list[cur].id)])

\* Mutant: DetectNatType without the return after an invalid endpoint: it
\* reports, then pings the invalid endpoint, whose result reports again.
DetectNatTypeNoReturn(hasEp) ==
    LET found == Lifespan = "Bootstrap" /\ hasEp IN
    /\ pinged' = TRUE
    /\ pc' = "Detecting"
    /\ IF found THEN UNCHANGED pending ELSE ReportPeer

\* DetectNatType, called from on_connect with the connected peer:
\* RemoteNatDetectionEndpoint looks the peer up in connections_, which
\* holds the connection only when it is normal.  An invalid endpoint
\* completes at once; otherwise the ping is sent.
DetectNatType(hasEp) ==
    LET found == Lifespan = "Bootstrap" /\ hasEp IN
    /\ pinged' = found
    /\ pc' = IF found THEN "Detecting" ELSE "Done"
    /\ IF found THEN UNCHANGED pending ELSE ReportPeer

\* The bootstrap connection to the current candidate completes (the peer
\* gives a NAT detection endpoint or not): on_connect runs the default
\* handler, which announces the connection, then DetectNatType.
ConnectSucceeds(hasEp) ==
    /\ pc = "Connecting"
    /\ muxOpen
    /\ tried' = [tried EXCEPT ![cur] = "Connected"]
    /\ peerNat' = hasEp
    /\ DetectNatType(hasEp)
    /\ UNCHANGED <<list, offExisting, nat, muxOpen, cur, reported>>

\* The attempt times out or is refused: on_connect(error) calls the retry
\* lambda with NodeId().
ConnectFails ==
    /\ pc = "Connecting"
    /\ OnRetry([tried EXCEPT ![cur] = "Failed"])
    /\ UNCHANGED <<list, offExisting, nat, muxOpen, reported, peerNat, pinged>>

\* The NAT detection ping completes: on_ping marks the NAT symmetric on
\* failure, then on_nat_detected reports the peer.  A closed multiplexer
\* fails it.
PingResult(ok) ==
    /\ pc = "Detecting"
    /\ ok => muxOpen
    /\ nat' = IF ok THEN nat ELSE "Symmetric"
    /\ ReportPeer
    /\ pc' = "Done"
    /\ UNCHANGED <<list, offExisting, muxOpen, cur, reported, tried, peerNat,
                   pinged>>

\* A dispatched on_bootstrap call runs on the strand.
Report ==
    /\ pending # <<>>
    /\ reported' = Append(reported, Head(pending))
    /\ pending' = Tail(pending)
    /\ UNCHANGED <<list, offExisting, nat, muxOpen, pc, cur, tried, peerNat,
                   pinged>>

\* Transport::Close on the user's thread; the handler it dispatches closes
\* the multiplexer.  Attempts in flight then fail by timeout.
Close ==
    /\ pc # "Start"
    /\ muxOpen
    /\ muxOpen' = FALSE
    /\ UNCHANGED <<list, offExisting, nat, pc, cur, pending, reported, tried,
                   peerNat, pinged>>

-----------------------------------------------------------------------------
\* Any bootstrap list of at most MaxCandidates contacts, either mode, and
\* any NAT type an earlier detection left.
Init ==
    /\ list \in UNION {[1 .. k -> Contact] : k \in 0 .. MaxCandidates}
    /\ offExisting \in BOOLEAN
    /\ nat \in NatTypes
    /\ muxOpen = FALSE
    /\ pc = "Start"
    /\ cur = 0
    /\ pending = <<>>
    /\ reported = <<>>
    /\ tried = [i \in Slots |-> "Untried"]
    /\ peerNat = FALSE
    /\ pinged = FALSE

Next ==
    \/ Bootstrap
    \/ Skip
    \/ \E hasEp \in BOOLEAN : ConnectSucceeds(hasEp)
    \/ ConnectFails
    \/ \E ok \in BOOLEAN : PingResult(ok)
    \/ Report
    \/ Close

\* The strand runs what is dispatched to it; a connect attempt ends at
\* bootstrap_connect_timeout at the latest and the ping has its own
\* timeout.  Peers owe nothing: a connect may fail every time.
Fairness ==
    /\ WF_vars(Skip)
    /\ WF_vars(Report)
    /\ WF_vars(ConnectFails)
    /\ WF_vars(\E ok \in BOOLEAN : PingResult(ok))

Spec == Init /\ [][Next]_vars /\ Fairness

-----------------------------------------------------------------------------
(* Properties.                                                             *)

TypeOK ==
    /\ list \in Seq(Contact)
    /\ Len(list) <= MaxCandidates
    /\ offExisting \in BOOLEAN
    /\ nat \in NatTypes
    /\ muxOpen \in BOOLEAN
    /\ pc \in Stages
    /\ cur \in 0 .. MaxCandidates
    /\ pending \in Seq(Answer)
    /\ reported \in Seq(Answer)
    /\ tried \in [Slots -> Outcomes]
    /\ peerNat \in BOOLEAN
    /\ pinged \in BOOLEAN

\* on_bootstrap is called at most once, whichever way the chain of
\* retries, NAT detection and dispatched handlers ends.
AnsweredAtMostOnce == Len(reported) <= 1

\* The chain implements BootstrapService: started once Transport::Bootstrap
\* has run, the calls of on_bootstrap being those the strand has run.
BS == INSTANCE BootstrapService
          WITH Contacts <- Contact, started <- pc # "Start", answers <- reported

\* The bootstrap chain keeps what Transport::Bootstrap promises: every call
\* ends in exactly one call of on_bootstrap, also when every candidate
\* fails or the transport is closed meanwhile, and that call names a
\* contact of the list or none.
BootstrapRefinement == BS!Spec

\* An answer a agrees with what happened to the
\* candidates (spec section 4.4): success names the peer of the first
\* candidate that connected, every earlier one having been skipped or
\* having failed; kNotConnectable comes only after every candidate; a
\* success without a contact only off an existing connection behind a
\* symmetric NAT, with no attempt made.
AnswerAgrees(a) ==
    /\ a.code = "Success" /\ a.contact # 0 =>
          \E j \in 1 .. Len(list) :
              /\ tried[j] = "Connected"
              /\ list[j].id = list[a.contact].id
              /\ \A i \in 1 .. j - 1 : tried[i] \in {"Invalid", "Failed"}
    /\ a.code = "NotConnectable" =>
          \A i \in 1 .. Len(list) : tried[i] \in {"Invalid", "Failed"}
    /\ a.code = "Success" /\ a.contact = 0 =>
          /\ offExisting /\ nat = "Symmetric"
          /\ \A i \in Slots : tried[i] = "Untried"

\* Every call of on_bootstrap made so far agrees with the attempts.
AnswerMatchesAttempts == \A r \in 1 .. Len(reported) : AnswerAgrees(reported[r])

\* The contact reported is the candidate that connected (spec section 4.4,
\* step 4: "report that contact"), endpoint included.
ReportsConnectedContact ==
    \A r \in 1 .. Len(reported) :
        reported[r].code = "Success" /\ reported[r].contact # 0 =>
            \E j \in 1 .. Len(list) :
                tried[j] = "Connected" /\ list[reported[r].contact] = list[j]

\* NAT detection runs after every successful bootstrap whose peer offers a
\* NAT detection endpoint (spec sections 4.4 step 4 and 4.5).
NatDetectedOnBootstrap ==
    \A r \in 1 .. Len(reported) :
        reported[r].code = "Success" /\ reported[r].contact # 0 /\ peerNat
            => pinged

=============================================================================

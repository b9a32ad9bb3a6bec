-------------------------- MODULE BootstrapService --------------------------
(***************************************************************************)
(* What Transport::Bootstrap promises its caller, without the chain that   *)
(* keeps the promise: once started, on_bootstrap is called exactly once,   *)
(* with a failure code and Contact(), or with kSuccess and either          *)
(* Contact() or one of the bootstrap contacts (spec section 4.4).  Bootstrap *)
(* refines this specification under the mapping given there.               *)
(***************************************************************************)
EXTENDS Naturals, Sequences

CONSTANT Contacts   \* the contacts a bootstrap list is made of

VARIABLES
    list,      \* the bootstrap list the caller passed
    started,   \* Transport::Bootstrap has been called
    answers    \* the calls of on_bootstrap, in order

svars == <<list, started, answers>>

\* The calls of on_bootstrap allowed for this list; contact 0 is Contact(),
\* contact k > 0 is the k-th contact of the list.
Allowed ==
    [code : {"OpenFailed", "NotConnectable"}, contact : {0}]
        \cup [code : {"Success"}, contact : 0 .. Len(list)]

Init ==
    /\ list \in Seq(Contacts)
    /\ started = FALSE
    /\ answers = <<>>

\* The caller calls Transport::Bootstrap.
Start ==
    /\ ~started
    /\ started' = TRUE
    /\ UNCHANGED <<list, answers>>

\* on_bootstrap is called, once.
Answer ==
    /\ started
    /\ answers = <<>>
    /\ \E a \in Allowed : answers' = <<a>>
    /\ UNCHANGED <<list, started>>

Next == Start \/ Answer

Spec == Init /\ [][Next]_svars /\ WF_svars(Answer)

\* The safety part of the promise, which a proof can reach.
SafeSpec == Init /\ [][Next]_svars

=============================================================================

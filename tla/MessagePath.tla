---------------------------- MODULE MessagePath ----------------------------
(***************************************************************************)
(* The receive side of the message path: Transport::DefaultOnReceiveHandler*)
(* (transport.cc 237-251) racing Transport::Close (transport.cc 210-216).  *)
(*                                                                         *)
(* A connection hands every message to the handler, which strand_.wrap     *)
(* dispatches to the strand; there it tests on_message_, copies it and     *)
(* calls the copy.  Close runs on the user's thread and clears on_message_ *)
(* under callback_mutex_, which the handler never takes, so Close may      *)
(* write the slot between any two of the handler's steps.  The handler's   *)
(* two reads are separate steps for that reason.  weak_self.lock() is      *)
(* taken to succeed: the user still holds the transport it closes.         *)
(***************************************************************************)
EXTENDS Naturals

CONSTANT MaxMessages   \* bound on the messages the connections deliver

VARIABLES
    slot,        \* on_message_ holds a function
    queued,      \* handler calls dispatched to the strand, not yet run
    received,    \* messages handed to the handler so far
    hpc,         \* where the running handler is: "Idle", "Tested", "Copied"
    copy,        \* the handler's local copy of on_message_ holds a function
    delivered,   \* calls of the user's on_message
    emptyCalls   \* calls of an empty std::function (std::bad_function_call)

vars == <<slot, queued, received, hpc, copy, delivered, emptyCalls>>

-----------------------------------------------------------------------------
\* A connection receives a message and calls the wrapped handler, which
\* dispatches it to the strand.
Receive ==
    /\ received < MaxMessages
    /\ received' = received + 1
    /\ queued' = queued + 1
    /\ UNCHANGED <<slot, hpc, copy, delivered, emptyCalls>>

\* The strand starts the handler: `if (!self->on_message_) return;`.
Test ==
    /\ hpc = "Idle"
    /\ queued > 0
    /\ queued' = queued - 1
    /\ hpc' = IF slot THEN "Tested" ELSE "Idle"
    /\ UNCHANGED <<slot, received, copy, delivered, emptyCalls>>

\* `auto handler = self->on_message_;`, a second read of the slot.
Copy ==
    /\ hpc = "Tested"
    /\ copy' = slot
    /\ hpc' = "Copied"
    /\ UNCHANGED <<slot, queued, received, delivered, emptyCalls>>

\* `handler(peer_id, std::move(message));`: an empty copy throws
\* std::bad_function_call out of the strand handler.
Call ==
    /\ hpc = "Copied"
    /\ IF copy THEN /\ delivered' = delivered + 1
                    /\ UNCHANGED emptyCalls
               ELSE /\ emptyCalls' = emptyCalls + 1
                    /\ UNCHANGED delivered
    /\ hpc' = "Idle"
    /\ UNCHANGED <<slot, queued, received, copy>>

\* Transport::Close on the user's thread clears the slot.
Close ==
    /\ slot
    /\ slot' = FALSE
    /\ UNCHANGED <<queued, received, hpc, copy, delivered, emptyCalls>>

\* The transport has bootstrapped: on_message_ is installed and no
\* message has arrived.
Init ==
    /\ slot = TRUE
    /\ queued = 0
    /\ received = 0
    /\ hpc = "Idle"
    /\ copy = FALSE
    /\ delivered = 0
    /\ emptyCalls = 0

Next == Receive \/ Test \/ Copy \/ Call \/ Close

Spec == Init /\ [][Next]_vars

-----------------------------------------------------------------------------
\* The receive handler only ever calls a set on_message_: the test at
\* transport.cc 245 guards the call at 249 (spec section 5: the slots are
\* shared with the thread running close and guarded by their own mutex).
NoEmptyHandlerCall == emptyCalls = 0

=============================================================================

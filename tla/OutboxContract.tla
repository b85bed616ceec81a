--------------------------- MODULE OutboxContract ---------------------------
(***************************************************************************)
(* What the outbound-webhook outbox promises to whoever receives the       *)
(* events, with no dispatcher, no transactions and no clock: an event that *)
(* was recorded stays owed until the receiver has had it, until it was     *)
(* offered MaxAttempts times, or until somebody removes it.                *)
(*                                                                         *)
(* WebhookOutbox implements this specification; see Contract there.        *)
(***************************************************************************)
EXTENDS Naturals

CONSTANTS
    Delivery,      \* identities of outbox rows, each used at most once
    MaxAttempts    \* offers made before an event is given up

VARIABLES
    promise,       \* where each event stands
    offered,       \* how often each event was offered, counted up to MaxAttempts
    received       \* the events their receiver has taken

vars == <<promise, offered, received>>

Standing == {"absent", "owed", "delivered", "dead", "removed"}

Init ==
    /\ promise = [d \in Delivery |-> "absent"]
    /\ offered = [d \in Delivery |-> 0]
    /\ received = {}

\* New events are recorded, and in the same step some others may be put back
\* in the queue (an operator's redelivery is itself an audited event) or be
\* removed (so is a removal).
Administer ==
    /\ \E new, again, gone \in SUBSET Delivery :
        /\ \A d \in new : promise[d] = "absent"
        /\ \A d \in again : promise[d] \in {"owed", "delivered", "dead"}
        /\ \A d \in gone : promise[d] \in {"owed", "delivered", "dead"}
        /\ again \cap gone = {}
        /\ promise' = [d \in Delivery |->
                         CASE d \in new \cup again -> "owed"
                           [] d \in gone           -> "removed"
                           [] OTHER                -> promise[d]]
    /\ UNCHANGED <<offered, received>>

\* The event goes out; the receiver takes it or does not.  An offer already
\* under way is not called back when the event is removed.
Offer(d) ==
    /\ promise[d] \in {"owed", "removed"}
    /\ offered' = [offered EXCEPT ![d] = IF @ < MaxAttempts THEN @ + 1 ELSE @]
    /\ received' \in {received, received \cup {d}}
    /\ UNCHANGED promise

\* An event counts as delivered only when its receiver has taken it.
Confirm(d) ==
    /\ promise[d] = "owed"
    /\ d \in received
    /\ promise' = [promise EXCEPT ![d] = "delivered"]
    /\ UNCHANGED <<offered, received>>

\* An event is abandoned only after the full number of offers.
GiveUp(d) ==
    /\ promise[d] = "owed"
    /\ offered[d] = MaxAttempts
    /\ promise' = [promise EXCEPT ![d] = "dead"]
    /\ UNCHANGED <<offered, received>>

Next ==
    \/ Administer
    \/ \E d \in Delivery : Offer(d) \/ Confirm(d) \/ GiveUp(d)

Spec == Init /\ [][Next]_vars
=============================================================================

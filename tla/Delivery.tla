------------------------------ MODULE Delivery ------------------------------
(***************************************************************************)
(* What the transactional outbox promises the senders of events and their  *)
(* receiver: delivery at least once, within a budget of attempts.  A sent  *)
(* event stays open, whatever becomes of the attempts at it, until it is   *)
(* delivered, which takes a receipt, or dead, which takes MaxAttempt       *)
(* attempts; both are for good.  The receiver may accept an event often,   *)
(* even after it was given up.                                             *)
(***************************************************************************)
EXTENDS Naturals

CONSTANTS Messages, MaxAttempt

VARIABLES
    fate,     \* of each message: "unsent", "open", "delivered" or "dead"
    tries,    \* how often each was taken up for delivery
    accepted  \* the messages the receiver accepted

Init ==
    /\ fate = [m \in Messages |-> "unsent"]
    /\ tries = [m \in Messages |-> 0]
    /\ accepted = {}

Settle(m, end) ==
    /\ fate[m] = "open"
    /\ fate' = [fate EXCEPT ![m] = end]
    /\ UNCHANGED <<tries, accepted>>

Send(m) ==
    /\ fate[m] = "unsent"
    /\ fate' = [fate EXCEPT ![m] = "open"]
    /\ UNCHANGED <<tries, accepted>>

\* A batch is taken up.
Try(batch) ==
    /\ \A m \in batch : fate[m] = "open"
    /\ tries' = [m \in Messages |-> IF m \in batch THEN tries[m] + 1 ELSE tries[m]]
    /\ UNCHANGED <<fate, accepted>>

Accept(m) ==
    /\ tries[m] > 0
    /\ accepted' = accepted \cup {m}
    /\ UNCHANGED <<fate, tries>>

Deliver(m) == m \in accepted /\ Settle(m, "delivered")

GiveUp(m) == tries[m] >= MaxAttempt /\ Settle(m, "dead")

Next ==
    \/ \E m \in Messages : Send(m) \/ Accept(m) \/ Deliver(m) \/ GiveUp(m)
    \/ \E batch \in SUBSET Messages : Try(batch)

Spec == Init /\ [][Next]_<<fate, tries, accepted>>
=============================================================================

------------------------------- MODULE Outbox -------------------------------
(***************************************************************************)
(* The transactional outbox: rows of workflow_outbox, the dispatchers that *)
(* lease batches of them and post each to the receiver, and the readiness  *)
(* every worker reports.  A dispatcher is the Runtime loop of one worker   *)
(* process; DispatchOutboxActivity runs the same Dispatch.                 *)
(*                                                                         *)
(* A lease token is drawn per claim.  A dispatcher works on one batch at a *)
(* time and a claim overwrites the token of every row it returns, so the   *)
(* dispatcher's own name tells exactly what its token tells.               *)
(*                                                                         *)
(* Time is what is left of it: of the row's lease, of its retry delay, of  *)
(* the HTTP request in flight.  A dispatcher is punctual while requests    *)
(* end within RequestTimeout and acknowledgements take no time; a stalled  *)
(* process or database makes it late, and then the clock ignores it.       *)
(***************************************************************************)
EXTENDS Naturals, FiniteSets

CONSTANTS
    NumEvents,       \* events are numbered in created_at order
    Dispatchers,
    BatchSize,       \* outbox.batch_size
    MaxAttempt,      \* outbox.max_attempts
    RequestTimeout,  \* outbox.request_timeout, in ticks
    Lease,           \* outbox.lease_duration, in ticks
    MaxQueued,       \* outbox.readiness_max_queued
    Enabled,         \* the dispatchers whose worker has outbox.enabled
    MaxFaults,       \* bound: crashes, stalls and database errors
    None

Events == 1 .. NumEvents

\* config.go refuses a lease a full batch of slow requests could outlast.
ASSUME ConfigAssumption ==
    /\ NumEvents \in Nat
    /\ BatchSize \in Nat \ {0}
    /\ MaxAttempt \in Nat \ {0}
    /\ RequestTimeout \in Nat \ {0}
    /\ Lease \in Nat /\ Lease > BatchSize * RequestTimeout
    /\ MaxQueued \in Nat
    /\ Enabled \subseteq Dispatchers
    /\ MaxFaults \in Nat
    /\ None \notin Events /\ None \notin Dispatchers

VARIABLES
    \* the rows of workflow_outbox
    status,      \* "absent", "pending", "processing", "retry", "delivered", "dead"
    attempts,    \* attempt_count
    lock,        \* lock_token, as the dispatcher that drew it
    lockLeft,    \* time left until locked_until
    delay,       \* time left until available_at
    \* the dispatchers
    pc,          \* "idle", "next", "publish", "delivered", "failed", "stats"
    batch,       \* claimed events not acknowledged yet
    current,     \* the event being published or acknowledged
    requestLeft, \* time left of the request in flight
    late,        \* dispatchers that stalled during their batch
    troubled,    \* the dispatch erred, scheduled a retry or gave an event up
    ready,       \* RuntimeStatus.Ready
    \* the receiver and the environment
    received,    \* events the receiver accepted at least once
    faults

rows == <<status, attempts, lock, lockLeft, delay>>
loop == <<pc, batch, current, requestLeft, late, troubled, ready>>
vars == <<rows, loop, received, faults>>

Init ==
    /\ status = [e \in Events |-> "absent"]
    /\ attempts = [e \in Events |-> 0]
    /\ lock = [e \in Events |-> None]
    /\ lockLeft = [e \in Events |-> 0]
    /\ delay = [e \in Events |-> 0]
    /\ pc = [d \in Dispatchers |-> "idle"]
    /\ batch = [d \in Dispatchers |-> {}]
    /\ current = [d \in Dispatchers |-> None]
    /\ requestLeft = [d \in Dispatchers |-> 0]
    /\ late = {}
    /\ troubled = {}
    /\ ready = {}
    /\ received = {}
    /\ faults = 0

Fault == faults < MaxFaults /\ faults' = faults + 1

Goto(d, step) == pc' = [pc EXCEPT ![d] = step]

\* Some transaction outside the dispatcher inserts the row.
Enqueue(e) ==
    /\ status[e] = "absent"
    /\ status' = [status EXCEPT ![e] = "pending"]
    /\ UNCHANGED <<attempts, lock, lockLeft, delay, loop, received, faults>>

(***************************************************************************)
(* ClaimBatch                                                              *)
(***************************************************************************)
\* Mutant: rows being delivered are claimed again at once.
ReadyIgnoringLock(e) ==
    \/ status[e] \in {"pending", "retry"} /\ delay[e] = 0
    \/ status[e] = "processing"

\* Mutant: expired leases are never reclaimed.
ReadyNoReclaim(e) == status[e] \in {"pending", "retry"} /\ delay[e] = 0

Ready(e) ==
    \/ status[e] \in {"pending", "retry"} /\ delay[e] = 0
    \/ status[e] = "processing" /\ lockLeft[e] = 0

ReadyEvents == {e \in Events : Ready(e)}

\* The oldest ready rows, as many as a batch takes.
Claimable ==
    {e \in ReadyEvents : Cardinality({f \in ReadyEvents : f < e}) < BatchSize}

LeaseRows(d, claimed) ==
    /\ status' = [e \in Events |-> IF e \in claimed THEN "processing" ELSE status[e]]
    /\ attempts' = [e \in Events |-> IF e \in claimed THEN attempts[e] + 1
                                                      ELSE attempts[e]]
    /\ lock' = [e \in Events |-> IF e \in claimed THEN d ELSE lock[e]]
    /\ lockLeft' = [e \in Events |-> IF e \in claimed THEN Lease ELSE lockLeft[e]]
    /\ UNCHANGED delay

Claim(d) ==
    /\ d \in Enabled
    /\ pc[d] = "idle"
    /\ LeaseRows(d, Claimable)
    /\ batch' = [batch EXCEPT ![d] = Claimable]
    /\ Goto(d, "next")
    /\ troubled' = troubled \ {d}
    /\ UNCHANGED <<current, requestLeft, late, ready, received, faults>>

\* The claim fails, or commits and its reply is lost.
ClaimError(d) ==
    /\ d \in Enabled
    /\ pc[d] = "idle"
    /\ LeaseRows(d, Claimable) \/ UNCHANGED rows
    /\ Goto(d, "stats")
    /\ troubled' = troubled \cup {d}
    /\ Fault
    /\ UNCHANGED <<batch, current, requestLeft, late, ready, received>>

(***************************************************************************)
(* Dispatch: the loop over the batch                                       *)
(***************************************************************************)
StartPublish(d) ==
    /\ pc[d] = "next"
    /\ \E e \in batch[d] : current' = [current EXCEPT ![d] = e]
    /\ requestLeft' = [requestLeft EXCEPT ![d] = RequestTimeout]
    /\ Goto(d, "publish")
    /\ UNCHANGED <<rows, batch, late, troubled, ready, received, faults>>

\* Mutant: a request without a response counts as delivered.
PublishOptimistic(d, accepted, answered) ==
    /\ pc[d] = "publish"
    /\ answered => accepted
    /\ received' = IF accepted THEN received \cup {current[d]} ELSE received
    /\ requestLeft' = [requestLeft EXCEPT ![d] = 0]
    /\ Goto(d, "delivered")
    /\ UNCHANGED <<rows, batch, current, late, troubled, ready, faults>>

\* The receiver may accept a delivery whose response never makes it back.
Publish(d, accepted, answered) ==
    /\ pc[d] = "publish"
    /\ answered => accepted
    /\ received' = IF accepted THEN received \cup {current[d]} ELSE received
    /\ requestLeft' = [requestLeft EXCEPT ![d] = 0]
    /\ Goto(d, IF answered THEN "delivered" ELSE "failed")
    /\ UNCHANGED <<rows, batch, current, late, troubled, ready, faults>>

HoldsLock(d) == status[current[d]] = "processing" /\ lock[current[d]] = d

MarkDelivered(d) ==
    /\ HoldsLock(d)
    /\ status' = [status EXCEPT ![current[d]] = "delivered"]
    /\ lock' = [lock EXCEPT ![current[d]] = None]
    /\ lockLeft' = [lockLeft EXCEPT ![current[d]] = 0]
    /\ UNCHANGED <<attempts, delay>>

\* retryDelay doubles from one second and is capped at the eighth attempt.
RetryDelays == <<1, 2, 4, 8, 16, 32, 64, 128>>

RetryDelay(n) == RetryDelays[IF n < 1 THEN 1 ELSE IF n > 8 THEN 8 ELSE n]

OutOfBudget(e) == attempts[e] >= MaxAttempt

MarkFailed(d) ==
    /\ HoldsLock(d)
    /\ status' = [status EXCEPT ![current[d]] =
                     IF OutOfBudget(current[d]) THEN "dead" ELSE "retry"]
    /\ delay' = [delay EXCEPT ![current[d]] = RetryDelay(attempts[current[d]])]
    /\ lock' = [lock EXCEPT ![current[d]] = None]
    /\ lockLeft' = [lockLeft EXCEPT ![current[d]] = 0]
    /\ UNCHANGED attempts

Proceed(d) ==
    /\ batch' = [batch EXCEPT ![d] = batch[d] \ {current[d]}]
    /\ current' = [current EXCEPT ![d] = None]
    /\ Goto(d, "next")

\* Dispatch returns an error: the rest of the batch stays leased, unattended.
Abandon(d) ==
    /\ batch' = [batch EXCEPT ![d] = {}]
    /\ current' = [current EXCEPT ![d] = None]
    /\ late' = late \ {d}
    /\ troubled' = troubled \cup {d}
    /\ Goto(d, "stats")

AckDelivered(d) ==
    /\ pc[d] = "delivered"
    /\ MarkDelivered(d)
    /\ Proceed(d)
    /\ UNCHANGED <<requestLeft, late, troubled, ready, received, faults>>

AckFailed(d) ==
    /\ pc[d] = "failed"
    /\ MarkFailed(d)
    /\ Proceed(d)
    /\ troubled' = troubled \cup {d}
    /\ UNCHANGED <<requestLeft, late, ready, received, faults>>

AckRejected(d) ==
    /\ pc[d] \in {"delivered", "failed"}
    /\ ~HoldsLock(d)
    /\ Abandon(d)
    /\ UNCHANGED <<rows, requestLeft, ready, received, faults>>

\* The acknowledgement fails in the database, or only its reply is lost.
AckError(d) ==
    /\ \/ pc[d] = "delivered" /\ MarkDelivered(d)
       \/ pc[d] = "failed" /\ MarkFailed(d)
       \/ pc[d] \in {"delivered", "failed"} /\ UNCHANGED rows
    /\ Abandon(d)
    /\ Fault
    /\ UNCHANGED <<requestLeft, ready, received>>

EndBatch(d) ==
    /\ pc[d] = "next" /\ batch[d] = {}
    /\ late' = late \ {d}
    /\ Goto(d, "stats")
    /\ UNCHANGED <<rows, batch, current, requestLeft, troubled, ready, received, faults>>

(***************************************************************************)
(* runOnce: readiness from the dispatch result and BacklogStats            *)
(***************************************************************************)
WithStatus(s) == {e \in Events : status[e] = s}

Queued == {e \in Events : status[e] \in {"pending", "retry", "processing"}}

Undelivered == Queued \cup WithStatus("dead")

\* The runtime of a worker without a publisher never dispatches and starts here.
BeginCheck(d) ==
    /\ d \notin Enabled
    /\ pc[d] = "idle"
    /\ Goto(d, "stats")
    /\ UNCHANGED <<rows, batch, current, requestLeft, late, troubled, ready,
                   received, faults>>

\* Mutant: dead events are not looked at.
BacklogHealthyButDead(tooOld) ==
    /\ WithStatus("retry") = {}
    /\ Cardinality(Queued) <= MaxQueued
    /\ ~tooOld

\* tooOld: the oldest undelivered event is older than readiness_max_age.
BacklogHealthy(tooOld) ==
    /\ WithStatus("dead") = {}
    /\ WithStatus("retry") = {}
    /\ Cardinality(Queued) <= MaxQueued
    /\ ~tooOld

CheckBacklog(d, tooOld) ==
    /\ pc[d] = "stats"
    /\ tooOld => Undelivered # {}
    /\ ready' = IF d \notin troubled /\ (d \in Enabled => BacklogHealthy(tooOld))
                THEN ready \cup {d} ELSE ready \ {d}
    /\ Goto(d, "idle")
    /\ UNCHANGED <<rows, batch, current, requestLeft, late, troubled, received, faults>>

CheckError(d) ==
    /\ pc[d] = "stats"
    /\ ready' = ready \ {d}
    /\ Goto(d, "idle")
    /\ Fault
    /\ UNCHANGED <<rows, batch, current, requestLeft, late, troubled, received>>

(***************************************************************************)
(* Processes and time                                                      *)
(***************************************************************************)
\* The worker process dies and starts afresh: not ready until its first check.
Crash(d) ==
    /\ batch' = [batch EXCEPT ![d] = {}]
    /\ current' = [current EXCEPT ![d] = None]
    /\ requestLeft' = [requestLeft EXCEPT ![d] = 0]
    /\ late' = late \ {d}
    /\ troubled' = troubled \ {d}
    /\ ready' = ready \ {d}
    /\ Goto(d, "idle")
    /\ Fault
    /\ UNCHANGED <<rows, received>>

Working(d) == pc[d] # "idle" /\ batch[d] # {}

Stall(d) ==
    /\ Working(d)
    /\ d \notin late
    /\ late' = late \cup {d}
    /\ Fault
    /\ UNCHANGED <<rows, pc, batch, current, requestLeft, troubled, ready, received>>

Elapse(t) == IF t = 0 THEN 0 ELSE t - 1

Punctual(d) == Working(d) /\ d \notin late

Tick ==
    /\ \A d \in Dispatchers : Punctual(d) => pc[d] = "publish" /\ requestLeft[d] > 0
    /\ lockLeft' = [e \in Events |-> Elapse(lockLeft[e])]
    /\ delay' = [e \in Events |-> Elapse(delay[e])]
    /\ requestLeft' = [d \in Dispatchers |-> Elapse(requestLeft[d])]
    /\ UNCHANGED <<status, attempts, lock, pc, batch, current, late, troubled, ready,
                   received, faults>>

-----------------------------------------------------------------------------
Work(d) ==
    \/ Claim(d) \/ StartPublish(d)
    \/ \E accepted, answered \in BOOLEAN : Publish(d, accepted, answered)
    \/ AckDelivered(d) \/ AckFailed(d) \/ AckRejected(d) \/ EndBatch(d)
    \/ BeginCheck(d)
    \/ \E tooOld \in BOOLEAN : CheckBacklog(d, tooOld)

Failure(d) == ClaimError(d) \/ AckError(d) \/ CheckError(d) \/ Crash(d) \/ Stall(d)

Next ==
    \/ \E d \in Dispatchers : Work(d) \/ Failure(d)
    \/ \E e \in Events : Enqueue(e)
    \/ Tick

Spec == Init /\ [][Next]_vars

(***************************************************************************)
(* Every worker's loop keeps running, and the clock advances between its   *)
(* polls (strong fairness: a punctual batch holds the clock back while it  *)
(* acknowledges).  Nothing makes the receiver accept; no fault is forced.  *)
(***************************************************************************)
Fairness ==
    /\ \A d \in Dispatchers : WF_vars(Work(d))
    /\ SF_vars(Tick)

FairSpec == Spec /\ Fairness

-----------------------------------------------------------------------------
TypeOK ==
    /\ status \in [Events -> {"absent", "pending", "processing", "retry",
                              "delivered", "dead"}]
    /\ attempts \in [Events -> Nat]
    /\ lock \in [Events -> Dispatchers \cup {None}]
    /\ lockLeft \in [Events -> 0 .. Lease]
    /\ delay \in [Events -> 0 .. 128]
    /\ pc \in [Dispatchers -> {"idle", "next", "publish", "delivered", "failed", "stats"}]
    /\ batch \in [Dispatchers -> SUBSET Events]
    /\ current \in [Dispatchers -> Events \cup {None}]
    /\ requestLeft \in [Dispatchers -> 0 .. RequestTimeout]
    /\ late \in SUBSET Dispatchers
    /\ troubled \in SUBSET Dispatchers
    /\ ready \in SUBSET Dispatchers
    /\ received \in SUBSET Events
    /\ faults \in Nat

\* No two dispatchers deliver one event at the same time unless one of them
\* stalled: the lease outlasts a full batch of slow requests.
SoleDelivery ==
    \A d1, d2 \in Dispatchers :
        /\ d1 # d2
        /\ pc[d1] = "publish" /\ pc[d2] = "publish"
        /\ current[d1] = current[d2]
        => d1 \in late \/ d2 \in late

\* A punctual dispatcher still holds every lease of its batch, so none of its
\* acknowledgements is rejected and no batch is abandoned for that.
LeaseCoversBatch ==
    \A d \in Dispatchers :
        Punctual(d) => \A e \in batch[d] : status[e] = "processing" /\ lock[e] = d

\* What becomes of an event, whatever states its row goes through.
Fate(e) ==
    CASE status[e] = "absent" -> "unsent"
      [] status[e] \in {"delivered", "dead"} -> status[e]
      [] OTHER -> "open"

Promise == INSTANCE Delivery WITH
    Messages <- Events,
    fate <- [e \in Events |-> Fate(e)],
    tries <- attempts,
    accepted <- received

\* Leases that lapse, dispatchers that acknowledge too late and replies that are
\* lost cannot make more of the outbox than delivery at least once: only sent
\* events are posted, "delivered" takes a receipt and "dead" the whole budget,
\* neither is ever taken back, and every attempt is counted.
DeliversAtLeastOnce == Promise!Spec

\* A row leaves the queue as delivered only for an event the receiver accepted,
\* whichever of several dispatchers acknowledged it.
DeliveredWasReceived == WithStatus("delivered") \subseteq received

\* Reclaiming expired leases counts as an attempt without being checked against
\* the budget; every attempt beyond it is owed to a fault.
AttemptsBounded == \A e \in Events : attempts[e] <= MaxAttempt + faults

\* Every enqueued event ends up delivered, or dead for an operator to see.
EventuallyHandled ==
    \A e \in Events : status[e] = "pending" ~> status[e] \in {"delivered", "dead"}

\* Once an event is dead, every worker that dispatches stops being ready and
\* stays so.
DeadEventAlarms == WithStatus("dead") # {} ~> [](ready \cap Enabled = {})

\* Once everything is delivered for good, every worker becomes ready.
ReadyWhenDrained ==
    <>[](Undelivered = {}) => <>[](ready = Dispatchers)

\* Readiness tells the truth about the backlog, in the end and for good, although
\* each worker judges by what it last read and keeps its status while it fails.
ReadinessIsTrue == DeadEventAlarms /\ ReadyWhenDrained
=============================================================================

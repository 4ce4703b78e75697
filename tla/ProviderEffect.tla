--------------------------- MODULE ProviderEffect ---------------------------
(***************************************************************************)
(* The billable provider call of one Temporal activity, seen through one   *)
(* row of provider_effects: the lease protocol of provider_effect_repo.go  *)
(* and cachedProviderEffect, run by the attempts the Temporal server       *)
(* dispatches for the activity.  Attempt numbers stand for the lease       *)
(* tokens: every Acquire draws a fresh uuid and an attempt acquires once.  *)
(*                                                                         *)
(* Time is measured by what is left of it: of the lease, of every          *)
(* attempt's activity context, of the server's retry delay.  A context     *)
(* ends Timeout ticks after the server started the attempt                 *)
(* (StartToCloseTimeout).  The acquisition and the provider call run under *)
(* it, so the clock does not pass its end while they are in flight; a      *)
(* Complete that was already sent to the database may land later.          *)
(***************************************************************************)
EXTENDS Naturals

CONSTANTS
    MaxAttempts,   \* RetryPolicy.MaximumAttempts of the activity
    Timeout,       \* StartToCloseTimeout, in ticks
    Lease,         \* temporal.provider_effect_lease, in ticks
    Buffer,        \* providerEffectLeaseRetryBuffer, in ticks
    Requests,      \* the request identities (request_sha256)
    Texts,         \* what a provider can answer to a request
    MaxFaults,     \* bound: so many faults hit the activity
    None           \* SQL NULL, or nothing yet

Attempts == 1 .. MaxAttempts

Responses == [req : Requests, text : Texts]

\* config.go refuses a lease that does not exceed the longest activity timeout.
ASSUME LeaseAssumption ==
    /\ MaxAttempts \in Nat \ {0}
    /\ Timeout \in Nat \ {0}
    /\ Lease \in Nat /\ Lease > Timeout
    /\ Buffer \in Nat
    /\ MaxFaults \in Nat

ASSUME NoneAssumption ==
    /\ None \notin Attempts
    /\ None \notin Requests
    /\ None \notin Responses

VARIABLES
    \* the provider_effects row
    status,        \* "absent", "in_progress" or "completed"
    rowReq,        \* request_sha256
    token,         \* lease_token
    leaseLeft,     \* leased_until, as the time left until then
    result,        \* result_json
    \* the workers
    pc,            \* where each attempt's cachedProviderEffect stands
    req,           \* the request identity the attempt computed
    left,          \* time left of the attempt's StartToCloseTimeout
    reply,         \* the provider response the attempt holds or returns
    hint,          \* the attempt's NextRetryDelay, 0 for the default policy
    fatal,         \* attempts whose error is non-retryable
    \* the Temporal server
    cur,           \* the attempt it dispatched last, 0 before the first
    activity,      \* "backoff", "running", "succeeded" or "exhausted"
    retryIn,       \* time left before it may dispatch the next attempt
    \* history
    calls,         \* provider calls made (billed)
    faults         \* faults that hit the activity

row    == <<status, rowReq, token, leaseLeft, result>>
worker == <<pc, req, left, reply, hint, fatal>>
server == <<cur, activity, retryIn>>
vars   == <<row, worker, server, calls, faults>>

Steps == {"idle", "acquire", "invoke", "complete", "release",
          "failed", "returned", "dead"}

Init ==
    /\ status = "absent" /\ rowReq = None /\ token = None /\ leaseLeft = 0
    /\ result = None
    /\ pc = [a \in Attempts |-> "idle"]
    /\ req = [a \in Attempts |-> None]
    /\ left = [a \in Attempts |-> 0]
    /\ reply = [a \in Attempts |-> None]
    /\ hint = [a \in Attempts |-> 0]
    /\ fatal = {}
    /\ cur = 0 /\ activity = "backoff" /\ retryIn = 0
    /\ calls = 0 /\ faults = 0

Goto(a, step) == pc' = [pc EXCEPT ![a] = step]

Fault == faults < MaxFaults /\ faults' = faults + 1

(***************************************************************************)
(* Acquire: INSERT .. ON CONFLICT DO NOTHING, then SELECT .. FOR UPDATE,   *)
(* in one transaction.                                                     *)
(***************************************************************************)
SameRequest(a) == rowReq = req[a]

\* Mutant: a lease is taken over while its holder may still be calling.
LeaseExpiredIgnored == TRUE

LeaseExpired == leaseLeft = 0

\* Both the fresh row and the one whose lease ran out are leased to the caller.
CanLease(a) ==
    \/ status = "absent"
    \/ status = "in_progress" /\ SameRequest(a) /\ LeaseExpired

\* Mutant: a takeover keeps the token of the previous holder.
TakeLeaseKeepsToken(a) ==
    /\ CanLease(a)
    /\ status' = "in_progress" /\ rowReq' = req[a] /\ leaseLeft' = Lease
    /\ UNCHANGED <<token, result>>

TakeLease(a) ==
    /\ CanLease(a)
    /\ status' = "in_progress"
    /\ rowReq' = req[a]
    /\ token' = a
    /\ leaseLeft' = Lease
    /\ UNCHANGED result

\* A granted lease is followed by the provider call.
AcquireGranted(a) ==
    /\ pc[a] = "acquire"
    /\ TakeLease(a)
    /\ Goto(a, "invoke")
    /\ calls' = calls + 1
    /\ UNCHANGED <<req, left, reply, hint, fatal, server, faults>>

AcquireCached(a) ==
    /\ pc[a] = "acquire"
    /\ status = "completed" /\ SameRequest(a)
    /\ Goto(a, "returned")
    /\ reply' = [reply EXCEPT ![a] = result]
    /\ UNCHANGED <<row, req, left, hint, fatal, server, calls, faults>>

\* Mutant: the busy error carries no NextRetryDelay.
AcquireBusyNoHint(a) ==
    /\ pc[a] = "acquire"
    /\ status = "in_progress" /\ SameRequest(a) /\ ~LeaseExpired
    /\ Goto(a, "failed")
    /\ UNCHANGED <<row, req, left, reply, hint, fatal, server, calls, faults>>

AcquireBusy(a) ==
    /\ pc[a] = "acquire"
    /\ status = "in_progress" /\ SameRequest(a) /\ ~LeaseExpired
    /\ Goto(a, "failed")
    /\ hint' = [hint EXCEPT ![a] = leaseLeft + Buffer]
    /\ UNCHANGED <<row, req, left, reply, fatal, server, calls, faults>>

AcquireMismatch(a) ==
    /\ pc[a] = "acquire"
    /\ status # "absent" /\ ~SameRequest(a)
    /\ Goto(a, "failed")
    /\ UNCHANGED <<row, req, left, reply, hint, fatal, server, calls, faults>>

\* The transaction fails, or commits and its reply is lost: then the row is
\* leased under a token nobody knows.
AcquireError(a) ==
    /\ pc[a] = "acquire"
    /\ TakeLease(a) \/ UNCHANGED row
    /\ Goto(a, "failed")
    /\ Fault
    /\ UNCHANGED <<req, left, reply, hint, fatal, server, calls>>

(***************************************************************************)
(* The provider call and what cachedProviderEffect does with its outcome.  *)
(***************************************************************************)
InvokeAnswers(a, text) ==
    /\ pc[a] = "invoke"
    /\ reply' = [reply EXCEPT ![a] = [req |-> req[a], text |-> text]]
    /\ Goto(a, "complete")
    /\ UNCHANGED <<row, req, left, hint, fatal, server, calls, faults>>

\* An error, an unusable answer, or the end of the activity context.  An
\* authentication failure is made non-retryable.
InvokeFails(a) ==
    /\ pc[a] = "invoke"
    /\ Goto(a, "release")
    /\ fatal' \in {fatal, fatal \cup {a}}
    /\ Fault
    /\ UNCHANGED <<row, req, left, reply, hint, server, calls>>

(***************************************************************************)
(* Complete: SELECT .. FOR UPDATE, then UPDATE, in one transaction.        *)
(***************************************************************************)
HoldsLease(a) == status = "in_progress" /\ SameRequest(a) /\ token = a

\* Mutant: Complete writes without looking at the lease.
StoreResultUnchecked(a) ==
    /\ status' = "completed" /\ result' = reply[a]
    /\ token' = None /\ leaseLeft' = 0
    /\ UNCHANGED rowReq

StoreResult(a) ==
    /\ HoldsLease(a)
    /\ status' = "completed"
    /\ result' = reply[a]
    /\ token' = None
    /\ leaseLeft' = 0
    /\ UNCHANGED rowReq

\* Mutant: any completed row counts as the caller's own result.
AlreadyStoredAny(a) == status = "completed" /\ SameRequest(a)

AlreadyStored(a) == status = "completed" /\ SameRequest(a) /\ result = reply[a]

CompleteCommits(a) ==
    /\ pc[a] = "complete"
    /\ \/ StoreResult(a)
       \/ AlreadyStored(a) /\ UNCHANGED row
    /\ Goto(a, "returned")
    /\ UNCHANGED <<req, left, reply, hint, fatal, server, calls, faults>>

\* Lease lost, another result stored, or another request under the key.
CompleteRejected(a) ==
    /\ pc[a] = "complete"
    /\ ~HoldsLease(a) /\ ~AlreadyStored(a)
    /\ Goto(a, "release")
    /\ UNCHANGED <<row, req, left, reply, hint, fatal, server, calls, faults>>

\* The database or the activity context fails the transaction, or only its reply.
CompleteError(a) ==
    /\ pc[a] = "complete"
    /\ StoreResult(a) \/ UNCHANGED row
    /\ Goto(a, "release")
    /\ Fault
    /\ UNCHANGED <<req, left, reply, hint, fatal, server, calls>>

(***************************************************************************)
(* releaseProviderEffect: Fail ends the lease if it is still the caller's; *)
(* its own error is only logged.                                           *)
(***************************************************************************)
Release(a) ==
    /\ pc[a] = "release"
    /\ leaseLeft' = IF HoldsLease(a) THEN 0 ELSE leaseLeft
    /\ Goto(a, "failed")
    /\ UNCHANGED <<status, rowReq, token, result, req, left, reply, hint,
                   fatal, server, calls, faults>>

ReleaseError(a) ==
    /\ pc[a] = "release"
    /\ Goto(a, "failed")
    /\ Fault
    /\ UNCHANGED <<row, req, left, reply, hint, fatal, server, calls>>

\* The worker process dies with the attempt in flight.
Crash(a) ==
    /\ pc[a] \in {"acquire", "invoke", "complete", "release"}
    /\ Goto(a, "dead")
    /\ Fault
    /\ UNCHANGED <<row, req, left, reply, hint, fatal, server, calls>>

(***************************************************************************)
(* The Temporal server.                                                    *)
(***************************************************************************)
\* The request identity is computed anew by every attempt: it differs when the
\* model settings changed in between, which counts as a fault.
Dispatch(q) ==
    /\ activity = "backoff"
    /\ cur < MaxAttempts
    /\ retryIn = 0
    /\ cur' = cur + 1
    /\ activity' = "running"
    /\ pc' = [pc EXCEPT ![cur + 1] = "acquire"]
    /\ req' = [req EXCEPT ![cur + 1] = q]
    /\ left' = [left EXCEPT ![cur + 1] = Timeout]
    /\ IF cur \in Attempts /\ q # req[cur] THEN Fault ELSE UNCHANGED faults
    /\ UNCHANGED <<row, reply, hint, fatal, retryIn, calls>>

\* Mutant: the attempt budget is not looked at.
UnsuccessfulForever(a) == activity' = IF a \in fatal THEN "exhausted" ELSE "backoff"

\* The attempt ended without a result.
Unsuccessful(a) ==
    activity' = IF a = MaxAttempts \/ a \in fatal THEN "exhausted" ELSE "backoff"

ReportSuccess(a) ==
    /\ activity = "running" /\ a = cur
    /\ pc[a] = "returned"
    /\ activity' = "succeeded"
    /\ UNCHANGED <<row, worker, cur, retryIn, calls, faults>>

ReportFailure(a) ==
    /\ activity = "running" /\ a = cur
    /\ pc[a] = "failed"
    /\ Unsuccessful(a)
    /\ retryIn' = hint[a]
    /\ UNCHANGED <<row, worker, cur, calls, faults>>

\* Heartbeats stop arriving or StartToClose elapses.  The attempt itself, if its
\* process lives, is not told and goes on.
AttemptTimeout(a) ==
    /\ activity = "running" /\ a = cur
    /\ activity' = IF a = MaxAttempts THEN "exhausted" ELSE "backoff"
    /\ retryIn' = 0
    /\ IF pc[a] = "dead" THEN UNCHANGED faults ELSE Fault
    /\ UNCHANGED <<row, worker, cur, calls>>

InContext(a) == pc[a] \in {"acquire", "invoke"}

Elapse(t) == IF t = 0 THEN 0 ELSE t - 1

Tick ==
    /\ \A a \in Attempts : InContext(a) => left[a] > 0
    /\ activity = "running" => left[cur] > 0
    /\ leaseLeft' = Elapse(leaseLeft)
    /\ left' = [a \in Attempts |-> Elapse(left[a])]
    /\ retryIn' = Elapse(retryIn)
    /\ UNCHANGED <<status, rowReq, token, result, pc, req, reply, hint, fatal,
                   cur, activity, calls, faults>>

-----------------------------------------------------------------------------
Work(a) ==
    \/ AcquireGranted(a) \/ AcquireCached(a) \/ AcquireBusy(a) \/ AcquireMismatch(a)
    \/ \E text \in Texts : InvokeAnswers(a, text)
    \/ CompleteCommits(a) \/ CompleteRejected(a)
    \/ Release(a)

Failure(a) ==
    \/ AcquireError(a) \/ InvokeFails(a) \/ CompleteError(a) \/ ReleaseError(a)
    \/ Crash(a)

Report(a) == ReportSuccess(a) \/ ReportFailure(a)

Next ==
    \/ \E a \in Attempts :
          Work(a) \/ Failure(a) \/ Report(a) \/ AttemptTimeout(a)
    \/ \E q \in Requests : Dispatch(q)
    \/ Tick

Spec == Init /\ [][Next]_vars

(***************************************************************************)
(* A live worker takes its next step, the server dispatches, records and   *)
(* times out attempts, and the clock advances.  Faults are never forced.   *)
(***************************************************************************)
Fairness ==
    /\ \A a \in Attempts : /\ WF_vars(Work(a))
                           /\ WF_vars(Report(a))
                           /\ WF_vars(AttemptTimeout(a))
    /\ WF_vars(\E q \in Requests : Dispatch(q))
    /\ WF_vars(Tick)

FairSpec == Spec /\ Fairness

-----------------------------------------------------------------------------
TypeOK ==
    /\ status \in {"absent", "in_progress", "completed"}
    /\ rowReq \in Requests \cup {None}
    /\ token \in Attempts \cup {None}
    /\ leaseLeft \in 0 .. Lease
    /\ result \in Responses \cup {None}
    /\ pc \in [Attempts -> Steps]
    /\ req \in [Attempts -> Requests \cup {None}]
    /\ left \in [Attempts -> 0 .. Timeout]
    /\ reply \in [Attempts -> Responses \cup {None}]
    /\ hint \in [Attempts -> 0 .. Lease + Buffer]
    /\ fatal \in SUBSET Attempts
    /\ cur \in 0 .. MaxAttempts
    /\ activity \in {"backoff", "running", "succeeded", "exhausted"}
    /\ retryIn \in 0 .. Lease + Buffer
    /\ calls \in Nat /\ faults \in Nat

\* At most one provider call of the activity is in flight, whatever the server
\* believes about its attempts: the lease outlives the context of its holder.
SingleFlight ==
    \A a, b \in Attempts : pc[a] = "invoke" /\ pc[b] = "invoke" => a = b

\* An attempt that returned, returned the response the row holds, and that
\* response answers the request the attempt made.
AnswersCommitted ==
    \A a \in Attempts :
        pc[a] = "returned" =>
            /\ status = "completed"
            /\ reply[a] = result
            /\ result.req = req[a]

\* The provider is billed once, plus at most once for every fault.
CallsAccounted == calls <= faults + 1

\* With three attempts, no single fault fails the activity: the attempt that only
\* found the dead holder's lease still leaves one that waited it out.
SurvivesOneFault == activity = "exhausted" /\ fatal = {} => faults >= 2

\* The activity ends: a lease left behind is waited out, never waited for forever.
EventuallySettled == <>(activity \in {"succeeded", "exhausted"})

\* The attempts share a write-once register.
Register == INSTANCE WriteOnce WITH
    Clients <- Attempts,
    Values  <- Responses,
    value   <- result,
    answer  <- [a \in Attempts |-> IF pc[a] = "returned" THEN reply[a] ELSE None]

\* Every answer of the activity is the one committed response.
ImplementsWriteOnce == Register!Spec
=============================================================================

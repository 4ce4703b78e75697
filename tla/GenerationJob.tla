--------------------------- MODULE GenerationJob ---------------------------
(***************************************************************************)
(* One generation job: the chain of runs that ProblemGenerationWorkflow    *)
(* makes of it by continuing as new after an LLM review that objects, and  *)
(* that an operator makes of it by retrying a run that ended badly; the    *)
(* human review through the API; and the store, whose ledger entry is the  *)
(* job's, not the run's.                                                   *)
(*                                                                         *)
(* What a run does up to its candidate is Generation; here it either fails *)
(* or goes to the LLM review.  Another run produces another candidate: its *)
(* provider effects are keyed by its run id, and so is what it stores.  The *)
(* store's own steps are StoreProblem; here the activity begins, commits   *)
(* and answers.  A review token is derived from the run id, so the run a   *)
(* reviewer saw tells token, run and attempt.                              *)
(***************************************************************************)
EXTENDS Naturals, Sequences

CONSTANTS
    Reviewers,
    Feedbacks,     \* fingerprints of what a review objects to
    MaxRounds,     \* problemGenerationReviewRepairMaxRoundsV1
    MaxRuns,       \* bound: runs of the job
    MaxFaults,     \* bound: cancellations, stores given up, confirmations lost
    Job,           \* the key of the job's store operation
    None

Runs == 1 .. MaxRuns
Keys == Runs \cup {Job}
Decisions == {"approve", "reject"}

ASSUME JobAssumption ==
    /\ MaxRounds \in Nat /\ MaxRuns \in Nat \ {0} /\ MaxFaults \in Nat
    /\ Job \notin Runs /\ None \notin Runs /\ None \notin Feedbacks /\ None \notin Decisions

Open == {"producing", "waiting", "storing"}
Succeeded == {"completed", "quarantined"}
Retryable == {"failed", "canceled"}
Closed == Succeeded \cup Retryable

VARIABLES
    requireReview, \* params.RequireReview
    run,           \* the latest run
    phase,         \* of each run: "absent", one of Open, of Closed, or "continued"
    input,         \* the repair state in each run's parameters
    verdict,       \* of the LLM review: "none", "approved", "objected", "duplicate"
    decision,      \* ReviewRequest.Decision, or None
    inbox,         \* review signals delivered and not received yet
    expired,       \* runs whose review timer has fired
    canceling,     \* runs whose cancellation was requested
    timedOut,      \* runs that failed because no decision came
    \* the store
    op,            \* per key: the run whose payload the ledger entry has, or None
    working,       \* runs whose store activity may still act
    began,         \* runs whose payload the ledger accepted
    stored,        \* runs whose problem was committed
    withheld,      \* those stored under review quarantine
    refused,       \* runs the ledger refused
    \* the reviewers
    step,          \* "away", "looking", "signaling", "confirming", "answered"
    saw, wish,     \* the run of the page, and the decision submitted
    answer,        \* "none", "ok", "conflict", "unknown"
    \* history and environment
    chain,         \* repair rounds that led to each run
    faults

runs == <<run, phase, input, verdict, chain>>
review == <<decision, inbox, expired, timedOut>>
store == <<op, working, began, stored, withheld, refused>>
api == <<step, saw, wish, answer>>
vars == <<requireReview, runs, review, canceling, store, api, faults>>

NoRounds == [rounds |-> 0, feedback |-> None]

Init ==
    /\ requireReview \in BOOLEAN
    /\ run = 1
    /\ phase = [r \in Runs |-> IF r = 1 THEN "producing" ELSE "absent"]
    /\ input = [r \in Runs |-> NoRounds]
    /\ verdict = [r \in Runs |-> "none"]
    /\ decision = [r \in Runs |-> None]
    /\ inbox = [r \in Runs |-> <<>>]
    /\ expired = {} /\ canceling = {} /\ timedOut = {}
    /\ op = [k \in Keys |-> None]
    /\ working = {} /\ began = {} /\ stored = {} /\ withheld = {} /\ refused = {}
    /\ step = [v \in Reviewers |-> "away"]
    /\ saw = [v \in Reviewers |-> None]
    /\ wish = [v \in Reviewers |-> None]
    /\ answer = [v \in Reviewers |-> "none"]
    /\ chain = [r \in Runs |-> 0]
    /\ faults = 0

Fault == faults < MaxFaults /\ faults' = faults + 1

Enter(r, next) == phase' = [phase EXCEPT ![r] = next]

(***************************************************************************)
(* The workflow, up to the review                                          *)
(***************************************************************************)
\* The store activity is scheduled unless the workflow's context is cancelled.
EnterStore(r) ==
    /\ Enter(r, "storing")
    /\ working' = IF r \in canceling THEN working ELSE working \cup {r}

AfterReview(r) ==
    IF requireReview THEN Enter(r, "waiting") /\ UNCHANGED working
                     ELSE EnterStore(r)

\* Run r has a successor that starts from these parameters.
Continue(r, ended, params, rounds) ==
    /\ r < MaxRuns
    /\ run' = r + 1
    /\ phase' = [phase EXCEPT ![r] = ended, ![r + 1] = "producing"]
    /\ input' = [input EXCEPT ![r + 1] = params]
    /\ chain' = [chain EXCEPT ![r + 1] = rounds]

\* Generation fails, or the review activity does.
ProductionFails(r) ==
    /\ phase[r] = "producing"
    /\ Enter(r, "failed")
    /\ UNCHANGED <<requireReview, run, input, verdict, chain, review, canceling, store, api, faults>>

\* Cancelled activities end the run, as canceled when the error comes through
\* as it is.
ProductionCanceled(r) ==
    /\ phase[r] = "producing"
    /\ r \in canceling
    /\ Enter(r, "canceled")
    /\ UNCHANGED <<requireReview, run, input, verdict, chain, review, canceling, store, api, faults>>

ReviewApproves(r) ==
    /\ phase[r] = "producing"
    /\ verdict' = [verdict EXCEPT ![r] = "approved"]
    /\ AfterReview(r)
    /\ UNCHANGED <<requireReview, run, input, chain, review, canceling, op, began, stored,
                   withheld, refused, api, faults>>

\* Mutant: the next run's parameters forget the rounds used.
NextInputForgets(params, f) == [rounds |-> 0, feedback |-> f]

NextInput(params, f) == [rounds |-> params.rounds + 1, feedback |-> f]

\* prepareProblemGenerationReviewRepairV1 schedules another round.
Repairable(params, f) == params.rounds < MaxRounds /\ f # params.feedback

\* The review objects, or takes the problem for a duplicate.
ReviewRepairs(r, v, f) ==
    /\ phase[r] = "producing"
    /\ Repairable(input[r], f)
    /\ verdict' = [verdict EXCEPT ![r] = v]
    /\ Continue(r, "continued", NextInput(input[r], f), chain[r] + 1)
    /\ UNCHANGED <<requireReview, review, canceling, store, api, faults>>

ReviewObjects(r, v, f) ==
    /\ phase[r] = "producing"
    /\ ~Repairable(input[r], f)
    /\ verdict' = [verdict EXCEPT ![r] = v]
    /\ IF v = "duplicate" THEN Enter(r, "failed") /\ UNCHANGED working ELSE AfterReview(r)
    /\ UNCHANGED <<requireReview, run, input, chain, review, canceling, op, began, stored,
                   withheld, refused, api, faults>>

(***************************************************************************)
(* The wait for a human                                                    *)
(***************************************************************************)
TimerFires(r) ==
    /\ phase[r] = "waiting"
    /\ r \notin expired
    /\ expired' = expired \cup {r}
    /\ UNCHANGED <<requireReview, runs, decision, inbox, timedOut, canceling, store, api, faults>>

Decide(r) ==
    /\ decision' = [decision EXCEPT ![r] = Head(inbox[r])]
    /\ IF Head(inbox[r]) = "approve"
       THEN EnterStore(r)
       ELSE Enter(r, "failed") /\ UNCHANGED working
    /\ UNCHANGED timedOut

\* A cancelled wait ends as if the time were over.
GiveUp(r) ==
    /\ Enter(r, "failed")
    /\ timedOut' = timedOut \cup {r}
    /\ UNCHANGED <<decision, working>>

\* Mutant: the timer is looked at before the signals.
ReviewTaskTimerFirst(r) ==
    /\ phase[r] = "waiting"
    /\ inbox[r] # <<>> \/ r \in expired \/ r \in canceling
    /\ IF r \in expired THEN GiveUp(r) ELSE IF inbox[r] # <<>> THEN Decide(r) ELSE GiveUp(r)
    /\ UNCHANGED <<requireReview, run, input, verdict, chain, inbox, expired, canceling, op, began,
                   stored, withheld, refused, api, faults>>

\* Mutant: only a signal ends the wait.
ReviewTaskNoTimeout(r) ==
    /\ phase[r] = "waiting"
    /\ inbox[r] # <<>>
    /\ Decide(r)
    /\ UNCHANGED <<requireReview, run, input, verdict, chain, inbox, expired, canceling, op, began,
                   stored, withheld, refused, api, faults>>

\* One workflow task of waitForReviewSignal: it sees everything that happened
\* since the last one, and the selector asks the signals first.
ReviewTask(r) ==
    /\ phase[r] = "waiting"
    /\ inbox[r] # <<>> \/ r \in expired \/ r \in canceling
    /\ IF inbox[r] # <<>> THEN Decide(r) ELSE GiveUp(r)
    /\ UNCHANGED <<requireReview, run, input, verdict, chain, inbox, expired, canceling, op, began,
                   stored, withheld, refused, api, faults>>

(***************************************************************************)
(* The store                                                               *)
(***************************************************************************)
\* Mutant: every run stores under a key of its own.
KeyPerRun(r) == r

\* IdempotencyKey: the workflow id and a constant.
Key(r) == Job

\* Mutant: Begin does not compare the payload.
AcceptsAny(r) == TRUE

\* Begin takes the first payload of a key, and only that one again.
Accepts(r) == op[Key(r)] \in {None, r}

StoreBegins(r) ==
    /\ r \in working \ began
    /\ Accepts(r)
    /\ op' = [op EXCEPT ![Key(r)] = IF @ = None THEN r ELSE @]
    /\ began' = began \cup {r}
    /\ UNCHANGED <<requireReview, runs, review, canceling, working, stored, withheld, refused,
                   api, faults>>

StoreRefused(r) ==
    /\ r \in working \ began
    /\ ~Accepts(r)
    /\ refused' = refused \cup {r}
    /\ working' = working \ {r}
    /\ phase' = IF phase[r] = "storing" THEN [phase EXCEPT ![r] = "failed"] ELSE phase
    /\ UNCHANGED <<requireReview, run, input, verdict, chain, review, canceling, op, began, stored,
                   withheld, api, faults>>

\* Mutant: the rejection is not passed on to the store.
NoEvidence(r) == FALSE

\* shouldQuarantineReview: the input carries the evidence of a rejection that no
\* human will look at.
Evidence(r) == verdict[r] # "approved" /\ ~requireReview

\* The problem of the operation is committed, under quarantine if the input
\* carries evidence.
StoreCommits(r) ==
    /\ r \in working \cap began
    /\ \A s \in stored : Key(s) # Key(r)
    /\ stored' = stored \cup {r}
    /\ withheld' = IF Evidence(r) THEN withheld \cup {r} ELSE withheld
    /\ UNCHANGED <<requireReview, runs, review, canceling, op, working, began, refused, api, faults>>

\* The activity returns the operation's result to a workflow that still waits.
StoreAnswers(r) ==
    /\ r \in working \cap began
    /\ \E s \in stored : Key(s) = Key(r)
    /\ working' = working \ {r}
    /\ phase' = IF phase[r] # "storing" THEN phase
                ELSE [phase EXCEPT ![r] = IF Evidence(r) THEN "quarantined" ELSE "completed"]
    /\ UNCHANGED <<requireReview, run, input, verdict, chain, review, canceling, op, began, stored,
                   withheld, refused, api, faults>>

\* The workflow learns that the store failed for good; its last attempt may be
\* gone or may run on.
StoreFails(r) ==
    /\ phase[r] = "storing"
    /\ r \in working
    /\ Fault
    /\ Enter(r, "failed")
    /\ UNCHANGED <<requireReview, run, input, verdict, chain, review, canceling, store, api>>

StoreCanceled(r) ==
    /\ phase[r] = "storing"
    /\ r \in canceling
    /\ Enter(r, "canceled")
    /\ UNCHANGED <<requireReview, run, input, verdict, chain, review, canceling, store, api, faults>>

\* An attempt nobody waits for dies.
StoreGone(r) ==
    /\ r \in working
    /\ phase[r] # "storing"
    /\ working' = working \ {r}
    /\ UNCHANGED <<requireReview, runs, review, canceling, op, began, stored, withheld, refused,
                   api, faults>>

(***************************************************************************)
(* The API                                                                 *)
(***************************************************************************)
Cancel ==
    /\ phase[run] \in Open
    /\ run \notin canceling
    /\ Fault
    /\ canceling' = canceling \cup {run}
    /\ UNCHANGED <<requireReview, runs, review, store, api>>

\* HandleRetry resets the latest run to its first workflow task: a new run with
\* the same parameters.
Retry ==
    /\ phase[run] \in Retryable
    /\ Continue(run, phase[run], input[run], chain[run])
    /\ UNCHANGED <<requireReview, verdict, review, canceling, store, api, faults>>

\* A reviewer opens the page of a run that waits, and makes up his mind.
Look(v) ==
    /\ step[v] = "away"
    /\ phase[run] = "waiting"
    /\ \E d \in Decisions : wish' = [wish EXCEPT ![v] = d]
    /\ saw' = [saw EXCEPT ![v] = run]
    /\ step' = [step EXCEPT ![v] = "looking"]
    /\ UNCHANGED <<requireReview, runs, review, canceling, store, answer, faults>>

Answer(v, text) ==
    /\ step' = [step EXCEPT ![v] = "answered"]
    /\ answer' = [answer EXCEPT ![v] = text]

\* Mutant: the accepted decision is not compared with the reviewer's.
AcknowledgementUncompared(v) ==
    IF decision[saw[v]] # None THEN "ok" ELSE "conflict"

\* reviewDecisionAcknowledgementResponse
Acknowledgement(v) == IF decision[saw[v]] = wish[v] THEN "ok" ELSE "conflict"

\* A query is answered by the state after all events the run has received.
UpToDate(r) ==
    phase[r] = "waiting" => inbox[r] = <<>> /\ r \notin expired \cup canceling

\* signalReviewDecision finds the run he saw undecided, or answers at once.
Submit(v) ==
    /\ step[v] = "looking"
    /\ UpToDate(saw[v])
    /\ IF phase[saw[v]] = "waiting" /\ saw[v] = run
       THEN step' = [step EXCEPT ![v] = "signaling"] /\ UNCHANGED answer
       ELSE Answer(v, Acknowledgement(v))
    /\ UNCHANGED <<requireReview, runs, review, canceling, store, saw, wish, faults>>

\* SignalWorkflow names the run; a closed one takes no signal.
Signal(v) ==
    /\ step[v] = "signaling"
    /\ IF phase[saw[v]] \in Open
       THEN /\ inbox' = [inbox EXCEPT ![saw[v]] =
                            IF phase[saw[v]] = "waiting" THEN Append(@, wish[v]) ELSE @]
            /\ step' = [step EXCEPT ![v] = "confirming"]
            /\ UNCHANGED answer
       ELSE Answer(v, "conflict") /\ UNCHANGED inbox
    /\ UNCHANGED <<requireReview, runs, decision, expired, timedOut, canceling, store, saw, wish,
                   faults>>

\* The query that confirms it.
Confirm(v) ==
    /\ step[v] = "confirming"
    /\ UpToDate(saw[v])
    /\ Answer(v, Acknowledgement(v))
    /\ UNCHANGED <<requireReview, runs, review, canceling, store, saw, wish, faults>>

\* The confirmation times out; the reviewer may submit again.
ConfirmLost(v) ==
    /\ step[v] = "confirming"
    /\ Fault
    /\ Answer(v, "unknown")
    /\ UNCHANGED <<requireReview, runs, review, canceling, store, saw, wish>>

SubmitAgain(v) ==
    /\ step[v] = "answered"
    /\ answer[v] = "unknown"
    /\ step' = [step EXCEPT ![v] = "looking"]
    /\ answer' = [answer EXCEPT ![v] = "none"]
    /\ UNCHANGED <<requireReview, runs, review, canceling, store, saw, wish, faults>>

(***************************************************************************)
(* Specification                                                           *)
(***************************************************************************)
Production(r) ==
    \/ ProductionFails(r) \/ ProductionCanceled(r) \/ ReviewApproves(r)
    \/ \E v \in {"objected", "duplicate"}, f \in Feedbacks :
          ReviewRepairs(r, v, f) \/ ReviewObjects(r, v, f)

StoreActivity(r) ==
    StoreBegins(r) \/ StoreRefused(r) \/ StoreCommits(r) \/ StoreAnswers(r)

Next ==
    \/ \E r \in Runs :
          \/ Production(r) \/ TimerFires(r) \/ ReviewTask(r)
          \/ StoreActivity(r) \/ StoreFails(r) \/ StoreCanceled(r) \/ StoreGone(r)
    \/ Cancel \/ Retry
    \/ \E v \in Reviewers :
          Look(v) \/ Submit(v) \/ Signal(v) \/ Confirm(v) \/ ConfirmLost(v) \/ SubmitAgain(v)

Spec == Init /\ [][Next]_vars

\* Activities end, timers fire and workflow tasks run; nobody has to review,
\* cancel or retry.
FairSpec ==
    /\ Spec
    /\ \A r \in Runs :
          /\ WF_vars(Production(r))
          /\ WF_vars(TimerFires(r))
          /\ WF_vars(ReviewTask(r))
          /\ WF_vars(StoreActivity(r))
          /\ WF_vars(StoreCanceled(r))

(***************************************************************************)
(* Properties                                                              *)
(***************************************************************************)
\* Every variable has its type.
TypeOK ==
    /\ requireReview \in BOOLEAN
    /\ run \in Runs
    /\ phase \in [Runs -> Open \cup Closed \cup {"absent", "continued"}]
    /\ input \in [Runs -> [rounds : 0 .. MaxRounds, feedback : Feedbacks \cup {None}]]
    /\ verdict \in [Runs -> {"none", "approved", "objected", "duplicate"}]
    /\ decision \in [Runs -> Decisions \cup {None}]
    /\ inbox \in [Runs -> Seq(Decisions)]
    /\ expired \subseteq Runs /\ canceling \subseteq Runs /\ timedOut \subseteq Runs
    /\ op \in [Keys -> Runs \cup {None}]
    /\ working \subseteq Runs /\ began \subseteq Runs /\ stored \subseteq Runs
    /\ withheld \subseteq Runs /\ refused \subseteq Runs
    /\ step \in [Reviewers -> {"away", "looking", "signaling", "confirming", "answered"}]
    /\ saw \in [Reviewers -> Runs \cup {None}]
    /\ wish \in [Reviewers -> Decisions \cup {None}]
    /\ answer \in [Reviewers -> {"none", "ok", "conflict", "unknown"}]
    /\ chain \in [Runs -> Nat]
    /\ faults \in 0 .. MaxFaults

\* However often the job is retried or cancelled under way, it leaves one
\* problem: a second run, and a store activity nobody waits for any more, cannot
\* add another.
JobStoresOnce == \A r, s \in stored : r = s

\* What the ledger is for an activity and the store's operation for its attempts,
\* the job is for its runs: the set of its problems is decided once, and every
\* run that ends well ends with that very problem, which is of its own candidate.
\* Neither the problem nor such an end is ever taken back, by a retry, a
\* cancellation or a store activity nobody waits for.
Register == INSTANCE WriteOnce WITH
    Clients <- Runs, Values <- {{r} : r \in Runs}, None <- {}, value <- stored,
    answer <- [r \in Runs |-> IF phase[r] \in Succeeded THEN {r} ELSE {}]

JobIsWriteOnce == Register!Spec

\* What is in the database is what was decided about that very candidate: where
\* a human must agree he has, elsewhere the LLM review has or the problem is
\* withheld; a duplicate is never stored.
StoredAsDecided ==
    \A r \in stored :
        /\ verdict[r] \in {"approved", "objected"}
        /\ IF requireReview THEN decision[r] = "approve"
                            ELSE verdict[r] = "approved" \/ r \in withheld

\* A run that ends well has stored its own candidate, not found an earlier run's,
\* and reports the quarantine it was stored under.
SuccessIsOwn ==
    \A r \in Runs :
        phase[r] \in Succeeded => r \in stored /\ (phase[r] = "quarantined" <=> r \in withheld)

\* A reviewer who is told "ok" decided the run he saw; of two who disagree, one
\* learns it.
AcknowledgedTruly ==
    \A v \in Reviewers : answer[v] = "ok" => decision[saw[v]] = wish[v]

\* A review is only reported as timed out when no decision reached the run, even
\* if timer and decision arrive together.
TimeoutMeansSilence == \A r \in timedOut : inbox[r] = <<>>

\* Repairs driven by the LLM review are bounded over the whole chain of runs,
\* retries included.
RepairsBounded == \A r \in Runs : chain[r] <= MaxRounds

\* No run goes on for ever: a review without an answer, a lost activity and a
\* cancellation all end it.
EventuallyClosed == []<>(phase[run] \in Closed)

\* Not satisfied.  A job is refused its store only because its problem is there.
RefusedOnlyIfStored == refused # {} => stored # {}
=============================================================================

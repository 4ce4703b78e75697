------------------------------- MODULE Rating -------------------------------
(***************************************************************************)
(* The assessments of one problem.  An assessment is a row in PostgreSQL   *)
(* and a workflow in Temporal, and no transaction spans them: requests of  *)
(* administrators reserve, start, poll and cancel, the workflow's          *)
(* activities write the row, and whoever comes second finds it terminal.   *)
(* What is decided on completed assessments is RatingDecision's.           *)
(*                                                                         *)
(* An activity that the workflow no longer waits for may still write: what *)
(* it would write stays in late.  Activity retries repeat an update that   *)
(* is idempotent and are one step here.                                    *)
(***************************************************************************)
EXTENDS Naturals

CONSTANTS
    Assessments,
    Admins,
    Viewers,         \* pages left open on the problem's assessments
    MaxFaults,       \* bound: requests that die, calls and activities whose outcome is lost
    None

Callers == Admins \cup Viewers

ASSUME RatingAssumption ==
    /\ MaxFaults \in Nat
    /\ None \notin Assessments

Active == {"pending", "running"}
Terminal == {"completed", "failed", "cancelled"}
Working == {"solving", "finalizing"}
Open == Working \cup {"finalized", "failing", "cancelling"}
Closed == {"completed", "failed", "canceled", "timedOut"}

VARIABLES
    \* rating_assessments
    status,     \* of each: "absent", or one of Active, Terminal
    \* Temporal
    wf,         \* the workflow of each: "none", or one of Open, Closed
    cancelReq,  \* workflows whose cancellation was requested
    inflight,   \* those whose start request may still arrive
    late,       \* writes of activities nobody waits for
    \* requests
    pc, target, \* of each caller: the next step, and on which assessment
    verdict,    \* the terminal status it will persist
    goal,       \* "create" if the poll precedes a creation, else "end"
    faults

temporal == <<wf, cancelReq, inflight, late>>
request == <<pc, target, verdict, goal>>
vars == <<status, temporal, request, faults>>

Init ==
    /\ status = [a \in Assessments |-> "absent"]
    /\ wf = [a \in Assessments |-> "none"]
    /\ cancelReq = {} /\ inflight = {} /\ late = {}
    /\ pc = [c \in Callers |-> "idle"]
    /\ target = [c \in Callers |-> None]
    /\ verdict = [c \in Callers |-> "none"]
    /\ goal = [c \in Callers |-> "end"]
    /\ faults = 0

Fault == faults < MaxFaults /\ faults' = faults + 1

(***************************************************************************)
(* UpdateAssessment                                                        *)
(***************************************************************************)
\* A terminal row takes no other status.
Refused(a, s) == status[a] \in Terminal \ {s}

\* Mutant: the row's status is not looked at.
UpdateAny(a, s) == status' = [status EXCEPT ![a] = s]

Update(a, s) == status' = IF status[a] \in Terminal THEN status ELSE [status EXCEPT ![a] = s]

(***************************************************************************)
(* RatingWorkflow                                                          *)
(***************************************************************************)
Enter(a, stage) == wf' = [wf EXCEPT ![a] = stage]

\* What the activity of a stage writes, and where it leads.
Written == [solving |-> "running", finalizing |-> "completed",
            failing |-> "failed", cancelling |-> "cancelled"]
After == [solving |-> "finalizing", finalizing |-> "finalized",
          failing |-> "failed", cancelling |-> "canceled"]

\* What an activity given up in this stage may still do.  A late "running" is
\* left out: it could only replace a "pending" that nobody reads any more.
Left(a) == IF Written[wf[a]] = "running" THEN {} ELSE {<<a, Written[wf[a]]>>}

\* The stage's activities succeed, or one finds the row terminal.  "solving" stands
\* for all the phases before the last, which write the same status.
Stage(a) ==
    /\ wf[a] \in Working
    /\ a \notin cancelReq
    /\ Update(a, Written[wf[a]])
    /\ Enter(a, IF Refused(a, Written[wf[a]]) THEN "failing" ELSE After[wf[a]])
    /\ UNCHANGED <<cancelReq, inflight, late, request, faults>>

\* An activity fails for good, or the workflow is told to cancel.
GiveUp(a) ==
    /\ wf[a] \in Working
    /\ Enter(a, IF a \in cancelReq THEN "cancelling" ELSE "failing")
    /\ late' = late \cup Left(a)
    /\ UNCHANGED <<status, cancelReq, inflight, request, faults>>

\* The result of RatingFinalizeActivity is there: the workflow completes.
Complete(a) ==
    /\ wf[a] = "finalized"
    /\ Enter(a, "completed")
    /\ UNCHANGED <<status, cancelReq, inflight, late, request, faults>>

\* The deferred RatingStateActivity; whether the row takes it or not, the
\* workflow closes.
Cleanup(a) ==
    /\ wf[a] \in {"failing", "cancelling"}
    /\ Update(a, Written[wf[a]])
    /\ Enter(a, After[wf[a]])
    /\ UNCHANGED <<cancelReq, inflight, late, request, faults>>

CleanupLost(a) ==
    /\ wf[a] \in {"failing", "cancelling"}
    /\ Fault
    /\ Enter(a, After[wf[a]])
    /\ late' = late \cup Left(a)
    /\ UNCHANGED <<status, cancelReq, inflight, request>>

\* The execution timeout, or an operator's termination: no cleanup runs.
TimesOut(a) ==
    /\ wf[a] \in Open
    /\ Fault
    /\ Enter(a, "timedOut")
    /\ late' = IF wf[a] = "finalized" THEN late ELSE late \cup Left(a)
    /\ UNCHANGED <<status, cancelReq, inflight, request>>

LateWrite(a, s) ==
    /\ <<a, s>> \in late
    /\ Update(a, s)
    /\ late' = late \ {<<a, s>>}
    /\ UNCHANGED <<wf, cancelReq, inflight, request, faults>>

\* A start request whose sender gave up arrives after all, or never.
StartArrives(a) ==
    /\ a \in inflight
    /\ inflight' = inflight \ {a}
    /\ Enter(a, "solving")
    /\ UNCHANGED <<status, cancelReq, late, request, faults>>

StartLost(a) ==
    /\ a \in inflight
    /\ inflight' = inflight \ {a}
    /\ UNCHANGED <<status, wf, cancelReq, late, request, faults>>

(***************************************************************************)
(* Polling: Reconcile                                                      *)
(***************************************************************************)
Goto(c, step) == pc' = [pc EXCEPT ![c] = step]

Begin(c, a, step, g) ==
    /\ Goto(c, step)
    /\ target' = [target EXCEPT ![c] = a]
    /\ goal' = [goal EXCEPT ![c] = g]
    /\ verdict' = [verdict EXCEPT ![c] = "none"]

\* A request forgets what it knew when it ends.
Ends(c) == Begin(c, None, "idle", "end")

PollEnds(c) == IF goal[c] = "create" THEN Begin(c, None, "insert", "create") ELSE Ends(c)

View(c) ==
    /\ pc[c] = "idle"
    /\ \E a \in Assessments : status[a] \in Active /\ Begin(c, a, "describe", "end")
    /\ UNCHANGED <<status, temporal, faults>>

\* Mutant: only failed and cancelled executions are reconciled.
ReconciledFewer == [completed |-> "none", failed |-> "failed", canceled |-> "cancelled", timedOut |-> "none"]

\* What a closed execution says of a row that is still active.
Reconciled == [completed |-> "failed", failed |-> "failed", canceled |-> "cancelled", timedOut |-> "failed"]

Persists(c, s) == Goto(c, "persist") /\ verdict' = [verdict EXCEPT ![c] = s] /\ UNCHANGED <<target, goal>>

\* Nothing is concluded from an execution that runs or cannot be found.
Describe(c) ==
    /\ pc[c] = "describe"
    /\ IF wf[target[c]] \in Closed /\ Reconciled[wf[target[c]]] # "none"
       THEN Persists(c, Reconciled[wf[target[c]]])
       ELSE PollEnds(c)
    /\ UNCHANGED <<status, temporal, faults>>

\* persistTerminal: losing to another terminal status is no error.
Persist(c) ==
    /\ pc[c] = "persist"
    /\ Update(target[c], verdict[c])
    /\ PollEnds(c)
    /\ UNCHANGED <<temporal, faults>>

(***************************************************************************)
(* Creating and starting                                                   *)
(***************************************************************************)
\* HandleCreateAssessment polls the active assessment first.
Create(c) ==
    /\ pc[c] = "idle"
    /\ IF \E a \in Assessments : status[a] \in Active
       THEN \E a \in Assessments : status[a] \in Active /\ Begin(c, a, "describe", "create")
       ELSE Begin(c, None, "insert", "create")
    /\ UNCHANGED <<status, temporal, faults>>

\* A unique index allows one active row.
Insert(c) ==
    /\ pc[c] = "insert"
    /\ IF \/ \E a \in Assessments : status[a] \in Active
          \/ \A a \in Assessments : status[a] # "absent"
       THEN Ends(c) /\ UNCHANGED status
       ELSE LET a == CHOOSE n \in Assessments : status[n] = "absent"
            IN /\ status' = [status EXCEPT ![a] = "pending"]
               /\ Begin(c, a, "start", "end")
    /\ UNCHANGED <<temporal, faults>>

\* Start reads the row and resolves the models, or refuses.
Start(c) ==
    /\ pc[c] = "start"
    /\ \/ status[target[c]] = "pending" /\ Goto(c, "execute")
       \/ Goto(c, "fail")
    /\ UNCHANGED <<target, verdict, goal, status, temporal, faults>>

ExecuteOk(c) ==
    /\ pc[c] = "execute"
    /\ Enter(target[c], "solving")
    /\ Ends(c)
    /\ UNCHANGED <<status, cancelReq, inflight, late, faults>>

ExecuteRejected(c) ==
    /\ pc[c] = "execute"
    /\ Goto(c, "fail")
    /\ UNCHANGED <<target, verdict, goal, status, temporal, faults>>

\* Mutant: an uncertain start counts as a failed one.
ExecuteUncertainFails(c) ==
    /\ pc[c] = "execute"
    /\ Fault
    /\ inflight' = inflight \cup {target[c]}
    /\ Goto(c, "fail")
    /\ UNCHANGED <<target, verdict, goal, status, wf, cancelReq, late>>

\* ErrRatingStartUncertain: the reservation stays.
ExecuteUncertain(c) ==
    /\ pc[c] = "execute"
    /\ Fault
    /\ inflight' = inflight \cup {target[c]}
    /\ Ends(c)
    /\ UNCHANGED <<status, wf, cancelReq, late>>

MarkFailed(c) ==
    /\ pc[c] = "fail"
    /\ Update(target[c], "failed")
    /\ Ends(c)
    /\ UNCHANGED <<temporal, faults>>

(***************************************************************************)
(* Cancelling                                                              *)
(***************************************************************************)
Cancel(c) ==
    /\ pc[c] = "idle"
    /\ \E a \in Assessments : status[a] \in Active /\ Begin(c, a, "cancel", "end")
    /\ UNCHANGED <<status, temporal, faults>>

CancelAccepted(c) ==
    /\ pc[c] = "cancel"
    /\ wf[target[c]] \in Open
    /\ cancelReq' = cancelReq \cup {target[c]}
    /\ Persists(c, "cancelled")
    /\ UNCHANGED <<status, wf, inflight, late, faults>>

\* The server knows no open execution, or its reply is lost.
CancelErrs(c) ==
    /\ pc[c] = "cancel"
    /\ IF wf[target[c]] \in Open
       THEN Fault /\ cancelReq' = cancelReq \cup {target[c]}
       ELSE UNCHANGED <<faults, cancelReq>>
    /\ Goto(c, "confirm")
    /\ UNCHANGED <<target, verdict, goal, status, wf, inflight, late>>

\* Describe decides: an execution that runs leaves the row as it is, one that
\* cannot be found releases it.
CancelConfirm(c) ==
    /\ pc[c] = "confirm"
    /\ IF wf[target[c]] \in Open
       THEN Ends(c)
       ELSE Persists(c, IF wf[target[c]] = "none" THEN "cancelled" ELSE Reconciled[wf[target[c]]])
    /\ UNCHANGED <<status, temporal, faults>>

\* An administrator's request ends before its work does; a page simply asks again.
Dies(c) ==
    /\ pc[c] # "idle"
    /\ Fault
    /\ Ends(c)
    /\ UNCHANGED <<status, temporal>>

(***************************************************************************)
(* Specification                                                           *)
(***************************************************************************)
WorkflowStep(a) == Stage(a) \/ GiveUp(a) \/ Complete(a) \/ Cleanup(a)

Poll(c) == View(c) \/ Describe(c) \/ Persist(c)

Administer(c) ==
    \/ Create(c) \/ Insert(c) \/ Start(c) \/ MarkFailed(c)
    \/ ExecuteOk(c) \/ ExecuteRejected(c) \/ ExecuteUncertain(c)
    \/ Cancel(c) \/ CancelAccepted(c) \/ CancelErrs(c) \/ CancelConfirm(c)

Next ==
    \/ \E a \in Assessments :
          \/ WorkflowStep(a) \/ CleanupLost(a) \/ TimesOut(a)
          \/ StartArrives(a) \/ StartLost(a)
          \/ \E s \in Terminal : LateWrite(a, s)
    \/ \E c \in Viewers : View(c)
    \/ \E c \in Callers : Describe(c) \/ Persist(c)
    \/ \E c \in Admins : Administer(c) \/ Dies(c)

Spec == Init /\ [][Next]_vars

\* Temporal keeps running what it has accepted and an open page goes on polling;
\* nobody has to create, cancel or decide.
Fairness ==
    /\ \A a \in Assessments : WF_vars(WorkflowStep(a))
    /\ \A c \in Viewers : WF_vars(Poll(c))

FairSpec == Spec /\ Fairness

(***************************************************************************)
(* Properties                                                              *)
(***************************************************************************)
\* Every variable has its type.
TypeOK ==
    /\ status \in [Assessments -> Active \cup Terminal \cup {"absent"}]
    /\ wf \in [Assessments -> Open \cup Closed \cup {"none"}]
    /\ cancelReq \subseteq Assessments /\ inflight \subseteq Assessments
    /\ late \subseteq Assessments \X Terminal
    /\ pc \in [Callers -> {"idle", "describe", "persist", "insert", "start", "execute", "fail",
                           "cancel", "confirm"}]
    /\ target \in [Callers -> Assessments \cup {None}]
    /\ verdict \in [Callers -> Terminal \cup {"none"}]
    /\ goal \in [Callers -> {"create", "end"}]
    /\ faults \in 0 .. MaxFaults

\* An execution that completed has its report in the row, whatever cancellations,
\* polls and late activities wrote around it.
CompletedIsRecorded == \A a \in Assessments : wf[a] = "completed" => status[a] = "completed"

\* A row is only failed when no work for it goes on or can still begin: neither
\* polling nor a failed start gives up an execution that may exist.
FailedIsOver ==
    \A a \in Assessments :
        status[a] = "failed" => a \notin inflight /\ wf[a] \notin Working \cup {"finalized"}

\* An assessment whose execution began ends in the database, even if the
\* execution was killed or could not write that it failed: again and again there
\* is none left over (at most one is active at any time).
AcceptedEnds == []<>(\A a \in Assessments : wf[a] # "none" => status[a] \in Terminal)
=============================================================================

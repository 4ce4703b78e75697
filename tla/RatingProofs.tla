---------------------------- MODULE RatingProofs ----------------------------
(***************************************************************************)
(* Theorems about Rating and RatingDecision, for any number of             *)
(* assessments, administrators, open pages, authors and subjects.          *)
(***************************************************************************)
EXTENDS Rating, RatingDecision, TLAPS

Named == {"describe", "persist", "start", "execute", "fail", "cancel", "confirm"}
Starters == {"start", "execute", "fail"}

\* A request knows an assessment that exists.
Targets ==
    \A c \in Callers :
        pc[c] \in Named => target[c] \in Assessments /\ status[target[c]] # "absent"

\* It only persists a failure it has seen the execution of.
Verdicts ==
    \A c \in Callers :
        pc[c] = "persist" => /\ verdict[c] \in {"failed", "cancelled"}
                             /\ verdict[c] = "failed" => wf[target[c]] \in Closed

\* While a request is starting an assessment nobody else starts or fails it.
Starts ==
    \A c \in Callers :
        pc[c] \in Starters =>
            /\ wf[target[c]] = "none" /\ target[c] \notin inflight
            /\ pc[c] # "fail" => status[target[c]] # "failed"
            /\ \A d \in Callers : pc[d] \in Starters /\ target[d] = target[c] => d = c

Unstarted ==
    \A a \in Assessments :
        /\ a \in inflight => wf[a] = "none"
        /\ status[a] = "absent" => wf[a] = "none" /\ a \notin inflight

Finished == \A a \in Assessments : wf[a] \in {"finalized", "completed"} => status[a] = "completed"

LateFailures == \A a \in Assessments : <<a, "failed">> \in late => wf[a] \in Closed

Requests == Targets /\ Verdicts /\ Starts
Executions == Unstarted /\ Finished /\ LateFailures /\ FailedIsOver

IInv == TypeOK /\ Requests /\ Executions

\* The empty database satisfies the invariant.
LEMMA InitIInv == Init => IInv
<1> SUFFICES ASSUME Init PROVE IInv
  OBVIOUS
<1>1. TypeOK
  BY RatingAssumption DEF Init, TypeOK
<1>2. Requests /\ Executions
  BY DEF Init, Requests, Targets, Verdicts, Starts, Named, Starters, Executions, Unstarted,
     Finished, LateFailures, FailedIsOver
<1> QED BY <1>1, <1>2 DEF IInv

\* What an update can do to a row, and what it cannot.
LEMMA UpdateLaws ==
  ASSUME TypeOK, NEW a \in Assessments, NEW s \in {"running", "completed", "failed", "cancelled"},
         Update(a, s)
  PROVE /\ status' \in [Assessments -> Active \cup Terminal \cup {"absent"}]
        /\ \A b \in Assessments :
              /\ status[b] \in Terminal => status'[b] = status[b]
              /\ b # a => status'[b] = status[b]
              /\ status[b] # "absent" => status'[b] # "absent"
              /\ status'[b] # status[b] => status'[b] = s
        /\ status[a] \notin Terminal \/ status[a] = s => status'[a] = s
  BY DEF TypeOK, Update, Active, Terminal

\* The workflow's steps, in the order of its life.
LEMMA WorkflowSteps ==
  ASSUME IInv, NEW a \in Assessments, WorkflowStep(a)
  PROVE IInv'
<1> USE DEF IInv, Requests, Executions
<1>1. CASE Stage(a)
  <2>1. Written[wf[a]] \in {"running", "completed"} /\ Update(a, Written[wf[a]])
    BY <1>1 DEF Stage, Working, Written
  <2>2. TypeOK'
    BY <1>1, <2>1, UpdateLaws DEF Stage, Enter, TypeOK, Open, Working, After, Written, request
  <2>3. Requests' /\ Executions'
    BY <1>1, <2>1, UpdateLaws DEF Stage, Enter, TypeOK, Open, Closed, Working, After, Written,
       Refused, request, Targets, Verdicts, Starts, Named, Starters, Unstarted, Finished,
       LateFailures, FailedIsOver, Terminal
  <2> QED BY <2>2, <2>3
<1>2. CASE GiveUp(a)
  BY <1>2 DEF GiveUp, Enter, Left, TypeOK, Open, Closed, Working, Written, request, Targets,
     Verdicts, Starts, Named, Starters, Unstarted, Finished, LateFailures, FailedIsOver,
     Terminal
<1>3. CASE Complete(a)
  BY <1>3 DEF Complete, Enter, TypeOK, Open, Closed, Working, request, Targets,
     Verdicts, Starts, Named, Starters, Unstarted, Finished, LateFailures, FailedIsOver
<1>4. CASE Cleanup(a)
  <2>1. Written[wf[a]] \in {"failed", "cancelled"} /\ Update(a, Written[wf[a]])
    BY <1>4 DEF Cleanup, Written
  <2>2. TypeOK'
    BY <1>4, <2>1, UpdateLaws DEF Cleanup, Enter, TypeOK, Open, Closed, After, request
  <2>3. Requests' /\ Executions'
    BY <1>4, <2>1, UpdateLaws DEF Cleanup, Enter, TypeOK, Open, Closed, Working, After, Written,
       request, Targets, Verdicts, Starts, Named, Starters, Unstarted, Finished,
       LateFailures, FailedIsOver, Terminal
  <2> QED BY <2>2, <2>3
<1> QED BY <1>1, <1>2, <1>3, <1>4 DEF WorkflowStep

\* Its ends without a word, and what arrives late.
LEMMA LossSteps ==
  ASSUME IInv, NEW a \in Assessments,
         \/ CleanupLost(a) \/ TimesOut(a) \/ StartArrives(a) \/ StartLost(a)
         \/ \E s \in Terminal : LateWrite(a, s)
  PROVE IInv'
<1> USE DEF IInv, Requests, Executions
<1>1. CASE CleanupLost(a)
  BY <1>1, RatingAssumption DEF CleanupLost, Fault, Enter, Left, TypeOK, Open, Closed, Working,
     Written, After, request, Targets, Verdicts, Starts, Named, Starters, Unstarted, Finished,
     LateFailures, FailedIsOver, Terminal
<1>2. CASE TimesOut(a)
  BY <1>2, RatingAssumption DEF TimesOut, Fault, Enter, Left, TypeOK, Open, Closed, Working,
     Written, request, Targets, Verdicts, Starts, Named, Starters, Unstarted, Finished,
     LateFailures, FailedIsOver, Terminal
<1>3. CASE StartArrives(a)
  BY <1>3 DEF StartArrives, Enter, TypeOK, Open, Closed, Working, request, Targets,
     Verdicts, Starts, Named, Starters, Unstarted, Finished, LateFailures, FailedIsOver
<1>4. CASE StartLost(a)
  BY <1>4 DEF StartLost, TypeOK, request, Targets, Verdicts, Starts, Unstarted,
     Finished, LateFailures, FailedIsOver
<1>5. ASSUME NEW s \in Terminal, LateWrite(a, s)
      PROVE IInv'
  <2>1. s \in {"running", "completed", "failed", "cancelled"} /\ Update(a, s)
    BY <1>5 DEF LateWrite, Terminal
  <2>2. TypeOK'
    BY <1>5, <2>1, UpdateLaws DEF LateWrite, TypeOK, request
  <2>3. Requests' /\ Executions'
    BY <1>5, <2>1, UpdateLaws DEF LateWrite, TypeOK, Closed, Working, request, Targets, Verdicts,
       Starts, Named, Starters, Unstarted, Finished, LateFailures, FailedIsOver, Terminal
  <2> QED BY <2>2, <2>3
<1> QED BY <1>1, <1>2, <1>3, <1>4, <1>5

\* What a request's step changes of the request itself.
LEMMA BeginTyped ==
  ASSUME TypeOK, NEW c \in Callers, NEW a \in Assessments \cup {None},
         NEW at \in {"idle", "describe", "insert", "start", "cancel"}, NEW g \in {"create", "end"},
         Begin(c, a, at, g)
  PROVE /\ pc' = [pc EXCEPT ![c] = at] /\ target' = [target EXCEPT ![c] = a]
        /\ verdict' = [verdict EXCEPT ![c] = "none"]
        /\ pc' \in [Callers -> {"idle", "describe", "persist", "insert", "start", "execute", "fail",
                                "cancel", "confirm"}]
        /\ target' \in [Callers -> Assessments \cup {None}]
        /\ verdict' \in [Callers -> Terminal \cup {"none"}]
        /\ goal' \in [Callers -> {"create", "end"}]
  BY DEF Begin, Goto, TypeOK

\* A request that ends knows nothing any more.
LEMMA EndsTyped ==
  ASSUME TypeOK, NEW c \in Callers, Ends(c) \/ PollEnds(c)
  PROVE /\ pc'[c] \in {"idle", "insert"} /\ \A d \in Callers \ {c} : pc'[d] = pc[d]
        /\ \A d \in Callers \ {c} : target'[d] = target[d] /\ verdict'[d] = verdict[d]
        /\ pc' \in [Callers -> {"idle", "describe", "persist", "insert", "start", "execute", "fail",
                                "cancel", "confirm"}]
        /\ target' \in [Callers -> Assessments \cup {None}]
        /\ verdict' \in [Callers -> Terminal \cup {"none"}]
        /\ goal' \in [Callers -> {"create", "end"}]
  BY BeginTyped DEF Ends, PollEnds, TypeOK

\* Polling.
LEMMA PollSteps ==
  ASSUME IInv, NEW c \in Callers, Poll(c)
  PROVE IInv'
<1> USE DEF IInv, Requests, Executions
<1>1. CASE View(c)
  <2>1. PICK a \in Assessments : status[a] \in Active /\ Begin(c, a, "describe", "end")
    BY <1>1 DEF View
  <2>2. /\ pc' = [pc EXCEPT ![c] = "describe"] /\ target' = [target EXCEPT ![c] = a]
        /\ verdict' \in [Callers -> Terminal \cup {"none"}]
        /\ goal' \in [Callers -> {"create", "end"}]
        /\ \A d \in Callers \ {c} : verdict'[d] = verdict[d]
    BY <2>1, BeginTyped DEF TypeOK
  <2>3. UNCHANGED <<status, temporal, faults>>
    BY <1>1 DEF View
  <2>4. TypeOK'
    BY <2>2, <2>3 DEF TypeOK, temporal
  <2>5. Targets' /\ Verdicts'
    BY <2>1, <2>2, <2>3 DEF TypeOK, Active, temporal, Targets, Verdicts, Named
  <2>6. Starts'
    BY <2>2, <2>3 DEF TypeOK, temporal, Starts, Starters
  <2>7. Executions'
    BY <2>3 DEF temporal, Unstarted, Finished, LateFailures, FailedIsOver
  <2> QED BY <2>4, <2>5, <2>6, <2>7
<1>2. CASE Describe(c)
  <2>1. CASE PollEnds(c)
    BY <1>2, <2>1, EndsTyped DEF Describe, TypeOK, temporal, Targets, Verdicts, Starts,
       Named, Starters, Unstarted, Finished, LateFailures, FailedIsOver
  <2>2. CASE /\ wf[target[c]] \in Closed
             /\ Persists(c, Reconciled[wf[target[c]]])
    BY <1>2, <2>2 DEF Describe, Persists, Goto, Reconciled, TypeOK, Closed, Terminal, temporal,
       Targets, Verdicts, Starts, Named, Starters, Unstarted, Finished, LateFailures, FailedIsOver
  <2> QED BY <1>2, <2>1, <2>2 DEF Describe
<1>3. CASE Persist(c)
  <2>1. /\ target[c] \in Assessments
        /\ verdict[c] \in {"running", "completed", "failed", "cancelled"}
        /\ verdict[c] \in {"failed", "cancelled"}
        /\ Update(target[c], verdict[c]) /\ PollEnds(c)
    BY <1>3 DEF Persist, Targets, Verdicts, Named
  <2>2. TypeOK'
    BY <1>3, <2>1, UpdateLaws, EndsTyped DEF Persist, TypeOK, temporal
  <2>3. Requests'
    <3>1. Targets' /\ Verdicts'
      BY <1>3, <2>1, UpdateLaws, EndsTyped DEF Persist, TypeOK, temporal, Targets, Verdicts, Named
    <3>2. Starts'
      BY <1>3, <2>1, UpdateLaws, EndsTyped DEF Persist, TypeOK, temporal, Targets, Verdicts,
         Starts, Named, Starters, Closed
    <3> QED BY <3>1, <3>2
  <2>4. Executions'
    BY <1>3, <2>1, UpdateLaws, EndsTyped DEF Persist, TypeOK, temporal, Verdicts, Unstarted, Finished,
       LateFailures, FailedIsOver, Terminal, Closed, Working
  <2> QED BY <2>2, <2>3, <2>4
<1> QED BY <1>1, <1>2, <1>3 DEF Poll

\* A request that leaves the database and Temporal alone keeps the rest.
LEMMA RequestOnly ==
  ASSUME IInv, UNCHANGED <<status, temporal, faults>>,
         pc' \in [Callers -> {"idle", "describe", "persist", "insert", "start", "execute", "fail",
                              "cancel", "confirm"}],
         target' \in [Callers -> Assessments \cup {None}],
         verdict' \in [Callers -> Terminal \cup {"none"}],
         goal' \in [Callers -> {"create", "end"}],
         Requests'
  PROVE IInv'
  BY DEF IInv, TypeOK, temporal, Executions, Unstarted, Finished, LateFailures, FailedIsOver

\* Creating and starting.
LEMMA CreateSteps ==
  ASSUME IInv, NEW c \in Callers,
         \/ Create(c) \/ Insert(c) \/ Start(c) \/ MarkFailed(c)
         \/ ExecuteOk(c) \/ ExecuteRejected(c) \/ ExecuteUncertain(c)
  PROVE IInv'
<1> USE DEF IInv, Requests, Executions
<1>1. CASE Create(c)
  <2>1. CASE \E a \in Assessments : status[a] \in Active /\ Begin(c, a, "describe", "create")
    <3>1. PICK a \in Assessments : status[a] \in Active /\ Begin(c, a, "describe", "create")
      BY <2>1
    <3>2. /\ pc' = [pc EXCEPT ![c] = "describe"] /\ target' = [target EXCEPT ![c] = a]
          /\ verdict' = [verdict EXCEPT ![c] = "none"]
      BY <3>1, BeginTyped
    <3>3. Targets' /\ Verdicts' /\ Starts'
      BY <1>1, <3>1, <3>2 DEF Create, TypeOK, Active, temporal, Targets, Verdicts, Starts,
         Named, Starters
    <3> QED BY <1>1, <3>1, <3>3, BeginTyped, RequestOnly DEF Create
  <2>2. CASE Begin(c, None, "insert", "create")
    <3>1. /\ pc' = [pc EXCEPT ![c] = "insert"] /\ target' = [target EXCEPT ![c] = None]
          /\ verdict' = [verdict EXCEPT ![c] = "none"]
      BY <2>2, BeginTyped
    <3>2. Targets' /\ Verdicts' /\ Starts'
      BY <1>1, <3>1 DEF Create, TypeOK, temporal, Targets, Verdicts, Starts,
         Named, Starters
    <3> QED BY <1>1, <2>2, <3>2, BeginTyped, RequestOnly DEF Create
  <2> QED BY <1>1, <2>1, <2>2 DEF Create
<1>2. CASE Insert(c)
  <2>1. CASE Ends(c) /\ UNCHANGED status
    <3>1. Targets' /\ Verdicts' /\ Starts'
      BY <1>2, <2>1, EndsTyped DEF Insert, TypeOK, temporal, Targets, Verdicts, Starts,
         Named, Starters
    <3> QED BY <1>2, <2>1, <3>1, EndsTyped, RequestOnly DEF Insert
  <2>2. CASE \E a \in Assessments :
                /\ status[a] = "absent"
                /\ status' = [status EXCEPT ![a] = "pending"]
                /\ Begin(c, a, "start", "end")
    <3>1. PICK a \in Assessments :
                /\ status[a] = "absent"
                /\ status' = [status EXCEPT ![a] = "pending"]
                /\ Begin(c, a, "start", "end")
      BY <2>2
    <3>2. /\ pc' = [pc EXCEPT ![c] = "start"] /\ target' = [target EXCEPT ![c] = a]
          /\ verdict' = [verdict EXCEPT ![c] = "none"]
      BY <3>1, BeginTyped
    <3>3. UNCHANGED <<temporal, faults>>
      BY <1>2 DEF Insert
    <3>4. TypeOK'
      BY <3>1, <3>3, BeginTyped DEF TypeOK, temporal, Active
    <3>5. Targets' /\ Verdicts'
      BY <3>1, <3>2, <3>3 DEF TypeOK, temporal, Targets, Verdicts, Named
    <3>6. Starts'
      BY <3>1, <3>2, <3>3 DEF TypeOK, temporal, Targets, Starts, Named, Starters, Unstarted
    <3>7. Executions'
      BY <3>1, <3>3 DEF TypeOK, temporal, Unstarted, Finished, LateFailures, FailedIsOver
    <3> QED BY <3>4, <3>5, <3>6, <3>7
  <2>3. ~(\A a \in Assessments : status[a] # "absent") =>
          (CHOOSE n \in Assessments : status[n] = "absent") \in
             {n \in Assessments : status[n] = "absent"}
    OBVIOUS
  <2> QED BY <1>2, <2>1, <2>2, <2>3 DEF Insert
<1>3. CASE Start(c)
  BY <1>3, RequestOnly DEF Start, Goto, TypeOK, temporal, Targets, Verdicts, Starts, Named, Starters
<1>4. CASE MarkFailed(c)
  <2>1. target[c] \in Assessments /\ Update(target[c], "failed") /\ Ends(c)
    BY <1>4 DEF MarkFailed, Targets, Named
  <2>2. TypeOK'
    BY <1>4, <2>1, UpdateLaws, EndsTyped DEF MarkFailed, TypeOK, temporal
  <2>3. Targets' /\ Verdicts'
    BY <1>4, <2>1, UpdateLaws, EndsTyped DEF MarkFailed, TypeOK, temporal, Targets, Verdicts, Named
  <2>4. Starts'
    BY <1>4, <2>1, UpdateLaws, EndsTyped DEF MarkFailed, TypeOK, temporal, Targets,
       Starts, Named, Starters
  <2>5. Executions'
    BY <1>4, <2>1, UpdateLaws DEF MarkFailed, TypeOK, temporal, Starts, Starters, Unstarted,
       Finished, LateFailures, FailedIsOver, Terminal, Working
  <2> QED BY <2>2, <2>3, <2>4, <2>5
<1>5. CASE ExecuteOk(c)
  <2>1. target[c] \in Assessments /\ Enter(target[c], "solving") /\ Ends(c)
    BY <1>5 DEF ExecuteOk, Targets, Named
  <2>2. TypeOK'
    BY <1>5, <2>1, EndsTyped DEF ExecuteOk, Enter, TypeOK, Open, Working
  <2>3. Targets' /\ Verdicts' /\ Starts'
    BY <1>5, <2>1, EndsTyped DEF ExecuteOk, Enter, TypeOK, Targets, Verdicts, Starts,
       Named, Starters, Closed
  <2>4. Executions'
    BY <1>5, <2>1 DEF ExecuteOk, Enter, TypeOK, Targets, Starts, Named, Starters, Unstarted,
       Finished, LateFailures, FailedIsOver, Closed
  <2> QED BY <2>2, <2>3, <2>4
<1>6. CASE ExecuteRejected(c)
  BY <1>6, RequestOnly DEF ExecuteRejected, Goto, TypeOK, temporal, Targets, Verdicts, Starts,
     Named, Starters
<1>7. CASE ExecuteUncertain(c)
  <2>1. target[c] \in Assessments /\ Ends(c)
    BY <1>7 DEF ExecuteUncertain, Targets, Named
  <2>2. TypeOK'
    BY <1>7, <2>1, EndsTyped, RatingAssumption DEF ExecuteUncertain, Fault, TypeOK
  <2>3. Targets' /\ Verdicts' /\ Starts'
    BY <1>7, <2>1, EndsTyped DEF ExecuteUncertain, TypeOK, Targets, Verdicts, Starts,
       Named, Starters
  <2>4. Executions'
    BY <1>7, <2>1 DEF ExecuteUncertain, TypeOK, Targets, Starts, Named, Starters, Unstarted,
       Finished, LateFailures, FailedIsOver, Closed, Working
  <2> QED BY <2>2, <2>3, <2>4
<1> QED BY <1>1, <1>2, <1>3, <1>4, <1>5, <1>6, <1>7

\* Cancelling, and a request that ends early.
LEMMA CancelSteps ==
  ASSUME IInv, NEW c \in Callers,
         Cancel(c) \/ CancelAccepted(c) \/ CancelErrs(c) \/ CancelConfirm(c) \/ Dies(c)
  PROVE IInv'
<1> USE DEF IInv, Requests, Executions
<1>1. CASE Cancel(c)
  <2>1. PICK a \in Assessments : status[a] \in Active /\ Begin(c, a, "cancel", "end")
    BY <1>1 DEF Cancel
  <2>2. /\ pc' = [pc EXCEPT ![c] = "cancel"] /\ target' = [target EXCEPT ![c] = a]
        /\ verdict' = [verdict EXCEPT ![c] = "none"]
    BY <2>1, BeginTyped
  <2>3. Targets' /\ Verdicts' /\ Starts'
    BY <1>1, <2>1, <2>2 DEF Cancel, TypeOK, Active, temporal, Targets, Verdicts, Starts,
       Named, Starters
  <2> QED BY <1>1, <2>1, <2>3, BeginTyped, RequestOnly DEF Cancel
<1>2. CASE CancelAccepted(c)
  BY <1>2 DEF CancelAccepted, Persists, Goto, TypeOK, Terminal, Targets, Verdicts, Starts,
     Named, Starters, Unstarted, Finished, LateFailures, FailedIsOver
<1>3. CASE CancelErrs(c)
  BY <1>3, RatingAssumption DEF CancelErrs, Fault, Goto, TypeOK, Terminal, Targets, Verdicts,
     Starts, Named, Starters, Unstarted, Finished, LateFailures, FailedIsOver
<1>4. CASE CancelConfirm(c)
  <2>1. CASE Ends(c)
    <3>1. Targets' /\ Verdicts' /\ Starts'
      BY <1>4, <2>1, EndsTyped DEF CancelConfirm, TypeOK, temporal, Targets, Verdicts, Starts,
         Named, Starters
    <3> QED BY <1>4, <2>1, <3>1, EndsTyped, RequestOnly DEF CancelConfirm
  <2>2. CASE /\ wf[target[c]] \notin Open
             /\ Persists(c, IF wf[target[c]] = "none" THEN "cancelled" ELSE Reconciled[wf[target[c]]])
    BY <1>4, <2>2, RequestOnly DEF CancelConfirm, Persists, Goto, Reconciled, TypeOK, Open, Closed,
       Terminal, temporal, Targets, Verdicts, Starts, Named, Starters
  <2> QED BY <1>4, <2>1, <2>2 DEF CancelConfirm
<1>5. CASE Dies(c)
  <2>1. TypeOK'
    BY <1>5, EndsTyped, RatingAssumption DEF Dies, Fault, TypeOK, temporal
  <2>2. Targets' /\ Verdicts' /\ Starts'
    BY <1>5, EndsTyped DEF Dies, TypeOK, temporal, Targets, Verdicts, Starts,
       Named, Starters
  <2>3. Executions'
    BY <1>5 DEF Dies, temporal, Unstarted, Finished, LateFailures, FailedIsOver
  <2> QED BY <2>1, <2>2, <2>3
<1> QED BY <1>1, <1>2, <1>3, <1>4, <1>5

\* The invariant survives every step, and stuttering.
LEMMA NextIInv == IInv /\ [Next]_vars => IInv'
<1> SUFFICES ASSUME IInv, [Next]_vars PROVE IInv'
  OBVIOUS
<1>1. CASE UNCHANGED vars
  BY <1>1 DEF vars, temporal, request, IInv, TypeOK, Requests, Executions, Targets, Verdicts,
     Starts, Unstarted, Finished, LateFailures, FailedIsOver
<1>2. CASE Next
  BY <1>2, WorkflowSteps, LossSteps, PollSteps, CreateSteps, CancelSteps
     DEF Next, Poll, Administer, Callers
<1> QED BY <1>1, <1>2

\* Every variable has its type.
THEOREM TypeCorrect == Spec => []TypeOK
<1>1. IInv => TypeOK
  BY DEF IInv
<1> QED BY <1>1, InitIInv, NextIInv, PTL DEF Spec

\* An execution that completed has its report in the row.
THEOREM CompletionsRecorded == Spec => []CompletedIsRecorded
<1>1. IInv => CompletedIsRecorded
  BY DEF IInv, Executions, Finished, CompletedIsRecorded
<1> QED BY <1>1, InitIInv, NextIInv, PTL DEF Spec

\* A row is only failed when no work for it goes on or can still begin.
THEOREM FailuresAreOver == Spec => []FailedIsOver
<1>1. IInv => FailedIsOver
  BY DEF IInv, Executions
<1> QED BY <1>1, InitIInv, NextIInv, PTL DEF Spec

(***************************************************************************)
(* Decisions, calibrations and assembled sets                              *)
(***************************************************************************)
\* What a request has read of the problem, and knows to stand, is still there.
SubjectHeld ==
    \A p \in People :
        step[p] \in {"official", "feedback", "collect", "choose", "decide", "save", "confirm"} =>
            /\ page[p].text \in Texts
            /\ "subject" \in known[p] => page[p].text = text

\* A snapshot of feedback it has read is the last one, or an earlier one.
FeedbackHeld ==
    \A p \in People :
        step[p] \in {"choose", "decide", "save"} =>
            IF "feedback" \in known[p]
            THEN page[p].feedback = feedback[page[p].text]
            ELSE page[p].feedback < feedback[page[p].text]

\* A decision it has read is the last one, or an earlier one.
DecisionHeld ==
    \A p \in People :
        step[p] \in {"feedback", "choose", "decide", "subject", "confirm"} =>
            IF "decision" \in known[p]
            THEN page[p].decision = official.decision
            ELSE page[p].decision < official.decision

\* A preview knows what text the decision was about.
PreviewHeld ==
    \A p \in People :
        step[p] \in {"subject", "confirm"} /\ "decision" \in known[p] =>
            page[p].text = official.text

Held == SubjectHeld /\ FeedbackHeld /\ DecisionHeld /\ PreviewHeld

DecisionInv == DecisionTypeOK /\ Held

LEMMA InitDecisionInv == DecisionInit => DecisionInv
<1> SUFFICES ASSUME DecisionInit PROVE DecisionInv
  OBVIOUS
<1>1. (CHOOSE t \in Texts : TRUE) \in Texts
  BY DecisionAssumption
<1>2. DecisionTypeOK
  BY <1>1, DecisionAssumption DEF DecisionInit, DecisionTypeOK, NoPage, Numbers, Ready
<1>3. Held
  BY DEF DecisionInit, Held, SubjectHeld, FeedbackHeld, DecisionHeld, PreviewHeld
<1> QED BY <1>2, <1>3 DEF DecisionInv

\* Editors, reviewers and assessments.
LEMMA WriterSteps ==
  ASSUME DecisionInv, NEW t \in Texts, Edit(t) \/ Assess(t) \/ SubmitFeedback(t)
  PROVE DecisionInv'
<1> USE DEF DecisionInv, Held
<1>1. CASE Edit(t)
  BY <1>1 DEF Edit, DecisionTypeOK, SubjectHeld, FeedbackHeld, DecisionHeld, PreviewHeld
<1>2. CASE Assess(t)
  BY <1>2, DecisionAssumption
     DEF Assess, Record, Evidence, Kinds, Numbers, DecisionTypeOK, SubjectHeld, FeedbackHeld,
         DecisionHeld, PreviewHeld
<1>3. CASE SubmitFeedback(t)
  <2>1. DecisionTypeOK'
    BY <1>3, DecisionAssumption DEF SubmitFeedback, Numbers, DecisionTypeOK
  <2>2. Held'
    BY <1>3, DecisionAssumption
       DEF SubmitFeedback, Numbers, DecisionTypeOK, SubjectHeld, FeedbackHeld, DecisionHeld,
           PreviewHeld
  <2> QED BY <2>1, <2>2
<1> QED BY <1>1, <1>2, <1>3

\* Opening and reading a page.
LEMMA PageSteps ==
  ASSUME DecisionInv, NEW d \in Deciders,
         \/ OpenPage(d, "official") \/ OpenPage(d, "collect")
         \/ ReadOfficial(d) \/ ReadFeedback(d) \/ \E e \in evidence : Choose(d, e)
  PROVE DecisionInv'
<1> USE DEF DecisionInv, Held, Turn, Knows
<1>0. d \in People
  BY DEF People
<1>1. ASSUME NEW n \in {"official", "collect"}, OpenPage(d, n)
      PROVE DecisionInv'
  <2>1. DecisionTypeOK'
    BY <1>0, <1>1, DecisionAssumption DEF OpenPage, NoPage, Numbers, Ready, DecisionTypeOK
  <2>2. Held'
    BY <1>0, <1>1 DEF OpenPage, NoPage, DecisionTypeOK, SubjectHeld, FeedbackHeld, DecisionHeld,
       PreviewHeld
  <2> QED BY <2>1, <2>2
<1>2. CASE ReadOfficial(d)
  <2>1. DecisionTypeOK'
    BY <1>0, <1>2 DEF ReadOfficial, ShownDecision, DecisionTypeOK
  <2>2. Held'
    BY <1>0, <1>2 DEF ReadOfficial, ShownDecision, DecisionTypeOK, SubjectHeld, FeedbackHeld,
       DecisionHeld, PreviewHeld
  <2> QED BY <2>1, <2>2
<1>3. CASE ReadFeedback(d)
  <2>1. page[d].text \in Texts
    BY <1>0, <1>3 DEF ReadFeedback, SubjectHeld
  <2>2. DecisionTypeOK'
    BY <1>0, <1>3, <2>1 DEF ReadFeedback, DecisionTypeOK
  <2>3. Held'
    BY <1>0, <1>3, <2>1 DEF ReadFeedback, DecisionTypeOK, SubjectHeld, FeedbackHeld,
       DecisionHeld, PreviewHeld
  <2> QED BY <2>2, <2>3
<1>4. ASSUME NEW e \in evidence, Choose(d, e)
      PROVE DecisionInv'
  <2>1. DecisionTypeOK'
    BY <1>0, <1>4 DEF Choose, DecisionTypeOK
  <2>2. Held'
    BY <1>0, <1>4 DEF Choose, DecisionTypeOK, SubjectHeld, FeedbackHeld, DecisionHeld, PreviewHeld
  <2> QED BY <2>1, <2>2
<1> QED BY <1>1, <1>2, <1>3, <1>4

\* A request that ends has read nothing; the others keep what they have.
LEMMA ForgetHeld ==
  ASSUME DecisionInv, NEW p \in People, NEW s \in {"idle", "accepted", "conflict"},
         Turn(p, s), Forget(p), UNCHANGED <<text, feedback, official>>, evidence' \subseteq Evidence
  PROVE DecisionInv'
<1>1. DecisionTypeOK'
  BY DecisionAssumption DEF DecisionInv, DecisionTypeOK, Turn, Forget, NoPage, Numbers, Ready
<1>2. Held'
  BY DEF DecisionInv, DecisionTypeOK, Turn, Forget, Held, SubjectHeld, FeedbackHeld, DecisionHeld,
     PreviewHeld
<1> QED BY <1>1, <1>2 DEF DecisionInv

\* Calibrating and deciding.
LEMMA AnswerSteps ==
  ASSUME DecisionInv, NEW d \in Deciders,
         SaveCalibration(d) \/ Rate(d) \/ Note(d) \/ Conflict(d)
  PROVE DecisionInv'
<1>0. d \in People
  BY DEF People
<1>1. CASE SaveCalibration(d)
  BY <1>0, <1>1, ForgetHeld
     DEF SaveCalibration, Record, Evidence, Kinds, DecisionInv, DecisionTypeOK
<1>2. CASE Rate(d)
  <2>1. DecisionTypeOK'
    BY <1>0, <1>2, DecisionAssumption
       DEF Rate, Turn, NoPage, Numbers, Ready, DecisionInv, DecisionTypeOK
  <2>2. Held'
    BY <1>0, <1>2, DecisionAssumption
       DEF Rate, Turn, DecisionInv, DecisionTypeOK, Held, SubjectHeld, FeedbackHeld, DecisionHeld,
           PreviewHeld
  <2> QED BY <2>1, <2>2 DEF DecisionInv
<1>3. CASE Note(d)
  BY <1>0, <1>3, ForgetHeld DEF Note, DecisionInv, DecisionTypeOK
<1>4. CASE Conflict(d)
  BY <1>0, <1>4, ForgetHeld DEF Conflict, DecisionInv, DecisionTypeOK
<1> QED BY <1>1, <1>2, <1>3, <1>4

\* Assembling, and giving up.
LEMMA AuthorSteps ==
  ASSUME DecisionInv, NEW p \in People,
         Preview(p) \/ Offer(p) \/ Confirm(p) \/ Drop(p)
  PROVE DecisionInv'
<1>1. CASE Preview(p)
  <2>1. DecisionTypeOK'
    BY <1>1, DecisionAssumption DEF Preview, Turn, Numbers, Ready, DecisionInv, DecisionTypeOK
  <2>2. Held'
    BY <1>1 DEF Preview, Turn, DecisionInv, DecisionTypeOK, Held, SubjectHeld,
       FeedbackHeld, DecisionHeld, PreviewHeld
  <2> QED BY <2>1, <2>2 DEF DecisionInv
<1>2. CASE Offer(p)
  <2>1. CASE text = page[p].text
    BY <1>2, <2>1 DEF Offer, Turn, Knows, DecisionInv, DecisionTypeOK, Held, SubjectHeld,
       FeedbackHeld, DecisionHeld, PreviewHeld
  <2>2. CASE text # page[p].text
    BY <1>2, <2>2, ForgetHeld DEF Offer, DecisionInv, DecisionTypeOK
  <2> QED BY <2>1, <2>2
<1>3. CASE Confirm(p)
  BY <1>3, ForgetHeld DEF Confirm, DecisionInv, DecisionTypeOK
<1>4. CASE Drop(p)
  BY <1>4, ForgetHeld DEF Drop, DecisionInv, DecisionTypeOK
<1> QED BY <1>1, <1>2, <1>3, <1>4

LEMMA NextDecisionInv == DecisionInv /\ [DecisionNext]_decisionVars => DecisionInv'
<1> SUFFICES ASSUME DecisionInv, [DecisionNext]_decisionVars PROVE DecisionInv'
  OBVIOUS
<1>1. CASE UNCHANGED decisionVars
  BY <1>1 DEF decisionVars, DecisionInv, DecisionTypeOK, Held, SubjectHeld, FeedbackHeld,
     DecisionHeld, PreviewHeld
<1>2. CASE DecisionNext
  BY <1>2, WriterSteps, PageSteps, AnswerSteps, AuthorSteps
     DEF DecisionNext, Decider, Author, People
<1> QED BY <1>1, <1>2

\* What one step may answer, and on what.
Answered(p) ==
    /\ step'[p] = "accepted" =>
          page[p].text = text /\ Relied(p) \ known[p] \subseteq {"subject"} /\ Fits(p)
    /\ step'[p] = "conflict" => ~(Relied(p) \subseteq known[p]) \/ ~Fits(p)

\* Decisions and calibrations are answered truly.
LEMMA DeciderAnswers ==
  ASSUME DecisionInv, NEW d \in People, SaveCalibration(d) \/ Rate(d) \/ Note(d) \/ Conflict(d)
  PROVE Answered(d)
<1> USE DEF DecisionInv, DecisionTypeOK, Held, SubjectHeld, FeedbackHeld, DecisionHeld
<1>1. CASE SaveCalibration(d)
  BY <1>1, DecisionAssumption
     DEF SaveCalibration, Turn, ReadNow, Answered, Relied, Fits, Numbers
<1>2. CASE Rate(d) \/ Note(d)
  BY <1>2, DecisionAssumption
     DEF Rate, Note, Turn, Agrees, ReadNow, Supports, Answered, Relied, Fits, Numbers
<1>3. CASE Conflict(d)
  BY <1>3, DecisionAssumption
     DEF Conflict, Turn, Agrees, ReadNow, Supports, Answered, Relied, Fits, Numbers
<1> QED BY <1>1, <1>2, <1>3

\* Sets are.
LEMMA AuthorAnswers ==
  ASSUME DecisionInv, NEW a \in People, Confirm(a)
  PROVE Answered(a)
  BY DecisionAssumption
     DEF Confirm, Verified, Turn, Answered, Relied, Fits, DecisionInv, DecisionTypeOK, Held,
         SubjectHeld, DecisionHeld, PreviewHeld

\* Every step answers truly, to everybody.
LEMMA NextAnswers ==
  ASSUME DecisionInv, DecisionNext, NEW p \in People, step'[p] # step[p]
  PROVE Answered(p)
<1> USE DEF DecisionInv, DecisionTypeOK
<1>1. CASE \E t \in Texts : Edit(t) \/ Assess(t) \/ SubmitFeedback(t)
  BY <1>1 DEF Edit, Assess, SubmitFeedback
<1>2. ASSUME NEW d \in Deciders, Decider(d)
      PROVE Answered(p)
  <2>1. d \in People
    BY DEF People
  <2>2. CASE OpenPage(d, "official") \/ OpenPage(d, "collect")
    BY <2>1, <2>2 DEF OpenPage, Turn, Answered
  <2>3. CASE ReadOfficial(d) \/ ReadFeedback(d) \/ \E e \in evidence : Choose(d, e)
    BY <2>1, <2>3 DEF ReadOfficial, ReadFeedback, Choose, Turn, Answered
  <2>4. CASE SaveCalibration(d) \/ Rate(d) \/ Note(d) \/ Conflict(d)
    <3>1. p = d
      BY <2>1, <2>4 DEF SaveCalibration, Rate, Note, Conflict, Turn
    <3> QED BY <2>4, <3>1, DeciderAnswers
  <2> QED BY <1>2, <2>2, <2>3, <2>4 DEF Decider
<1>3. ASSUME NEW a \in People, Preview(a) \/ Offer(a) \/ Confirm(a) \/ Drop(a)
      PROVE Answered(p)
  <2>1. CASE Preview(a) \/ Offer(a) \/ Drop(a)
    BY <2>1 DEF Preview, Offer, Drop, Turn, Answered
  <2>2. CASE Confirm(a)
    <3>1. p = a
      BY <2>2 DEF Confirm, Turn
    <3> QED BY <2>2, <3>1, AuthorAnswers
  <2> QED BY <1>3, <2>1, <2>2
<1> QED BY <1>1, <1>2, <1>3 DEF DecisionNext, Author, People

\* Every variable of the decisions has its type.
THEOREM DecisionTypeCorrect == DecisionSpec => []DecisionTypeOK
<1>1. DecisionInv => DecisionTypeOK
  BY DEF DecisionInv
<1> QED BY <1>1, InitDecisionInv, NextDecisionInv, PTL DEF DecisionSpec

\* A decision, a calibration or a set is accepted only if what it was made from still
\* holds and its evidence is about just that, and refused as a conflict only otherwise.
THEOREM AnswersAreTrue == DecisionSpec => AnsweredTruly
<1>1. DecisionInv /\ [DecisionNext]_decisionVars =>
        [\A p \in People : step'[p] # step[p] =>
           /\ step'[p] = "accepted" =>
                 page[p].text = text /\ Relied(p) \ known[p] \subseteq {"subject"} /\ Fits(p)
           /\ step'[p] = "conflict" => ~(Relied(p) \subseteq known[p]) \/ ~Fits(p)]_decisionVars
  BY NextAnswers DEF Answered, decisionVars
<1> QED BY <1>1, InitDecisionInv, NextDecisionInv, PTL DEF DecisionSpec, AnsweredTruly

=============================================================================

------------------------- MODULE StoreProblemProofs -------------------------
(***************************************************************************)
(* Theorems about StoreProblem, for any number of attempts, inputs,        *)
(* configurations, faults and interventions.                               *)
(*                                                                         *)
(* Two invariants: IInv says what attempts know of the operation and the   *)
(* input, and what was announced, whatever people do to the problem; on it *)
(* rests WInv, which says what an attempt that came so far relies on, as   *)
(* long as nobody deleted the problem.                                     *)
(***************************************************************************)
EXTENDS StoreProblem, TLAPS

\* What is there has been announced: a draft is not.
Told(reasons) == StatusOf(reasons) \in announced \cup {"draft"}

Out == {"idle", "over"}
Settled == {"evidence", "binding", "receipt", "complete"}
Reached == Settled \cup {"solutions", "tests", "cases", "metadata", "vector", "decide", "approve"}

\* What an attempt knows on its way.
Fits(a) ==
    /\ pc[a] \notin Out => work[a] \in Works /\ work[a].payload = operation.payload
    /\ pc[a] # "over" => answer[a] = None
    /\ pc[a] \in Reached => work[a].serial \in Serials
    /\ pc[a] \in {"evidence", "binding", "receipt"} => evidence
    /\ pc[a] \in {"binding", "receipt"} => work[a].digest \in Digests
    /\ (pc[a] = "tests" /\ phase[a] = "record") \/ pc[a] = "cases"
         => objects["tests"] = operation.payload
    /\ pc[a] \in Settled \cup {"approve"} => Told(work[a].reasons)

\* Only generated and rejected problems have evidence, and every further row was
\* paid for by a deletion.
Counted ==
    /\ evidence => kind # "imported"
    /\ serials <= touches + 1
    /\ row = None => serials <= touches

Completed == operation.status = "completed" => operation.result \in Results

\* Nothing exists before the operation.
Opened == operation.payload = None => row = None /\ \A s \in StepKeys : steps[s] = None

\* The files are there when the test rows are inserted.
Uploaded ==
    /\ DOMAIN objects = Objects
    /\ steps["tests"] # None =>
         steps["tests"] = operation.payload /\ objects["tests"] = operation.payload
    /\ row # None /\ "tests" \in row.assets => objects["tests"] = operation.payload

Public ==
    row # None /\ row.status = "published" =>
        row.assets = Assets /\ Active \in row.vectors /\ row.fresh

\* Whoever may publish has announced it, and what has not been decided is not public.
Announced ==
    /\ decided => "quarantined" \in announced
    /\ row # None /\ row.owned => "published" \in announced
    /\ kind = "generated" /\ ~decided /\ row # None => row.status = "generating" /\ ~row.owned
    /\ row # None /\ row.binding # None => Told(row.binding.reasons)

IInv ==
    /\ TypeOK /\ Counted /\ Completed /\ Opened
    /\ Uploaded /\ Public /\ Announced /\ ResultWasAnnounced
    /\ \A a \in Attempts : Fits(a)

-----------------------------------------------------------------------------
Places == StepKeys \cup {"idle", "recover", "create", "solutions", "cases", "decide", "approve",
                         "evidence", "complete", "failing", "over"}

InputTyped == kind \in Kinds /\ evidence \in BOOLEAN
OperationTyped ==
    operation \in [status : {"none", "in_progress", "failed", "completed"},
                   payload : Payloads \cup {None}, result : Results \cup {None}]
StepsTyped ==
    /\ DOMAIN steps = StepKeys
    /\ steps["tests"] \in Payloads \cup {None}
    /\ steps["metadata"] \in Serials \cup {None}
    /\ steps["vector"] \in Models \cup {None}
    /\ steps["binding"] \in Digests \cup {None} /\ steps["receipt"] \in Digests \cup {None}
RowTyped == row = None \/ row \in Rows
EventsTyped == announced \subseteq {"quarantined", "published"} /\ decided \in BOOLEAN
PlaceTyped == pc \in [Attempts -> Places] /\ phase \in [Attempts -> {"check", "apply", "record"}]
WorkTyped ==
    /\ work \in [Attempts -> {None} \cup Works]
    /\ answer \in [Attempts -> Results \cup {None}]
BoundsTyped ==
    /\ expired \subseteq Attempts
    /\ faults \in 0 .. MaxFaults /\ touches \in 0 .. MaxTouches
    /\ serials \in 0 .. MaxTouches + 1

Typed == /\ InputTyped /\ OperationTyped /\ StepsTyped /\ RowTyped /\ EventsTyped
         /\ PlaceTyped /\ WorkTyped /\ BoundsTyped

\* The type invariant in pieces.
LEMMA Pieces == TypeOK <=> Typed
  BY DEF TypeOK, Typed, InputTyped, OperationTyped, StepsTyped, RowTyped, EventsTyped,
         PlaceTyped, WorkTyped, BoundsTyped, Places, Serials, Rows, Works

\* The way on leads to a place of the activity.
LEMMA AfterPlaces ==
    ASSUME NEW s \in StepKeys
    PROVE  /\ After(s) \in {"cases", "vector", "decide", "receipt", "complete"}
           /\ After(s) = "cases" => s = "tests"
           /\ After(s) \in Settled => s \in Settled
           /\ After(s) = "receipt" => s = "binding"
  BY DEF After, StepKeys, Settled

\* The first attempt finds nothing.
LEMMA InitIInv == Init => IInv
<1> SUFFICES ASSUME Init PROVE IInv
  OBVIOUS
<1>1. TypeOK
  <2>1. OperationTyped /\ StepsTyped
    BY DEF Init, OperationTyped, StepsTyped, StepKeys
  <2>2. PlaceTyped /\ WorkTyped
    BY DEF Init, PlaceTyped, WorkTyped, Places
  <2>3. InputTyped /\ EventsTyped
    BY DEF Init, InputTyped, EventsTyped
  <2>4. RowTyped /\ BoundsTyped
    BY StoreAssumption DEF Init, RowTyped, BoundsTyped
  <2>5. QED
    BY <2>1, <2>2, <2>3, <2>4, Pieces DEF Typed
<1>2. Counted /\ Completed /\ Opened /\ Public
  BY StoreAssumption DEF Init, Counted, Completed, Opened, Public
<1>3. Uploaded /\ Announced /\ ResultWasAnnounced
  BY DEF Init, Uploaded, Announced, ResultWasAnnounced, StepKeys
<1>4. ASSUME NEW a \in Attempts
      PROVE  Fits(a)
  BY DEF Init, Fits, Out, Reached, Settled
<1>5. QED
  BY <1>1, <1>2, <1>3, <1>4 DEF IInv

-----------------------------------------------------------------------------
\* Who writes what.
LEMMA OperationChanges ==
    ASSUME Next
    PROVE  \/ UNCHANGED operation
           \/ \E a \in Attempts : \/ \E p \in Payloads, m \in Models : Begin(a, p, m)
                                  \/ Complete(a) \/ Fail(a)
  BY DEF Next, Progress, Step, BeginRefused, Recover, Create, InsertSolutions, InsertTestCases,
         Insert, CheckStep, RecordStep, Upload, StoreVector, Attach, DecideDraft, DecideReview,
         DecideGate, DecideLost, ApproveOwn, SkipApproval, BuildReceipt, Expire, Interrupt,
         Delete, Edit, Approve, Touch, database

\* Only RecordStep writes the steps.
LEMMA StepsChanges ==
    ASSUME Next
    PROVE  UNCHANGED steps \/ \E a \in Attempts, s \in StepKeys : RecordStep(a, s)
  BY DEF Next, Progress, Step, Begin, BeginRefused, Recover, Create, InsertSolutions,
         InsertTestCases, Insert, CheckStep, Upload, StoreVector, Attach, DecideDraft,
         DecideReview, DecideGate, DecideLost, ApproveOwn, SkipApproval, BuildReceipt,
         Complete, Fail, Expire, Interrupt, Delete, Edit, Approve, Touch, database

\* Only uploads write the object store.
LEMMA ObjectsChanges ==
    ASSUME Next
    PROVE  UNCHANGED objects \/ \E a \in Attempts, o \in Objects : Upload(a, o)
  BY DEF Next, Progress, Step, Begin, BeginRefused, Recover, Create, InsertSolutions,
         InsertTestCases, Insert, CheckStep, RecordStep, StoreVector, Attach, DecideDraft,
         DecideReview, DecideGate, DecideLost, ApproveOwn, SkipApproval, BuildReceipt,
         Complete, Fail, Expire, Interrupt, Delete, Edit, Approve, Touch

\* Who writes the row: eight steps of an attempt, and people.
LEMMA RowChanges ==
    ASSUME Next
    PROVE  \/ UNCHANGED row
           \/ \E a \in Attempts :
                 \/ Create(a) \/ InsertSolutions(a) \/ InsertTestCases(a) \/ StoreVector(a)
                 \/ DecideReview(a) \/ DecideGate(a) \/ ApproveOwn(a) \/ Attach(a)
           \/ Delete \/ Edit \/ Approve
  BY DEF Next, Progress, Step, Begin, BeginRefused, Recover, CheckStep, RecordStep, Upload,
         DecideDraft, DecideLost, SkipApproval, BuildReceipt, Complete, Fail, Expire, Interrupt,
         database

\* Who announces: the decisions.
LEMMA EventsChange ==
    ASSUME Next
    PROVE  \/ UNCHANGED announced /\ UNCHANGED decided
           \/ \E a \in Attempts : DecideReview(a) \/ DecideGate(a) \/ ApproveOwn(a)
           \/ Approve
<1>1. \/ UNCHANGED announced
      \/ \E a \in Attempts : DecideReview(a) \/ DecideGate(a) \/ ApproveOwn(a)
      \/ Approve
  BY DEF Next, Progress, Step, Begin, BeginRefused, Recover, Create, InsertSolutions,
         InsertTestCases, Insert, CheckStep, RecordStep, Upload, StoreVector, Attach,
         DecideDraft, DecideLost, SkipApproval, BuildReceipt, Complete, Fail, Expire,
         Interrupt, Delete, Edit, Touch, database
<1>2. UNCHANGED decided \/ \E a \in Attempts : DecideGate(a)
  BY DEF Next, Progress, Step, Begin, BeginRefused, Recover, Create, InsertSolutions,
         InsertTestCases, Insert, CheckStep, RecordStep, Upload, StoreVector, Attach,
         DecideDraft, DecideReview, DecideLost, ApproveOwn, SkipApproval, BuildReceipt,
         Complete, Fail, Expire, Interrupt, Delete, Edit, Approve, Touch, database
<1>3. QED
  BY <1>1, <1>2

\* Who is answered: at the beginning or at the end.
LEMMA AnswerChanges ==
    ASSUME Next
    PROVE  \/ UNCHANGED answer
           \/ \E a \in Attempts : \/ \E p \in Payloads, m \in Models : Begin(a, p, m)
                                  \/ Complete(a)
  BY DEF Next, Progress, Step, BeginRefused, Recover, Create, InsertSolutions, InsertTestCases,
         Insert, CheckStep, RecordStep, Upload, StoreVector, Attach, DecideDraft, DecideReview,
         DecideGate, DecideLost, ApproveOwn, SkipApproval, BuildReceipt, Fail, Expire,
         Interrupt, Delete, Edit, Approve, Touch, attempt

\* Who moves the bounds.
LEMMA BoundsChange ==
    ASSUME Next
    PROVE  \/ UNCHANGED bounds
           \/ \E a \in Attempts : Create(a) \/ Expire(a) \/ Interrupt(a)
           \/ Touch
  BY DEF Next, Progress, Step, Begin, BeginRefused, Recover, InsertSolutions, InsertTestCases,
         Insert, CheckStep, RecordStep, Upload, StoreVector, Attach, DecideDraft, DecideReview,
         DecideGate, DecideLost, ApproveOwn, SkipApproval, BuildReceipt, Complete, Fail,
         Delete, Edit, Approve

\* Input and deployment stay.
LEMMA InputKept == Next => UNCHANGED <<kind, evidence>>
  BY DEF Next, Progress, Step, Begin, BeginRefused, Recover, Create, InsertSolutions,
         InsertTestCases, Insert, CheckStep, RecordStep, Upload, StoreVector, Attach,
         DecideDraft, DecideReview, DecideGate, DecideLost, ApproveOwn, SkipApproval,
         BuildReceipt, Complete, Fail, Expire, Interrupt, Delete, Edit, Approve, Touch, input

\* An attempt moves by itself, to a place of the activity.
Moved(a) ==
    \/ \E s \in Places \ {"idle"} : Goto(a, s)
    \/ UNCHANGED pc /\ \E f \in {"apply", "record"} : phase' = [phase EXCEPT ![a] = f]

\* Whatever an attempt does, it moves.
LEMMA AttemptsMove ==
    ASSUME NEW a \in Attempts, Progress(a) \/ Interrupt(a)
    PROVE  Moved(a)
<1>1. ASSUME NEW s \in StepKeys, CheckStep(a, s) \/ RecordStep(a, s)
      PROVE  Moved(a)
  <2>1. After(s) \in Places \ {"idle"} /\ "failing" \in Places \ {"idle"}
    BY AfterPlaces DEF Places, StepKeys
  <2>2. QED
    BY <1>1, <2>1 DEF CheckStep, RecordStep, Moved
<1>2. CASE \/ \E o \in Objects : Upload(a, o)
           \/ StoreVector(a) \/ Attach(a)
  BY <1>2 DEF Upload, StoreVector, Attach, Applied, Moved, Places
<1>3. CASE \/ \E p \in Payloads, m \in Models : Begin(a, p, m)
           \/ \E p \in Payloads : BeginRefused(a, p)
           \/ Recover(a) \/ Create(a) \/ InsertSolutions(a) \/ InsertTestCases(a)
  BY <1>3 DEF Begin, BeginRefused, Recover, Create, InsertSolutions, InsertTestCases, Insert,
              Moved, Places, StepKeys
<1>4. CASE \/ DecideDraft(a) \/ DecideReview(a) \/ DecideGate(a) \/ DecideLost(a)
           \/ ApproveOwn(a) \/ SkipApproval(a)
  BY <1>4 DEF DecideDraft, DecideReview, DecideGate, DecideLost, ApproveOwn, SkipApproval,
              Conclude, AfterDecision, Moved, Places
<1>5. CASE BuildReceipt(a) \/ Complete(a) \/ Fail(a) \/ Interrupt(a)
  BY <1>5 DEF BuildReceipt, Complete, Fail, Interrupt, Moved, Places, StepKeys
<1>6. QED
  BY <1>1, <1>2, <1>3, <1>4, <1>5 DEF Progress, Step

\* Expirations and people move no attempt.
LEMMA PlaceChanges ==
    ASSUME Next
    PROVE  \/ UNCHANGED <<pc, phase>>
           \/ \E a \in Attempts : Progress(a) \/ Interrupt(a)
  BY DEF Next, Expire, Delete, Edit, Approve, Touch, attempt

-----------------------------------------------------------------------------
\* An attempt on its way knows the input the operation is about.
LEMMA OnTheWay ==
    ASSUME IInv, NEW a \in Attempts, pc[a] \notin Out
    PROVE  /\ work[a] \in Works
           /\ work[a].payload = operation.payload
           /\ operation.payload \in Payloads /\ operation.payload # None
           /\ answer[a] = None
  BY StoreAssumption DEF IInv, Fits, Works, Out

\* An attempt that is through has a result.
LEMMA ResultTyped ==
    ASSUME IInv, NEW a \in Attempts, pc[a] = "complete"
    PROVE  ResultOf(a) \in Results
<1>1. work[a] \in Works /\ work[a].serial \in Serials
  BY DEF IInv, Fits, Out, Reached, Settled
<1>2. QED
  BY <1>1 DEF ResultOf, Results, Works, Serials

\* What a step of the activity makes of the operation: its input is fixed, and its
\* result is that of an attempt that is through.
LEMMA OperationStep ==
    ASSUME IInv, Next
    PROVE  /\ OperationTyped'
           /\ Completed'
           /\ operation.payload # None => operation'.payload = operation.payload
           /\ \/ operation'.result = operation.result
              \/ \E a \in Attempts : pc[a] = "complete" /\ operation'.result = ResultOf(a)
<1> USE DEF OperationTyped
<1>0. OperationTyped /\ Completed
  BY Pieces DEF IInv, Typed
<1>1. CASE UNCHANGED operation
  BY <1>0, <1>1 DEF Completed
<1>2. ASSUME NEW a \in Attempts, NEW p \in Payloads, NEW m \in Models, Begin(a, p, m)
      PROVE  /\ OperationTyped' /\ Completed'
             /\ operation.payload # None => operation'.payload = operation.payload
             /\ operation'.result = operation.result
  <2>1. \/ UNCHANGED operation
        \/ operation' = [operation EXCEPT !.status = "in_progress", !.payload = p]
    BY <1>2 DEF Begin
  <2>2. operation.payload \in {None, p}
    BY <1>2 DEF Begin, PayloadAccepted
  <2>3. QED
    BY <1>0, <2>1, <2>2 DEF Completed
<1>3. ASSUME NEW a \in Attempts, Complete(a)
      PROVE  /\ OperationTyped' /\ Completed'
             /\ operation.payload # None => operation'.payload = operation.payload
             /\ \/ operation'.result = operation.result
                \/ pc[a] = "complete" /\ operation'.result = ResultOf(a)
  <2>1. pc[a] = "complete" /\ ResultOf(a) \in Results
    BY <1>3, ResultTyped DEF Complete
  <2>2. \/ UNCHANGED operation
        \/ operation' = [operation EXCEPT !.status = "completed", !.result = ResultOf(a)]
    BY <1>3 DEF Complete
  <2>3. QED
    BY <1>0, <2>1, <2>2 DEF Completed
<1>4. ASSUME NEW a \in Attempts, Fail(a)
      PROVE  /\ OperationTyped' /\ Completed'
             /\ operation.payload # None => operation'.payload = operation.payload
             /\ operation'.result = operation.result
  <2>1. \/ UNCHANGED operation
        \/ operation' = [operation EXCEPT !.status = "failed"]
    BY <1>4 DEF Fail, Failed
  <2>2. QED
    BY <1>0, <2>1 DEF Completed
<1>5. QED
  BY <1>1, <1>2, <1>3, <1>4, OperationChanges

\* An attempt decides on what it knows.
LEMMA HashTyped ==
    ASSUME IInv, NEW a \in Attempts, NEW s \in StepKeys, pc[a] = s
    PROVE  /\ s = "tests" => Hash(a, s) = operation.payload /\ Hash(a, s) \in Payloads
           /\ s = "metadata" => Hash(a, s) \in Serials
           /\ s = "vector" => Hash(a, s) \in Models
           /\ s \in {"binding", "receipt"} => Hash(a, s) \in Digests
<1>1. /\ work[a] \in Works /\ work[a].payload = operation.payload
      /\ work[a].serial \in Serials
      /\ s \in {"binding", "receipt"} => work[a].digest \in Digests
  BY DEF IInv, Fits, Out, Reached, Settled, StepKeys
<1>2. QED
  BY <1>1 DEF Hash, StepKeys, Works

\* A step that is recorded was recorded before, or is recorded by an attempt that has
\* applied it.
LEMMA StepsStep ==
    ASSUME IInv, Next
    PROVE  /\ StepsTyped'
           /\ \/ UNCHANGED steps
              \/ \E a \in Attempts, s \in StepKeys :
                    /\ pc[a] = s /\ phase[a] = "record"
                    /\ steps' = [steps EXCEPT ![s] = IF @ = None THEN Hash(a, s) ELSE @]
<1>0. StepsTyped
  BY Pieces DEF IInv, Typed
<1>1. CASE UNCHANGED steps
  BY <1>0, <1>1 DEF StepsTyped
<1>2. ASSUME NEW a \in Attempts, NEW s \in StepKeys, RecordStep(a, s)
      PROVE  /\ StepsTyped'
             /\ pc[a] = s /\ phase[a] = "record"
             /\ steps' = [steps EXCEPT ![s] = IF @ = None THEN Hash(a, s) ELSE @]
  <2>1. /\ pc[a] = s /\ phase[a] = "record"
        /\ steps' = [steps EXCEPT ![s] = IF @ = None THEN Hash(a, s) ELSE @]
    BY <1>2 DEF RecordStep
  <2>2. StepsTyped'
    BY <1>0, <2>1, HashTyped DEF StepsTyped, StepKeys
  <2>3. QED
    BY <2>1, <2>2
<1>3. QED
  BY <1>1, <1>2, StepsChanges

\* What a decision makes of a row.
LEMMA Deciding ==
    ASSUME NEW r \in Rows
    PROVE  /\ GateReasons(r) \in Digests /\ "draft" \notin GateReasons(r)
           /\ r.owned \/ "rights" \in GateReasons(r)
           /\ GateReasons(r) = {} => r.assets = Assets /\ Active \in r.vectors /\ r.fresh
           /\ Blocking(r) = {} /\ r.owned => GateReasons(r) = {}
  BY SMTT(30) DEF GateReasons, Blocking, Rows, Digests, Reasons, Blockers, Assets

\* The statuses of the reasons that occur.
LEMMA Statuses ==
    ASSUME NEW reasons
    PROVE  /\ StatusOf(reasons) \in {"draft", "quarantined", "published"}
           /\ StatusOf(reasons) = "published" <=> reasons = {}
           /\ reasons # {} /\ "draft" \notin reasons => StatusOf(reasons) = "quarantined"
           /\ StatusOf({"draft"}) = "draft"
           /\ StatusOf({"review"}) = "quarantined"
           /\ StatusOf({}) = "published"
<1>1. {"draft"} # {} /\ {"review"} # {"draft"} /\ {"review"} # {}
  OBVIOUS
<1>2. "draft" \notin reasons => reasons # {"draft"}
  OBVIOUS
<1>3. QED
  BY <1>1, <1>2 DEF StatusOf

\* A gate changes the status of a row and the decision stored with it.
LEMMA GatedRow ==
    ASSUME NEW r \in Rows
    PROVE  /\ Gated(r) \in Rows
           /\ Gated(r).status = StatusOf(GateReasons(r))
           /\ Gated(r).serial = r.serial /\ Gated(r).assets = r.assets
           /\ Gated(r).vectors = r.vectors /\ Gated(r).fresh = r.fresh
           /\ Gated(r).owned = r.owned /\ Gated(r).binding = r.binding
<1>1. /\ GateReasons(r) \in Digests
      /\ StatusOf(GateReasons(r)) \in {"draft", "quarantined", "published"}
  BY Deciding, Statuses
<1>2. QED
  BY <1>1 DEF Gated, Rows

\* The row of an approval.
Own(r) == [r EXCEPT !.owned = TRUE]

\* An approval of a row nothing blocks leaves no reason.
LEMMA OwnRow ==
    ASSUME NEW r \in Rows
    PROVE  /\ Own(r) \in Rows /\ Own(r).owned = TRUE
           /\ Own(r).serial = r.serial /\ Own(r).assets = r.assets
           /\ Own(r).vectors = r.vectors /\ Own(r).fresh = r.fresh
           /\ Own(r).binding = r.binding
           /\ Blocking(r) = {} => GateReasons(Own(r)) = {}
<1>1. /\ Own(r) \in Rows /\ Own(r).owned = TRUE
      /\ Own(r).serial = r.serial /\ Own(r).assets = r.assets
      /\ Own(r).vectors = r.vectors /\ Own(r).fresh = r.fresh
      /\ Own(r).binding = r.binding
  BY DEF Own, Rows
<1>2. Blocking(Own(r)) = Blocking(r)
  BY <1>1 DEF Blocking
<1>3. QED
  BY <1>1, <1>2, Deciding

\* The changes of the row and of the events go together.
LEMMA RowOrEventsChange ==
    ASSUME Next
    PROVE  \/ UNCHANGED <<row, announced, decided>>
           \/ \E a \in Attempts :
                 \/ Create(a) \/ InsertSolutions(a) \/ InsertTestCases(a) \/ StoreVector(a)
                 \/ DecideReview(a) \/ DecideGate(a) \/ ApproveOwn(a) \/ Attach(a)
           \/ Delete \/ Edit \/ Approve
  BY RowChanges, EventsChange

\* What has been announced stays announced.
LEMMA AnnouncedGrows == Next => announced \subseteq announced'
<1> SUFFICES ASSUME Next PROVE announced \subseteq announced'
  OBVIOUS
<1>1. ASSUME NEW a \in Attempts, DecideReview(a) \/ DecideGate(a) \/ ApproveOwn(a)
      PROVE  announced \subseteq announced'
  BY <1>1 DEF DecideReview, DecideGate, AnnounceDecision, ApproveOwn, ApplyApproval
<1>2. CASE Approve
  BY <1>2 DEF Approve, ApplyApproval
<1>3. QED
  BY <1>1, <1>2, EventsChange

\* What the row's invariants say of one row.
RowHolds == RowTyped /\ Public /\ Announced /\ EventsTyped

\* What the invariant says of the row.
LEMMA HoldsNow == IInv => RowHolds /\ kind \in {"generated", "rejected", "imported"}
                          /\ (row # None => row \in Rows)
  BY Pieces, StoreAssumption DEF IInv, Typed, RowHolds, RowTyped, InputTyped

\* A new row is not public, and was created within the bounds.
LEMMA CreateHolds ==
    ASSUME IInv, NEW a \in Attempts, Create(a), UNCHANGED kind
    PROVE  RowHolds' /\ row' # None
<1>0. /\ RowHolds /\ kind \in {"generated", "rejected", "imported"}
      /\ UNCHANGED announced /\ UNCHANGED decided
  BY HoldsNow DEF Create
<1>1. CASE row # None
  <2>1. row' = row
    BY <1>1 DEF Create
  <2>2. QED
    BY <1>0, <1>1, <2>1 DEF RowHolds, RowTyped, Public, Announced, EventsTyped, Told
<1>2. CASE row = None
  <2>1. row' = NewRow
    BY <1>2 DEF Create
  <2>2. serials + 1 \in Serials
    BY <1>2, StoreAssumption, Pieces
    DEF IInv, Counted, Typed, BoundsTyped, Serials
  <2>3. /\ InitialStatus \in {"generating", "quarantined", "draft"}
        /\ kind = "generated" => InitialStatus = "generating"
    BY <1>0 DEF InitialStatus
  <2>4. /\ row' \in Rows
        /\ row'.status # "published" /\ row'.binding = None /\ row'.owned = FALSE
        /\ kind = "generated" => row'.status = "generating"
    BY <2>1, <2>2, <2>3 DEF NewRow, Rows
  <2>5. QED
    BY <1>0, <2>4, NoneAssumption DEF RowHolds, RowTyped, Public, Announced, EventsTyped
<1>3. QED
  BY <1>1, <1>2

\* What is inserted adds to a row.
LEMMA GatherHolds ==
    ASSUME IInv, NEW a \in Attempts, UNCHANGED kind,
           InsertSolutions(a) \/ InsertTestCases(a) \/ StoreVector(a)
    PROVE  RowHolds' /\ (row # None => row' # None)
<1>0. /\ RowHolds
      /\ UNCHANGED announced /\ UNCHANGED decided
  BY HoldsNow DEF InsertSolutions, InsertTestCases, Insert, StoreVector
<1>1. CASE UNCHANGED row
  BY <1>0, <1>1, NoneAssumption DEF RowHolds, RowTyped, Public, Announced, EventsTyped, Told
<1>2. ASSUME row' # row
      PROVE  /\ row # None /\ row \in Rows /\ row' \in Rows
             /\ row'.status = row.status /\ row'.fresh = row.fresh /\ row'.owned = row.owned
             /\ row'.binding = row.binding
             /\ row.assets \subseteq row'.assets /\ row.vectors \subseteq row'.vectors
  <2>1. row # None /\ row \in Rows
    BY <1>2, HoldsNow DEF InsertSolutions, InsertTestCases, Insert, StoreVector
  <2>2. CASE InsertSolutions(a) \/ InsertTestCases(a)
    BY <1>2, <2>1, <2>2 DEF InsertSolutions, InsertTestCases, Insert, Rows, Assets
  <2>3. CASE StoreVector(a)
    <3>1. work[a].model \in Models
      BY <2>3, OnTheWay DEF StoreVector, Out, Works
    <3>2. QED
      BY <1>2, <2>1, <2>3, <3>1 DEF StoreVector, Rows
  <2>4. QED
    BY <2>1, <2>2, <2>3
<1>3. CASE row' # row
  <2>1. row'.assets \subseteq Assets
    BY <1>2, <1>3 DEF Rows
  <2>2. QED
    BY <1>0, <1>2, <1>3, <2>1, NoneAssumption
    DEF RowHolds, RowTyped, Public, Announced, EventsTyped, Told
<1>4. QED
  BY <1>1, <1>3

\* A binding is for reasons its attempt knows to be announced.
LEMMA AttachHolds ==
    ASSUME IInv, NEW a \in Attempts, UNCHANGED kind, Attach(a)
    PROVE  RowHolds' /\ (row # None => row' # None)
<1>0. /\ RowHolds
      /\ UNCHANGED announced /\ UNCHANGED decided
  BY HoldsNow DEF Attach
<1>1. CASE UNCHANGED row
  BY <1>0, <1>1, NoneAssumption DEF RowHolds, RowTyped, Public, Announced, EventsTyped, Told
<1>2. CASE row' # row
  <2>1. row # None /\ row \in Rows /\ row' = [row EXCEPT !.binding = Binding(a)]
    BY <1>2, HoldsNow DEF Attach, AttachAdmitted
  <2>2. /\ work[a] \in Works /\ work[a].digest \in Digests
        /\ Told(work[a].reasons)
    BY OnTheWay DEF Attach, IInv, Fits, Out, Settled
  <2>3. Binding(a) \in Bindings /\ Told(Binding(a).reasons)
    BY <2>2 DEF Binding, Bindings, Works
  <2>4. /\ row' \in Rows /\ row'.binding = Binding(a)
        /\ row'.status = row.status /\ row'.fresh = row.fresh /\ row'.owned = row.owned
        /\ row'.assets = row.assets /\ row'.vectors = row.vectors
    BY <2>1, <2>3 DEF Rows
  <2>5. QED
    BY <1>0, <2>1, <2>3, <2>4, NoneAssumption DEF RowHolds, RowTyped, Public, Announced,
       EventsTyped, Told
<1>3. QED
  BY <1>1, <1>2

\* A review quarantines.
LEMMA ReviewHolds ==
    ASSUME IInv, NEW a \in Attempts, UNCHANGED kind, DecideReview(a)
    PROVE  RowHolds' /\ (row # None => row' # None)
<1>0. /\ RowHolds /\ kind = "rejected" /\ row \in Rows /\ row # None
      /\ announced' = announced \cup {"quarantined"} /\ UNCHANGED decided
      /\ row' = [row EXCEPT !.status = "quarantined", !.reviewed = TRUE]
  BY HoldsNow DEF DecideReview
<1>1. /\ row' \in Rows /\ row'.status = "quarantined" /\ row'.owned = row.owned
      /\ row'.binding = row.binding
  BY <1>0 DEF Rows
<1>2. QED
  BY <1>0, <1>1, NoneAssumption DEF RowHolds, RowTyped, Public, Announced, EventsTyped, Told

\* The first gate finds nobody's approval, so it quarantines.
LEMMA GateHolds ==
    ASSUME IInv, NEW a \in Attempts, UNCHANGED kind, DecideGate(a)
    PROVE  RowHolds' /\ (row # None => row' # None) /\ StatusOf(GateReasons(row)) \in announced'
<1> DEFINE G == GateReasons(row)
<1>0. /\ RowHolds /\ kind = "generated" /\ row \in Rows /\ row # None
      /\ row' = Gated(row) /\ AnnounceDecision(G)
  BY HoldsNow DEF DecideGate
<1>1. /\ announced' = IF decided THEN announced ELSE announced \cup {StatusOf(G)}
      /\ decided'
  BY <1>0 DEF AnnounceDecision
<1>2. /\ G \in Digests /\ "draft" \notin G /\ (row.owned \/ "rights" \in G)
      /\ G = {} => row.assets = Assets /\ Active \in row.vectors /\ row.fresh
  BY <1>0, Deciding
<1>3. /\ StatusOf(G) \in {"quarantined", "published"}
      /\ StatusOf(G) = "published" <=> G = {}
  BY <1>2 DEF StatusOf
<1>4. ~decided => StatusOf(G) = "quarantined"
  <2>1. ~decided => ~row.owned
    BY <1>0 DEF RowHolds, Announced
  <2>2. QED
    BY <1>2, <1>3, <2>1
<1>5. "quarantined" \in announced'
  BY <1>0, <1>1, <1>4 DEF RowHolds, Announced
<1>6. G = {} => "published" \in announced
  BY <1>0, <1>2 DEF RowHolds, Announced
<1>7. StatusOf(G) \in announced'
  BY <1>1, <1>3, <1>5, <1>6
<1>8. /\ row' \in Rows /\ row'.status = StatusOf(G)
      /\ row'.assets = row.assets /\ row'.vectors = row.vectors /\ row'.fresh = row.fresh
      /\ row'.owned = row.owned /\ row'.binding = row.binding
  BY <1>0, GatedRow
<1> HIDE DEF G
<1>9. RowTyped' /\ EventsTyped'
  BY <1>0, <1>1, <1>3, <1>8 DEF RowHolds, RowTyped, EventsTyped
<1>10. Public'
  BY <1>2, <1>3, <1>8 DEF Public
<1>11. Announced'
  BY <1>0, <1>1, <1>5, <1>8 DEF RowHolds, Announced, Told
<1>12. QED
  BY <1>7, <1>8, <1>9, <1>10, <1>11, NoneAssumption DEF RowHolds, G

\* An approval, by the activity or by a human.
LEMMA ApprovalHolds ==
    ASSUME IInv, UNCHANGED <<kind, decided>>, Approvable, ApplyApproval
    PROVE  RowHolds' /\ (row # None => row' # None) /\ "published" \in announced'
<1>0. /\ RowHolds /\ row \in Rows /\ row # None
      /\ row.status \in {"quarantined", "published"} /\ Blocking(row) = {}
      /\ row' = Gated(Own(row)) /\ announced' = announced \cup {"published"}
  BY HoldsNow DEF Approvable, ApplyApproval, Own
<1>1. /\ Own(row) \in Rows /\ Own(row).owned = TRUE
      /\ Own(row).assets = row.assets /\ Own(row).vectors = row.vectors
      /\ Own(row).fresh = row.fresh /\ Own(row).binding = row.binding
      /\ GateReasons(Own(row)) = {}
  BY <1>0, OwnRow
<1>2. row.assets = Assets /\ Active \in row.vectors /\ row.fresh
  <2>1. Own(row).assets = Assets /\ Active \in Own(row).vectors /\ Own(row).fresh
    BY <1>1, Deciding
  <2>2. QED
    BY <1>1, <2>1
<1>3. /\ row' \in Rows /\ row'.owned = TRUE
      /\ row'.assets = row.assets /\ row'.vectors = row.vectors
      /\ row'.fresh = row.fresh /\ row'.binding = row.binding
  BY <1>0, <1>1, GatedRow
<1>4. kind = "generated" => decided
  BY <1>0 DEF RowHolds, Announced
<1>5. RowTyped' /\ EventsTyped'
  BY <1>0, <1>3 DEF RowHolds, RowTyped, EventsTyped
<1>6. Public'
  BY <1>2, <1>3 DEF Public
<1>7. Announced'
  BY <1>0, <1>3, <1>4 DEF RowHolds, Announced, Told
<1>8. QED
  BY <1>0, <1>3, <1>5, <1>6, <1>7, NoneAssumption DEF RowHolds

\* A deletion leaves nothing to ask of.
LEMMA DeleteHolds ==
    ASSUME IInv, UNCHANGED kind, Delete
    PROVE  RowHolds'
<1>0. RowHolds /\ row' = None /\ UNCHANGED announced /\ UNCHANGED decided
  BY HoldsNow DEF Delete, Touch
<1>1. QED
  BY <1>0 DEF RowHolds, RowTyped, Public, Announced, EventsTyped

\* An edit takes back what was public.
LEMMA EditHolds ==
    ASSUME IInv, UNCHANGED kind, Edit
    PROVE  RowHolds' /\ (row # None => row' # None)
<1>0. /\ RowHolds /\ row \in Rows /\ row # None /\ UNCHANGED announced /\ UNCHANGED decided
      /\ row.status # "generating"
      /\ row' = [row EXCEPT !.fresh = FALSE, !.owned = FALSE,
                            !.status = IF @ = "published" THEN "draft" ELSE @]
  BY HoldsNow DEF Edit, Touch
<1>1. /\ row' \in Rows /\ row'.status # "published" /\ row'.owned = FALSE
      /\ row'.binding = row.binding
  BY <1>0 DEF Rows
<1>2. kind = "generated" => decided
  BY <1>0 DEF RowHolds, Announced
<1>3. QED
  BY <1>0, <1>1, <1>2, NoneAssumption DEF RowHolds, RowTyped, Public, Announced, EventsTyped, Told

\* What a step of the activity or of people makes of the row and its events.
LEMMA RowStep ==
    ASSUME IInv, Next
    PROVE  RowHolds' /\ (row' = None => row = None \/ Delete)
<1> DEFINE Holds == RowHolds' /\ (row' = None => row = None \/ Delete)
<1>0. UNCHANGED kind
  BY InputKept
<1>1. CASE UNCHANGED <<row, announced, decided>>
  <2>1. RowHolds'
    BY <1>0, <1>1, HoldsNow DEF RowHolds, RowTyped, Public, Announced, EventsTyped, Told
  <2>2. QED
    BY <1>1, <2>1
<1>2. ASSUME NEW a \in Attempts,
             \/ Create(a) \/ InsertSolutions(a) \/ InsertTestCases(a) \/ StoreVector(a)
             \/ DecideReview(a) \/ DecideGate(a) \/ Attach(a)
      PROVE  Holds
  BY <1>0, <1>2, CreateHolds, GatherHolds, ReviewHolds, GateHolds, AttachHolds
<1>3. ASSUME NEW a \in Attempts, ApproveOwn(a)
      PROVE  Holds
  BY <1>0, <1>3, ApprovalHolds DEF ApproveOwn
<1>4. CASE Approve
  BY <1>0, <1>4, ApprovalHolds DEF Approve, Touch
<1>5. CASE Delete \/ Edit
  BY <1>0, <1>5, DeleteHolds, EditHolds
<1>6. QED
  BY <1>1, <1>2, <1>3, <1>4, <1>5, RowOrEventsChange

-----------------------------------------------------------------------------
\* Only a deletion makes room for another row.
LEMMA BoundsStep ==
    ASSUME IInv, Next
    PROVE  BoundsTyped' /\ Counted'
<1>0. /\ BoundsTyped /\ Counted /\ MaxFaults \in Nat /\ MaxTouches \in Nat
      /\ UNCHANGED kind /\ UNCHANGED evidence
  BY Pieces, StoreAssumption, InputKept DEF IInv, Typed
<1>1. CASE UNCHANGED bounds
  <2>1. UNCHANGED serials /\ UNCHANGED touches /\ BoundsTyped'
    BY <1>0, <1>1 DEF bounds, BoundsTyped
  <2>2. row' = None => row = None
    BY <2>1, <1>0, RowStep DEF Delete, Touch, BoundsTyped
  <2>3. QED
    BY <1>0, <2>1, <2>2 DEF Counted
<1>2. ASSUME NEW a \in Attempts, Create(a)
      PROVE  BoundsTyped' /\ Counted'
  <2>1. /\ UNCHANGED expired /\ UNCHANGED faults /\ UNCHANGED touches
        /\ IF row = None THEN serials' = serials + 1 ELSE UNCHANGED serials
    BY <1>2 DEF Create
  <2>2. row' # None
    BY <1>2, CreateHolds, InputKept
  <2>3. serials \in Nat /\ touches \in Nat /\ touches <= MaxTouches
    BY <1>0 DEF BoundsTyped
  <2>4. serials' <= touches + 1 /\ serials' \in Nat
    BY <1>0, <2>1, <2>3 DEF Counted
  <2>5. BoundsTyped'
    BY <1>0, <2>1, <2>3, <2>4 DEF BoundsTyped
  <2>6. Counted'
    BY <1>0, <2>1, <2>2, <2>4 DEF Counted
  <2>7. QED
    BY <2>5, <2>6
<1>3. ASSUME NEW a \in Attempts, Expire(a) \/ Interrupt(a)
      PROVE  BoundsTyped' /\ Counted'
  <2>1. /\ UNCHANGED touches /\ UNCHANGED serials /\ UNCHANGED row
        /\ UNCHANGED expired \/ expired' = expired \cup {a}
        /\ UNCHANGED faults \/ (faults < MaxFaults /\ faults' = faults + 1)
    BY <1>3 DEF Expire, Interrupt, database
  <2>2. BoundsTyped'
    BY <1>0, <2>1 DEF BoundsTyped
  <2>3. Counted'
    BY <1>0, <2>1 DEF Counted
  <2>4. QED
    BY <2>2, <2>3
<1>4. CASE Touch
  <2>1. /\ UNCHANGED expired /\ UNCHANGED faults /\ UNCHANGED serials
        /\ touches < MaxTouches /\ touches' = touches + 1
    BY <1>4 DEF Touch
  <2>2. QED
    BY <1>0, <2>1 DEF BoundsTyped, Counted
<1>5. QED
  BY <1>1, <1>2, <1>3, <1>4, BoundsChange

\* Attempts stay at places of the activity.
LEMMA PlaceStep ==
    ASSUME IInv, Next
    PROVE  PlaceTyped'
<1>0. PlaceTyped
  BY Pieces DEF IInv, Typed
<1>1. CASE UNCHANGED <<pc, phase>>
  BY <1>0, <1>1 DEF PlaceTyped
<1>2. ASSUME NEW a \in Attempts, Moved(a)
      PROVE  PlaceTyped'
  BY <1>0, <1>2 DEF Moved, Goto, PlaceTyped
<1>3. QED
  BY <1>1, <1>2, PlaceChanges, AttemptsMove

\* Whoever changes a row, a step or an object works on an operation that has an input.
LEMMA Entitled ==
    ASSUME IInv, Next, operation.payload = None
    PROVE  UNCHANGED row /\ UNCHANGED steps /\ UNCHANGED objects
<1>1. \A a \in Attempts : pc[a] \in Out
  BY OnTheWay
<1>2. row = None
  BY DEF IInv, Opened
<1>3. UNCHANGED row
  BY <1>1, <1>2, RowChanges
  DEF Create, InsertSolutions, InsertTestCases, Insert, StoreVector, DecideReview, DecideGate,
      ApproveOwn, Attach, Delete, Edit, Approve, Touch, Out
<1>4. UNCHANGED steps
  BY <1>1, StepsStep DEF Out, StepKeys
<1>5. UNCHANGED objects
  BY <1>1, ObjectsChanges DEF Upload, Out, Objects
<1>6. QED
  BY <1>3, <1>4, <1>5

\* The input comes first.
LEMMA OpenedStep ==
    ASSUME IInv, Next
    PROVE  Opened'
<1>1. CASE operation.payload = None
  BY <1>1, Entitled DEF IInv, Opened
<1>2. CASE operation.payload # None
  BY <1>2, OperationStep DEF Opened
<1>3. QED
  BY <1>1, <1>2

\* The files stay: every attempt uploads the same.
LEMMA FilesStay ==
    ASSUME IInv, Next
    PROVE  /\ DOMAIN objects' = Objects
           /\ objects["tests"] = operation.payload /\ operation.payload # None
                => objects'["tests"] = operation'.payload
<1>0. DOMAIN objects = Objects /\ "tests" \in Objects
  BY DEF IInv, Uploaded, Objects
<1>1. operation.payload # None => operation'.payload = operation.payload
  BY OperationStep
<1>2. CASE UNCHANGED objects
  BY <1>0, <1>1, <1>2
<1>3. ASSUME NEW a \in Attempts, NEW o \in Objects, Upload(a, o)
      PROVE  /\ DOMAIN objects' = Objects
             /\ objects'["tests"] \in {objects["tests"], operation.payload}
  <2>1. objects' = [objects EXCEPT ![o] = Hash(a, o)] /\ pc[a] = o
    BY <1>3 DEF Upload
  <2>2. o = "tests" => Hash(a, o) = operation.payload
    BY <2>1, HashTyped DEF Objects, StepKeys
  <2>3. QED
    BY <1>0, <2>1, <2>2
<1>4. QED
  BY <1>1, <1>2, <1>3, ObjectsChanges

\* Test rows come from the attempts that are to insert them.
LEMMA TestRows ==
    ASSUME IInv, Next, row' # None, "tests" \in row'.assets
    PROVE  \/ row # None /\ "tests" \in row.assets
           \/ \E a \in Attempts : pc[a] = "cases"
<1>0. row # None => row \in Rows
  BY HoldsNow
<1>1. CASE UNCHANGED row
  BY <1>1
<1>2. ASSUME NEW a \in Attempts, Create(a)
      PROVE  row # None /\ "tests" \in row.assets
  BY <1>2 DEF Create, NewRow
<1>3. ASSUME NEW a \in Attempts, InsertSolutions(a) \/ StoreVector(a) \/ Attach(a)
      PROVE  row # None /\ "tests" \in row.assets
  BY <1>0, <1>3 DEF InsertSolutions, Insert, StoreVector, Attach, AttachAdmitted, Rows
<1>4. ASSUME NEW a \in Attempts, DecideReview(a)
      PROVE  row # None /\ "tests" \in row.assets
  BY <1>0, <1>4 DEF DecideReview, Rows
<1>5. ASSUME NEW a \in Attempts, DecideGate(a)
      PROVE  row # None /\ "tests" \in row.assets
  BY <1>0, <1>5, GatedRow DEF DecideGate
<1>6. ASSUME Approvable, ApplyApproval
      PROVE  row # None /\ "tests" \in row.assets
  <2>1. row # None /\ row' = Gated(Own(row))
    BY <1>6 DEF Approvable, ApplyApproval, Own
  <2>2. QED
    BY <1>0, <2>1, GatedRow, OwnRow
<1>7. CASE Edit
  BY <1>0, <1>7 DEF Edit, Touch, Rows
<1>8. QED
  BY <1>1, <1>2, <1>3, <1>4, <1>5, <1>6, <1>7, RowChanges
  DEF InsertTestCases, Insert, ApproveOwn, Approve, Delete

\* Test rows are inserted, and the upload is recorded, after the upload.
LEMMA UploadedStep ==
    ASSUME IInv, Next
    PROVE  Uploaded'
<1>1. steps'["tests"] # None =>
        steps'["tests"] = operation.payload /\ objects["tests"] = operation.payload
  <2>1. CASE UNCHANGED steps
    BY <2>1 DEF IInv, Uploaded
  <2>2. ASSUME NEW a \in Attempts, NEW s \in StepKeys,
               pc[a] = s, phase[a] = "record",
               steps' = [steps EXCEPT ![s] = IF @ = None THEN Hash(a, s) ELSE @]
        PROVE  steps'["tests"] # None =>
                 steps'["tests"] = operation.payload /\ objects["tests"] = operation.payload
    <3>1. CASE s = "tests"
      <4>1. objects["tests"] = operation.payload /\ Hash(a, s) = operation.payload
        BY <2>2, <3>1, HashTyped DEF IInv, Fits
      <4>2. steps'["tests"] \in {steps["tests"], Hash(a, s)}
        BY <2>2, <3>1
      <4>3. QED
        BY <4>1, <4>2 DEF IInv, Uploaded
    <3>2. CASE s # "tests"
      BY <2>2, <3>2 DEF IInv, Uploaded
    <3>3. QED
      BY <3>1, <3>2
  <2>3. QED
    BY <2>1, <2>2, StepsStep
<1>2. row' # None /\ "tests" \in row'.assets => objects["tests"] = operation.payload
  BY TestRows DEF IInv, Uploaded, Fits
<1>3. CASE operation.payload = None
  BY <1>3, Entitled, FilesStay DEF IInv, Opened, Uploaded, StepKeys
<1>4. CASE operation.payload # None
  BY <1>1, <1>2, <1>4, FilesStay, OperationStep DEF Uploaded
<1>5. QED
  BY <1>3, <1>4

\* The result is that of an attempt whose status has been announced.
LEMMA ResultStep ==
    ASSUME IInv, Next
    PROVE  ResultWasAnnounced'
<1>1. ASSUME NEW a \in Attempts, pc[a] = "complete", operation'.result = ResultOf(a)
      PROVE  ResultWasAnnounced'
  <2>1. Told(work[a].reasons)
    BY <1>1 DEF IInv, Fits, Settled
  <2>2. operation'.result.reasons = work[a].reasons
    BY <1>1 DEF ResultOf
  <2>3. QED
    BY <2>1, <2>2, AnnouncedGrows DEF ResultWasAnnounced, Told
<1>2. CASE operation'.result = operation.result
  BY <1>2, AnnouncedGrows DEF IInv, ResultWasAnnounced
<1>3. QED
  BY <1>1, <1>2, OperationStep

-----------------------------------------------------------------------------
\* A step that goes somewhere moves one attempt there.
LEMMA Arrives ==
    ASSUME IInv, NEW a \in Attempts, NEW s, Goto(a, s)
    PROVE  /\ pc'[a] = s /\ phase'[a] = "check"
           /\ \A b \in Attempts \ {a} : pc'[b] = pc[b] /\ phase'[b] = phase[b]
<1>1. PlaceTyped
  BY Pieces DEF IInv, Typed
<1>2. QED
  BY <1>1 DEF Goto, PlaceTyped

\* An attempt changes nothing of what another one knows.
LEMMA OthersKeep ==
    ASSUME IInv, NEW a \in Attempts, Progress(a) \/ Interrupt(a), NEW b \in Attempts, b # a
    PROVE  /\ pc'[b] = pc[b] /\ phase'[b] = phase[b]
           /\ work'[b] = work[b] /\ answer'[b] = answer[b]
<1>1. PlaceTyped /\ WorkTyped
  BY Pieces DEF IInv, Typed
<1>2. pc'[b] = pc[b] /\ phase'[b] = phase[b]
  BY <1>1, AttemptsMove DEF Moved, Goto, PlaceTyped
<1>3. work'[b] = work[b]
  BY <1>1
  DEF WorkTyped, Progress, Step, Begin, BeginRefused, Recover, Create, InsertSolutions,
      InsertTestCases, Insert, CheckStep, RecordStep, Upload, StoreVector, Attach,
      DecideDraft, DecideReview, DecideGate, DecideLost, ApproveOwn, SkipApproval, Conclude,
      BuildReceipt, Complete, Fail, Interrupt
<1>4. answer'[b] = answer[b]
  BY <1>1
  DEF WorkTyped, Progress, Step, Begin, BeginRefused, Recover, Create, InsertSolutions,
      InsertTestCases, Insert, CheckStep, RecordStep, Upload, StoreVector, Attach,
      DecideDraft, DecideReview, DecideGate, DecideLost, ApproveOwn, SkipApproval,
      BuildReceipt, Complete, Fail, Interrupt
<1>5. QED
  BY <1>2, <1>3, <1>4

\* What an attempt knows stays true while others act.
LEMMA OthersFit ==
    ASSUME IInv, Next, NEW b \in Attempts,
           pc'[b] = pc[b], phase'[b] = phase[b], work'[b] = work[b], answer'[b] = answer[b]
    PROVE  Fits(b)'
<1>1. Fits(b) /\ UNCHANGED evidence
  BY InputKept DEF IInv
<1>2. pc[b] \notin Out => operation.payload # None /\ operation'.payload = operation.payload
  BY OnTheWay, OperationStep
<1>3. pc[b] \notin Out /\ objects["tests"] = operation.payload
        => objects'["tests"] = operation'.payload
  BY <1>2, FilesStay
<1>5. QED
  BY <1>1, <1>2, <1>3, AnnouncedGrows DEF Fits, Told, Out

\* An attempt that learns w, and one that learns nothing.
LEMMA Learns ==
    ASSUME IInv, NEW a \in Attempts, NEW w \in Works, work' = [work EXCEPT ![a] = w],
           UNCHANGED answer
    PROVE  work'[a] = w /\ answer'[a] = answer[a] /\ WorkTyped'
<1>1. WorkTyped
  BY Pieces DEF IInv, Typed
<1>2. QED
  BY <1>1 DEF WorkTyped

\* An attempt that learns nothing.
LEMMA LearnsNothing ==
    ASSUME IInv, NEW a \in Attempts, UNCHANGED <<work, answer>>
    PROVE  work'[a] = work[a] /\ answer'[a] = answer[a] /\ WorkTyped'
<1>1. WorkTyped
  BY Pieces DEF IInv, Typed
<1>2. QED
  BY <1>1 DEF WorkTyped

\* An attempt that ends, or is about to.
LEMMA Ends ==
    ASSUME IInv, Next, NEW a \in Attempts, pc'[a] = "over"
    PROVE  Fits(a)'
  BY DEF Fits, Out, Reached, Settled

\* An attempt that is about to end by a failure still knows its input.
LEMMA Fails ==
    ASSUME IInv, Next, NEW a \in Attempts, pc[a] \notin Out, pc'[a] = "failing",
           UNCHANGED <<work, answer>>
    PROVE  Fits(a)' /\ WorkTyped'
<1>1. /\ work[a] \in Works /\ work[a].payload = operation.payload /\ answer[a] = None
      /\ operation'.payload = operation.payload
  BY OnTheWay, OperationStep
<1>2. QED
  BY <1>1, LearnsNothing DEF Fits, Out, Reached, Settled

\* An attempt that goes on knows its input.
LEMMA GoesOn ==
    ASSUME IInv, Next, NEW a \in Attempts, pc[a] \notin Out
    PROVE  /\ work[a] \in Works /\ work[a].payload = operation'.payload /\ answer[a] = None
           /\ pc[a] \in Reached => work[a].serial \in Serials
           /\ pc[a] \in {"evidence", "binding", "receipt"} => evidence /\ evidence'
           /\ pc[a] \in {"binding", "receipt"} => work[a].digest \in Digests
           /\ (pc[a] = "tests" /\ phase[a] = "record") \/ pc[a] = "cases"
                => objects'["tests"] = operation'.payload
           /\ pc[a] \in Settled \cup {"approve"}
                => StatusOf(work[a].reasons) \in announced' \cup {"draft"}
<1>1. /\ Fits(a) /\ work[a] \in Works /\ work[a].payload = operation.payload
      /\ answer[a] = None /\ operation.payload # None
      /\ operation'.payload = operation.payload
      /\ UNCHANGED evidence
  BY OnTheWay, OperationStep, InputKept DEF IInv
<1>2. QED
  BY <1>1, FilesStay, AnnouncedGrows DEF Fits, Told

\* An attempt begins with the input of the operation.
LEMMA BeginFits ==
    ASSUME IInv, Next, NEW a \in Attempts, NEW p \in Payloads, NEW m \in Models, Begin(a, p, m)
    PROVE  Fits(a)' /\ WorkTyped'
<1>0. WorkTyped /\ OperationTyped /\ Completed /\ pc[a] = "idle" /\ answer[a] = None
  BY Pieces DEF Begin, Startable, IInv, Typed, Fits
<1>1. CASE operation.status = "completed"
  <2>1. pc'[a] = "over"
    BY <1>1, Arrives DEF Begin
  <2>2. WorkTyped'
    BY <1>0, <1>1 DEF Begin, WorkTyped, Completed
  <2>3. QED
    BY <2>1, <2>2, Ends
<1>2. CASE operation.status # "completed"
  <2>1. /\ pc'[a] = "recover" /\ work' = [work EXCEPT ![a] = NewWork(p, m)]
        /\ UNCHANGED answer /\ operation'.payload = p
    BY <1>0, <1>2, Arrives DEF Begin, OperationTyped
  <2>2. NewWork(p, m) \in Works /\ NewWork(p, m).payload = p
    BY DEF NewWork, Works, Digests
  <2>3. work'[a] = NewWork(p, m) /\ answer'[a] = None /\ WorkTyped'
    BY <1>0, <2>1, <2>2, Learns
  <2>4. QED
    BY <2>1, <2>2, <2>3 DEF Fits, Out, Reached, Settled
<1>3. QED
  BY <1>1, <1>2

\* A binding that is found was announced.
LEMMA RecoverFits ==
    ASSUME IInv, Next, NEW a \in Attempts, Recover(a)
    PROVE  Fits(a)' /\ WorkTyped'
<1>0. /\ pc[a] = "recover" /\ UNCHANGED answer /\ UNCHANGED evidence
      /\ work[a] \in Works /\ work[a].payload = operation'.payload /\ answer[a] = None
  BY GoesOn, InputKept DEF Recover, Out
<1>1. CASE Recoverable
  <2>1. pc'[a] = "binding" /\ work' = [work EXCEPT ![a] = Recovered(work[a])]
    BY <1>1, Arrives DEF Recover
  <2>2. /\ row \in Rows /\ row # None /\ row.binding # None /\ evidence
        /\ Told(row.binding.reasons)
    BY <1>1, HoldsNow DEF Recoverable, RowHolds, Announced
  <2>3. /\ Recovered(work[a]) \in Works
        /\ Recovered(work[a]).payload = work[a].payload
        /\ Recovered(work[a]).serial \in Serials
        /\ Recovered(work[a]).digest \in Digests
        /\ Recovered(work[a]).reasons = row.binding.reasons
    BY <1>0, <2>2 DEF Recovered, Works, Rows, Bindings
  <2>4. work'[a] = Recovered(work[a]) /\ answer'[a] = None /\ WorkTyped'
    BY <1>0, <2>1, <2>3, Learns
  <2>5. StatusOf(row.binding.reasons) \in announced' \cup {"draft"}
    BY <2>2, AnnouncedGrows DEF Told
  <2>6. QED
    BY <1>0, <2>1, <2>2, <2>3, <2>4, <2>5 DEF Fits, Told, Out
<1>2. CASE ~Recoverable
  <2>1. pc'[a] = "create" /\ UNCHANGED work
    BY <1>2, Arrives DEF Recover
  <2>2. work'[a] = work[a] /\ answer'[a] = None /\ WorkTyped'
    BY <1>0, <2>1, LearnsNothing
  <2>3. QED
    BY <1>0, <2>1, <2>2 DEF Fits, Out, Reached, Settled
<1>3. QED
  BY <1>1, <1>2

\* It takes over the row there is.
LEMMA CreateFits ==
    ASSUME IInv, Next, NEW a \in Attempts, Create(a)
    PROVE  Fits(a)' /\ WorkTyped'
<1>0. /\ pc[a] = "create" /\ UNCHANGED answer /\ pc'[a] = "solutions" /\ phase'[a] = "check"
      /\ work' = [work EXCEPT ![a] = [work[a] EXCEPT !.serial = row'.serial]]
      /\ work[a] \in Works /\ work[a].payload = operation'.payload /\ answer[a] = None
  BY GoesOn, Arrives DEF Create, Out
<1>1. row'.serial \in Serials
  BY CreateHolds, InputKept DEF RowHolds, RowTyped, Rows
<1>2. /\ [work[a] EXCEPT !.serial = row'.serial] \in Works
      /\ [work[a] EXCEPT !.serial = row'.serial].payload = work[a].payload
      /\ [work[a] EXCEPT !.serial = row'.serial].serial \in Serials
  BY <1>0, <1>1 DEF Works
<1>3. /\ work'[a] = [work[a] EXCEPT !.serial = row'.serial]
      /\ answer'[a] = None /\ WorkTyped'
  BY <1>0, <1>2, Learns
<1>4. QED
  BY <1>0, <1>2, <1>3 DEF Fits, Out, Reached, Settled

\* An attempt that learns nothing goes on to a place that asks for nothing new.
LEMMA Passes ==
    ASSUME IInv, Next, NEW a \in Attempts, pc[a] \notin Out, UNCHANGED <<work, answer>>,
           pc'[a] \in Reached => pc[a] \in Reached,
           pc'[a] \in {"evidence", "binding", "receipt"} =>
               evidence /\ (pc[a] = pc'[a] \/ pc'[a] = "evidence" \/ pc[a] = "binding"),
           pc'[a] = "tests" => phase'[a] # "record" \/ objects'["tests"] = operation'.payload,
           pc'[a] = "cases" => objects'["tests"] = operation'.payload,
           pc'[a] \in Settled \cup {"approve"} => pc[a] \in Settled \cup {"approve"}
    PROVE  Fits(a)' /\ WorkTyped'
<1>1. work'[a] = work[a] /\ answer'[a] = answer[a] /\ WorkTyped'
  BY LearnsNothing
<1>2. UNCHANGED evidence
  BY InputKept
<1>3. QED
  BY <1>1, <1>2, GoesOn DEF Fits, Told, Out

\* It inserts the files it has uploaded.
LEMMA InsertFits ==
    ASSUME IInv, Next, NEW a \in Attempts, InsertSolutions(a) \/ InsertTestCases(a)
    PROVE  Fits(a)' /\ WorkTyped'
<1>1. /\ pc[a] \in {"solutions", "cases"}
      /\ pc'[a] \in {"tests", "metadata", "failing"} /\ phase'[a] = "check"
      /\ UNCHANGED <<work, answer>>
  BY Arrives DEF InsertSolutions, InsertTestCases, Insert
<1>2. QED
  BY <1>1, Passes DEF Out, Reached, Settled

\* It leaves the upload step when the upload is there.
LEMMA StepFits ==
    ASSUME IInv, Next, NEW a \in Attempts, NEW s \in StepKeys, CheckStep(a, s) \/ RecordStep(a, s)
    PROVE  Fits(a)' /\ WorkTyped'
<1>0. /\ pc[a] = s /\ UNCHANGED <<work, answer>> /\ PlaceTyped
      /\ s \in {"binding", "receipt"} => evidence
      /\ operation.payload # None
  BY Pieces, OnTheWay DEF CheckStep, RecordStep, IInv, Typed, Fits, Out, StepKeys
<1>1. CASE pc'[a] = s /\ phase'[a] = "apply"
  BY <1>0, <1>1, Passes DEF Out, StepKeys
<1>2. CASE pc'[a] = "failing"
  BY <1>0, <1>2, Fails DEF Out, StepKeys
<1>3. CASE /\ pc'[a] = After(s)
           /\ CheckStep(a, s) => steps[s] # None
  <2>1. s = "tests" => objects'["tests"] = operation'.payload
    <3>1. s = "tests" => objects["tests"] = operation.payload
      BY <1>0, <1>3 DEF IInv, Uploaded, Fits, RecordStep
    <3>2. QED
      BY <1>0, <3>1, FilesStay
  <2>2. QED
    BY <1>0, <1>3, <2>1, AfterPlaces, Passes DEF Out, StepKeys, Reached, Settled
<1>4. QED
  <2>1. CASE CheckStep(a, s) /\ steps[s] = None
    BY <2>1, <1>0, <1>1 DEF CheckStep, PlaceTyped
  <2>2. CASE ~(CheckStep(a, s) /\ steps[s] = None)
    <3>1. Goto(a, After(s)) \/ Goto(a, "failing")
      BY <2>2 DEF CheckStep, RecordStep
    <3>2. pc'[a] = After(s) \/ pc'[a] = "failing"
      BY <3>1, Arrives
    <3>3. QED
      BY <2>2, <3>2, <1>2, <1>3
  <2>3. QED
    BY <2>1, <2>2

\* It uploads the input of the operation.
LEMMA ApplyFits ==
    ASSUME IInv, Next, NEW a \in Attempts,
           (\E o \in Objects : Upload(a, o)) \/ StoreVector(a) \/ Attach(a)
    PROVE  Fits(a)' /\ WorkTyped'
<1>0. /\ pc[a] \in Objects \cup {"vector", "binding"} /\ UNCHANGED <<work, answer>> /\ PlaceTyped
      /\ pc[a] \in {"binding", "receipt"} => evidence
      /\ pc'[a] \in {pc[a], "failing"}
  <2>1. \/ UNCHANGED pc
        \/ Goto(a, "failing")
    BY DEF Upload, StoreVector, Attach, Applied
  <2>2. pc'[a] \in {pc[a], "failing"}
    BY <2>1, Arrives
  <2>3. QED
    BY <2>2, Pieces DEF Upload, StoreVector, Attach, IInv, Typed, Fits
<1>1. pc[a] = "tests" => objects'["tests"] = operation'.payload
  <2>1. ASSUME pc[a] = "tests"
        PROVE  /\ objects' = [objects EXCEPT !["tests"] = Hash(a, "tests")]
               /\ Hash(a, "tests") = operation.payload /\ operation.payload # None
    <3>1. objects' = [objects EXCEPT !["tests"] = Hash(a, "tests")]
      BY <2>1 DEF Upload, StoreVector, Attach, Objects
    <3>2. QED
      BY <2>1, <3>1, HashTyped, OnTheWay DEF StepKeys, Out
  <2>2. DOMAIN objects = Objects
    BY DEF IInv, Uploaded
  <2>3. QED
    BY <2>1, <2>2, OperationStep DEF Objects
<1>2. QED
  BY <1>0, <1>1, Passes DEF Out, Objects, Reached, Settled

\* An attempt that decides knows what is announced.
LEMMA Concludes ==
    ASSUME IInv, Next, NEW a \in Attempts, pc[a] \in {"decide", "approve"},
           NEW reasons \in Digests, NEW next \in {"approve", AfterDecision},
           Conclude(a, reasons, next), UNCHANGED answer,
           StatusOf(reasons) \in announced' \cup {"draft"}
    PROVE  Fits(a)' /\ WorkTyped'
<1>0. /\ work[a] \in Works /\ work[a].payload = operation'.payload /\ answer[a] = None
      /\ work[a].serial \in Serials /\ UNCHANGED evidence
  BY GoesOn, InputKept DEF Out, Reached
<1>1. /\ work' = [work EXCEPT ![a] = [work[a] EXCEPT !.reasons = reasons]]
      /\ pc'[a] = next
  BY Arrives DEF Conclude
<1>2. /\ [work[a] EXCEPT !.reasons = reasons] \in Works
      /\ [work[a] EXCEPT !.reasons = reasons].payload = work[a].payload
      /\ [work[a] EXCEPT !.reasons = reasons].serial \in Serials
      /\ [work[a] EXCEPT !.reasons = reasons].reasons = reasons
  BY <1>0 DEF Works
<1>3. work'[a] = [work[a] EXCEPT !.reasons = reasons] /\ answer'[a] = None /\ WorkTyped'
  BY <1>0, <1>1, <1>2, Learns
<1>4. next \in {"approve", "complete", "evidence"} /\ (next = "evidence" => evidence)
  BY DEF AfterDecision
<1>5. QED
  BY <1>0, <1>1, <1>2, <1>3, <1>4 DEF Fits, Told, Out

\* It goes on with reasons that were announced.
LEMMA DecideFits ==
    ASSUME IInv, Next, NEW a \in Attempts,
           DecideDraft(a) \/ DecideReview(a) \/ DecideGate(a) \/ ApproveOwn(a)
    PROVE  Fits(a)' /\ WorkTyped'
<1>0. /\ {"draft"} \in Digests /\ {"review"} \in Digests /\ {} \in Digests
      /\ UNCHANGED kind
  BY InputKept DEF Digests, Reasons, Blockers, Assets
<1>1. CASE DecideDraft(a)
  BY <1>0, <1>1, Statuses, Concludes DEF DecideDraft
<1>2. CASE DecideReview(a)
  <2>1. StatusOf({"review"}) \in announced'
    BY <1>2, Statuses DEF DecideReview
  <2>2. QED
    BY <1>0, <1>2, <2>1, Concludes DEF DecideReview
<1>3. CASE DecideGate(a)
  <2>1. GateReasons(row) \in Digests
    BY <1>3, HoldsNow, Deciding DEF DecideGate
  <2>2. StatusOf(GateReasons(row)) \in announced'
    BY <1>0, <1>3, GateHolds
  <2>3. \E next \in {"approve", AfterDecision} : Conclude(a, GateReasons(row), next)
    BY <1>3 DEF DecideGate
  <2>4. pc[a] = "decide" /\ UNCHANGED answer
    BY <1>3 DEF DecideGate
  <2>5. QED
    BY <2>1, <2>2, <2>3, <2>4, Concludes
<1>4. CASE ApproveOwn(a)
  <2>1. StatusOf({}) \in announced'
    BY <1>0, <1>4, ApprovalHolds, Statuses DEF ApproveOwn
  <2>2. QED
    BY <1>0, <1>4, <2>1, Concludes DEF ApproveOwn
<1>5. QED
  BY <1>1, <1>2, <1>3, <1>4

\* It goes on without an approval, or fails.
LEMMA SkipFits ==
    ASSUME IInv, Next, NEW a \in Attempts, DecideLost(a) \/ SkipApproval(a)
    PROVE  Fits(a)' /\ WorkTyped'
<1>1. CASE DecideLost(a)
  BY <1>1, Arrives, Fails DEF DecideLost, Out
<1>2. CASE SkipApproval(a)
  <2>1. /\ pc[a] = "approve" /\ UNCHANGED <<work, answer>>
        /\ pc'[a] \in {"complete", "evidence"} /\ (pc'[a] = "evidence" => evidence)
    BY <1>2, Arrives DEF SkipApproval, AfterDecision
  <2>2. QED
    BY <2>1, Passes DEF Out, Reached, Settled
<1>3. QED
  BY <1>1, <1>2

\* The outcome a receipt names is one.
LEMMA BuildFits ==
    ASSUME IInv, Next, NEW a \in Attempts, BuildReceipt(a)
    PROVE  Fits(a)' /\ WorkTyped'
<1>0. /\ pc[a] = "evidence" /\ UNCHANGED answer
      /\ work[a] \in Works /\ work[a].payload = operation'.payload /\ answer[a] = None
      /\ work[a].serial \in Serials /\ evidence /\ evidence'
      /\ StatusOf(work[a].reasons) \in announced' \cup {"draft"}
  BY GoesOn DEF BuildReceipt, Out, Reached, Settled
<1>1. CASE Final(work[a].reasons)
  <2>1. Outcome \in Digests
    <3>1. row \in Rows /\ kind \in {"generated", "rejected"}
      BY <1>0, <1>1, HoldsNow DEF Final, IInv, Counted
    <3>2. CASE kind = "rejected"
      BY <3>2 DEF Outcome, Digests, Reasons
    <3>3. CASE kind = "generated"
      BY <1>1, <3>1, <3>3 DEF Outcome, Final, Rows
    <3>4. QED
      BY <3>1, <3>2, <3>3
  <2>2. /\ work' = [work EXCEPT ![a] = [work[a] EXCEPT !.digest = Outcome]]
        /\ pc'[a] = "binding" /\ phase'[a] = "check"
    BY <1>1, Arrives DEF BuildReceipt
  <2>3. /\ [work[a] EXCEPT !.digest = Outcome] \in Works
        /\ [work[a] EXCEPT !.digest = Outcome].payload = work[a].payload
        /\ [work[a] EXCEPT !.digest = Outcome].serial = work[a].serial
        /\ [work[a] EXCEPT !.digest = Outcome].reasons = work[a].reasons
        /\ [work[a] EXCEPT !.digest = Outcome].digest \in Digests
    BY <1>0, <2>1 DEF Works
  <2>4. /\ work'[a] = [work[a] EXCEPT !.digest = Outcome]
        /\ answer'[a] = None /\ WorkTyped'
    BY <1>0, <2>2, <2>3, Learns
  <2>5. QED
    BY <1>0, <2>2, <2>3, <2>4 DEF Fits, Told, Out
<1>2. CASE ~Final(work[a].reasons)
  BY <1>0, <1>2, Arrives, Fails DEF BuildReceipt, Out
<1>3. QED
  BY <1>1, <1>2

\* It ends.
LEMMA EndFits ==
    ASSUME IInv, Next, NEW a \in Attempts,
           \/ \E p \in Payloads : BeginRefused(a, p)
           \/ Complete(a) \/ Fail(a) \/ Interrupt(a)
    PROVE  Fits(a)' /\ WorkTyped'
<1>0. WorkTyped
  BY Pieces DEF IInv, Typed
<1>1. CASE (\E p \in Payloads : BeginRefused(a, p)) \/ Fail(a)
  BY <1>1, Arrives, Ends, LearnsNothing DEF BeginRefused, Fail
<1>2. CASE Complete(a)
  <2>1. CASE ResultAccepted(ResultOf(a))
    <3>1. pc[a] = "complete" /\ pc'[a] = "over" /\ UNCHANGED work
          /\ answer' = [answer EXCEPT ![a] = ResultOf(a)]
      BY <1>2, <2>1, Arrives DEF Complete
    <3>2. WorkTyped'
      BY <1>0, <3>1, ResultTyped DEF WorkTyped
    <3>3. QED
      BY <3>1, <3>2, Ends
  <2>2. CASE ~ResultAccepted(ResultOf(a))
    BY <1>2, <2>2, Arrives, Fails DEF Complete, Out
  <2>3. QED
    BY <2>1, <2>2
<1>3. CASE Interrupt(a)
  BY <1>3, Arrives, Fails DEF Interrupt, Running, Out
<1>4. QED
  BY <1>1, <1>2, <1>3

\* The one that acts.
LEMMA ActorFits ==
    ASSUME IInv, Next, NEW a \in Attempts, Progress(a) \/ Interrupt(a)
    PROVE  Fits(a)' /\ WorkTyped'
  BY BeginFits, RecoverFits, CreateFits, InsertFits, StepFits, ApplyFits, DecideFits, SkipFits,
     BuildFits, EndFits
  DEF Progress, Step

\* No attempt is ever wrong about what it knows.
LEMMA FitsStep ==
    ASSUME IInv, Next
    PROVE  WorkTyped' /\ \A b \in Attempts : Fits(b)'
<1>1. ASSUME NEW a \in Attempts, Progress(a) \/ Interrupt(a)
      PROVE  WorkTyped' /\ \A b \in Attempts : Fits(b)'
  <2>1. ASSUME NEW b \in Attempts
        PROVE  Fits(b)'
    <3>1. CASE b = a
      BY <1>1, <3>1, ActorFits
    <3>2. CASE b # a
      BY <1>1, <3>2, OthersKeep, OthersFit
    <3>3. QED
      BY <3>1, <3>2
  <2>2. QED
    BY <1>1, <2>1, ActorFits
<1>2. CASE UNCHANGED <<pc, phase, work, answer>>
  <2>1. WorkTyped
    BY Pieces DEF IInv, Typed
  <2>2. WorkTyped'
    BY <1>2, <2>1 DEF WorkTyped
  <2>3. ASSUME NEW b \in Attempts
        PROVE  Fits(b)'
    BY <1>2, OthersFit
  <2>4. QED
    BY <2>2, <2>3
<1>3. QED
  BY <1>1, <1>2 DEF Next, Expire, Delete, Edit, Approve, Touch, attempt

\* Every step preserves the invariant.
LEMMA NextIInv == IInv /\ Next => IInv'
<1> SUFFICES ASSUME IInv, Next PROVE IInv'
  OBVIOUS
<1>1. Typed'
  <2>1. InputTyped'
    BY InputKept, Pieces DEF IInv, Typed, InputTyped
  <2>2. QED
    BY <2>1, OperationStep, StepsStep, RowStep, PlaceStep, FitsStep, BoundsStep
    DEF Typed, RowHolds
<1>2. TypeOK'
  BY <1>1, Pieces, PTL
<1>3. QED
  BY <1>2, OperationStep, OpenedStep, UploadedStep, RowStep, ResultStep, BoundsStep, FitsStep
  DEF IInv, RowHolds

\* The invariant is a state predicate of the variables.
LEMMA StutterIInv == IInv /\ UNCHANGED vars => IInv'
  BY DEF vars, input, database, attempt, bounds, IInv, TypeOK, Counted, Completed, Opened,
         Uploaded, Public, Announced, ResultWasAnnounced, Fits, Told

\* The invariant holds always.
LEMMA InductiveInvariant == Spec => []IInv
  BY InitIInv, NextIInv, StutterIInv, PTL DEF Spec

-----------------------------------------------------------------------------
\* Every variable of the activity keeps its type.
THEOREM TypeCorrect == Spec => []TypeOK
<1>1. IInv => TypeOK
  BY DEF IInv
<1>2. QED
  BY <1>1, InductiveInvariant, PTL

\* What the gates published is whole, whatever attempts, deletions and edits came in
\* between: its files are uploaded before its test rows, and those are never inserted
\* for another input.
THEOREM PublishedIsWholeHolds == Spec => []PublishedIsWhole
<1>1. IInv => PublishedIsWhole
  BY DEF IInv, Public, Uploaded, PublishedIsWhole, Assets
<1>2. QED
  BY <1>1, InductiveInvariant, PTL

\* The status the activity reports was announced, although the outbox drops the event
\* of a second gate.
THEOREM ResultsAnnounced == Spec => []ResultWasAnnounced
<1>1. IInv => ResultWasAnnounced
  BY DEF IInv
<1>2. QED
  BY <1>1, InductiveInvariant, PTL

-----------------------------------------------------------------------------
\* The result attempts are answered with.
Decided == IF operation.status = "completed" THEN operation.result ELSE None

\* Nothing is decided in the beginning.
LEMMA RegisterInit == Init => Register!Init
  BY DEF Init, Register!Init

\* A step of the activity decides the register, answers from it, or does not touch it.
LEMMA RegisterStep ==
    ASSUME IInv, Next
    PROVE  Register!Next \/ UNCHANGED <<Decided, answer>>
<1>0. Completed /\ OperationTyped /\ None \notin Results
  BY Pieces, NoneAssumption DEF IInv, Typed
<1>1. CASE UNCHANGED operation /\ UNCHANGED answer
  BY <1>1 DEF Decided
<1>2. ASSUME NEW a \in Attempts, NEW p \in Payloads, NEW m \in Models, Begin(a, p, m)
      PROVE  Register!Next \/ UNCHANGED <<Decided, answer>>
  <2>1. answer[a] = None
    BY <1>2 DEF Begin, Startable, IInv, Fits
  <2>2. CASE operation.status = "completed"
    <3>1. /\ Decided = operation.result /\ Decided # None
          /\ answer' = [answer EXCEPT ![a] = Decided] /\ Decided' = Decided
      BY <1>0, <1>2, <2>2 DEF Begin, Decided, Completed
    <3>2. Register!Answer(a)
      BY <2>1, <3>1 DEF Register!Answer, Decided
    <3>3. QED
      BY <3>2 DEF Register!Next
  <2>3. CASE operation.status # "completed"
    BY <1>0, <1>2, <2>3 DEF Begin, Decided, OperationTyped
  <2>4. QED
    BY <2>2, <2>3
<1>3. ASSUME NEW a \in Attempts, Complete(a)
      PROVE  Register!Next \/ UNCHANGED <<Decided, answer>>
  <2>1. answer[a] = None /\ ResultOf(a) \in Results
    BY <1>3, OnTheWay, ResultTyped DEF Complete, Out
  <2>2. CASE ~ResultAccepted(ResultOf(a))
    BY <1>3, <2>2 DEF Complete, Decided
  <2>3. CASE ResultAccepted(ResultOf(a))
    <3>1. /\ answer' = [answer EXCEPT ![a] = ResultOf(a)]
          /\ Decided' = ResultOf(a) /\ Decided' \in Results
          /\ operation.status = "completed" => Decided = ResultOf(a)
          /\ operation.status # "completed" => Decided = None
      BY <1>0, <1>3, <2>1, <2>3 DEF Complete, Decided, OperationTyped, ResultAccepted
    <3>2. CASE operation.status = "completed"
      <4>1. Register!Answer(a)
        BY <1>0, <2>1, <3>1, <3>2 DEF Register!Answer, Decided
      <4>2. QED
        BY <4>1 DEF Register!Next
    <3>3. CASE operation.status # "completed"
      <4>1. Register!DecideAndAnswer(a)
        BY <2>1, <3>1, <3>3 DEF Register!DecideAndAnswer, Decided
      <4>2. QED
        BY <4>1 DEF Register!Next
    <3>4. QED
      BY <3>2, <3>3
  <2>4. QED
    BY <2>2, <2>3
<1>4. ASSUME NEW a \in Attempts, Fail(a)
      PROVE  UNCHANGED <<Decided, answer>>
  BY <1>0, <1>4 DEF Fail, Failed, Decided, OperationTyped
<1>5. QED
  BY <1>1, <1>2, <1>3, <1>4, OperationChanges, AnswerChanges

\* The operation of an idempotency key is a register decided at most once, and every
\* attempt that is answered gets the result decided.
THEOREM StoreImplementsRegister == Spec => StoreIsWriteOnce
<1>1. IInv /\ [Next]_vars => [Register!Next]_<<Decided, answer>>
  BY RegisterStep DEF vars, database, attempt, Decided
<1>2. QED
  BY <1>1, RegisterInit, InductiveInvariant, PTL
  DEF Spec, StoreIsWriteOnce, Register!Spec, Decided

-----------------------------------------------------------------------------
\* The row counted last is the one there is, and before the first nothing was done.
Numbered ==
    /\ row # None => row.serial = serials /\ (row.status = "generating" => kind = "generated")
    /\ serials = 0 =>
         /\ operation.status # "completed"
         /\ \A s \in StepKeys : steps[s] = None
         /\ \A a \in Attempts : pc[a] \notin Reached

\* What precedes a decision is there.
Stored ==
    /\ row.assets = Assets /\ row.vectors # {} /\ row.status # "generating"
    /\ objects["metadata"] = row.serial

\* What a problem is bound to was decided with it.
Bound ==
    row # None /\ row.binding # None =>
        /\ StatusOf(row.binding.digest) = StatusOf(row.binding.reasons)
        /\ Undisturbed => Stored

\* The recorded steps that depend on the row have their effects.
Recorded ==
    /\ steps["receipt"] # None =>
         steps["receipt"] = steps["binding"] /\ objects["receipt"] = steps["receipt"]
    /\ Undisturbed =>
         /\ steps["metadata"] # None =>
              steps["metadata"] = row.serial /\ objects["metadata"] = row.serial
         /\ steps["vector"] # None => steps["vector"] \in row.vectors
         /\ steps["binding"] # None =>
              row.binding # None /\ row.binding.digest = steps["binding"]

\* What an attempt near its end knows of the receipt.
Receipted(a) ==
    /\ pc[a] = "approve" => kind = "generated"
    /\ pc[a] = "evidence" /\ kind = "rejected" => work[a].reasons = {"review"}
    /\ pc[a] \in {"binding", "receipt", "complete"} /\ evidence
         => StatusOf(work[a].digest) = StatusOf(work[a].reasons)
    /\ pc[a] \in {"receipt", "complete"} /\ evidence
         => steps["binding"] = work[a].digest /\ work[a].digest # None
    /\ (pc[a] = "receipt" /\ phase[a] = "record") \/ (pc[a] = "complete" /\ evidence)
         => objects["receipt"] = work[a].digest

\* What an attempt that came so far has done, unless somebody deleted the problem.
Has(a) ==
    /\ pc[a] \in Reached => work[a].serial = row.serial
    /\ pc[a] \in {"tests", "cases", "metadata", "vector", "decide"} => "solutions" \in row.assets
    /\ pc[a] \in {"metadata", "vector", "decide"} => "tests" \in row.assets
    /\ (pc[a] = "metadata" /\ phase[a] = "record") \/ pc[a] \in {"vector", "decide"}
         => objects["metadata"] = row.serial
    /\ pc[a] = "vector" /\ phase[a] = "record" => work[a].model \in row.vectors
    /\ pc[a] = "decide" => row.vectors # {}
    /\ pc[a] \in Settled \cup {"approve"} => Stored
    /\ (pc[a] = "binding" /\ phase[a] = "record") \/ pc[a] = "receipt"
           \/ (pc[a] = "complete" /\ evidence)
         => row.binding # None /\ row.binding.digest = work[a].digest

\* A completed operation closed the books on its receipt.
Closed ==
    operation.status = "completed" /\ evidence =>
        /\ operation.result.digest = steps["binding"] /\ steps["binding"] # None
        /\ objects["receipt"] = steps["binding"]

WInv ==
    /\ IInv /\ Numbered /\ Bound /\ Recorded /\ Closed /\ CompletedIsWhole
    /\ \A a \in Attempts : Receipted(a) /\ (Undisturbed => Has(a))

\* A row that stays is added to: what it has and what it is bound to stays.
RowGrew ==
    /\ row'.serial = row.serial
    /\ row.assets \subseteq row'.assets /\ row.vectors \subseteq row'.vectors
    /\ row.status # "generating" => row'.status # "generating"
    /\ row.binding # None => row'.binding = row.binding

\* No step takes anything from a row that stays.
LEMMA RowGrows ==
    ASSUME IInv, Next, row # None, row' # None
    PROVE  RowGrew
<1>0. row \in Rows
  BY HoldsNow
<1>1. CASE UNCHANGED row
  BY <1>1 DEF RowGrew
<1>2. ASSUME NEW a \in Attempts,
             Create(a) \/ InsertSolutions(a) \/ InsertTestCases(a) \/ StoreVector(a)
      PROVE  RowGrew
  BY <1>0, <1>2 DEF Create, InsertSolutions, InsertTestCases, Insert, StoreVector, Rows, RowGrew
<1>3. ASSUME NEW a \in Attempts, Attach(a)
      PROVE  RowGrew
  <2>1. CASE row.binding = None
    BY <1>0, <1>3, <2>1 DEF Attach, Rows, RowGrew
  <2>2. CASE row.binding # None
    BY <1>0, <1>3, <2>2 DEF Attach, AttachAdmitted, Rows, RowGrew
  <2>3. QED
    BY <2>1, <2>2
<1>4. ASSUME NEW a \in Attempts, DecideReview(a)
      PROVE  RowGrew
  BY <1>0, <1>4 DEF DecideReview, Rows, RowGrew
<1>5. ASSUME NEW a \in Attempts, DecideGate(a)
      PROVE  RowGrew
  <2>1. row' = Gated(row) /\ StatusOf(GateReasons(row)) # "generating"
    BY <1>5, Statuses DEF DecideGate
  <2>2. QED
    BY <1>0, <2>1, GatedRow DEF RowGrew
<1>6. ASSUME Approvable, ApplyApproval
      PROVE  RowGrew
  <2>1. row' = Gated(Own(row)) /\ Own(row) \in Rows
    BY <1>0, <1>6, OwnRow DEF ApplyApproval, Own
  <2>2. StatusOf(GateReasons(Own(row))) # "generating"
    BY Statuses
  <2>3. QED
    BY <1>0, <2>1, <2>2, GatedRow, OwnRow DEF RowGrew
<1>7. CASE Edit
  BY <1>0, <1>7 DEF Edit, Rows, RowGrew
<1>8. QED
  BY <1>1, <1>2, <1>3, <1>4, <1>5, <1>6, <1>7, RowChanges DEF ApproveOwn, Approve, Delete

\* Every row that comes is counted, and no other.
LEMMA SerialsCount ==
    ASSUME IInv, Next
    PROVE  /\ serials \in Nat
           /\ \/ UNCHANGED serials /\ (row' # None => row # None)
              \/ /\ row = None /\ serials' = serials + 1 /\ row'.serial = serials'
                 /\ row'.binding = None
                 /\ row'.status = "generating" => kind = "generated"
                 /\ \E a \in Attempts : Create(a)
<1>0. serials \in Nat
  BY Pieces DEF IInv, Typed, BoundsTyped
<1>1. ASSUME NEW a \in Attempts, Create(a)
      PROVE  \/ UNCHANGED serials /\ (row' # None => row # None)
             \/ /\ row = None /\ serials' = serials + 1 /\ row'.serial = serials'
                /\ row'.binding = None
                /\ row'.status = "generating" => kind = "generated"
  BY <1>0, <1>1, HoldsNow DEF Create, NewRow, InitialStatus
<1>2. UNCHANGED serials \/ \E a \in Attempts : Create(a)
  BY BoundsChange DEF bounds, Touch, Expire, Interrupt
<1>3. (row' # None => row # None) \/ \E a \in Attempts : Create(a)
  BY RowChanges
  DEF InsertSolutions, InsertTestCases, Insert, StoreVector, DecideReview, DecideGate,
      ApproveOwn, Attach, AttachAdmitted, Approvable, Delete, Edit, Approve, Touch
<1>4. QED
  BY <1>0, <1>1, <1>2, <1>3

\* Either the first problem was there before, or it comes now.
LEMMA Disturbances ==
    ASSUME IInv, Next, Undisturbed'
    PROVE  \/ Undisturbed /\ RowGrew /\ UNCHANGED serials
           \/ serials = 0 /\ row = None /\ row'.binding = None /\ \E a \in Attempts : Create(a)
  BY SerialsCount, RowGrows DEF Undisturbed

\* A recorded step stays as it is.
LEMMA RecordStays ==
    ASSUME IInv, Next, NEW s \in StepKeys, steps[s] # None
    PROVE  steps'[s] = steps[s]
<1>1. DOMAIN steps = StepKeys
  BY Pieces DEF IInv, Typed, StepsTyped
<1>2. QED
  BY <1>1, StepsStep

\* The two ways in: a row, or a binding found.
LEMMA Entrances ==
    ASSUME IInv, Next, NEW a \in Attempts, pc[a] \notin Reached, pc'[a] \in Reached
    PROVE  Create(a) \/ (Recover(a) /\ Recoverable)
<1>1. pc'[a] # pc[a]
  OBVIOUS
<1>2. Progress(a) \/ Interrupt(a)
  BY <1>1, PlaceChanges, OthersKeep
<1>3. ASSUME NEW s \in {"over", "recover", "failing", "create"}, Goto(a, s)
      PROVE  FALSE
  BY <1>3, Arrives DEF Reached, Settled
<1>4. ~Interrupt(a)
  BY <1>3 DEF Interrupt
<1>5. ~Fail(a) /\ (\A p \in Payloads : ~BeginRefused(a, p))
      /\ (\A p \in Payloads, m \in Models : ~Begin(a, p, m))
  BY <1>3 DEF Fail, Begin, BeginRefused
<1>6. Recover(a) => Recoverable
  BY <1>3 DEF Recover
<1>7. Create(a) \/ Recover(a)
  BY <1>2, <1>4, <1>5
  DEF Progress, Step, InsertSolutions, InsertTestCases, Insert, CheckStep, RecordStep, Upload,
      StoreVector, Attach, DecideDraft, DecideReview, DecideGate, DecideLost, ApproveOwn,
      SkipApproval, BuildReceipt, Complete, Reached, Settled, StepKeys, Objects
<1>8. QED
  BY <1>6, <1>7

\* The count of the rows is right, and nothing is done before the first.
LEMMA NumberedStep ==
    ASSUME IInv, Numbered, Next
    PROVE  Numbered'
<1>0. row # None => /\ row.serial \in Serials /\ row.serial = serials
                    /\ row.status = "generating" => kind = "generated"
  BY HoldsNow DEF Numbered, Rows
<1>1. row' # None => row'.serial = serials' /\ (row'.status = "generating" => kind' = "generated")
  <2>1. CASE row # None /\ row' # None
    BY <1>0, <2>1, RowGrows, SerialsCount, InputKept DEF RowGrew
  <2>2. CASE row = None
    BY <2>2, SerialsCount, InputKept
  <2>3. QED
    BY <2>1, <2>2
<1>2. ASSUME serials' = 0
      PROVE  /\ operation'.status # "completed"
             /\ \A s \in StepKeys : steps'[s] = None
             /\ \A a \in Attempts : pc'[a] \notin Reached
  <2>1. serials = 0 /\ row = None /\ (\A a \in Attempts : ~Create(a) \/ row # None)
    BY <1>0, <1>2, SerialsCount DEF Create, Serials
  <2>2. /\ operation.status # "completed"
        /\ \A s \in StepKeys : steps[s] = None
        /\ \A a \in Attempts : pc[a] \notin Reached
    BY <2>1 DEF Numbered
  <2>3. steps' = steps
    BY <2>2, StepsStep DEF Reached, Settled, StepKeys
  <2>4. operation'.status # "completed"
    <3>1. OperationTyped
      BY Pieces DEF IInv, Typed
    <3>2. QED
      BY <2>2, <3>1, OperationChanges
      DEF Begin, Complete, Fail, Failed, OperationTyped, Reached, Settled
  <2>5. ASSUME NEW a \in Attempts
        PROVE  pc'[a] \notin Reached
    BY <2>1, <2>2, Entrances DEF Recoverable
  <2>6. QED
    BY <2>2, <2>3, <2>4, <2>5
<1>3. QED
  BY <1>1, <1>2 DEF Numbered

\* An upload repeats what attempts that came as far have uploaded.
LEMMA ObjectsStay ==
    ASSUME WInv, Next
    PROVE  /\ steps["binding"] # None /\ objects["receipt"] = steps["binding"]
                => objects'["receipt"] = steps["binding"]
           /\ Undisturbed /\ objects["metadata"] = row.serial
                => objects'["metadata"] = row.serial
<1>0. IInv /\ DOMAIN objects = Objects /\ {"tests", "metadata", "receipt"} = Objects
  BY DEF WInv, IInv, Uploaded, Objects
<1>1. CASE UNCHANGED objects
  BY <1>1
<1>2. ASSUME NEW a \in Attempts, NEW o \in Objects, Upload(a, o)
      PROVE  /\ objects["receipt"] = steps["binding"] => objects'["receipt"] = steps["binding"]
             /\ Undisturbed /\ objects["metadata"] = row.serial
                  => objects'["metadata"] = row.serial
  <2>1. objects' = [objects EXCEPT ![o] = Hash(a, o)] /\ pc[a] = o
    BY <1>2 DEF Upload
  <2>2. o = "receipt" => Hash(a, o) = steps["binding"]
    BY <2>1 DEF Hash, WInv, Receipted, IInv, Fits
  <2>3. o = "metadata" /\ Undisturbed => Hash(a, o) = row.serial
    BY <2>1 DEF Hash, WInv, Has, Reached
  <2>4. QED
    BY <1>0, <2>1, <2>2, <2>3
<1>3. QED
  BY <1>1, <1>2, ObjectsChanges

\* What precedes a decision stays.
LEMMA StoredStays ==
    ASSUME WInv, Next, Undisturbed, Undisturbed', Stored
    PROVE  Stored'
<1>0. IInv /\ row # None /\ row' # None /\ row \in Rows
  BY HoldsNow DEF WInv, Undisturbed
<1>1. RowGrew
  BY <1>0, RowGrows
<1>2. row' \in Rows
  BY <1>0, RowStep DEF RowHolds, RowTyped
<1>3. row'.assets = Assets /\ row'.vectors # {}
  BY <1>1, <1>2 DEF Stored, RowGrew, Rows
<1>4. QED
  BY <1>1, <1>3, ObjectsStay DEF Stored, RowGrew

\* A binding is the one there was, or one an attempt brings.
LEMMA BindingComes ==
    ASSUME IInv, Next, row' # None, row'.binding # None
    PROVE  \/ row # None /\ row.binding = row'.binding
           \/ \E a \in Attempts : pc[a] = "binding" /\ row # None /\ row'.binding = Binding(a)
<1>0. row # None => row \in Rows
  BY HoldsNow
<1>1. CASE UNCHANGED row
  BY <1>1
<1>2. CASE row # None /\ row.binding # None
  BY <1>2, RowGrows DEF RowGrew
<1>3. ASSUME NEW a \in Attempts, Attach(a)
      PROVE  UNCHANGED row \/ (pc[a] = "binding" /\ row # None /\ row'.binding = Binding(a))
  BY <1>0, <1>3 DEF Attach, AttachAdmitted, Rows
<1>4. ASSUME NEW a \in Attempts,
             \/ Create(a) \/ InsertSolutions(a) \/ InsertTestCases(a) \/ StoreVector(a)
             \/ DecideReview(a)
      PROVE  row # None /\ row.binding = row'.binding
  <2>1. CASE Create(a)
    BY <2>1 DEF Create, NewRow
  <2>2. CASE InsertSolutions(a) \/ InsertTestCases(a)
    BY <1>0, <2>2 DEF InsertSolutions, InsertTestCases, Insert, Rows
  <2>3. CASE StoreVector(a)
    BY <1>0, <2>3 DEF StoreVector, Rows
  <2>4. CASE DecideReview(a)
    BY <1>0, <2>4 DEF DecideReview, Rows
  <2>5. QED
    BY <1>4, <2>1, <2>2, <2>3, <2>4
<1>5. ASSUME NEW a \in Attempts, DecideGate(a)
      PROVE  row # None /\ row.binding = row'.binding
  BY <1>0, <1>5, GatedRow DEF DecideGate
<1>6. ASSUME Approvable, ApplyApproval
      PROVE  row # None /\ row.binding = row'.binding
  <2>1. row # None /\ row' = Gated(Own(row))
    BY <1>6 DEF Approvable, ApplyApproval, Own
  <2>2. QED
    BY <1>0, <2>1, GatedRow, OwnRow
<1>7. CASE Edit
  BY <1>0, <1>7 DEF Edit, Touch, Rows
<1>8. QED
  BY <1>1, <1>3, <1>4, <1>5, <1>6, <1>7, RowChanges DEF ApproveOwn, Approve, Delete

\* A binding is of one status, and its problem is stored.
LEMMA BoundStep ==
    ASSUME WInv, Next
    PROVE  Bound'
<1> SUFFICES ASSUME row' # None, row'.binding # None
             PROVE  /\ StatusOf(row'.binding.digest) = StatusOf(row'.binding.reasons)
                    /\ Undisturbed' => Stored'
  BY DEF Bound, StatusOf
<1>0. IInv
  BY DEF WInv
<1>1. Undisturbed' => Undisturbed
  BY <1>0, Disturbances
<1>2. CASE row # None /\ row.binding = row'.binding
  BY <1>1, <1>2, StoredStays DEF WInv, Bound
<1>3. ASSUME NEW a \in Attempts, pc[a] = "binding", row # None, row'.binding = Binding(a)
      PROVE  /\ StatusOf(row'.binding.digest) = StatusOf(row'.binding.reasons)
             /\ Undisturbed' => Stored'
  <2>1. Binding(a).digest = work[a].digest /\ Binding(a).reasons = work[a].reasons
    BY DEF Binding
  <2>2. StatusOf(work[a].digest) = StatusOf(work[a].reasons)
    BY <1>3 DEF WInv, Receipted, IInv, Fits
  <2>3. Undisturbed => Stored
    BY <1>3 DEF WInv, Has, Settled
  <2>4. QED
    BY <1>1, <1>3, <2>1, <2>2, <2>3, StoredStays
<1>4. QED
  BY <1>0, <1>2, <1>3, BindingComes

\* A step is recorded after its effect, and the effect stays.
LEMMA RecordedStep ==
    ASSUME WInv, Next
    PROVE  Recorded'
<1>0. IInv /\ Recorded /\ StepsTyped /\ \A d \in Digests : d # None
  BY Pieces, NoneAssumption DEF WInv, IInv, Typed
<1>1. steps'["receipt"] # None =>
        steps'["receipt"] = steps'["binding"] /\ objects'["receipt"] = steps'["receipt"]
  <2>1. steps["receipt"] # None =>
          /\ steps'["receipt"] = steps["receipt"] /\ steps'["binding"] = steps["binding"]
          /\ steps["receipt"] = steps["binding"] /\ objects["receipt"] = steps["binding"]
    BY <1>0, RecordStays DEF Recorded, StepKeys
  <2>2. steps["receipt"] = None /\ steps'["receipt"] # None =>
          /\ steps'["receipt"] = steps["binding"] /\ steps["binding"] # None
          /\ steps'["binding"] = steps["binding"] /\ objects["receipt"] = steps["binding"]
    <3>1. ASSUME NEW a \in Attempts, pc[a] = "receipt", phase[a] = "record"
          PROVE  /\ Hash(a, "receipt") = steps["binding"] /\ steps["binding"] # None
                 /\ objects["receipt"] = steps["binding"]
      BY <1>0, <3>1 DEF WInv, Receipted, Hash, IInv, Fits
    <3>2. steps["binding"] # None => steps'["binding"] = steps["binding"]
      BY <1>0, RecordStays DEF StepKeys
    <3>3. steps["receipt"] = None /\ steps'["receipt"] # None =>
            \E a \in Attempts : /\ pc[a] = "receipt" /\ phase[a] = "record"
                                /\ steps'["receipt"] = Hash(a, "receipt")
      BY <1>0, StepsStep DEF StepsTyped, StepKeys
    <3>4. QED
      BY <3>1, <3>2, <3>3
  <2>3. QED
    BY <2>1, <2>2, ObjectsStay
<1>2. ASSUME Undisturbed, RowGrew
      PROVE  /\ steps'["metadata"] # None =>
                  steps'["metadata"] = row'.serial /\ objects'["metadata"] = row'.serial
             /\ steps'["vector"] # None => steps'["vector"] \in row'.vectors
             /\ steps'["binding"] # None =>
                  row'.binding # None /\ row'.binding.digest = steps'["binding"]
  <2>1. /\ steps'["metadata"] # None =>
             steps'["metadata"] = row.serial /\ objects["metadata"] = row.serial
        /\ steps'["vector"] # None => steps'["vector"] \in row.vectors
        /\ steps'["binding"] # None =>
             row.binding # None /\ row.binding.digest = steps'["binding"]
    <3>1. CASE UNCHANGED steps
      BY <1>0, <1>2, <3>1 DEF Recorded
    <3>2. ASSUME NEW a \in Attempts, NEW s \in StepKeys, pc[a] = s, phase[a] = "record",
                 steps' = [steps EXCEPT ![s] = IF @ = None THEN Hash(a, s) ELSE @]
          PROVE  /\ steps'["metadata"] # None =>
                      steps'["metadata"] = row.serial /\ objects["metadata"] = row.serial
                 /\ steps'["vector"] # None => steps'["vector"] \in row.vectors
                 /\ steps'["binding"] # None =>
                      row.binding # None /\ row.binding.digest = steps'["binding"]
      <4>1. /\ s = "metadata" => Hash(a, s) = row.serial /\ objects["metadata"] = row.serial
            /\ s = "vector" => Hash(a, s) \in row.vectors
            /\ s = "binding" => row.binding # None /\ row.binding.digest = Hash(a, s)
        BY <1>2, <3>2 DEF WInv, Has, Hash, Reached
      <4>2. /\ DOMAIN steps = StepKeys
            /\ steps["metadata"] # None =>
                 steps["metadata"] = row.serial /\ objects["metadata"] = row.serial
            /\ steps["vector"] # None => steps["vector"] \in row.vectors
            /\ steps["binding"] # None =>
                 row.binding # None /\ row.binding.digest = steps["binding"]
        BY <1>0, <1>2 DEF Recorded, StepsTyped
      <4>3. QED
        BY <3>2, <4>1, <4>2 DEF StepKeys
    <3>3. QED
      BY <1>0, <3>1, <3>2, StepsStep
  <2>2. QED
    BY <1>2, <2>1, ObjectsStay DEF RowGrew
<1>3. ASSUME serials = 0, NEW a \in Attempts, Create(a)
      PROVE  \A s \in StepKeys : steps'[s] = None
  BY <1>3 DEF Create, WInv, Numbered
<1>4. QED
  BY <1>0, <1>1, <1>2, <1>3, Disturbances DEF Recorded, StepKeys

\* What others do leaves a receipt alone.
LEMMA OthersReceipted ==
    ASSUME WInv, Next, NEW b \in Attempts,
           pc'[b] = pc[b], phase'[b] = phase[b], work'[b] = work[b]
    PROVE  Receipted(b)'
<1>1. /\ IInv /\ Receipted(b) /\ UNCHANGED <<kind, evidence>>
      /\ steps["binding"] # None => steps'["binding"] = steps["binding"]
  BY InputKept, RecordStays DEF WInv, StepKeys
<1>2. /\ pc[b] = "receipt" => evidence
      /\ steps["binding"] # None /\ objects["receipt"] = steps["binding"]
           => objects'["receipt"] = steps["binding"]
  BY <1>1, ObjectsStay DEF IInv, Fits
<1>3. QED
  BY <1>1, <1>2 DEF Receipted, StatusOf

\* What an attempt learns it knows.
LEMMA Knows ==
    ASSUME IInv, NEW a \in Attempts, NEW w, work' = [work EXCEPT ![a] = w]
    PROVE  work'[a] = w
<1>1. WorkTyped
  BY Pieces DEF IInv, Typed
<1>2. QED
  BY <1>1 DEF WorkTyped

\* Far from the end there is no receipt.
LEMMA EarlyReceipted ==
    ASSUME NEW a \in Attempts,
           pc'[a] \notin {"approve", "evidence", "binding", "receipt", "complete"}
    PROVE  Receipted(a)'
  BY DEF Receipted

\* A recovered attempt has the reasons and the digest of one binding.
LEMMA RecoverReceipted ==
    ASSUME WInv, Next, NEW a \in Attempts, Recover(a)
    PROVE  Receipted(a)'
<1>0. IInv
  BY DEF WInv
<1>1. CASE Recoverable
  <2>1. pc'[a] = "binding" /\ work' = [work EXCEPT ![a] = Recovered(work[a])]
    BY <1>0, <1>1, Arrives DEF Recover
  <2>2. work[a] \in Works
    BY <1>0, OnTheWay DEF Recover, Out
  <2>3. /\ Recovered(work[a]).digest = row.binding.digest
        /\ Recovered(work[a]).reasons = row.binding.reasons
    BY <2>2 DEF Recovered, Works
  <2>4. StatusOf(row.binding.digest) = StatusOf(row.binding.reasons)
    BY <1>1 DEF WInv, Bound, Recoverable
  <2>5. work'[a] = Recovered(work[a])
    BY <1>0, <2>1, Knows
  <2>6. QED
    BY <2>1, <2>3, <2>4, <2>5 DEF Receipted, StatusOf
<1>2. CASE ~Recoverable
  BY <1>0, <1>2, Arrives, EarlyReceipted DEF Recover
<1>3. QED
  BY <1>1, <1>2

\* A step of the ledger goes to its effect, fails, or is over: then it is recorded.
LEMMA StepOutcomes ==
    ASSUME IInv, NEW a \in Attempts, NEW s \in StepKeys, CheckStep(a, s) \/ RecordStep(a, s)
    PROVE  \/ pc'[a] = s /\ phase'[a] = "apply"
           \/ pc'[a] = "failing"
           \/ /\ pc'[a] = After(s) /\ phase'[a] = "check"
              /\ steps'[s] = Hash(a, s)
              /\ phase[a] = "record" \/ (steps[s] # None /\ steps[s] = Hash(a, s))
<1>0. PlaceTyped /\ StepsTyped
  BY Pieces DEF IInv, Typed
<1>1. CASE CheckStep(a, s) /\ steps[s] = None
  BY <1>0, <1>1 DEF CheckStep, PlaceTyped
<1>2. CASE CheckStep(a, s) /\ steps[s] # None
  <2>1. UNCHANGED steps /\ Goto(a, IF steps[s] = Hash(a, s) THEN After(s) ELSE "failing")
    BY <1>2 DEF CheckStep, database
  <2>2. /\ pc'[a] = IF steps[s] = Hash(a, s) THEN After(s) ELSE "failing"
        /\ phase'[a] = "check"
    BY <2>1, Arrives
  <2>3. QED
    BY <1>2, <2>1, <2>2
<1>3. CASE RecordStep(a, s)
  <2>1. /\ steps' = [steps EXCEPT ![s] = IF @ = None THEN Hash(a, s) ELSE @]
        /\ Goto(a, IF steps[s] \in {None, Hash(a, s)} THEN After(s) ELSE "failing")
        /\ phase[a] = "record"
    BY <1>3 DEF RecordStep
  <2>2. /\ pc'[a] = IF steps[s] \in {None, Hash(a, s)} THEN After(s) ELSE "failing"
        /\ phase'[a] = "check"
    BY <2>1, Arrives
  <2>3. steps[s] \in {None, Hash(a, s)} => steps'[s] = Hash(a, s)
    BY <1>0, <2>1 DEF StepsTyped
  <2>4. QED
    BY <2>1, <2>2, <2>3
<1>4. QED
  BY <1>1, <1>2, <1>3

\* It leaves the binding step with the digest recorded, and the receipt step
\* with the object uploaded.
LEMMA StepReceipted ==
    ASSUME WInv, Next, NEW a \in Attempts, NEW s \in StepKeys, CheckStep(a, s) \/ RecordStep(a, s)
    PROVE  Receipted(a)'
<1>0. /\ IInv /\ Receipted(a) /\ UNCHANGED work /\ UNCHANGED objects /\ pc[a] = s
      /\ UNCHANGED <<kind, evidence>> /\ PlaceTyped
      /\ \A d \in Digests : d # None
  BY Pieces, NoneAssumption, InputKept DEF WInv, IInv, Typed, CheckStep, RecordStep
<1>1. CASE s \in {"tests", "metadata", "vector"}
  <2>1. After(s) \in {"cases", "vector", "decide"}
    BY <1>1 DEF After
  <2>2. QED
    BY <1>0, <1>1, <2>1, StepOutcomes, EarlyReceipted
<1>2. CASE s \in {"binding", "receipt"}
  <2>0. /\ evidence /\ work[a].digest \in Digests /\ Hash(a, s) = work[a].digest
        /\ StatusOf(work[a].digest) = StatusOf(work[a].reasons)
        /\ After("binding") = "receipt" /\ After("receipt") = "complete"
        /\ s = "receipt" => steps["binding"] = work[a].digest
    BY <1>0, <1>2 DEF IInv, Fits, Receipted, Hash, After
  <2>1. s = "receipt" => steps'["binding"] = work[a].digest
    BY <1>0, <2>0, RecordStays DEF StepKeys
  <2>2. CASE pc'[a] = s /\ phase'[a] = "apply"
    BY <1>0, <1>2, <2>0, <2>1, <2>2 DEF Receipted, StatusOf
  <2>3. CASE pc'[a] = "failing"
    BY <2>3, EarlyReceipted
  <2>4. CASE /\ pc'[a] = After(s) /\ phase'[a] = "check"
             /\ steps'[s] = Hash(a, s)
             /\ phase[a] = "record" \/ (steps[s] # None /\ steps[s] = Hash(a, s))
    <3>1. s = "binding" => steps'["binding"] = work[a].digest
      BY <2>0, <2>4
    <3>2. s = "receipt" => objects["receipt"] = work[a].digest
      BY <1>0, <2>0, <2>4 DEF Receipted, WInv, Recorded
    <3>3. QED
      BY <1>0, <1>2, <2>0, <2>1, <2>4, <3>1, <3>2 DEF Receipted, StatusOf
  <2>5. QED
    BY <1>0, <2>2, <2>3, <2>4, StepOutcomes
<1>3. QED
  BY <1>1, <1>2 DEF StepKeys

\* It uploads the digest recorded.
LEMMA ApplyReceipted ==
    ASSUME WInv, Next, NEW a \in Attempts,
           (\E o \in Objects : Upload(a, o)) \/ StoreVector(a) \/ Attach(a)
    PROVE  Receipted(a)'
<1>0. /\ IInv /\ Receipted(a) /\ UNCHANGED work /\ UNCHANGED steps /\ UNCHANGED <<kind, evidence>>
  BY InputKept DEF WInv, Upload, StoreVector, Attach, database
<1>1. CASE Upload(a, "receipt")
  <2>1. /\ pc[a] = "receipt" /\ UNCHANGED pc /\ Hash(a, "receipt") = work[a].digest
        /\ objects' = [objects EXCEPT !["receipt"] = Hash(a, "receipt")]
    BY <1>1 DEF Upload, Applied, Hash
  <2>2. objects'["receipt"] = work[a].digest
    BY <1>0, <2>1 DEF IInv, Uploaded, Objects
  <2>3. QED
    BY <1>0, <2>1, <2>2 DEF Receipted, StatusOf
<1>2. CASE Upload(a, "tests") \/ Upload(a, "metadata")
  BY <1>2, EarlyReceipted DEF Upload, Applied
<1>3. CASE StoreVector(a)
  <2>1. pc[a] = "vector" /\ (UNCHANGED pc \/ Goto(a, "failing"))
    BY <1>3 DEF StoreVector, Applied
  <2>2. QED
    BY <1>0, <2>1, Arrives, EarlyReceipted
<1>4. CASE Attach(a)
  <2>1. pc[a] = "binding" /\ (UNCHANGED pc \/ Goto(a, "failing"))
    BY <1>4 DEF Attach, Applied
  <2>2. CASE Goto(a, "failing")
    BY <1>0, <2>2, Arrives, EarlyReceipted
  <2>3. CASE UNCHANGED pc
    BY <1>0, <2>1, <2>3 DEF Receipted, StatusOf
  <2>4. QED
    BY <2>1, <2>2, <2>3
<1>5. QED
  BY <1>1, <1>2, <1>3, <1>4 DEF Objects

\* It comes to the receipt with the reasons of its kind.
LEMMA DecideReceipted ==
    ASSUME WInv, Next, NEW a \in Attempts,
           \/ DecideDraft(a) \/ DecideReview(a) \/ DecideGate(a) \/ DecideLost(a)
           \/ ApproveOwn(a) \/ SkipApproval(a)
    PROVE  Receipted(a)'
<1>0. /\ IInv /\ Receipted(a) /\ UNCHANGED <<kind, evidence>>
      /\ AfterDecision \in {"evidence", "complete"} /\ (AfterDecision = "complete" => ~evidence)
  BY InputKept DEF WInv, AfterDecision
<1>1. CASE DecideLost(a)
  BY <1>0, <1>1, Arrives, EarlyReceipted DEF DecideLost
<1>2. CASE DecideReview(a)
  <2>1. /\ kind = "rejected" /\ pc'[a] = AfterDecision
        /\ work' = [work EXCEPT ![a] = [work[a] EXCEPT !.reasons = {"review"}]]
    BY <1>0, <1>2, Arrives DEF DecideReview, Conclude
  <2>2. work[a] \in Works
    BY <1>0, <1>2, OnTheWay DEF DecideReview, Out
  <2>3. work'[a] = [work[a] EXCEPT !.reasons = {"review"}]
    BY <1>0, <2>1, Knows
  <2>4. work'[a].reasons = {"review"}
    BY <2>2, <2>3 DEF Works
  <2>5. QED
    BY <1>0, <2>1, <2>4 DEF Receipted
<1>3. CASE DecideDraft(a) \/ DecideGate(a) \/ ApproveOwn(a) \/ SkipApproval(a)
  <2>1. /\ kind # "rejected"
        /\ \E s \in {"approve", AfterDecision} :
              Goto(a, s) /\ (s = "approve" => kind = "generated")
    BY <1>0, <1>3
    DEF DecideDraft, DecideGate, ApproveOwn, SkipApproval, Conclude, Receipted
  <2>2. /\ pc'[a] \in {"approve", AfterDecision}
        /\ pc'[a] = "approve" => kind = "generated"
    BY <1>0, <2>1, Arrives
  <2>3. QED
    BY <1>0, <2>1, <2>2 DEF Receipted
<1>4. QED
  BY <1>1, <1>2, <1>3

\* The outcome found in the problem has the status decided.
LEMMA BuildReceipted ==
    ASSUME WInv, Next, NEW a \in Attempts, BuildReceipt(a)
    PROVE  Receipted(a)'
<1>0. IInv /\ Receipted(a) /\ pc[a] = "evidence" /\ kind \in {"generated", "rejected"}
  BY HoldsNow DEF WInv, BuildReceipt, IInv, Fits, Counted
<1>1. CASE Final(work[a].reasons)
  <2>1. /\ pc'[a] = "binding" /\ work[a] \in Works
        /\ work' = [work EXCEPT ![a] = [work[a] EXCEPT !.digest = Outcome]]
    BY <1>0, <1>1, Arrives, OnTheWay DEF BuildReceipt, Out
  <2>2. work'[a].digest = Outcome /\ work'[a].reasons = work[a].reasons
    <3>1. work'[a] = [work[a] EXCEPT !.digest = Outcome]
      BY <1>0, <2>1, Knows
    <3>2. QED
      BY <2>1, <3>1 DEF Works
  <2>3. StatusOf(Outcome) = StatusOf(work[a].reasons)
    <3>1. CASE kind = "rejected"
      BY <1>0, <3>1 DEF Outcome, Receipted
    <3>2. CASE kind = "generated"
      BY <1>1, <3>2 DEF Outcome, Final
    <3>3. QED
      BY <1>0, <3>1, <3>2
  <2>4. QED
    BY <2>1, <2>2, <2>3 DEF Receipted, StatusOf
<1>2. CASE ~Final(work[a].reasons)
  BY <1>0, <1>2, Arrives, EarlyReceipted DEF BuildReceipt
<1>3. QED
  BY <1>1, <1>2

\* No attempt is ever wrong about the receipt.
LEMMA ReceiptedStep ==
    ASSUME WInv, Next
    PROVE  \A b \in Attempts : Receipted(b)'
<1> SUFFICES ASSUME NEW b \in Attempts PROVE Receipted(b)'
  OBVIOUS
<1>0. IInv
  BY DEF WInv
<1>1. CASE Progress(b) \/ Interrupt(b)
  <2>1. ASSUME NEW s \in {"recover", "over", "failing", "solutions", "tests", "metadata"},
               Goto(b, s)
        PROVE  Receipted(b)'
    BY <1>0, <2>1, Arrives, EarlyReceipted
  <2>2. CASE \/ \E p \in Payloads, m \in Models : Begin(b, p, m)
             \/ \E p \in Payloads : BeginRefused(b, p)
             \/ Create(b) \/ InsertSolutions(b) \/ InsertTestCases(b)
             \/ Complete(b) \/ Fail(b) \/ Interrupt(b)
    BY <2>1, <2>2
    DEF Begin, BeginRefused, Create, InsertSolutions, InsertTestCases, Insert, Complete, Fail,
        Interrupt
  <2>3. QED
    BY <1>1, <2>2, RecoverReceipted, StepReceipted, ApplyReceipted, DecideReceipted,
       BuildReceipted
    DEF Progress, Step
<1>2. CASE ~(Progress(b) \/ Interrupt(b))
  <2>1. pc'[b] = pc[b] /\ phase'[b] = phase[b] /\ work'[b] = work[b]
    <3>1. ASSUME NEW a \in Attempts, Progress(a) \/ Interrupt(a)
          PROVE  pc'[b] = pc[b] /\ phase'[b] = phase[b] /\ work'[b] = work[b]
      BY <1>0, <1>2, <3>1, OthersKeep
    <3>2. QED
      BY <3>1 DEF Next, Expire, Delete, Edit, Approve, Touch, attempt
  <2>2. QED
    BY <2>1, OthersReceipted
<1>3. QED
  BY <1>1, <1>2

-----------------------------------------------------------------------------
\* What others do to a row that stays leaves an attempt what it has.
LEMMA OthersHave ==
    ASSUME WInv, Next, Undisturbed, Undisturbed', NEW b \in Attempts,
           pc'[b] = pc[b], phase'[b] = phase[b], work'[b] = work[b]
    PROVE  Has(b)'
<1>1. /\ Has(b) /\ RowGrew /\ UNCHANGED evidence /\ row # None /\ row' # None
      /\ row' \in Rows
  BY Disturbances, RowGrows, RowStep, InputKept DEF WInv, Undisturbed, RowHolds, RowTyped
<1>2. Stored => Stored'
  BY StoredStays
<1>3. objects["metadata"] = row.serial => objects'["metadata"] = row'.serial
  BY <1>1, ObjectsStay DEF RowGrew
<1>4. row.vectors # {} => row'.vectors # {}
  BY <1>1 DEF RowGrew
<1>5. QED
  BY <1>1, <1>2, <1>3, <1>4 DEF Has, RowGrew

\* What there is to know of a row that stays.
LEMMA Still ==
    ASSUME WInv, Next, Undisturbed, Undisturbed', NEW a \in Attempts
    PROVE  /\ IInv /\ Has(a) /\ RowGrew /\ UNCHANGED evidence
           /\ row # None /\ row' # None /\ row \in Rows /\ row' \in Rows
           /\ Stored => Stored'
           /\ objects["metadata"] = row.serial => objects'["metadata"] = row'.serial
           /\ row'.serial = row.serial
<1>1. /\ IInv /\ Has(a) /\ RowGrew /\ UNCHANGED evidence /\ row # None /\ row' # None
      /\ row \in Rows /\ row' \in Rows
  BY Disturbances, RowGrows, RowStep, HoldsNow, InputKept
  DEF WInv, Undisturbed, RowHolds, RowTyped
<1>2. QED
  BY <1>1, StoredStays, ObjectsStay DEF RowGrew

\* An attempt that has done nothing needs nothing.
LEMMA EarlyHas ==
    ASSUME NEW a \in Attempts, pc'[a] \notin Reached
    PROVE  Has(a)'
  BY DEF Has, Reached, Settled

\* What is bound is stored.
LEMMA RecoverHas ==
    ASSUME WInv, Next, Undisturbed, Undisturbed', NEW a \in Attempts, Recover(a)
    PROVE  Has(a)'
<1>1. CASE Recoverable
  <2>1. /\ pc'[a] = "binding" /\ phase'[a] = "check"
        /\ work' = [work EXCEPT ![a] = Recovered(work[a])]
    BY <1>1, Still, Arrives DEF Recover
  <2>2. work[a] \in Works
    BY Still, OnTheWay DEF Recover, Out
  <2>3. work'[a] = Recovered(work[a])
    BY <2>1, Still, Knows
  <2>4. work'[a].serial = row.serial
    BY <2>2, <2>3 DEF Recovered, Works
  <2>5. Stored'
    BY <1>1, Still DEF WInv, Bound, Recoverable
  <2>6. QED
    BY <2>1, <2>4, <2>5, Still DEF Has
<1>2. CASE ~Recoverable
  BY <1>2, Still, Arrives, EarlyHas DEF Recover, Reached, Settled
<1>3. QED
  BY <1>1, <1>2

\* An attempt knows the number of the row.
LEMMA CreateHas ==
    ASSUME IInv, NEW a \in Attempts, Create(a)
    PROVE  Has(a)'
<1>1. /\ pc'[a] = "solutions" /\ work[a] \in Works
      /\ work' = [work EXCEPT ![a] = [work[a] EXCEPT !.serial = row'.serial]]
  BY Arrives, OnTheWay DEF Create, Out
<1>2. work'[a] = [work[a] EXCEPT !.serial = row'.serial]
  BY <1>1, Knows
<1>3. work'[a].serial = row'.serial
  BY <1>1, <1>2 DEF Works
<1>4. QED
  BY <1>1, <1>3 DEF Has, Settled

\* What an attempt inserts is there.
LEMMA InsertHas ==
    ASSUME WInv, Next, Undisturbed, Undisturbed', NEW a \in Attempts,
           InsertSolutions(a) \/ InsertTestCases(a)
    PROVE  Has(a)'
<1>0. IInv /\ row # None /\ row \in Rows /\ row'.serial = row.serial /\ Has(a) /\ UNCHANGED work
  BY Still DEF InsertSolutions, InsertTestCases, Insert
<1>1. CASE InsertSolutions(a)
  <2>1. /\ pc[a] = "solutions" /\ pc'[a] = "tests" /\ phase'[a] = "check"
        /\ "solutions" \in row'.assets
    BY <1>0, <1>1, Arrives DEF InsertSolutions, Insert, Rows
  <2>2. QED
    BY <1>0, <2>1 DEF Has, Reached, Settled
<1>2. CASE InsertTestCases(a)
  <2>1. /\ pc[a] = "cases" /\ pc'[a] = "metadata" /\ phase'[a] = "check"
        /\ row'.assets = row.assets \cup {"tests"}
    BY <1>0, <1>2, Arrives DEF InsertTestCases, Insert, Rows
  <2>2. QED
    BY <1>0, <2>1 DEF Has, Reached, Settled
<1>3. QED
  BY <1>1, <1>2

\* What an attempt skips, another one did.
LEMMA StepHas ==
    ASSUME WInv, Next, Undisturbed, Undisturbed', NEW a \in Attempts, NEW s \in StepKeys,
           CheckStep(a, s) \/ RecordStep(a, s)
    PROVE  Has(a)'
<1>0. /\ IInv /\ Has(a) /\ Receipted(a) /\ Recorded /\ row' = row /\ UNCHANGED work
      /\ UNCHANGED objects /\ UNCHANGED evidence /\ pc[a] = s
      /\ Stored => Stored'
      /\ s \in {"binding", "receipt"} => evidence
  BY Still DEF WInv, CheckStep, RecordStep, database, IInv, Fits
<1>1. CASE pc'[a] = s /\ phase'[a] = "apply"
  BY <1>0, <1>1 DEF Has
<1>2. CASE pc'[a] = "failing"
  BY <1>2, EarlyHas DEF Reached, Settled
<1>3. CASE /\ pc'[a] = After(s) /\ phase'[a] = "check"
           /\ phase[a] = "record" \/ (steps[s] # None /\ steps[s] = Hash(a, s))
  <2>1. CASE s = "tests"
    BY <1>0, <1>3, <2>1 DEF Has, After, Reached, Settled
  <2>2. CASE s = "metadata"
    <3>1. objects["metadata"] = row.serial
      BY <1>0, <1>3, <2>2 DEF Has, Recorded
    <3>2. QED
      BY <1>0, <1>3, <2>2, <3>1 DEF Has, After, Reached, Settled
  <2>3. CASE s = "vector"
    <3>1. row.vectors # {}
      BY <1>0, <1>3, <2>3 DEF Has, Recorded
    <3>2. QED
      BY <1>0, <1>3, <2>3, <3>1 DEF Has, After, Reached, Settled
  <2>4. CASE s = "binding"
    <3>1. row.binding # None /\ row.binding.digest = work[a].digest
      BY <1>0, <1>3, <2>4 DEF Has, Recorded, Hash
    <3>2. QED
      BY <1>0, <1>3, <2>4, <3>1 DEF Has, After, Reached, Settled
  <2>5. CASE s = "receipt"
    BY <1>0, <1>3, <2>5 DEF Has, After, Reached, Settled
  <2>6. QED
    BY <2>1, <2>2, <2>3, <2>4, <2>5 DEF StepKeys
<1>4. QED
  BY <1>0, <1>1, <1>2, <1>3, StepOutcomes

\* What an attempt applies is there.
LEMMA ApplyHas ==
    ASSUME WInv, Next, Undisturbed, Undisturbed', NEW a \in Attempts,
           (\E o \in Objects : Upload(a, o)) \/ StoreVector(a) \/ Attach(a)
    PROVE  Has(a)'
<1>0. /\ IInv /\ Has(a) /\ row # None /\ row \in Rows /\ row'.serial = row.serial /\ RowGrew
      /\ UNCHANGED work /\ UNCHANGED evidence
      /\ objects["metadata"] = row.serial => objects'["metadata"] = row'.serial
  BY Still DEF Upload, StoreVector, Attach
<1>1. Stored => Stored'
  BY Still
<1>2. ASSUME NEW o \in Objects, Upload(a, o)
      PROVE  Has(a)'
  <2>1. /\ pc[a] = o /\ pc' = pc /\ row' = row
        /\ objects' = [objects EXCEPT ![o] = Hash(a, o)]
    BY <1>2 DEF Upload, Applied, database
  <2>2. o = "metadata" => objects'["metadata"] = row'.serial
    BY <1>0, <2>1 DEF IInv, Uploaded, Objects, Hash, Has, Reached
  <2>3. QED
    BY <1>0, <1>1, <2>1, <2>2 DEF Has, Objects
<1>3. CASE StoreVector(a)
  <2>1. pc[a] = "vector" /\ pc' = pc /\ row' = [row EXCEPT !.vectors = @ \cup {work[a].model}]
        /\ UNCHANGED objects
    BY <1>0, <1>3 DEF StoreVector, Applied
  <2>2. work[a].model \in row'.vectors /\ row'.assets = row.assets
    BY <1>0, <2>1 DEF Rows
  <2>3. QED
    BY <1>0, <2>1, <2>2 DEF Has, Settled
<1>4. CASE Attach(a)
  <2>1. CASE Goto(a, "failing")
    BY <1>0, <2>1, Arrives, EarlyHas DEF Reached, Settled
  <2>2. CASE ~Goto(a, "failing")
    <3>1. /\ pc[a] = "binding" /\ pc' = pc /\ row' = [row EXCEPT !.binding = Binding(a)]
          /\ AttachAdmitted(Binding(a))
      BY <1>4, <2>2 DEF Attach, Applied
    <3>2. row'.binding = Binding(a)
      BY <1>0, <3>1 DEF Rows
    <3>3. row'.binding.digest = work[a].digest
      BY <3>2 DEF Binding
    <3>4. row'.binding # None
      <4>1. work[a] \in Works /\ work[a].digest \in Digests
        BY <1>0, <3>1, OnTheWay DEF IInv, Fits, Out
      <4>2. Binding(a) \in Bindings
        BY <4>1 DEF Binding, Bindings, Works
      <4>3. QED
        BY <3>2, <4>2, NoneAssumption
    <3>5. QED
      BY <1>0, <1>1, <3>1, <3>3, <3>4 DEF Has, Settled
  <2>3. QED
    BY <2>1, <2>2
<1>5. QED
  BY <1>2, <1>3, <1>4

\* What is decided on is stored.
LEMMA DecideHas ==
    ASSUME WInv, Next, Undisturbed, Undisturbed', NEW a \in Attempts,
           \/ DecideDraft(a) \/ DecideReview(a) \/ DecideGate(a) \/ DecideLost(a)
           \/ ApproveOwn(a) \/ SkipApproval(a)
    PROVE  Has(a)'
<1>0. /\ IInv /\ Has(a) /\ row # None /\ row \in Rows /\ row' # None /\ row'.serial = row.serial
      /\ row' \in Rows
      /\ RowGrew /\ UNCHANGED objects /\ UNCHANGED evidence
      /\ AfterDecision \in {"evidence", "complete"} /\ (AfterDecision = "complete" => ~evidence)
  BY Still
  DEF DecideDraft, DecideReview, DecideGate, DecideLost, ApproveOwn, SkipApproval, AfterDecision
<1>1. CASE DecideLost(a)
  BY <1>0, <1>1 DEF DecideLost
<1>2. ASSUME ~DecideLost(a)
      PROVE  Has(a)'
  <2>1. /\ pc[a] \in {"decide", "approve"} /\ pc'[a] \in {"approve", AfterDecision}
        /\ work'[a].serial = work[a].serial
    <3>1. /\ pc[a] \in {"decide", "approve"}
          /\ \E s \in {"approve", AfterDecision} : Goto(a, s)
          /\ \/ UNCHANGED work
             \/ \E reasons : work' = [work EXCEPT ![a] = [work[a] EXCEPT !.reasons = reasons]]
      BY <1>2
      DEF DecideDraft, DecideReview, DecideGate, ApproveOwn, SkipApproval, Conclude
    <3>2. pc'[a] \in {"approve", AfterDecision}
      BY <1>0, <3>1, Arrives
    <3>3. work[a] \in Works
      BY <1>0, <3>1, OnTheWay DEF Out
    <3>4. ASSUME NEW reasons, work' = [work EXCEPT ![a] = [work[a] EXCEPT !.reasons = reasons]]
          PROVE  work'[a].serial = work[a].serial
      <4>1. work'[a] = [work[a] EXCEPT !.reasons = reasons]
        BY <1>0, <3>4, Knows
      <4>2. QED
        BY <3>3, <4>1 DEF Works
    <3>5. QED
      BY <3>1, <3>2, <3>4
  <2>2. Stored'
    <3>1. CASE pc[a] = "approve"
      BY <3>1, Still DEF Has
    <3>2. CASE pc[a] = "decide"
      <4>1. /\ row.assets = Assets /\ row.vectors # {}
            /\ objects["metadata"] = row.serial
        BY <1>0, <3>2 DEF Has, Rows, Assets
      <4>2. row'.assets = Assets /\ row'.vectors # {}
        BY <1>0, <4>1 DEF RowGrew, Rows
      <4>3. row'.status # "generating"
        <5>1. CASE DecideDraft(a)
          BY <5>1 DEF DecideDraft, database, WInv, Numbered, Undisturbed
        <5>2. CASE DecideReview(a)
          BY <1>0, <5>2 DEF DecideReview, Rows
        <5>3. CASE DecideGate(a)
          <6>1. row' = Gated(row) /\ StatusOf(GateReasons(row)) # "generating"
            BY <5>3, Statuses DEF DecideGate
          <6>2. QED
            BY <1>0, <6>1, GatedRow
        <5>4. QED
          BY <1>2, <3>2, <5>1, <5>2, <5>3 DEF ApproveOwn, SkipApproval
      <4>4. QED
        BY <1>0, <4>1, <4>2, <4>3 DEF Stored
    <3>3. QED
      BY <2>1, <3>1, <3>2
  <2>3. QED
    BY <1>0, <2>1, <2>2 DEF Has, Reached, Settled
<1>3. QED
  BY <1>1, <1>2

\* A receipt is built for what is stored.
LEMMA BuildHas ==
    ASSUME WInv, Next, Undisturbed, Undisturbed', NEW a \in Attempts, BuildReceipt(a)
    PROVE  Has(a)'
<1>0. IInv /\ Has(a) /\ pc[a] = "evidence" /\ row'.serial = row.serial /\ Stored'
  BY Still DEF BuildReceipt, Has, Settled
<1>1. CASE Final(work[a].reasons)
  <2>1. /\ pc'[a] = "binding" /\ phase'[a] = "check" /\ work[a] \in Works
        /\ work' = [work EXCEPT ![a] = [work[a] EXCEPT !.digest = Outcome]]
    BY <1>0, <1>1, Arrives, OnTheWay DEF BuildReceipt, Out
  <2>2. work'[a] = [work[a] EXCEPT !.digest = Outcome]
    BY <1>0, <2>1, Knows
  <2>3. work'[a].serial = work[a].serial
    BY <2>1, <2>2 DEF Works
  <2>4. QED
    BY <1>0, <2>1, <2>3 DEF Has, Reached, Settled
<1>2. CASE ~Final(work[a].reasons)
  BY <1>0, <1>2, Arrives, EarlyHas DEF BuildReceipt, Reached, Settled
<1>3. QED
  BY <1>1, <1>2

\* An attempt has what it needs wherever it goes.
LEMMA ActorHas ==
    ASSUME WInv, Next, Undisturbed, Undisturbed', NEW a \in Attempts, Progress(a) \/ Interrupt(a)
    PROVE  Has(a)'
<1>0. IInv
  BY DEF WInv
<1>1. ASSUME NEW s \in {"recover", "over", "failing"}, Goto(a, s)
      PROVE  Has(a)'
  BY <1>0, <1>1, Arrives, EarlyHas DEF Reached, Settled
<1>2. CASE \/ \E p \in Payloads, m \in Models : Begin(a, p, m)
           \/ \E p \in Payloads : BeginRefused(a, p)
           \/ Complete(a) \/ Fail(a) \/ Interrupt(a)
  BY <1>1, <1>2 DEF Begin, BeginRefused, Complete, Fail, Interrupt
<1>3. QED
  BY <1>0, <1>2, RecoverHas, CreateHas, InsertHas, StepHas, ApplyHas, DecideHas, BuildHas
  DEF Progress, Step

\* No attempt ever lacks what it relies on, until the problem is deleted.
LEMMA HasStep ==
    ASSUME WInv, Next, Undisturbed'
    PROVE  \A b \in Attempts : Has(b)'
<1> SUFFICES ASSUME NEW b \in Attempts PROVE Has(b)'
  OBVIOUS
<1>0. IInv
  BY DEF WInv
<1>1. CASE Undisturbed
  <2>1. CASE Progress(b) \/ Interrupt(b)
    BY <1>1, <2>1, ActorHas
  <2>2. CASE ~(Progress(b) \/ Interrupt(b))
    <3>1. ASSUME NEW a \in Attempts, Progress(a) \/ Interrupt(a)
          PROVE  pc'[b] = pc[b] /\ phase'[b] = phase[b] /\ work'[b] = work[b]
      BY <1>0, <2>2, <3>1, OthersKeep
    <3>2. pc'[b] = pc[b] /\ phase'[b] = phase[b] /\ work'[b] = work[b]
      BY <3>1 DEF Next, Expire, Delete, Edit, Approve, Touch, attempt
    <3>3. QED
      BY <1>1, <3>2, OthersHave
  <2>3. QED
    BY <2>1, <2>2
<1>2. CASE ~Undisturbed
  <2>1. serials = 0 /\ row = None
    BY <1>0, <1>2, Disturbances
  <2>2. pc[b] \notin Reached
    BY <2>1 DEF WInv, Numbered
  <2>3. CASE pc'[b] \in Reached
    BY <1>0, <2>1, <2>2, <2>3, Entrances, CreateHas DEF Recoverable
  <2>4. QED
    BY <2>3, EarlyHas
<1>3. QED
  BY <1>1, <1>2

\* How an operation comes to be completed.
LEMMA Completions ==
    ASSUME IInv, Next, operation'.status = "completed"
    PROVE  \/ operation.status = "completed" /\ UNCHANGED operation
           \/ \E a \in Attempts :
                 /\ pc[a] = "complete" /\ operation'.result = ResultOf(a)
                 /\ UNCHANGED <<row, steps, objects>>
<1>0. OperationTyped
  BY Pieces DEF IInv, Typed
<1>1. CASE UNCHANGED operation
  BY <1>1
<1>2. ASSUME NEW a \in Attempts, NEW p \in Payloads, NEW m \in Models, Begin(a, p, m)
      PROVE  operation.status = "completed" /\ UNCHANGED operation
  BY <1>0, <1>2 DEF Begin, OperationTyped
<1>3. ASSUME NEW a \in Attempts, Complete(a)
      PROVE  \/ UNCHANGED operation
             \/ /\ pc[a] = "complete" /\ operation'.result = ResultOf(a)
                /\ UNCHANGED <<row, steps, objects>>
  BY <1>0, <1>3 DEF Complete, OperationTyped
<1>4. ASSUME NEW a \in Attempts, Fail(a)
      PROVE  UNCHANGED operation
  BY <1>0, <1>4 DEF Fail, Failed, OperationTyped
<1>5. QED
  BY <1>1, <1>2, <1>3, <1>4, OperationChanges

\* The receipt of a completed operation stays.
LEMMA ClosedStep ==
    ASSUME WInv, Next
    PROVE  Closed'
<1> SUFFICES ASSUME operation'.status = "completed", evidence'
             PROVE  /\ operation'.result.digest = steps'["binding"] /\ steps'["binding"] # None
                    /\ objects'["receipt"] = steps'["binding"]
  BY DEF Closed
<1>0. IInv /\ evidence
  BY InputKept DEF WInv
<1>1. CASE operation.status = "completed" /\ UNCHANGED operation
  BY <1>0, <1>1, RecordStays, ObjectsStay DEF WInv, Closed, StepKeys
<1>2. ASSUME NEW a \in Attempts, pc[a] = "complete", operation'.result = ResultOf(a),
             UNCHANGED <<row, steps, objects>>
      PROVE  /\ operation'.result.digest = steps'["binding"] /\ steps'["binding"] # None
             /\ objects'["receipt"] = steps'["binding"]
  <2>1. operation'.result.digest = work[a].digest
    BY <1>2 DEF ResultOf
  <2>2. QED
    BY <1>0, <1>2, <2>1 DEF WInv, Receipted
<1>3. QED
  BY <1>0, <1>1, <1>2, Completions

\* A completed operation is whole, and stays so.
LEMMA CompletedStep ==
    ASSUME WInv, Next
    PROVE  CompletedIsWhole'
<1> SUFFICES ASSUME operation'.status = "completed", Undisturbed'
             PROVE  /\ row'.assets = Assets /\ row'.vectors # {} /\ row'.status # "generating"
                    /\ objects'["tests"] = operation'.payload
                    /\ objects'["metadata"] = row'.serial
                    /\ evidence' =>
                         /\ row'.binding # None
                         /\ objects'["receipt"] = row'.binding.digest
                         /\ operation'.result.digest = row'.binding.digest
                         /\ StatusOf(operation'.result.reasons) = StatusOf(row'.binding.reasons)
  BY DEF CompletedIsWhole, StatusOf
<1>0. IInv /\ UNCHANGED evidence
  BY InputKept DEF WInv
<1>1. Undisturbed
  <2>1. ASSUME serials = 0, NEW a \in Attempts, Create(a)
        PROVE  FALSE
    BY <2>1 DEF Create, WInv, Numbered
  <2>2. QED
    BY <1>0, <2>1, Disturbances
<1>2. RowGrew /\ row # None /\ row' # None /\ operation.payload # None
  BY <1>0, <1>1, Disturbances DEF Undisturbed, IInv, Opened
<1>3. CASE operation.status = "completed" /\ UNCHANGED operation
  <2>1. CompletedIsWhole
    BY DEF WInv
  <2>2. Stored
    BY <1>1, <1>3, <2>1 DEF CompletedIsWhole, Stored
  <2>3. Stored'
    BY <1>1, <2>2, StoredStays
  <2>4. objects'["tests"] = operation'.payload
    BY <1>0, <1>1, <1>2, <1>3, <2>1, FilesStay DEF CompletedIsWhole
  <2>5. evidence => /\ row'.binding = row.binding /\ row.binding # None
                    /\ objects'["receipt"] = row.binding.digest
    BY <1>1, <1>2, <1>3, <2>1, ObjectsStay DEF CompletedIsWhole, RowGrew, WInv, Closed
  <2>6. evidence => /\ operation.result.digest = row.binding.digest
                    /\ StatusOf(operation.result.reasons) = StatusOf(row.binding.reasons)
    BY <1>1, <1>3, <2>1 DEF CompletedIsWhole
  <2>7. QED
    BY <1>0, <1>3, <2>3, <2>4, <2>5, <2>6 DEF Stored
<1>4. ASSUME NEW a \in Attempts, pc[a] = "complete", operation'.result = ResultOf(a),
             UNCHANGED <<row, steps, objects>>
      PROVE  /\ row.assets = Assets /\ row.vectors # {} /\ row.status # "generating"
             /\ objects["tests"] = operation.payload
             /\ objects["metadata"] = row.serial
             /\ evidence => /\ row.binding # None
                            /\ objects["receipt"] = row.binding.digest
                            /\ operation'.result.digest = row.binding.digest
                            /\ StatusOf(operation'.result.reasons) = StatusOf(row.binding.reasons)
  <2>1. Stored
    BY <1>1, <1>4 DEF WInv, Has, Settled
  <2>2. objects["tests"] = operation.payload
    BY <1>0, <1>2, <2>1 DEF IInv, Uploaded, Stored, Assets
  <2>3. /\ operation'.result.digest = work[a].digest
        /\ operation'.result.reasons = work[a].reasons
    BY <1>4 DEF ResultOf
  <2>4. evidence => /\ row.binding # None /\ row.binding.digest = work[a].digest
                    /\ objects["receipt"] = work[a].digest
                    /\ StatusOf(work[a].digest) = StatusOf(work[a].reasons)
    BY <1>1, <1>4 DEF WInv, Has, Receipted
  <2>5. row.binding # None => StatusOf(row.binding.digest) = StatusOf(row.binding.reasons)
    BY <1>2 DEF WInv, Bound
  <2>6. QED
    BY <2>1, <2>2, <2>3, <2>4, <2>5 DEF Stored
<1>5. QED
  BY <1>0, <1>2, <1>3, <1>4, OperationStep, Completions

\* The first attempt finds nothing.
LEMMA InitWInv == Init => WInv
<1> SUFFICES ASSUME Init PROVE WInv
  OBVIOUS
<1>1. IInv
  BY InitIInv
<1>2. Numbered /\ Bound /\ Closed
  BY DEF Init, Numbered, Bound, Closed, Reached, Settled
<1>3. Recorded /\ CompletedIsWhole
  BY DEF Init, Recorded, CompletedIsWhole, StepKeys, Undisturbed
<1>4. ASSUME NEW a \in Attempts
      PROVE  Receipted(a) /\ ~Undisturbed
  BY DEF Init, Receipted, Undisturbed
<1>5. QED
  BY <1>1, <1>2, <1>3, <1>4 DEF WInv

\* Every step preserves the second invariant.
LEMMA NextWInv == WInv /\ Next => WInv'
<1> SUFFICES ASSUME WInv, Next PROVE WInv'
  OBVIOUS
<1>1. IInv' /\ Numbered'
  BY NextIInv, NumberedStep DEF WInv
<1>2. QED
  BY <1>1, BoundStep, RecordedStep, ClosedStep, CompletedStep, ReceiptedStep, HasStep DEF WInv

\* The second invariant holds always.
LEMMA WholeInvariant == Spec => []WInv
<1>1. WInv /\ UNCHANGED vars => WInv'
  <2>1. IInv /\ UNCHANGED vars => IInv'
    BY StutterIInv
  <2>2. QED
    BY <2>1
    DEF vars, input, database, attempt, bounds, WInv, Numbered, Bound, Stored, Recorded, Closed,
        CompletedIsWhole, Receipted, Undisturbed, Has, StatusOf
<1>2. QED
  BY InitWInv, NextWInv, <1>1, PTL DEF Spec

\* What is recorded is there: runOperationStep skips nothing that has not been done, with
\* any number of attempts overlapping.
THEOREM StepsHaveEffects == Spec => []StepsHold
<1>1. WInv => StepsHold
  BY DEF WInv, IInv, Uploaded, Recorded, StepsHold
<1>2. QED
  BY <1>1, WholeInvariant, PTL

\* A completed operation left nothing undone, its receipt included, however its attempts
\* failed and overlapped.
THEOREM CompletedIsWholeHolds == Spec => []CompletedIsWhole
<1>1. WInv => CompletedIsWhole
  BY DEF WInv
<1>2. QED
  BY <1>1, WholeInvariant, PTL
=============================================================================

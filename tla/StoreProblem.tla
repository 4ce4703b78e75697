---------------------------- MODULE StoreProblem ----------------------------
(***************************************************************************)
(* StoreProblemActivity over the operation ledger: the attempts of one     *)
(* activity, all under one idempotency key, write a problem to the         *)
(* database and to the object store and complete the operation with one    *)
(* result.                                                                 *)
(*                                                                         *)
(* Begin excludes nobody: an attempt the server gave up on may still be    *)
(* running when the next one starts, and attempts overlap.                 *)
(* Steps are checked, applied and recorded in three actions: the ledger    *)
(* knows nothing of an effect whose attempt died before recording it.      *)
(*                                                                         *)
(* One object stands for all test and solution files, whose content only   *)
(* depends on the input.  Manual approvals and refreshes of an edited      *)
(* problem are the subject of Publication.                                 *)
(***************************************************************************)
EXTENDS Naturals, FiniteSets

CONSTANTS
    MaxAttempts,  \* RetryPolicy.MaximumAttempts of the activity
    Payloads,     \* hashes of the input
    Models,       \* statement embedding models a worker may be configured with
    Active,       \* the active one
    Kinds,        \* what is stored: "generated", "rejected", "imported"
    MaxFaults,    \* attempts an error, a crash or the timeout may take from the server
    MaxTouches,   \* deletions, edits and approvals by people
    None

Attempts == 1 .. MaxAttempts

ASSUME StoreAssumption ==
    /\ MaxAttempts \in Nat
    /\ Active \in Models
    /\ Kinds \subseteq {"generated", "rejected", "imported"}
    /\ MaxFaults \in Nat /\ MaxTouches \in Nat
    /\ None \notin Payloads

VARIABLES
    \* fixed by the input and the deployment
    kind,         \* what is stored
    evidence,     \* the input asks for a generation standard evidence receipt
    \* the database
    operation,    \* workflow_operations: [status, payload, result]
    steps,        \* workflow_operation_steps: per step the hash recorded, or None
    row,          \* the problem and all that cascades with it, or None
    announced,    \* statuses announced through the outbox
    decided,      \* this key's publication_decided event exists
    \* the object store
    objects,      \* per object its content, or None
    \* the attempts
    pc,           \* the step an attempt is at
    phase,        \* "check", "apply" or "record" in a ledger step
    work,         \* what it knows: [payload, model, serial, reasons, digest]
    answer,       \* what it returned, or None
    expired,      \* attempts the server gave up on while they run
    \* bounds
    faults, touches, serials

input    == <<kind, evidence>>
database == <<operation, steps, row, announced, decided>>
attempt  == <<pc, phase, work, answer>>
bounds   == <<expired, faults, touches, serials>>
vars     == <<input, database, objects, attempt, bounds>>

StepKeys == {"tests", "metadata", "vector", "binding", "receipt"}
Objects  == {"tests", "metadata", "receipt"}
Assets   == {"solutions", "tests"}
Blockers == Assets \cup {"vector", "stale"}
Reasons  == Blockers \cup {"rights", "review", "draft"}

Init ==
    /\ kind \in Kinds
    /\ evidence \in BOOLEAN /\ (kind = "imported" => ~evidence)
    /\ operation = [status |-> "none", payload |-> None, result |-> None]
    /\ steps = [s \in StepKeys |-> None]
    /\ row = None
    /\ announced = {} /\ decided = FALSE
    /\ objects = [o \in Objects |-> None]
    /\ pc = [a \in Attempts |-> "idle"]
    /\ phase = [a \in Attempts |-> "check"]
    /\ work = [a \in Attempts |-> None]
    /\ answer = [a \in Attempts |-> None]
    /\ expired = {}
    /\ faults = 0 /\ touches = 0 /\ serials = 0

(***************************************************************************)
(* The operation                                                           *)
(***************************************************************************)
Goto(a, step) == pc' = [pc EXCEPT ![a] = step] /\ phase' = [phase EXCEPT ![a] = "check"]

NewWork(p, m) == [payload |-> p, model |-> m, serial |-> None, reasons |-> {}, digest |-> None]

PayloadAccepted(p) == operation.payload \in {None, p}

\* The retry policy: the next attempt starts when the last one reported, or its report
\* was lost, or when the server gave up on it.
Startable(a) ==
    /\ pc[a] = "idle"
    /\ \A b \in Attempts : b < a => pc[b] # "idle"
    /\ \A b \in Attempts \ expired : pc[b] \in {"idle", "over"}

\* An existing evidence binding makes the rest of the work unnecessary.
Recoverable == evidence /\ row # None /\ row.binding # None

Recovered(w) == [w EXCEPT !.serial = row.serial, !.reasons = row.binding.reasons,
                          !.digest = row.binding.digest]

\* ledger.Begin, then the way it sends the attempt.
Begin(a, p, m) ==
    /\ Startable(a)
    /\ PayloadAccepted(p)
    /\ IF operation.status = "completed"
       THEN /\ answer' = [answer EXCEPT ![a] = operation.result]
            /\ Goto(a, "over")
            /\ UNCHANGED <<operation, work>>
       ELSE /\ operation' = [operation EXCEPT !.status = "in_progress", !.payload = p]
            /\ work' = [work EXCEPT ![a] = NewWork(p, m)]
            /\ Goto(a, "recover")
            /\ UNCHANGED answer
    /\ UNCHANGED <<input, steps, row, announced, decided, objects, bounds>>

BeginRefused(a, p) ==
    /\ Startable(a)
    /\ ~PayloadAccepted(p)
    /\ Goto(a, "over")
    /\ UNCHANGED <<input, database, objects, work, answer, bounds>>

Recover(a) ==
    /\ pc[a] = "recover"
    /\ IF Recoverable
       THEN work' = [work EXCEPT ![a] = Recovered(@)] /\ Goto(a, "binding")
       ELSE UNCHANGED work /\ Goto(a, "create")
    /\ UNCHANGED <<input, database, objects, answer, bounds>>

ResultAccepted(r) == operation.status = "completed" => operation.result = r

ResultOf(a) == [serial |-> work[a].serial, reasons |-> work[a].reasons,
                digest |-> work[a].digest]

\* ledger.Complete and the return of the activity.
Complete(a) ==
    /\ pc[a] = "complete"
    /\ IF ResultAccepted(ResultOf(a))
       THEN /\ operation' = [operation EXCEPT !.status = "completed", !.result = ResultOf(a)]
            /\ answer' = [answer EXCEPT ![a] = ResultOf(a)]
            /\ Goto(a, "over")
       ELSE Goto(a, "failing") /\ UNCHANGED <<operation, answer>>
    /\ UNCHANGED <<input, steps, row, announced, decided, objects, work, bounds>>

\* Mutant: a failure reopens whatever there is.
FailedAlways == [operation EXCEPT !.status = "failed"]

Failed == IF operation.status = "completed" THEN operation
          ELSE [operation EXCEPT !.status = "failed"]

\* recordOperationFailure: an error of ledger.Fail is only logged.
Fail(a) ==
    /\ pc[a] = "failing"
    /\ operation' \in {operation, Failed}
    /\ Goto(a, "over")
    /\ UNCHANGED <<input, steps, row, announced, decided, objects, work, answer, bounds>>

Running(a) == pc[a] \notin {"idle", "failing", "over"}

\* The timeout of an attempt that goes on.
Expire(a) ==
    /\ Running(a) /\ a \notin expired
    /\ faults < MaxFaults
    /\ faults' = faults + 1
    /\ expired' = expired \cup {a}
    /\ UNCHANGED <<input, database, objects, pc, phase, work, answer, touches, serials>>

\* An error, at any call; a crash is one whose failure goes unrecorded.  What ends an
\* attempt the server gave up on costs no other.
Interrupt(a) ==
    /\ Running(a)
    /\ a \in expired \/ faults < MaxFaults
    /\ faults' = IF a \in expired THEN faults ELSE faults + 1
    /\ Goto(a, "failing")
    /\ UNCHANGED <<input, database, objects, work, answer, expired, touches, serials>>

(***************************************************************************)
(* The problem row                                                         *)
(***************************************************************************)
InitialStatus == [generated |-> "generating", rejected |-> "quarantined",
                  imported |-> "draft"][kind]

NewRow == [serial |-> serials + 1, status |-> InitialStatus, assets |-> {}, vectors |-> {},
           fresh |-> TRUE, owned |-> FALSE, reviewed |-> FALSE, gate |-> None,
           binding |-> None]

\* Mutant: a row that exists is not taken over.
CreateFresh(a) ==
    /\ pc[a] = "create" /\ row = None
    /\ row' = NewRow /\ serials' = serials + 1
    /\ work' = [work EXCEPT ![a].serial = row'.serial]
    /\ Goto(a, "solutions")
    /\ UNCHANGED <<input, operation, steps, announced, decided, objects, answer, expired,
                   faults, touches>>

\* A row that exists, also one a racing delivery created, is taken over: its key and
\* input hash match, or Begin had refused.
Create(a) ==
    /\ pc[a] = "create"
    /\ IF row = None
       THEN row' = NewRow /\ serials' = serials + 1
       ELSE UNCHANGED <<row, serials>>
    /\ work' = [work EXCEPT ![a].serial = row'.serial]
    /\ Goto(a, "solutions")
    /\ UNCHANGED <<input, operation, steps, announced, decided, objects, answer, expired,
                   faults, touches>>

\* ON CONFLICT DO NOTHING; the foreign key needs the problem.
Insert(a, asset, from, next) ==
    /\ pc[a] = from
    /\ IF row # None
       THEN row' = [row EXCEPT !.assets = @ \cup {asset}] /\ Goto(a, next)
       ELSE UNCHANGED row /\ Goto(a, "failing")
    /\ UNCHANGED <<input, operation, steps, announced, decided, objects, work, answer,
                   bounds>>

InsertSolutions(a) == Insert(a, "solutions", "solutions", "tests")
InsertTestCases(a) == Insert(a, "tests", "cases", "metadata")

(***************************************************************************)
(* Ledger steps                                                            *)
(***************************************************************************)
\* The hash a step is recorded under.  metadata.json holds the serial number and
\* the creation time of the row.
Hash(a, s) == [tests |-> work[a].payload, metadata |-> work[a].serial,
               vector |-> work[a].model,
               binding |-> work[a].digest, receipt |-> work[a].digest][s]

\* Mutant: the insert of the test rows is taken for a part of the step.
AfterUploads(s) == [tests |-> "metadata", metadata |-> "vector", vector |-> "decide",
                    binding |-> "receipt", receipt |-> "complete"][s]

After(s) == [tests |-> "cases", metadata |-> "vector", vector |-> "decide",
             binding |-> "receipt", receipt |-> "complete"][s]

\* Mutant: the step is recorded before its effect.
CheckStepClaiming(a, s) ==
    /\ pc[a] = s /\ phase[a] = "check"
    /\ IF steps[s] = None
       THEN /\ phase' = [phase EXCEPT ![a] = "apply"] /\ UNCHANGED pc
            /\ steps' = [steps EXCEPT ![s] = Hash(a, s)]
       ELSE /\ Goto(a, IF steps[s] = Hash(a, s) THEN After(s) ELSE "failing")
            /\ UNCHANGED steps
    /\ UNCHANGED <<input, operation, row, announced, decided, objects, work, answer, bounds>>

\* StepCompleted: skip, refuse or go on to the effect.
CheckStep(a, s) ==
    /\ pc[a] = s /\ phase[a] = "check"
    /\ IF steps[s] = None
       THEN phase' = [phase EXCEPT ![a] = "apply"] /\ UNCHANGED pc
       ELSE Goto(a, IF steps[s] = Hash(a, s) THEN After(s) ELSE "failing")
    /\ UNCHANGED <<input, database, objects, work, answer, bounds>>

Applied(a) == phase' = [phase EXCEPT ![a] = "record"] /\ UNCHANGED pc

Upload(a, o) ==
    /\ pc[a] = o /\ phase[a] = "apply"
    /\ objects' = [objects EXCEPT ![o] = Hash(a, o)]
    /\ Applied(a)
    /\ UNCHANGED <<input, database, work, answer, bounds>>

\* UpdateEmbeddingForVersion, for the model this worker is configured with.
StoreVector(a) ==
    /\ pc[a] = "vector" /\ phase[a] = "apply"
    /\ IF row # None
       THEN row' = [row EXCEPT !.vectors = @ \cup {work[a].model}] /\ Applied(a)
       ELSE UNCHANGED row /\ Goto(a, "failing")
    /\ UNCHANGED <<input, operation, steps, announced, decided, objects, work, answer,
                   bounds>>

\* CompleteStep: the first hash recorded stays, the others are refused.
RecordStep(a, s) ==
    /\ pc[a] = s /\ phase[a] = "record"
    /\ steps' = [steps EXCEPT ![s] = IF @ = None THEN Hash(a, s) ELSE @]
    /\ Goto(a, IF steps[s] \in {None, Hash(a, s)} THEN After(s) ELSE "failing")
    /\ UNCHANGED <<input, operation, row, announced, decided, objects, work, answer, bounds>>

(***************************************************************************)
(* The decision                                                            *)
(***************************************************************************)
StatusOf(reasons) == IF reasons = {} THEN "published"
                     ELSE IF reasons = {"draft"} THEN "draft" ELSE "quarantined"

\* Mutant: the gate does not ask for the active model's vector.
BlockingVectorless(r) == (Assets \ r.assets) \cup (IF r.fresh THEN {} ELSE {"stale"})

\* readPublicationGatePrerequisites
Blocking(r) ==
    (Assets \ r.assets)
    \cup (IF Active \in r.vectors THEN {} ELSE {"vector"})
    \cup (IF r.fresh THEN {} ELSE {"stale"})

GateReasons(r) == Blocking(r) \cup (IF r.owned THEN {} ELSE {"rights"})

\* The decision is stored with the status.
Gated(r) == [r EXCEPT !.status = StatusOf(GateReasons(r)), !.gate = GateReasons(r)]

\* The gate of this operation: the event of a later decision is dropped.
AnnounceDecision(reasons) ==
    /\ announced' = IF decided THEN announced ELSE announced \cup {StatusOf(reasons)}
    /\ decided' = TRUE

AfterDecision == IF evidence THEN "evidence" ELSE "complete"

Conclude(a, reasons, next) ==
    /\ work' = [work EXCEPT ![a].reasons = reasons]
    /\ Goto(a, next)

\* An imported problem stays a draft.
DecideDraft(a) ==
    /\ pc[a] = "decide" /\ kind = "imported"
    /\ Conclude(a, {"draft"}, AfterDecision)
    /\ UNCHANGED <<input, database, objects, answer, bounds>>

\* ApplyReviewQuarantine: one record and one event per key, the status every time.
DecideReview(a) ==
    /\ pc[a] = "decide" /\ kind = "rejected" /\ row # None
    /\ row' = [row EXCEPT !.status = "quarantined", !.reviewed = TRUE]
    /\ announced' = announced \cup {"quarantined"}
    /\ Conclude(a, {"review"}, AfterDecision)
    /\ UNCHANGED <<input, operation, steps, decided, objects, answer, bounds>>

\* ApplyPublicReleaseGate; a problem that only lacks rights may be approved by the
\* activity itself.
DecideGate(a) ==
    /\ pc[a] = "decide" /\ kind = "generated" /\ row # None
    /\ row' = Gated(row)
    /\ AnnounceDecision(GateReasons(row))
    /\ Conclude(a, GateReasons(row),
                IF GateReasons(row) = {"rights"} THEN "approve" ELSE AfterDecision)
    /\ UNCHANGED <<input, operation, steps, objects, answer, bounds>>

DecideLost(a) ==
    /\ pc[a] = "decide" /\ kind # "imported" /\ row = None
    /\ Goto(a, "failing")
    /\ UNCHANGED <<input, database, objects, work, answer, bounds>>

\* approvePublicRelease without a manual review
Approvable ==
    /\ row # None
    /\ row.status \in {"quarantined", "published"}
    /\ Blocking(row) = {} /\ ~row.reviewed

\* Mutant: the approval has no event of its own.
ApplyApprovalSilent ==
    /\ row' = Gated([row EXCEPT !.owned = TRUE])
    /\ UNCHANGED announced

ApplyApproval ==
    /\ row' = Gated([row EXCEPT !.owned = TRUE])
    /\ announced' = announced \cup {"published"}

\* With the setting on; SkipApproval is the setting off, or an error, which is logged.
ApproveOwn(a) ==
    /\ pc[a] = "approve"
    /\ Approvable
    /\ ApplyApproval
    /\ Conclude(a, {}, AfterDecision)
    /\ UNCHANGED <<input, operation, steps, decided, objects, answer, bounds>>

SkipApproval(a) ==
    /\ pc[a] = "approve"
    /\ Goto(a, AfterDecision)
    /\ UNCHANGED <<input, database, objects, work, answer, bounds>>

(***************************************************************************)
(* The evidence receipt                                                    *)
(***************************************************************************)
\* The status decided is still the status stored, and the one the last gate stored
\* with its reasons.
Final(reasons) ==
    /\ row # None
    /\ row.status = StatusOf(reasons)
    /\ kind = "generated" => row.gate # None /\ StatusOf(row.gate) = row.status

\* The receipt names the outcome found in the problem.
Outcome == IF kind = "rejected" THEN {"review"} ELSE row.gate

BuildReceipt(a) ==
    /\ pc[a] = "evidence"
    /\ IF Final(work[a].reasons)
       THEN work' = [work EXCEPT ![a].digest = Outcome] /\ Goto(a, "binding")
       ELSE UNCHANGED work /\ Goto(a, "failing")
    /\ UNCHANGED <<input, database, objects, answer, bounds>>

Binding(a) == [digest |-> work[a].digest, reasons |-> work[a].reasons]

\* AttachGenerationStandardEvidence: one immutable binding, for the status it is about.
AttachAdmitted(b) ==
    /\ row # None
    /\ IF row.binding = None THEN row.status = StatusOf(b.reasons) ELSE row.binding = b

Attach(a) ==
    /\ pc[a] = "binding" /\ phase[a] = "apply"
    /\ IF AttachAdmitted(Binding(a))
       THEN row' = [row EXCEPT !.binding = Binding(a)] /\ Applied(a)
       ELSE UNCHANGED row /\ Goto(a, "failing")
    /\ UNCHANGED <<input, operation, steps, announced, decided, objects, work, answer,
                   bounds>>

(***************************************************************************)
(* People                                                                  *)
(***************************************************************************)
Touch ==
    /\ row # None
    /\ touches < MaxTouches
    /\ touches' = touches + 1
    /\ UNCHANGED <<input, operation, steps, decided, objects, attempt, expired, faults, serials>>

\* DeleteProblem: children, vectors and the binding go with it; the ledger and the
\* objects do not.
Delete ==
    /\ Touch
    /\ ~row.reviewed
    /\ row' = None
    /\ UNCHANGED announced

\* A changed definition is a new artifact, of unknown rights.
Edit ==
    /\ Touch
    /\ row.status # "generating"
    /\ row' = [row EXCEPT !.fresh = FALSE, !.owned = FALSE,
                          !.status = IF @ = "published" THEN "draft" ELSE @]
    /\ UNCHANGED announced

Approve ==
    /\ Touch
    /\ Approvable
    /\ ApplyApproval

-----------------------------------------------------------------------------
Step(a) ==
    \/ \E s \in StepKeys : CheckStep(a, s) \/ RecordStep(a, s)
    \/ \E o \in Objects : Upload(a, o)
    \/ StoreVector(a) \/ Attach(a)

Progress(a) ==
    \/ \E p \in Payloads, m \in Models : Begin(a, p, m)
    \/ \E p \in Payloads : BeginRefused(a, p)
    \/ Recover(a) \/ Create(a) \/ InsertSolutions(a) \/ InsertTestCases(a)
    \/ Step(a)
    \/ DecideDraft(a) \/ DecideReview(a) \/ DecideGate(a) \/ DecideLost(a)
    \/ ApproveOwn(a) \/ SkipApproval(a)
    \/ BuildReceipt(a)
    \/ Complete(a) \/ Fail(a)

Next ==
    \/ \E a \in Attempts : Progress(a) \/ Expire(a) \/ Interrupt(a)
    \/ Delete \/ Edit \/ Approve

Spec == Init /\ [][Next]_vars

\* The server starts attempts until one reports, and attempts go on until they end: by
\* themselves or by their timeout.
FairSpec == Spec /\ WF_vars(\E a \in Attempts : Progress(a))

-----------------------------------------------------------------------------
Digests == SUBSET Reasons

Serials == 1 .. MaxTouches + 1

Results == [serial : Serials, reasons : Digests, digest : Digests \cup {None}]

Bindings == [digest : Digests, reasons : Digests]

Rows == [serial : Serials, status : {"generating", "draft", "quarantined", "published"},
         assets : SUBSET Assets, vectors : SUBSET Models,
         fresh : BOOLEAN, owned : BOOLEAN, reviewed : BOOLEAN, gate : Digests \cup {None},
         binding : Bindings \cup {None}]

Works == [payload : Payloads, model : Models, serial : Serials \cup {None},
          reasons : Digests, digest : Digests \cup {None}]

ASSUME NoneAssumption ==
    /\ None \notin Results /\ None \notin Rows /\ None \notin Bindings
    /\ \A d \in Digests : d # None

TypeOK ==
    /\ kind \in Kinds /\ evidence \in BOOLEAN
    /\ operation \in [status : {"none", "in_progress", "failed", "completed"},
                      payload : Payloads \cup {None}, result : Results \cup {None}]
    /\ DOMAIN steps = StepKeys
    /\ steps["tests"] \in Payloads \cup {None}
    /\ steps["metadata"] \in Serials \cup {None}
    /\ steps["vector"] \in Models \cup {None}
    /\ steps["binding"] \in Digests \cup {None} /\ steps["receipt"] \in Digests \cup {None}
    /\ row = None \/ row \in Rows
    /\ announced \subseteq {"quarantined", "published"} /\ decided \in BOOLEAN
    /\ pc \in [Attempts -> StepKeys \cup {"idle", "recover", "create", "solutions", "cases",
                 "decide", "approve", "evidence", "complete", "failing", "over"}]
    /\ phase \in [Attempts -> {"check", "apply", "record"}]
    /\ work \in [Attempts -> {None} \cup Works]
    /\ answer \in [Attempts -> Results \cup {None}]
    /\ expired \subseteq Attempts
    /\ faults \in 0 .. MaxFaults /\ touches \in 0 .. MaxTouches
    /\ serials \in 0 .. MaxTouches + 1

\* The problem that was first created is still the one there is.
Undisturbed == serials = 1 /\ row # None

\* What runOperationStep's comment relies on: a step is recorded only if its effect is
\* there, with the content recorded, whatever other attempts did meanwhile.  A
\* deletion takes the database's part with it, and two serial numbers may have
\* written metadata.json.
StepsHold ==
    /\ \A o \in {"tests", "receipt"} : steps[o] \in {None, objects[o]}
    /\ Undisturbed =>
         /\ steps["metadata"] \in {None, objects["metadata"]}
         /\ steps["vector"] # None => steps["vector"] \in row.vectors
         /\ steps["binding"] # None =>
              row.binding # None /\ row.binding.digest = steps["binding"]

\* A completed operation left nothing undone, although its attempts died between the
\* effects and skipped what was recorded.
CompletedIsWhole ==
    operation.status = "completed" /\ Undisturbed =>
        /\ row.assets = Assets /\ row.vectors # {} /\ row.status # "generating"
        /\ objects["tests"] = operation.payload
        /\ objects["metadata"] = row.serial
        /\ evidence => /\ row.binding # None
                       /\ objects["receipt"] = row.binding.digest
                       /\ operation.result.digest = row.binding.digest
                       /\ StatusOf(operation.result.reasons) = StatusOf(row.binding.reasons)

\* A problem is public only with its solutions, its tests and their files and the
\* vector of the active model: also one that was deleted while attempts were
\* running and created again by a redelivery, which skips recorded steps.
PublishedIsWhole ==
    row # None /\ row.status = "published" =>
        /\ row.assets = Assets /\ Active \in row.vectors /\ row.fresh
        /\ objects["tests"] = operation.payload

\* The status the operation reports has been announced, though the event of a second
\* gate under the operation's key is dropped.
ResultWasAnnounced ==
    operation.result # None =>
        StatusOf(operation.result.reasons) \in announced \cup {"draft"}

\* The attempts get one result: the operation is a register decided once.
Register == INSTANCE WriteOnce WITH
    Clients <- Attempts, Values <- Results,
    value   <- IF operation.status = "completed" THEN operation.result ELSE None

StoreIsWriteOnce == Register!Spec

\* All attempts that began were given one input and run under one configuration.
Refused == \E a \in Attempts : pc[a] = "over" /\ work[a] = None /\ answer[a] = None

Uniform ==
    /\ ~Refused
    /\ \A a, b \in Attempts :
         work[a] # None /\ work[b] # None => work[a].model = work[b].model

\* If all attempts agree on input and model and nobody touches the problem, the
\* operation is completed by one attempt more than twice the faults: what a fault
\* leaves running may at worst take one other attempt along.
EventuallyCompleted == <>(operation.status = "completed" \/ touches > 0 \/ ~Uniform)
=============================================================================

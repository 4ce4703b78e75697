# A verification project for Qraft

Qraft produces programming problems: LLM-driven workflows (Temporal) write a statement,
solutions and tests, a sandbox runs them, reviews and gates decide whether the problem may
be published, and PostgreSQL keeps the result. What is hard about it is not the texts but
the bookkeeping around them: provider calls that cost money and may be repeated, activities
that store a problem in pieces and may be run twice, jobs that are retried, repaired,
reviewed and cancelled, events that must leave the database exactly when a transaction
commits, and a publication status that several people, workflows and triggers write to.

This directory holds TLA+ models of that bookkeeping, TLC configurations that check them on
small instances, and TLAPS proofs of the properties that matter most.

## Contents

| File | What it is |
|---|---|
| `WriteOnce.tla` | abstract: a register decided once, every answer is the decided one |
| `Delivery.tla` | abstract: delivery at least once, within a budget of attempts |
| `ProviderEffect.tla` | the lease protocol around billable provider calls; implements `WriteOnce` |
| `Outbox.tla`, `MCOutbox.tla` | the transactional outbox, its dispatchers, their readiness; implements `Delivery` |
| `Publication.tla`, `MCPublication.tla` | the publication status of one problem |
| `StoreProblem.tla` | overlapping attempts that store one problem over the operation ledger; implements `WriteOnce` |
| `EmbeddingCutover.tla`, `MCEmbeddingCutover.tla` | embedding models, backfill and the switch of the active pointer |
| `Generation.tla` | how one run of the generation workflow arrives at a candidate |
| `GenerationJob.tla` | the runs of one generation job: repair, human review, cancellation, retry, store; implements `WriteOnce` |
| `Rating.tla` | difficulty assessments: rows and executions |
| `RatingDecision.tla` | feedback, calibrations, decisions about the official rating, and who relies on it |
| `MCRating.tla` | both of them for TLC |
| `Identity.tla`, `MCIdentity.tla` | accounts, sessions, invitations and administrators |
| `...Proofs.tla` | the theorems of the module named; `GenerationProofs` has those of `Generation` and `GenerationJob` |
| `*.cfg` | one TLC run each: `pe_`, `ob_`, `pub_`, `sp_`, `emb_`, `gen_`, `job_`, `rat_`, `id_` in the order above |
| `PROJECT.json` | components, runs, mutants, the map to the source, findings, hazards, theorems |

`tlc -config pe_safety.cfg ProviderEffect` runs a configuration;
`tlapm OutboxProofs.tla` checks a proof module.

## The system

Paths are relative to `src/backend/internal` unless they start with `src/`.

| Component | State | Operations | Interacts with |
|---|---|---|---|
| Provider-effect ledger (`repository/provider_effect_repo.go`, `workflow/activities/provider_effect.go`) | `provider_effects`: status, request hash, lease token and end, result | Acquire, Complete, Fail, `cachedProviderEffect` | every activity that calls an LLM or an embedding service; Temporal's retries |
| Transactional outbox (`outbox/`, `repository/workflow_operation_repo.go`) | `workflow_outbox` rows; one `RuntimeStatus` per worker | enqueue, ClaimBatch, MarkDelivered, MarkFailed, BacklogStats, `Dispatch`, `runOnce` | inserted by operations' own transactions; posts to an HTTP receiver; readiness is the worker's health |
| Operation ledger (`repository/workflow_operation_repo.go`) | `workflow_operations` and their steps | Begin, RecordStep, Complete, Fail | StoreProblem, edit refresh |
| Problem publication (`repository/problem_edit.go`, `problem_repo.go`, `problem_manual_release.go`, migrations 014, 018, 022, 036) | problem row, stale markers, definition artifact and its rights, approvals, review quarantine, vectors | edit, approve, manual approve, refresh, gate, triggers | editors, administrators, validation and import workflows, StoreProblem |
| StoreProblem (`workflow/activities/store_problem.go`) | problem, solutions, tests, vectors, artifacts | upload, insert, gate or quarantine, automatic approval | generation and import workflows |
| Import (`workflow/problem_import.go`, `repository/problem_import.go`) | batch items, difficulty estimate | duplicate check, store, estimate | StoreProblem, publication |
| Validation (`workflow/problem_validate.go`) | workflow state | fetch, compile, run, refresh | sandbox, publication |
| Embedding versions (`repository/embedding_*.go`, `vector_repo.go`) | model registry, active pointer, backfill runs, vectors | upsert, backfill, cutover, rollback | publication's freshness |
| Generation (`workflow/problem_gen.go`, `signals.go`, `handler/workflow_handler.go`) | workflow state, runs, review request | produce a candidate, LLM review and repair, human review, cancel, retry | provider-effect ledger, StoreProblem, reviewers |
| Batches and sets (`workflow/gplt_batch.go`, `problem_set_generation.go`, ...) | slots of child workflows | start, collect, retry | generation |
| Workflow ownership (`repository/workflow_ownership.go`, `service/workflow_access.go`) | owner per workflow id | reserve, inherit, authorise | API |
| Rating (`workflow/rating.go`, `repository/rating.go`, `service/rating_runtime.go`) | assessment status, feedback and its revisions, calibrations, decisions, the official rating | start, cancel, reconcile; give feedback, calibrate, decide, preview and confirm | Temporal, API, sets assembled by rating |
| Identity (`identity/`) | users, invitations, sessions | bootstrap, invite, sign in, change or reset a password, role changes | API |
| Provenance governance (`repository/provenance_artifact_repo.go`, migration 014) | artifacts, lineage, terms | bind, clear, withdraw | publication |
| Migration runner (`migrate/`) | applied migrations | apply under an advisory lock | the database |
| Artifact store, sandbox, LLM clients, quality gate, lint, diversity, sets, quizzes, exports, HTTP, configuration, frontend | see `PROJECT.json` | input and output, pure functions, CRUD | |

What makes them hard:

- **Temporal attempts overlap.** A timed-out attempt is not told; it may still hold a lease,
  call a provider or write to the database while its successor runs.
- **A commit and its acknowledgement are two events.** A reply may be lost after the commit:
  of a transaction, of an HTTP delivery, of an activity's result, of the start of a workflow.
- **Leases are compared with clocks**, and the configuration alone guarantees that they
  outlast what they protect.
- **The publication status has many writers**: every statement runs through BEFORE and
  AFTER triggers that see different versions of the row, the edit refresh is two
  transactions, and editors act on pages they read earlier.
- **No transaction spans PostgreSQL, the object store and Temporal.** A problem is stored in
  some fifteen steps; a rating is a row and an execution.
- **Workflow code has state of its own.** Variables outlive the attempt they were decoded
  for; a run continues as another run; signals, timers and cancellations meet in one task.
- **Slow work happens outside transactions.** Passwords are hashed and compared between a
  read and the write that relies on it, while accounts change.
- **Configuration is per process.** Workers keep the embedding model they were started with
  while an administrator switches the active one.

What makes each component correct, with the module that says so:

- ledger (`ProviderEffect`): calls of one activity never overlap, every attempt returns the
  one committed response, the bill is bounded by the faults, one fault never fails the
  activity, it ends;
- outbox (`Outbox`): delivery at least once (`delivered` only after receipt, `dead` only
  after the whole budget, neither taken back), one delivery of an event at a time, a bounded
  number of attempts, every event handled, readiness that tells the truth;
- publication (`Publication`): a rejected problem is public only under a human approval of
  what it now is, a published one meets the gate, nobody edits or approves what he has not
  seen, a refresh clears what was validated;
- operation ledger and `StoreProblem`: recorded means done, completed means whole, one
  result for all attempts, public means whole, and the operation is completed in the end;
- embeddings (`EmbeddingCutover`): the active model covers what is published, nobody but a
  switch hides a problem, backfills lead to a switch, what becomes active is what runs;
- generation (`Generation`, `GenerationJob`): a candidate consists of what was judged, a job
  stores one problem, for good, the one that was decided about; reviewers are told the truth;
  both end;
- rating (`Rating`, `RatingDecision`): row and execution agree in the end, nothing that may be
  running is given up; a decision, a calibration or a set made from what was read before is
  accepted only while that stands, and refused only when it does not;
- identity (`Identity`): an active administrator always exists, no session outlives the
  password and the role it was granted for, no link the account it was made for;
- ownership: a workflow has one owner, children inherit it (planned).

## Module by module

### ProviderEffect

One activity, one row of `provider_effects`. An action is a transaction or a call.

| Model | Code |
|---|---|
| `status`, `rowReq`, `token`, `leaseLeft`, `result` | columns `status`, `request_sha256`, `lease_token`, `leased_until`, `result_json` |
| `pc`, `req`, `reply`, `hint`, `fatal` | locals of `cachedProviderEffect`, and the error it returns |
| `AcquireGranted/Cached/Busy/Mismatch/Error` | `Acquire`'s branches and what the caller does with each |
| `InvokeAnswers`, `InvokeFails` | the provider call |
| `CompleteCommits/Rejected/Error` | `Complete` |
| `Release`, `ReleaseError` | `releaseProviderEffect`, `Fail` |
| `Dispatch`, `ReportSuccess/Failure`, `AttemptTimeout`, `Crash` | the Temporal server and the worker process (external) |

Every Acquire draws a fresh UUID and an attempt acquires once, so attempt numbers are the
tokens. Time is what is left of it. `Tick` cannot pass the end of a context while an attempt
of that context acquires or calls, because Go's context ends the call then; a `Complete`
already under way may land later. The response text is one of `Texts`. `last_error` and
`attempt_count` of the row are written and never read, and are left out.

### Outbox

| Model | Code |
|---|---|
| `status`, `attempts`, `lock`, `lockLeft`, `delay` | columns of `workflow_outbox` |
| `pc`, `batch`, `current`, `requestLeft`, `troubled` | locals of `Dispatch` and `runOnce` |
| `ready` | `RuntimeStatus.Ready` |
| `Claim`, `ClaimError` | `ClaimBatch` |
| `StartPublish`, `Publish` | the loop of `Dispatch`, `HTTPPublisher.Publish` |
| `AckDelivered/Failed/Rejected/Error` | `MarkDelivered`, `MarkFailed` and `Dispatch`'s early returns |
| `CheckBacklog`, `CheckError`, `BeginCheck` | `BacklogStats` and the switch in `runOnce` |
| `received` | what the receiver accepted (external) |

`late` marks a process that stalled (a pause, a slow database): the clock passes it by.
Everything said of punctual dispatchers rests on requests ending within
`outbox.request_timeout`, which the HTTP client enforces, and on acknowledgements taking no
time, an idealisation: the configuration asks for
`lease > batch_size * request_timeout` and leaves acknowledgements only what exceeds that.

`Delivery` sees of a row whether it is there, waiting, delivered or dead (`Fate`), the
attempts counted and the receipts; leases, delays, batches and dispatchers are hidden.

### Publication

One problem, from the moment StoreProblem has stored everything but its decision. Every
action is one transaction including the triggers it fires.

| Model | Code |
|---|---|
| `status`, `text`, `stale` | `problems` columns; `text` is what the embedding is computed from |
| `vector` | the active model's row of each text |
| `reviewed` | a row of `problem_quarantine_records` |
| `owned` | the rights of the current definition's lineage |
| `approved`, `everApproved` | `problem_manual_release_approved`, a row of the approvals |
| `pc`, `tries`, `embedText`, `completed` | `RefreshEditedProblemActivity`, its retries and its operation |
| `storing`, `estimate` | the ends of StoreProblem and of the import |
| `current` | actors whose `updated_at` still matches |
| `ApplyGate` | `applyPublicReleaseGateTx` with `StatusStored` and `StatusAdmitted`, the triggers of 036 and 018 |
| `Approve`, `ManualApprove` | `approvePublicRelease` |
| `Edit` | the edit transaction of `problem_edit.go` |
| `ClearStale`, `RefreshGate` | the two transactions of `CompleteProblemEditRefresh` |
| `StoreGate`, `StoreApprove`, `StoreReviewQuarantine`, ... | the end of `StoreProblemActivity` and its redelivery |
| `SetImportedDifficulty`, `Backfill` | the import's estimate, one problem of a backfill |

`informed` and `rebound` are history: who has seen the present content, and whether the
definition changed outside an edit since the last gate.

Two comparisons become sets. An `updated_at` matches until the next statement sets it, so
"still matches" is membership in `current`. An approval's subject contains the id of the
current definition artifact, and a changed definition gets a new id, so an approval that
stops matching never matches again and one Boolean tells.

### StoreProblem

One activity, its attempts, the database and the object store. A ledger step is three
actions, check, apply and record, because `runOperationStep` is three calls; an attempt may
die or be given up between any two, and a given-up one keeps running beside its successor.

| Model | Code |
|---|---|
| `operation`, `steps` | `workflow_operations`, `workflow_operation_steps` with their hashes |
| `row` | the problem and all that cascades with it: solutions and tests, vectors, gate, rights, approval, evidence binding |
| `objects` | test and solution files (one object), `metadata.json`, the evidence receipt |
| `announced`, `decided` | the outbox events of the operation and whether its decision's key is taken |
| `pc`, `phase`, `work`, `answer` | where `StoreProblemActivity` is and what it knows |
| `Begin`, `BeginRefused`, `Recover` | Begin, its payload comparison, the recovery through the binding |
| `Create`, `InsertSolutions`, `InsertTestCases`, `Upload`, `StoreVector` | the effects |
| `CheckStep`, `RecordStep` | `StepCompleted`, `CompleteStep` |
| `DecideDraft/Review/Gate/Lost`, `ApproveOwn`, `SkipApproval` | the decision of each kind, the automatic approval |
| `BuildReceipt`, `Attach` | the evidence receipt and its binding |
| `Complete`, `Fail`, `Interrupt`, `Expire` | the ends of an attempt |
| `Delete`, `Edit`, `Approve` | people, at any moment |

Step hashes are what they depend on: the payload, the serial, the model, the receipt's digest.

### EmbeddingCutover

Several problems (one is enough to check, the theorems are for any number), models, workers
pinned to a model, administrators.

| Model | Code |
|---|---|
| `problem`, `vectors`, `marked` | problem rows, `problem_embeddings`, the `stale` mark in their metadata |
| `registry`, `pointer` | `embedding_models`, `embedding_active_models` |
| `settings`, `runtime`, `pinned` | the saved provider settings and what API and workers were started with |
| `Store`, `Refresh`, `WriteVector`, `Clear`, `Decide` | what workers do to vectors and status |
| `Deploy`, `Activate`, `Switch` | the handlers and `embedding_cutover.go`; `Switch` is per kind, a request for two kinds is two of them |
| `Plan`, `Fill` | a backfill: candidates with their texts, then one upsert at a time |
| `RestartAPI`, `RestartWorker` | new processes read the settings |

### Generation

One run up to its candidate. Every action is a workflow task: an activity's result and what
`ProblemGenerationWorkflow` does until it schedules the next one. Contents are named by the
attempt that produced them. `Decode` is Go's decoder: a field the message omits keeps its
value, which matters for the artifact references of test data and sandbox results.

| Model | Code |
|---|---|
| `stmt`, `sol`, `testTry`, `repair` | the loop counters |
| `defects` | diagnostics of the current Markdown |
| `tests`, `main`, `brute`, `calibrated` | `testDataResult`, the sandbox results, `resourceCalibration` |
| `lastFailure` | the fingerprint that ends a loop when the same failure repeats |
| `agreed`, `differed`, `distinct` | history: what was compared, which final text is distinct |

What this module shares with `GenerationJob` carries "Run" in its name (`RunInit`,
`RunNext`, `RunSpec`), because `GenerationProofs` extends both.

### GenerationJob

The chain of runs of one workflow id. A run either fails to produce or goes to the LLM
review, and is from there on modelled in full.

| Model | Code |
|---|---|
| `phase`, `input`, `verdict` | status of each run, `ReviewRepair` in its parameters, the LLM's verdict |
| `decision`, `inbox`, `expired` | `ReviewRequest.Decision`, buffered signals, the fired timer |
| `ReviewTask` | one workflow task of `waitForReviewSignal`: the selector asks in order of registration |
| `Continue` via `ReviewRepairs` | `ContinueAsNew` with the repair budget |
| `op`, `working`, `began`, `stored`, `withheld`, `refused` | the ledger entry under the job's key and the store activities, including those nobody waits for |
| `Look`, `Submit`, `Signal`, `Confirm` | the approve and reject endpoints: query, signal, query again |
| `Cancel`, `Retry` | the cancel and retry endpoints |
| `chain` | history: repair rounds that led to a run |

As a `WriteOnce` register the job's value is the set of its problems, its clients are the
runs, and a run has its answer when it ended "completed" or "quarantined".

### Rating

| Model | Code |
|---|---|
| `status` | `rating_assessments` |
| `wf`, `cancelReq`, `inflight`, `late` | the executions, requests to them under way, writes of activities nobody waits for |
| `pc`, `target`, `verdict`, `goal` | the API requests, statement by statement |
| `Stage`, `GiveUp`, `Cleanup`, `Complete` | `RatingWorkflow` and its deferred cleanup |
| `View`, `Describe`, `Persist` | polling: a page reconciles what it shows |
| `Create`, `Insert`, `Start`, `Execute...`, `MarkFailed` | `HandleCreateAssessment` and `Start` |
| `Cancel`, `CancelAccepted/Errs/Confirm` | `HandleCancelAssessment` and `Cancel` |

What becomes of the reports is `RatingDecision`, for one problem. It shares no variable with
`Rating`: a decision needs a completed assessment, and completed rows stay as they are.

| Model | Code |
|---|---|
| `text` | the problem as the subject hash sees it; an edit taken back restores it |
| `feedback` | the snapshot of the feedback about each text; a revision makes it a new one |
| `evidence` | completed rows of `rating_assessments`, `rating_calibrations` |
| `official` | `rating_official`: `decision_id`, `subject_hash` |
| `step`, `page` | a request and what it has read: the rating page in the browser, locals of `HandleCalibrate`, a preview |
| `known` | history: the pieces read that nobody has written since |
| `OpenPage`, `ReadOfficial`, `ReadFeedback`, `Choose` | `Workspace`, query by query, and the choice in `Decisions.tsx` |
| `SaveCalibration` | `HandleCalibrate`'s last step, the transaction |
| `Rate`, `Note`, `Conflict` | the transaction of `Decide`: accept and modify, reject and defer, `ErrConflict` |
| `Preview`, `Offer` | `CurrentOfficial`: the rating, then the subject |
| `Confirm` | `VerifyOfficialTx` inside `CreateAssembled` |
| `SubmitFeedback`, `Edit`, `Assess` | everybody else |

A decision rests on an assessment of the present text or on a calibration of all the feedback
about it; what kind it was makes no difference afterwards. Each transaction is one action:
the advisory lock of the problem serializes decisions, calibrations, feedback and
confirmations, and its row lock (`FOR SHARE`) keeps editors out. Reading a page takes no
lock, so its queries are steps of their own; that the subject is itself captured by three
queries is left out (a subject put together from two versions is one the problem never had,
and no decision about it is accepted).

### Identity

Accounts by e-mail, and the requests under way. A request is split where the service reads,
hashes or compares a password, and then opens the transaction that writes; what it read is
all it knows then. Each transaction is one action: `lockIdentity`'s advisory lock serializes
those that change accounts and invitations.

| Model | Code |
|---|---|
| `users` | `qraft_users`: role, `disabled_at`, `password_hash` |
| `sessions`, `invitations` | the rows of their tables that are still valid |
| `request` | locals of a handler between its read and its write |
| `Login`, `CreateSession` | `Login`'s comparison and `CreateSession`, which compares the hash again under the user's row lock |
| `Authenticate`, `AsAdmin` | the session middleware; `requireAdmin` inside the transaction |
| `ReadCredential`, `ChangePassword` | `ChangePassword` and its transaction |
| `BeginBootstrap`, `Bootstrap` | the first account: `SetupRequired` before the hash and inside the transaction |
| `UpdateUser`, `IssueInvitation`, `RevokeInvitation` | administration; `LastAdmin` counts enabled administrators |
| `Follow`, `Register`, `ResetPassword` | links: looked up before hashing, and again inside the transaction |

A salted hash is a value not in use, an invitation's id likewise; which one does not matter.
The hash and role of a session and the hash of an invitation are history: what it was
granted for. The code compares neither, it deletes the rows, and whether it deletes enough
is the question.

## Runs

| Run | Instance | Distinct states | Shows |
|---|---|---|---|
| `pe_safety` | 3 attempts, timeout 2, lease 3, 2 requests, 2 texts, 3 faults | 489 921 | calls do not overlap; answers are the committed one; calls <= faults + 1; one fault is survived; the ledger implements the register; the activity ends |
| `ob_safety` | 2 events, 2 dispatchers, batch 2, 2 attempts, lease 3, 2 faults | 1 803 911 | deliveries do not overlap; the outbox implements at-least-once delivery |
| `ob_live` | 1 event, 2 dispatching workers and a disabled one, 2 faults | 129 064 | events end delivered or dead; a dead one makes all dispatching workers unready for good; a drained queue makes all ready |
| `pub_safety` | 1 human, 1 workflow, 1 client, 3 origins, 2 texts, 2 attempts | 1 119 570 | rejected needs human; published meets the gate; `updated_at` identifies content |
| `sp_safety` | 3 attempts started in order, 2 payloads, 2 models, 3 kinds, 1 fault, 1 intervention | 1 330 009 | recorded is done; completed is whole; public is whole; the result was announced; the operation implements the register and is completed |
| `emb_safety` | 1 problem, 2 models, 2 texts, 1 worker, 2 administrators | 904 058 | published is covered; only a switch hides; empty backfill plans unblock; what is activated is what runs |
| `gen_safety` | 2 statements of 3 solutions, 2 repair rounds, 1 diagnostic | 742 368 | no tests for defective statements; candidates are earned; staleness only by reference; the run ends |
| `job_safety` | 3 runs, 2 reviewers, 2 feedbacks, 1 repair round, 1 fault | 866 918 | the job implements the register; its problem is the one decided about; success is one's own; reviewers learn the truth; timeouts mean silence; repairs are bounded; the job closes |
| `rat_safety` | 2 assessments, 1 administrator, 1 open page, 1 fault; beside it 2 people, one also an author, 2 texts, 1 revision of each one's feedback, 2 rows of evidence, 2 decisions | 883 315 | completed is recorded; failed is over; answers are true; accepted ends |
| `id_safety` | 2 e-mails, 2 requests, 4 hashes, 4 invitation ids | 601 519 | an administrator remains; sessions and links fit their accounts |
| `pub_validated`, `gen_fresh` | as small as the case allows | | the findings below |

Type invariants, `LeaseCoversBatch`, `AttemptsBounded`, `DeliveredWasReceived` and
`JobStoresOnce` are theorems and not evaluated again; the last two also follow from the
refinements the runs check.

Why these bounds. *Ledger*: three attempts are what most activities are given, and let a
zombie, its successor and the successor's retry coexist; the lease exceeds the timeout by
one tick, the tightest the configuration admits; two requests are needed for a changed
identity, two texts for two different answers; three faults let every attempt fail in its
own way. *Outbox*: two events make a batch in which the first request eats the second one's
lease; two dispatchers race; two attempts make `retry` and `dead` both reachable; the lease
is again the tightest one. *Publication*: two texts are needed for an edit and its way back
(a vector row that already exists); a workflow, a client and a human suffice for every pair
of roles to interleave, and two attempts for one retry. *StoreProblem*: two attempts, of
which the first may be a zombie, are every overlap of two, and `EventuallyCompleted` needs
one more than twice the faults (a fault may take an innocent attempt along), hence three,
started in order; the payloads differ for a refused one, the models for a worker
reconfigured in between, and one intervention makes a deletion, an edit or an approval.
*Embeddings*: one problem, because nothing but the preflight relates two and that is a
conjunction over them; two models and two texts for every mismatch; two requests race.
*Generation*: two statements and three solutions are the least at which a third attempt
inherits from the first across a second; one diagnostic makes "the same failure twice" and
"another failure" differ by stage. *Job*: a first run, its repair and a retry; two reviewers
who disagree. *Rating*: the one-active rule makes a third assessment behave as the second.
Assessments and decisions share nothing, so whatever one of the two modules reaches it
reaches with the other untouched, and `MCRating` explores just those states. Two people
decide against each other, or one decides while the other confirms a set; two texts make an
edit and its way back; with one revision of the feedback about each text a snapshot is old
or new; two decisions replace one another and leave an old one to be previewed.
*Identity*: two administrators who demote each other, or an administrator and the one whose
account changes, with one request each; four hashes and four ids are never all in use when
one is needed.
The theorems below remove the bounds from the safety properties.

`MaxFaults` bounds crashes, stalls, lost replies, cancellations and database errors;
`MaxTouches`, `MaxRuns`, `MaxRevisions`, `MaxEvidence` and `MaxDecisions` what people may
do; `Hashes` and `Ids` (Identity) the values in use at a time. Nothing else is capped:
delays end, attempts and retries are finite by the code's own limits.

`CHECK_DEADLOCK FALSE` appears where the system stops by itself: an activity that settled
(`pe_safety`, `sp_safety`), a run that ended (`gen_safety`, `gen_fresh`), a job
whose last run has closed (`job_safety`). Symmetry is used in runs without liveness only:
dispatchers (`ob_safety`, whose refinement is a safety property that does not name them),
texts (`pub_safety`), administrators' requests and models (`emb_safety`), e-mails and
requests (`id_safety`).

### Fairness

- ProviderEffect: weak fairness of a live attempt's next step (goroutines run), of reporting
  and timing out (the Temporal server does), of dispatch and of the clock. An attempt that
  crashed takes no step; the timeout ends it.
- Outbox: weak fairness of every worker's loop (a ticker drives `runOnce`); strong fairness
  of the clock, because punctual batches hold it back for moments without end, and real time
  passes between polls.
- StoreProblem: weak fairness of the attempts' steps taken together, a start by the server
  included: as long as one of them can go on, one of them does.
- Generation: weak fairness of `Next`: the server completes or fails every activity.
- GenerationJob: weak fairness of each run's production, timer, review task, store activity
  and its cancellation. Nothing is assumed of reviewers and operators.
- Rating: weak fairness of each execution's steps and of an open page's polling, which
  `src/docs/problem-rating.md` names as what reconciles; nothing of administrators.

No fault is forced and none is forbidden for ever; the outbox's receiver is never assumed to
accept. Publication, EmbeddingCutover and Identity claim no liveness:
people decide.

### Findings

Each is a run that checks one sentence of the repository and a trace that contradicts it.

1. `pub_validated`. `workflow/problem_validate.go:438-439`: an edited problem is not
   publishable until "the exact revision that was validated" is re-embedded. The revision is
   compared when the activity starts; the clearing transaction takes no expected revision,
   so an edit in between that leaves the text alone is cleared unvalidated.
2. `gen_fresh`. `workflow/problem_gen.go:338-343` promises that a new statement has new test
   inputs and a new solution new outputs. Results are decoded into variables declared once
   (`:354-366`), artifact references are `omitempty` and win wherever they are read: a small
   result after a large one keeps the earlier attempt's reference, and the candidate is
   validated, and stored, with another attempt's data.

### Observations

Seen while modelling, with no run of their own. Definitions marked "Not satisfied" in the
modules state the first four; a run that checks one of them finds it violated.

- `ReembeddedIsRefreshable` (Publication). `api-reference.md:721`: after re-embedding and
  validation a refresh clears the markers. The vector upsert keeps the metadata of a row
  that exists (`vector_repo.go:214`), `stale` included, and preflight then blocks: an edit
  that leaves the text alone, or returns to an earlier one, can never be refreshed.
- `CompletedRefreshRetries` (Publication). `refresh_problem_edit.go:91-94` calls the
  operation safe to retry. The refresh itself sets `updated_at`, so the retry of a completed
  one fails the comparison at line 130 before it asks the ledger.
- `ReviewedStaysQuarantined` (Publication). Migration 036's trigger demands a current human
  approval under review quarantine, but BEFORE triggers judge the row before the AFTER
  trigger rebinds the definition, which is part of the approval's subject. The problem
  becomes a draft, not public: `ReviewedNeedsHuman` holds.
- `SolutionsActivate` (EmbeddingCutover). `api-reference.md:1630` offers the kind "solution"
  for activation; the preflight compares a solution vector's text with the statement's
  (`embedding_cutover.go:371`), so full coverage does not clear it.
- `RefusedOnlyIfStored` (GenerationJob). A retried job is refused by the ledger for ever
  after a store that began and failed: the key is the job's, the payload the run's.
  `api-reference.md:1358` suggests retrying.
- `outbox_dispatch.go:27-29` says that readiness of a disabled worker "still fails whenever
  a durable backlog exists"; `outbox/runtime.go` keeps it ready, and its test expects that.
- `api-reference.md:721` also says the same `operation_key` returns the same report; a
  `no_go` is executed again (only `go` is completed in the ledger).
- A refresh writes its receipt into the metadata, which migration 036 counts as a content
  change: the definition is rebound without rights, and the gate of the second transaction
  can say `go` only if an approval arrives between the two transactions. In between, and
  after `SetImportedDifficulty` (`problem_import.go:98-112`), a published problem may have a
  definition without rights: the exception `rebound` of `PublishedMeetsGate`. (Where an
  older manual approval stopped matching, the trigger quarantines it instead.)
- `applyPublicReleaseGateTx` reports and announces the status it asked for; a trigger may
  have stored `quarantined`. The announcement is inserted with ON CONFLICT DO NOTHING: a
  later decision under the same key is not announced.
- StoreProblem: an edit between two overlapping attempts' gates leaves a binding whose
  reasons are not the row's; overlapping attempts with automatic approval and evidence can
  fail each other; a worker restarted with another embedding model between attempts makes
  the vector step's hash differ, and a problem deleted during redelivery gets another serial
  and cannot pass `metadata.json`: the operation fails permanently, the row may stay
  `generating`.
- Embeddings: a rollback puts published problems under vectors marked stale; a manual
  approval publishes without a vector and blocks later switches until backfilled; the default
  backfill never picks problems with an older row; activating two kinds is two transactions;
  workers pinned to another model than the active one only warn. `BeginEmbeddingBackfillRun`
  and its kin and `ScanEmbeddingIntegrity` have no production caller.
- Generation: `[]*ArtifactRef` aliasing loses ancestry in `sourceArtifacts`; inherited
  `MarkdownDiagnostics` cause needless repairs; calibrated limits enter the next repair
  round's parameters; the branch of a repair after a cleaner's rejection
  (`problem_gen.go:528-557`) is unreachable.
- Review: a cancellation while waiting is reported as "human review timed out"; one that
  lands in the workflow task of an objecting LLM review may be lost by `ContinueAsNew`.
- Rating: a reservation whose start died stays pending until cancelled (documented); after a
  cancellation two executions of one problem may run at once; a "reject" or "defer" decision
  is no part of the `ExpectedDecisionID` comparison, so nobody who decides later is told of
  it. No calibration proposes a rating (`BuildCalibration` leaves `SuggestedRating` nil), so
  from one only "modify" sets a rating, with no assessment at all. `CurrentOfficial` may
  offer a rating that was replaced before it captured the subject; `VerifyOfficialTx` refuses it.
- `provider_effect_lease` defaults to 30 minutes (`config/config.go:268`), which
  `config.go:461` refuses. `SurvivesOneFault` needs three attempts; import
  (`workflow/problem_import.go:45`) and rating (`workflow/rating.go:24`) activities have two.
- Outbox: a claim of a lapsed lease counts an attempt and does not compare it with the budget
  (`AttemptsBounded` says by how much it may be exceeded), and a failed acknowledgement
  abandons the rest of the batch until its lease lapses.

## Proofs

`tlapm` checks all of the following for every value of the constants that satisfies the
modules' assumptions: `LeaseAssumption` and `NoneAssumption` (ProviderEffect),
`ConfigAssumption` (Outbox), `PublicationAssumption`, `StoreAssumption` and `NoneAssumption`
(StoreProblem), `CutoverAssumption`, `GenerationAssumption`, `JobAssumption`,
`RatingAssumption`, `DecisionAssumption`, `IdentityAssumption` and `NoneAssumption` (Identity). `LeaseAssumption`
and `ConfigAssumption` contain the inequalities `config.go` enforces; the rest says that
constants are numbers, e-mails finitely many and distinct things distinct. TLC evaluates
each on every run.

- **ProviderEffectProofs.** `SingleFlight` is not inductive: it needs `LeaseInv`, that an
  attempt in its provider call holds the row under its token with a lease longer than what
  is left of its context, so nobody else can lease the row; `DispatchInv`, that only
  dispatched attempts have left "idle"; and `RowInv` and `ReplyInv`, which tie token, result
  and replies to the row's status. With `AnswersCommitted` they are `IInv`.
  `LedgerImplementsRegister` maps the row's result and the returned replies to `WriteOnce`:
  a commit decides (and answers when its reply arrives), a cached acquire answers, all else
  stutters. `CallsAccounted` rests on `ChargedInv`: calls and zombies that may still call
  (counted with `FiniteSetTheorems`) are at most the faults, and one more for the call that
  is under way or was stored; `CallingInv`, that the attempt the server waits for holds its
  lease from the grant to the commit, says why nobody else can make that one call a second.
  `SurvivesOneFault` is proved for three attempts and more: `Survival` says that the first
  attempt succeeds without a fault, that the second can then only fail on the first one's
  lease, with a retry delay as long as that lease, and that the third finds it over.
- **OutboxProofs.** `Need(d)`, the requests left of a batch times the request timeout plus
  what is left of the one in flight, bounds the time a punctual dispatcher still needs;
  `Budget` says every lease of its batch lasts longer. A claim establishes it from
  `lease > batch_size * request_timeout` and `Claimable`'s cardinality, a finished event pays
  one timeout, a tick pays one on both sides. `LeaseCoversBatch` and `SoleDelivery` follow.
  `Attempted` charges every attempt beyond the budget to a fault and keeps what the
  unattended leases may still cost; `Receipt` follows an answered request to the
  acknowledgement. `OutboxImplementsDelivery` adds `Counted`, that what is in a batch was
  counted as an attempt: a claim takes up its batch, an accepted request accepts, an
  acknowledgement settles its event or leaves it open, an enqueue sends, all else stutters.
- **PublicationProofs.** `IInv` adds `Records` to the properties: an approval that matches was
  recorded, only rejected problems are under review, only imported ones are estimated. The
  gate is treated once (`GateStores`, `GateKeepsRules`), the edit once (`EditWithdraws`);
  every other action is a frame argument.
- **StoreProblemProofs.** Two invariants, one on the other. `IInv` holds whatever people do
  to the problem meanwhile: who may write which row, what was uploaded before it was inserted,
  which statuses were announced, and `Fits`, what each attempt knows of the operation, the
  input and the decision at the place where it is. It gives the types, `PublishedIsWhole`,
  `ResultWasAnnounced` and the refinement, in which a completion decides and answers, a
  begin that finds a completed operation answers, and all else stutters. `WInv` adds what is
  stored: recorded steps have their rows, an attempt that has passed a step has them as long
  as nobody disturbed the problem, and a receipt precedes completion. `StepsHold` and
  `CompletedIsWhole` follow. It is preserved because an attempt only adds to the rows of an
  undisturbed problem, so that what one attempt has seen no other takes away.
- **EmbeddingCutoverProofs.** `IInv` is type correctness, `PublishedIsCovered` and
  `SwitchInv`: a request that is switching still names the model the API process runs,
  because a restart ends the process's requests. The switch preserves coverage by its
  preflight, the gate by its prerequisites, an edit by withdrawing. `BackfillUnblocks` is a
  fact about two queries and needs types only.
- **GenerationProofs**, of a run. `RunIInv` states each part of the properties from the stage
  on at which it is settled: `Agreement` after the comparison, `Calibration` after the
  benchmark,
  `StaleTests`, `StaleMain` and `StaleBrute` after each decoding, `Distinctness` at the end.
- **GenerationProofs**, of a job. `Chained` says that only the latest run can go on; `Decided`
  that what reached the store was decided and never goes back; `Ledger` that the one entry under
  the job's key is that of the run that stored. `Counted` ties the history of repairs to the
  counter in the parameters, `Asked` and `Silent` what a reviewer knows to what he did.
  `JobImplementsRegister` maps the commit of the store to deciding and its return to a run
  that waits to an answer; no other step stores, and none makes a run end well or takes that
  back, because runs end from where they are open (`Unanswered`) and the run that follows
  another was absent (`Succeeds`).
- **RatingProofs.** Request and execution are tied both ways: `Starts`, that an assessment
  being started has neither an execution nor another starter; `Verdicts`, that a request only
  persists a failure after it saw the execution closed; `Finished` and `LateFailures`, that a
  late failure was sent by an execution that is over.
- **RatingProofs**, of decisions. `AnsweredTruly` compares values on one side (the code) and
  history on the other (`known`), so its invariant ties them: `FeedbackHeld` and
  `DecisionHeld` say that a value read is the present one exactly as long as nobody has
  written since, and a smaller one after, because revisions and decisions only grow. Of the
  subject only half of that holds (`SubjectHeld`), since an edit can be taken back, which is
  why the property lets it change. `PreviewHeld` says a decision still standing is about the
  text the preview names.
- **IdentityProofs.** `AdminRemains` and `AccessIsCurrent` need what a request knows when it
  writes: `Knowledge` says that one that acts for an account still finds it, that one that
  will write a hash has one, and that a link it followed, if it is still good, is for the
  same address and purpose. `Distinct` says that an id tells a link and so do address and
  kind, and that there is none before there is an account, so the first one meets no link.
  Demotion is a fact about cardinalities: with more than one enabled administrator another
  one remains. `PasswordReplaced` treats the change and the reset at once.

Only model-checked: all liveness (`EventuallySettled`, `EventuallyHandled`,
`ReadinessIsTrue`, `EventuallyCompleted`, `EventuallyEnded`, `EventuallyClosed`,
`AcceptedEnds`), which is out of the prover's reach. Every other property of a run that
passes is a theorem.

## Not modelled

- *Of publication*: Create, List and Delete, evidence of generation standards, takedown and
  retention of a definition, and a timed-out refresh attempt that runs on beside its
  successor (attempts of one workflow follow each other in the model; StoreProblem has the
  overlap). `ProblemRepository.Update` and `UpdateStatus` have no production caller.
- *Of generation*: version markers other than the newest, the optional editorial, the quality
  report of `problem_quality_v1.go` and `history_payload_guard.go`; batches and sets of jobs.
- *Of rating*: invitations and their revocation, anchors, the value of a rating and what it
  is searched by, what else a confirmed set compares, and the engine's floating-point
  arithmetic.
- *Of embeddings*: the ledger of backfill runs and the integrity scan, which nothing calls.
- *Of StoreProblem*: the payload without an idempotency key that old histories have.
- *Components without control to model*: artifact store, sandbox, LLM clients, HTTP,
  frontend: input and output. Quality gate, lint, diversity, the rating engine: pure
  functions, some in floating point. They, with the handlers that only decode and authorise,
  are most of the implementation's lines, which is why the map covers a small share of them.
- *Of identity*: the limit on attempts, the audit rows and the local development mode.
- Workflow ownership is planned, the migration runner is not.

## Plan

Done: ProviderEffect with WriteOnce, Outbox with Delivery, Publication, StoreProblem,
EmbeddingCutover, Generation, GenerationJob, Rating with RatingDecision, Identity, and the
proofs of them.

Next, in this order:

1. `WorkflowOwnership`: reservation before the start, inheritance along the parent chain,
   conflicts; theorem: one owner per workflow.
2. `Announcements`: the gate's decisions composed with the outbox: what the receiver learns
   against what the row says. Abstract specification: the receiver's view is a status the
   row had, delivered as `Delivery` promises.
3. Batches and sets over GenerationJob; invitations of reviewers.

Runs stay few, one per question: a safety run per module, a liveness run, or liveness in the
same run, where the code promises progress.

--------------------------- MODULE EmbeddingCutover ---------------------------
(***************************************************************************)
(* Embedding model versions: administrators register a model, backfill its *)
(* vectors and move the active pointers, while workers that are pinned to  *)
(* the model of their configuration store, refresh and publish problems    *)
(* and people edit, approve and delete them.                               *)
(*                                                                         *)
(* The active pointer is what the gate and the refresh read; the           *)
(* configuration is what the workers write.  Each action is a transaction: *)
(* the gate, the edit, the refresh and the switch are serializable.        *)
(*                                                                         *)
(* Rights are one more condition of the gate, open here and modelled in    *)
(* Publication.  A published problem under review quarantine has a current *)
(* approval (ReviewedNeedsHuman there), so it is eligible everywhere.      *)
(***************************************************************************)
EXTENDS Naturals, FiniteSets

CONSTANTS
    Problems,
    Models,       \* model versions
    Texts,        \* what a statement vector is computed from
    Codes,        \* what a solution vector is computed from
    Workers,      \* store and refresh activities
    Admins,       \* administrators' requests
    Asked,        \* the kinds administrators ask for
    None

ASSUME CutoverAssumption ==
    /\ Texts \cap Codes = {}
    /\ Asked \subseteq {"statement", "solution"}
    /\ None \notin Problems \cup Models \cup Texts \cup Codes

VARIABLES
    problem,      \* per problem its row, or None
    vectors,      \* rows of problem_embeddings: [problem, model, content]
    marked,       \* those of them marked stale
    registry,     \* per model "absent", "shadow" or "active"
    pointer,      \* per kind the active model, or None
    settings,     \* the model saved for the next start
    runtime,      \* the model the API process was started with
    pinned,       \* the model a worker was started with
    job,          \* what a worker is doing: [problem, text, step], or None
    request       \* what an administrator is doing, or None

rows   == <<problem, vectors, marked>>
models == <<registry, pointer, settings>>
vars   == <<rows, models, runtime, pinned, job, request>>

Kinds == {"statement", "solution"}

Content(kind) == IF kind = "statement" THEN Texts ELSE Codes

Vector(p, m, c) == [problem |-> p, model |-> m, content |-> c]

Stored == {p \in Problems : problem[p] # None}

Published == {p \in Stored : problem[p].status = "published"}

Init ==
    /\ problem = [p \in Problems |-> None]
    /\ vectors = {} /\ marked = {}
    /\ \E m \in Models :
         /\ settings = m /\ runtime = m /\ pinned = [w \in Workers |-> m]
         /\ registry = [n \in Models |-> IF n = m THEN "shadow" ELSE "absent"]
    /\ pointer = [k \in Kinds |-> None]
    /\ job = [w \in Workers |-> None]
    /\ request = [a \in Admins |-> None]

(***************************************************************************)
(* The gate                                                                *)
(***************************************************************************)
\* readPublicationGatePrerequisites: the active model's row of the text as it is
\* now, not marked.
Served(p) == Vector(p, pointer["statement"], problem[p].text) \in vectors \ marked

Prerequisites(p) == ~problem[p].stale /\ Served(p)

\* Without the rights the outcome is "quarantined" as well.
Outcomes(p) == IF Prerequisites(p) \/ problem[p].approved THEN {"published", "quarantined"}
               ELSE {"quarantined"}

Gate(p) == \E s \in Outcomes(p) : problem' = [problem EXCEPT ![p].status = s]

(***************************************************************************)
(* Workers                                                                 *)
(***************************************************************************)
Job(p, t, s) == [problem |-> p, text |-> t, step |-> s]

At(w, step) == job[w] # None /\ job[w].step = step

Continue(w, step) == job' = [job EXCEPT ![w].step = step]

End(w) == job' = [job EXCEPT ![w] = None]

NewProblem(t, c) == [status |-> "generating", text |-> t, code |-> c,
                     stale |-> FALSE, approved |-> FALSE]

\* StoreProblem, also redelivered before it decided.
Store(w, p, t, c) ==
    /\ job[w] = None
    /\ \/ p \notin Stored
       \/ p \in Stored /\ problem[p] = NewProblem(t, c)
    /\ problem' = [problem EXCEPT ![p] = NewProblem(t, c)]
    /\ job' = [job EXCEPT ![w] = Job(p, t, "store")]
    /\ UNCHANGED <<vectors, marked, models, runtime, pinned, request>>

\* The refresh of an edited problem embeds the text it fetched.
Refresh(w, p) ==
    /\ job[w] = None
    /\ p \in Stored /\ problem[p].stale
    /\ job' = [job EXCEPT ![w] = Job(p, problem[p].text, "refresh")]
    /\ UNCHANGED <<rows, models, runtime, pinned, request>>

\* UpdateEmbeddingForVersion for the configured model; a row that exists keeps its
\* marker, the foreign key needs the problem.
WriteVector(w) ==
    /\ At(w, "store") \/ At(w, "refresh")
    /\ job[w].problem \in Stored
    /\ vectors' = vectors \cup {Vector(job[w].problem, pinned[w], job[w].text)}
    /\ Continue(w, IF job[w].step = "store" THEN "gate" ELSE "clear")
    /\ UNCHANGED <<problem, marked, models, runtime, pinned, request>>

\* The first transaction of the refresh: its preflight reads the active pointer.
Clear(w) ==
    /\ At(w, "clear")
    /\ job[w].problem \in Stored /\ Served(job[w].problem)
    /\ problem' = [problem EXCEPT ![job[w].problem].stale = FALSE]
    /\ Continue(w, "gate")
    /\ UNCHANGED <<vectors, marked, models, runtime, pinned, request>>

Decide(w) ==
    /\ At(w, "gate")
    /\ job[w].problem \in Stored
    /\ Gate(job[w].problem)
    /\ End(w)
    /\ UNCHANGED <<vectors, marked, models, runtime, pinned, request>>

\* An error, a missing problem, a blocked preflight or a crash; what comes next is
\* another delivery.
Abort(w) ==
    /\ job[w] # None
    /\ End(w)
    /\ UNCHANGED <<rows, models, runtime, pinned, request>>

\* A worker resolves and binds the configured model once, at its start; a pointer
\* that differs is a warning.
RestartWorker(w) ==
    /\ registry[settings] # "absent"
    /\ pinned' = [pinned EXCEPT ![w] = settings]
    /\ End(w)
    /\ UNCHANGED <<rows, models, runtime, request>>

(***************************************************************************)
(* People                                                                  *)
(***************************************************************************)
\* markProblemEditDependentsStale: the rows of the active models.
MarkedByEdit(p) ==
    {v \in vectors : v.problem = p /\ \E k \in Kinds : v.content \in Content(k)
                                                       /\ v.model = pointer[k]}

\* Mutant: an edited problem stays public.
WithdrawnNever(status) == status

Withdrawn(status) == IF status = "published" THEN "draft" ELSE status

\* An approval may outlast an edit outside its subject.
Edit(p, t, c) ==
    /\ p \in Stored /\ problem[p].status # "generating"
    /\ \E approved \in {FALSE, problem[p].approved} :
         problem' = [problem EXCEPT ![p] =
           [status |-> Withdrawn(problem[p].status), text |-> t, code |-> c, stale |-> TRUE,
            approved |-> approved /\ t = problem[p].text]]
    /\ marked' = marked \cup MarkedByEdit(p)
    /\ UNCHANGED <<vectors, models, runtime, pinned, job, request>>

Reviewable(p) == p \in Stored /\ problem[p].status \in {"quarantined", "published"}

Approve(p) ==
    /\ Reviewable(p) /\ Prerequisites(p)
    /\ problem' = [problem EXCEPT ![p].status = "published"]
    /\ UNCHANGED <<vectors, marked, models, runtime, pinned, job, request>>

\* The approval of an administrator overrides the prerequisites.
ManualApprove(p) ==
    /\ Reviewable(p)
    /\ problem' = [problem EXCEPT ![p].status = "published", ![p].approved = TRUE]
    /\ UNCHANGED <<vectors, marked, models, runtime, pinned, job, request>>

\* The vectors go with the problem.
Delete(p) ==
    /\ p \in Stored
    /\ problem' = [problem EXCEPT ![p] = None]
    /\ vectors' = {v \in vectors : v.problem # p}
    /\ marked' = {v \in marked : v.problem # p}
    /\ UNCHANGED <<models, runtime, pinned, job, request>>

(***************************************************************************)
(* Deployment                                                              *)
(***************************************************************************)
Switching(m, kinds) == [model |-> m, task |-> "switch", kinds |-> kinds, plan |-> {}]

Filling(m, plan) == [model |-> m, task |-> "fill", kinds |-> {}, plan |-> plan]

Done(a) == request' = [request EXCEPT ![a] = None]

\* HandleDeployLocal, which goes on to the switch when the API process runs the model
\* already.  Without a settings store nothing is saved.
Deploy(a, m, kinds) ==
    /\ request[a] = None
    /\ registry' = [registry EXCEPT ![m] = IF @ = "absent" THEN "shadow" ELSE @]
    /\ settings' \in {settings, m}
    /\ request' = [request EXCEPT ![a] = IF runtime = m /\ kinds # {} THEN Switching(m, kinds)
                                         ELSE None]
    /\ UNCHANGED <<rows, pointer, runtime, pinned, job>>

\* Mutant: a mismatch of the runtime is waved through.
ActivateAnyway(a, m, kinds) ==
    /\ request[a] = None
    /\ registry[m] # "absent"
    /\ kinds # {}
    /\ request' = [request EXCEPT ![a] = Switching(m, kinds)]
    /\ UNCHANGED <<rows, models, runtime, pinned, job>>

\* HandleActivateLocal, for a model that is registered.
Activate(a, m, kinds) ==
    /\ request[a] = None
    /\ registry[m] # "absent"
    /\ runtime = m /\ kinds # {}
    /\ request' = [request EXCEPT ![a] = Switching(m, kinds)]
    /\ UNCHANGED <<rows, models, runtime, pinned, job>>

\* The API process starts again, and its requests are lost.
RestartAPI ==
    /\ registry[settings] # "absent"
    /\ runtime' = settings
    /\ request' = [a \in Admins |-> None]
    /\ UNCHANGED <<rows, models, pinned, job>>

\* Mutant: the preflight takes a row of any text.
MissingAnyText(kind, m) ==
    {p \in Published : ~\E v \in vectors : v.problem = p /\ v.model = m
                                           /\ v.content \in Content(kind)}

\* activePointerSwitchPreflightSQL: the statement's hash is looked for, whatever the
\* kind; markers are not looked at.
Missing(kind, m) ==
    {p \in Published : problem[p].text \notin Content(kind)
                       \/ Vector(p, m, problem[p].text) \notin vectors}

\* SwitchActiveEmbeddingPointer: one kind, in one transaction.  A blocked kind is
\* reported and the next one is tried.
Switch(a, kind) ==
    /\ request[a] # None /\ request[a].task = "switch" /\ kind \in request[a].kinds
    /\ IF Missing(kind, request[a].model) = {}
       THEN /\ pointer' = [pointer EXCEPT ![kind] = request[a].model]
            /\ registry' = [registry EXCEPT ![request[a].model] = "active"]
       ELSE UNCHANGED <<pointer, registry>>
    /\ request' = [request EXCEPT ![a] =
         IF request[a].kinds = {kind} THEN None
         ELSE Switching(request[a].model, request[a].kinds \ {kind})]
    /\ UNCHANGED <<rows, settings, runtime, pinned, job>>

-----------------------------------------------------------------------------
(***************************************************************************)
(* Backfill                                                                *)
(***************************************************************************)
\* The content a problem's row of a kind is computed from; a solution must be fresh.
Current(kind, p) == IF kind = "statement" THEN problem[p].text ELSE problem[p].code

Embeddable(kind) ==
    {p \in Stored : /\ problem[p].status # "quarantined"
                    /\ kind = "solution" => ~problem[p].stale}

\* Mutant: all_stale is not looked at.
CandidatesWithoutRow(kind, m, allStale) ==
    {p \in Embeddable(kind) :
       ~\E v \in vectors : v.problem = p /\ v.model = m /\ v.content \in Content(kind)}

\* PlanEmbeddingBackfill: without all_stale only problems with no row of the model.
Candidates(kind, m, allStale) ==
    {p \in Embeddable(kind) :
       IF allStale THEN Vector(p, m, Current(kind, p)) \notin vectors
       ELSE ~\E v \in vectors : v.problem = p /\ v.model = m /\ v.content \in Content(kind)}

\* HandleBackfillLocal: a batch of the candidates, with the texts as they are now.
Plan(a, kind, m, allStale) ==
    /\ request[a] = None
    /\ registry[m] # "absent"
    /\ \E batch \in SUBSET Candidates(kind, m, allStale) :
         /\ batch # {}
         /\ request' = [request EXCEPT ![a] =
              Filling(m, {Vector(p, m, Current(kind, p)) : p \in batch})]
    /\ UNCHANGED <<rows, models, runtime, pinned, job>>

\* One candidate is embedded and written, or counted as failed: the service fails, or
\* the problem is gone.
Fill(a, v) ==
    /\ request[a] # None /\ v \in request[a].plan
    /\ vectors' \in {vectors} \cup (IF v.problem \in Stored THEN {vectors \cup {v}} ELSE {})
    /\ request' = [request EXCEPT ![a] =
         IF request[a].plan = {v} THEN None
         ELSE Filling(request[a].model, request[a].plan \ {v})]
    /\ UNCHANGED <<problem, marked, models, runtime, pinned, job>>

Work(w) ==
    \/ \E p \in Problems, t \in Texts, c \in Codes : Store(w, p, t, c)
    \/ \E p \in Problems : Refresh(w, p)
    \/ WriteVector(w) \/ Clear(w) \/ Decide(w) \/ Abort(w) \/ RestartWorker(w)

Administer(a) ==
    \/ \E m \in Models, kinds \in SUBSET Asked : Deploy(a, m, kinds) \/ Activate(a, m, kinds)
    \/ \E kind \in Asked : Switch(a, kind)
    \/ \E kind \in Asked, m \in Models, all \in BOOLEAN : Plan(a, kind, m, all)
    \/ request[a] # None /\ \E v \in request[a].plan : Fill(a, v)

Touch(p) ==
    \/ \E t \in Texts, c \in Codes : Edit(p, t, c)
    \/ Approve(p) \/ ManualApprove(p) \/ Delete(p)

Next ==
    \/ \E w \in Workers : Work(w)
    \/ \E a \in Admins : Administer(a)
    \/ \E p \in Problems : Touch(p)
    \/ RestartAPI

Spec == Init /\ [][Next]_vars

-----------------------------------------------------------------------------
Row == [status : {"generating", "draft", "quarantined", "published"},
        text : Texts, code : Codes, stale : BOOLEAN, approved : BOOLEAN]

Vectors == [problem : Problems, model : Models, content : Texts \cup Codes]

Requests == [model : Models, task : {"switch", "fill"}, kinds : SUBSET Kinds,
             plan : SUBSET Vectors]

TypeOK ==
    /\ problem \in [Problems -> Row \cup {None}]
    /\ vectors \subseteq Vectors /\ marked \subseteq vectors
    /\ registry \in [Models -> {"absent", "shadow", "active"}]
    /\ pointer \in [Kinds -> Models \cup {None}]
    /\ settings \in Models /\ runtime \in Models
    /\ pinned \in [Workers -> Models]
    /\ job \in [Workers -> {None} \cup
                 [problem : Problems, text : Texts, step : {"store", "refresh", "clear", "gate"}]]
    /\ request \in [Admins -> Requests \cup {None}]

\* What ScanEmbeddingIntegrity looks for: a published problem has the active model's
\* vector of the statement as it is now, though the pointer moves while workers of
\* another model publish and people edit.  An administrator's approval may publish
\* without it.
PublishedIsCovered ==
    \A p \in Published :
        problem[p].approved
        \/ Vector(p, pointer["statement"], problem[p].text) \in vectors

\* A switch is the only step that can put a published problem under a vector marked
\* stale, which hides it from the similarity search: the preflight counts marked
\* rows.  Nothing else may.
OnlySwitchUnserves ==
    [][\A p \in Published :
         ~problem[p].approved /\ Served(p) /\ p \in Published' /\ pointer' = pointer
           => problem'[p].approved \/ Served(p)']_vars

\* Repeated backfills with all_stale get an administrator there: when no candidate is
\* left, nothing published blocks the switch.  Candidates and preflight are two
\* queries, with statuses, texts and rows compared in each.
StatementsActivate ==
    \A m \in Models : Candidates("statement", m, TRUE) = {} => Missing("statement", m) = {}

\* Not satisfied.  api-reference.md:1630 offers the kind "solution" for activation as well; section 4.7
\* backfills it batch by batch, and what the preflight reports as missing is coverage.
SolutionsActivate ==
    \A m \in Models :
        (\A p \in Published : Vector(p, m, problem[p].code) \in vectors)
          => Missing("solution", m) = {}

\* Activation asks for the identity the API process was started with, and Deploy and
\* Activate are requests of that process: what becomes active is what it runs, also
\* when settings are saved and processes restarted meanwhile.
ActivatesRuntime ==
    [][\A k \in Kinds : pointer'[k] # pointer[k] => pointer'[k] = runtime]_vars
=============================================================================

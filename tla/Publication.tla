---------------------------- MODULE Publication ----------------------------
(***************************************************************************)
(* The publication status of one problem: the statements that decide it    *)
(* (StoreProblem's first gate, administrator approvals, edits, the refresh *)
(* of an edited problem, a difficulty estimate) and the database triggers  *)
(* that run inside those statements.  Every action is one transaction.     *)
(*                                                                         *)
(* Two comparisons of the code are kept as sets instead of counters.       *)
(* - updated_at: an actor is in current as long as the row still has the   *)
(*   updated_at the actor read; every statement that sets it empties       *)
(*   current.                                                              *)
(* - The subject of a manual approval contains the id of the current       *)
(*   definition artifact.  A changed definition gets a fresh id, so an     *)
(*   approval that no longer matches never matches again: approved says    *)
(*   whether one matches, everApproved whether one was ever recorded.      *)
(* The same holds of the artifact's rights: an approval clears the whole   *)
(* lineage, so only the newest definition can be without them.             *)
(***************************************************************************)
EXTENDS Naturals, FiniteSets

CONSTANTS
    Humans,       \* editors and administrators, working from a page they read
    Workflows,    \* validation workflows
    Clients,      \* callers of POST /problems/:id/edit-refresh, one key each
    Origins,      \* how the problem is stored: "generated", "rejected", "imported"
    Texts,        \* what the statement embedding is computed from
    MaxAttempts   \* RetryPolicy.MaximumAttempts of the refresh activity

Refreshers == Workflows \cup Clients
Readers    == Humans \cup Workflows

ASSUME PublicationAssumption ==
    /\ Origins \subseteq {"generated", "rejected", "imported"}
    /\ MaxAttempts \in Nat \ {0}
    /\ Workflows \cap Clients = {}
    /\ Humans \cap Refreshers = {}
    /\ Texts \cap {"none", "done"} = {}

VARIABLES
    \* the problem row and what hangs on it
    status,       \* "generating", "draft", "quarantined" or "published"
    text,         \* title, statement and hint
    stale,        \* metadata stale, of the row and of its solutions and tests
    vector,       \* per text, the active model's row: "none", "fresh" or "stale"
    reviewed,     \* a problem_quarantine_records row exists
    owned,        \* the current definition's lineage allows public_release
    approved,     \* a manual approval matches the current subject
    everApproved, \* problem_manual_release_approvals has a row
    \* the refreshes, and the ledger entry each has
    pc,           \* where the refresh stands
    tries,        \* attempts of the activity
    embedText,    \* the text the attempt embeds
    completed,    \* refreshes whose operation is completed: the report is "go"
    \* StoreProblem and the import workflow
    origin,
    storing,      \* "gate", "approve", "finish" or "done"
    estimate,     \* what the difficulty estimate read: a text, or "none", "done"
    \* readers and history
    current,      \* readers whose updated_at still matches
    informed,     \* readers whose view of content and reviews is still right
    rebound       \* the definition changed outside an edit since the last gate

problem  == <<status, text, stale, vector, reviewed, owned, approved, everApproved>>
refresh  == <<pc, tries, embedText, completed>>
storage  == <<origin, storing, estimate>>
knowing  == <<current, informed>>
vars     == <<problem, refresh, storage, knowing, rebound>>

\* StoreProblem has written everything but its decision.
Init ==
    /\ origin \in Origins
    /\ status = CASE origin = "generated" -> "generating"
                  [] origin = "rejected"  -> "quarantined"
                  [] origin = "imported"  -> "draft"
    /\ text \in Texts
    /\ stale = FALSE
    /\ vector = [t \in Texts |-> IF t = text THEN "fresh" ELSE "none"]
    /\ reviewed = FALSE
    /\ owned = FALSE
    /\ approved = FALSE /\ everApproved = FALSE
    /\ pc = [w \in Refreshers |-> "idle"]
    /\ tries = [w \in Refreshers |-> 0]
    /\ embedText = [w \in Refreshers |-> text]
    /\ completed = {}
    /\ storing = IF origin = "imported" THEN "done" ELSE "gate"
    /\ estimate = "none"
    /\ current = {} /\ informed = {}
    /\ rebound = FALSE

(***************************************************************************)
(* Triggers on problems                                                    *)
(***************************************************************************)
\* invalidate_problem_manual_release_content, for an UPDATE that asks for the
\* status wanted and leaves a row an approval matches (match) or not.
StatusStored(wanted, match, ever) ==
    IF status = "published" /\ wanted \in {"published", "draft"} /\ ever /\ ~match
    THEN "quarantined" ELSE wanted

\* prevent_problem_review_quarantine_release raises an error otherwise.
StatusAdmitted(new, match) == reviewed /\ ~match => new = "quarantined"

\* update_problem_provenance: the definition changed, a new artifact of unknown
\* rights is bound and no recorded approval is about it.
Rebind ==
    /\ owned' = FALSE
    /\ approved' = FALSE
    /\ UNCHANGED everApproved

\* Mutant: a statement forgets updated_at.
TouchForgotten == UNCHANGED current

\* updated_at is set: everybody's copy of the row is outdated.
Touch == current' = {}

(***************************************************************************)
(* The gate                                                                *)
(***************************************************************************)
\* readPublicationGatePrerequisites: assets exist from StoreProblem on.
Fresh == ~stale /\ vector[text] = "fresh"

\* What the gate decides, reports and announces.
GateDecision(rights, match) ==
    IF rights /\ (match \/ Fresh) THEN "published" ELSE "quarantined"

\* applyPublicReleaseGateTx; what it stores may differ from the decision.
ApplyGate(rights, match, ever) ==
    LET stored == StatusStored(GateDecision(rights, match), match, ever)
    IN  /\ StatusAdmitted(stored, match)
        /\ status' = stored
        /\ owned' = rights /\ approved' = match /\ everApproved' = ever
        /\ rebound' = FALSE
        /\ Touch

(***************************************************************************)
(* approvePublicRelease                                                    *)
(***************************************************************************)
Reviewable == status \in {"quarantined", "published"}

\* Without the quality override; also StoreProblem's automatic approval.
AutoApprovable == Reviewable /\ Fresh /\ ~reviewed

Approve ==
    /\ AutoApprovable
    /\ ApplyGate(TRUE, approved, everApproved)
    /\ UNCHANGED <<text, stale, vector, reviewed, refresh, storage, informed>>

ManualApprove(h) ==
    /\ Reviewable
    /\ h \in current
    /\ ApplyGate(TRUE, TRUE, TRUE)
    /\ UNCHANGED <<text, stale, vector, reviewed, refresh, storage, informed>>

(***************************************************************************)
(* Reading and editing                                                     *)
(***************************************************************************)
Read(h) ==
    /\ current' = current \cup {h}
    /\ informed' = informed \cup {h}
    /\ UNCHANGED <<problem, refresh, storage, rebound>>

\* The patch changes the text (to t), another field of the approval subject, or
\* only fields outside of it (difficulty, metadata).
Patches == {"text", "listed", "unlisted"}

\* What problem_manual_release_approved says of the new row: stale is part of the
\* subject, the definition is rebound only after the row is written.
MatchesEdited(patch) == approved /\ patch = "unlisted" /\ stale

\* Mutant: an edited problem stays public.
EditedStatusKept(patch) == StatusStored(status, MatchesEdited(patch), everApproved)

EditedStatus(patch) ==
    StatusStored(IF status = "published" THEN "draft" ELSE status,
                 MatchesEdited(patch), everApproved)

Edit(h, patch, t) ==
    /\ h \in current
    /\ status # "generating"
    /\ (t # text) <=> (patch = "text")
    /\ StatusAdmitted(EditedStatus(patch), MatchesEdited(patch))
    /\ status' = EditedStatus(patch)
    /\ text' = t
    /\ stale' = TRUE
    /\ vector' = [u \in Texts |-> IF vector[u] = "none" THEN "none" ELSE "stale"]
    /\ Rebind
    /\ Touch
    /\ informed' = {}
    /\ UNCHANGED <<reviewed, refresh, storage, rebound>>

(***************************************************************************)
(* RefreshEditedProblemActivity and CompleteProblemEditRefresh             *)
(***************************************************************************)
Goto(w, step) == pc' = [pc EXCEPT ![w] = step]

\* The workflow fetches the problem and validates what it fetched.
Fetch(w) ==
    /\ w \in Workflows
    /\ pc[w] = "idle" /\ stale
    /\ Goto(w, "check")
    /\ current' = current \cup {w}
    /\ informed' = informed \cup {w}
    /\ UNCHANGED <<problem, tries, embedText, completed, storage, rebound>>

Check(w) ==
    /\ pc[w] = "check"
    /\ IF w \in current
       THEN Goto(w, "store") /\ embedText' = [embedText EXCEPT ![w] = text]
       ELSE Goto(w, "conflict") /\ UNCHANGED embedText
    /\ UNCHANGED <<problem, tries, completed, storage, knowing, rebound>>

\* UpdateEmbeddingForVersion: a row that exists gets the embedding and keeps its
\* metadata.
StoreVector(w) ==
    /\ pc[w] = "store"
    /\ vector' = [vector EXCEPT ![embedText[w]] = IF @ = "none" THEN "fresh" ELSE @]
    /\ Goto(w, "begin")
    /\ UNCHANGED <<status, text, stale, reviewed, owned, approved, everApproved,
                   tries, embedText, completed, storage, knowing, rebound>>

Request(c) ==
    /\ c \in Clients
    /\ pc[c] = "idle"
    /\ Goto(c, "begin")
    /\ UNCHANGED <<problem, tries, embedText, completed, storage, knowing, rebound>>

\* ledger.Begin
Begin(w) ==
    /\ pc[w] = "begin"
    /\ Goto(w, IF w \in completed THEN "go" ELSE "clear")
    /\ UNCHANGED <<problem, tries, embedText, completed, storage, knowing, rebound>>

PreflightPassed == vector[text] = "fresh"

ClearBlocked(w) ==
    /\ pc[w] = "clear"
    /\ ~PreflightPassed
    /\ Goto(w, "blocked")
    /\ UNCHANGED <<problem, tries, embedText, completed, storage, knowing, rebound>>

\* Mutant: the triggers on solutions and testcases are missing.
StatusKept == status

\* invalidate_problem_manual_release_artifacts: the rows of solutions and tests
\* changed, which withdraws a published problem that was ever approved manually.
StatusAfterArtifacts ==
    IF status = "published" /\ everApproved THEN "quarantined" ELSE status

\* The first transaction.  The markers go and the receipt goes into the metadata,
\* so the definition is rebound.
ClearStale(w) ==
    /\ pc[w] = "clear"
    /\ PreflightPassed
    /\ stale' = FALSE
    /\ status' = StatusAfterArtifacts
    /\ Rebind
    /\ rebound' = TRUE
    /\ Touch
    /\ Goto(w, "gate")
    /\ UNCHANGED <<text, vector, reviewed, tries, embedText, completed, storage, informed>>

\* The second transaction.
RefreshGate(w) ==
    /\ pc[w] = "gate"
    /\ ApplyGate(owned, approved, everApproved)
    /\ Goto(w, IF GateDecision(owned, approved) = "published" THEN "finish" ELSE "no_go")
    /\ UNCHANGED <<text, stale, vector, reviewed, tries, embedText, completed, storage,
                   informed>>

\* ledger.Complete
Finish(w) ==
    /\ pc[w] = "finish"
    /\ completed' = completed \cup {w}
    /\ Goto(w, "go")
    /\ UNCHANGED <<problem, tries, embedText, storage, knowing, rebound>>

\* An error, a crash or a timeout ends the attempt, or loses the report the activity
\* would have returned.  ledger.Fail changes nothing Begin looks at.
Interrupt(w) ==
    /\ \/ pc[w] \in {"check", "store", "begin", "clear", "gate", "finish"}
       \/ pc[w] \in {"go", "no_go", "blocked"} /\ w \in Workflows
    /\ Goto(w, "failed")
    /\ UNCHANGED <<problem, tries, embedText, completed, storage, knowing, rebound>>

AttemptsLeft(w) == w \in Workflows /\ tries[w] + 1 < MaxAttempts

Retry(w) ==
    /\ pc[w] \in {"failed", "conflict"}
    /\ AttemptsLeft(w)
    /\ tries' = [tries EXCEPT ![w] = @ + 1]
    /\ Goto(w, "check")
    /\ UNCHANGED <<problem, embedText, completed, storage, knowing, rebound>>

\* A new validation run has a receipt, and so a key, of its own; a client calls
\* again under the same key.
Again(w) ==
    /\ \/ pc[w] \in {"go", "no_go", "blocked"}
       \/ pc[w] \in {"failed", "conflict"} /\ ~AttemptsLeft(w)
    /\ Goto(w, "idle")
    /\ tries' = [tries EXCEPT ![w] = 0]
    /\ completed' = IF w \in Workflows THEN completed \ {w} ELSE completed
    /\ UNCHANGED <<problem, embedText, storage, knowing, rebound>>

(***************************************************************************)
(* StoreProblem's decision, the import workflow's estimate, the backfill   *)
(***************************************************************************)
StoreGate ==
    /\ storing = "gate" /\ origin = "generated"
    /\ ApplyGate(owned, approved, everApproved)
    /\ storing' = IF ~owned /\ (approved \/ Fresh) THEN "approve" ELSE "finish"
    /\ UNCHANGED <<text, stale, vector, reviewed, refresh, origin, estimate, informed>>

\* Only if the setting is on; an error is logged and passed over.
StoreApprove ==
    /\ storing = "approve"
    /\ AutoApprovable
    /\ ApplyGate(TRUE, approved, everApproved)
    /\ storing' = "finish"
    /\ UNCHANGED <<text, stale, vector, reviewed, refresh, origin, estimate, informed>>

StoreSkip ==
    /\ storing = "approve"
    /\ storing' = "finish"
    /\ UNCHANGED <<problem, refresh, origin, estimate, knowing, rebound>>

\* ApplyReviewQuarantine: the record is written once, the status every time.
StoreReviewQuarantine ==
    /\ storing = "gate" /\ origin = "rejected"
    /\ reviewed' = TRUE
    /\ approved' = (approved /\ reviewed)
    /\ informed' = IF reviewed THEN informed ELSE {}
    /\ status' = "quarantined"
    /\ Touch
    /\ storing' = "finish"
    /\ UNCHANGED <<text, stale, vector, owned, everApproved, refresh, origin, estimate,
                   rebound>>

\* The activity is redelivered until its operation is completed.
StoreRedelivered ==
    /\ storing \in {"approve", "finish"}
    /\ storing' = "gate"
    /\ UNCHANGED <<problem, refresh, origin, estimate, knowing, rebound>>

StoreCompleted ==
    /\ storing = "finish"
    /\ storing' = "done"
    /\ UNCHANGED <<problem, refresh, origin, estimate, knowing, rebound>>

EstimateBegun ==
    /\ origin = "imported" /\ estimate = "none"
    /\ estimate' = text
    /\ UNCHANGED <<problem, refresh, origin, storing, knowing, rebound>>

\* SetImportedDifficulty, guarded by the statement only; the trigger sees the row
\* before its definition is rebound.
SetImportedDifficulty ==
    /\ estimate \in Texts
    /\ IF text = estimate
       THEN /\ status' = StatusStored(status, approved, everApproved)
            /\ Rebind
            /\ rebound' = TRUE
            /\ Touch
            /\ informed' = {}
       ELSE UNCHANGED <<status, owned, approved, everApproved, rebound, knowing>>
    /\ estimate' = "done"
    /\ UNCHANGED <<text, stale, vector, reviewed, refresh, origin, storing>>

\* The embedding backfill writes rows that are missing.
Backfill ==
    /\ status # "quarantined"
    /\ reviewed => approved
    /\ vector[text] = "none"
    /\ vector' = [vector EXCEPT ![text] = "fresh"]
    /\ UNCHANGED <<status, text, stale, reviewed, owned, approved, everApproved,
                   refresh, storage, knowing, rebound>>

-----------------------------------------------------------------------------
Human(h) ==
    \/ Read(h) \/ ManualApprove(h)
    \/ \E patch \in Patches, t \in Texts : Edit(h, patch, t)

Refresh(w) ==
    \/ Fetch(w) \/ Check(w) \/ StoreVector(w)
    \/ Request(w) \/ Begin(w) \/ ClearBlocked(w) \/ ClearStale(w)
    \/ RefreshGate(w) \/ Finish(w)
    \/ Interrupt(w) \/ Retry(w) \/ Again(w)

Store ==
    \/ StoreGate \/ StoreApprove \/ StoreSkip \/ StoreReviewQuarantine
    \/ StoreRedelivered \/ StoreCompleted
    \/ EstimateBegun \/ SetImportedDifficulty \/ Backfill

Next ==
    \/ \E h \in Humans : Human(h)
    \/ Approve
    \/ \E w \in Refreshers : Refresh(w)
    \/ Store

Spec == Init /\ [][Next]_vars

-----------------------------------------------------------------------------
TypeOK ==
    /\ status \in {"generating", "draft", "quarantined", "published"}
    /\ text \in Texts
    /\ stale \in BOOLEAN
    /\ vector \in [Texts -> {"none", "fresh", "stale"}]
    /\ reviewed \in BOOLEAN /\ owned \in BOOLEAN
    /\ approved \in BOOLEAN /\ everApproved \in BOOLEAN
    /\ pc \in [Refreshers -> {"idle", "check", "store", "begin", "clear", "gate",
                              "finish", "go", "no_go", "blocked", "conflict", "failed"}]
    /\ tries \in [Refreshers -> 0 .. MaxAttempts - 1]
    /\ embedText \in [Refreshers -> Texts]
    /\ completed \in SUBSET Refreshers
    /\ origin \in Origins
    /\ storing \in {"gate", "approve", "finish", "done"}
    /\ estimate \in Texts \cup {"none", "done"}
    /\ current \in SUBSET Readers
    /\ informed \in SUBSET Readers
    /\ rebound \in BOOLEAN

\* A problem the automated review rejected is public only while a human approval
\* of exactly its present content, artifacts and reviews stands: no edit, refresh,
\* redelivered gate or automatic approval gets around the triggers.
ReviewedNeedsHuman == reviewed /\ status = "published" => approved

\* A published problem has what the gate asks for: rights, and freshness or a
\* standing human approval.  The exception is a definition that was rebound
\* by a refresh's first transaction or by a difficulty estimate, which write to a
\* published problem without a gate in the same transaction.
PublishedMeetsGate ==
    status = "published" /\ ~rebound => owned /\ (approved \/ Fresh)

\* Whoever holds the present updated_at has seen the present content and reviews,
\* so neither an edit nor an approval is made on something else.
RevisionIdentifiesContent == current \subseteq informed

\* What problem_validate.go says of an edited problem: it is not publishable until
\* the exact revision that was validated has been re-embedded.  So the markers are
\* cleared for content the clearing workflow validated.
ClearsWhatWasValidated ==
    [][stale /\ ~stale' =>
         \E w \in Refreshers : pc[w] = "clear" /\ (w \in Clients \/ w \in informed)]_vars

\* Not satisfied.  What api-reference.md says of a refresh after re-embedding and
\* validation: it clears the markers.  A workflow that embedded the present content is not blocked.
ReembeddedIsRefreshable == \A w \in Workflows \cap informed : pc[w] # "blocked"

\* Not satisfied.  What refresh_problem_edit.go says of the activity: it is safe to retry, the
\* ledger answers for what was completed.
CompletedRefreshRetries == \A w \in completed : pc[w] # "conflict"

\* Not satisfied.  What the trigger's message in migration 036 says: a problem with an
\* automated-review quarantine leaves it only under a current human approval.
ReviewedStaysQuarantined == reviewed /\ status # "quarantined" => approved
=============================================================================

------------------------- MODULE PublicationProofs -------------------------
(***************************************************************************)
(* The publication rules for any number of editors, workflows, clients,    *)
(* texts and attempts.                                                     *)
(***************************************************************************)
EXTENDS Publication, TLAPS

\* The records behind the flags: an approval that matches was recorded, only a
\* problem stored as rejected gets a quarantine record, only an imported one
\* gets an estimate.
Records ==
    /\ approved => everApproved
    /\ reviewed => origin = "rejected"
    /\ estimate # "none" => origin = "imported"

IInv ==
    /\ TypeOK
    /\ Records
    /\ ReviewedNeedsHuman
    /\ PublishedMeetsGate
    /\ RevisionIdentifiesContent

\* What the public may see is what the invariants are about.
Rules == ReviewedNeedsHuman /\ PublishedMeetsGate

-----------------------------------------------------------------------------
(***************************************************************************)
(* The statements that decide a status                                     *)
(***************************************************************************)
\* A gate stores a status, and publishes only what it decided to publish and the
\* triggers admitted.
LEMMA GateStores ==
    ASSUME NEW rights \in BOOLEAN, NEW match \in BOOLEAN, NEW ever \in BOOLEAN,
           ApplyGate(rights, match, ever)
    PROVE  /\ status' \in {"quarantined", "published"}
           /\ owned' \in BOOLEAN /\ approved' \in BOOLEAN /\ everApproved' \in BOOLEAN
           /\ rebound' = FALSE
           /\ current' = {}
           /\ status' = "published" => rights /\ (match \/ Fresh)
           /\ reviewed /\ status' = "published" => match
  BY DEF ApplyGate, GateDecision, StatusStored, StatusAdmitted, Touch

\* A gate on content and reviews it leaves alone establishes the rules.
LEMMA GateKeepsRules ==
    ASSUME NEW rights \in BOOLEAN, NEW match \in BOOLEAN, NEW ever \in BOOLEAN,
           ApplyGate(rights, match, ever),
           UNCHANGED <<text, stale, vector, reviewed>>
    PROVE  Rules'
  <1>1. owned' = rights /\ approved' = match
    BY DEF ApplyGate
  <1>2. Fresh' = Fresh
    BY DEF Fresh
  <1> QED BY <1>1, <1>2, GateStores DEF Rules, ReviewedNeedsHuman, PublishedMeetsGate

\* An edit never leaves a problem public, nor in a status that is none.
LEMMA EditWithdraws ==
    ASSUME TypeOK, NEW patch \in Patches
    PROVE  EditedStatus(patch) \in {"generating", "draft", "quarantined"}
  BY DEF TypeOK, EditedStatus, StatusStored

-----------------------------------------------------------------------------
(***************************************************************************)
(* Types                                                                   *)
(***************************************************************************)
LEMMA StatusInit == Init => status \in {"generating", "draft", "quarantined"}
  <1> SUFFICES ASSUME Init PROVE status \in {"generating", "draft", "quarantined"}
    OBVIOUS
  <1>1. origin \in {"generated", "rejected", "imported"}
    BY PublicationAssumption DEF Init
  <1>2. status = CASE origin = "generated" -> "generating"
                   [] origin = "rejected"  -> "quarantined"
                   [] origin = "imported"  -> "draft"
    BY DEF Init
  <1>3. CASE origin = "generated" BY <1>2, <1>3
  <1>4. CASE origin = "rejected" BY <1>2, <1>4
  <1>5. CASE origin = "imported" BY <1>2, <1>5
  <1> QED BY <1>1, <1>3, <1>4, <1>5

LEMMA TypeInit == Init => TypeOK
  <1> SUFFICES ASSUME Init PROVE TypeOK
    OBVIOUS
  <1>1. status \in {"generating", "draft", "quarantined", "published"}
    BY StatusInit
  <1>2. /\ text \in Texts /\ stale \in BOOLEAN /\ reviewed \in BOOLEAN
        /\ owned \in BOOLEAN /\ approved \in BOOLEAN /\ everApproved \in BOOLEAN
        /\ vector \in [Texts -> {"none", "fresh", "stale"}]
    BY DEF Init
  <1>3. /\ pc \in [Refreshers -> {"idle", "check", "store", "begin", "clear", "gate",
                              "finish", "go", "no_go", "blocked", "conflict", "failed"}]
        /\ tries \in [Refreshers -> 0 .. MaxAttempts - 1]
        /\ embedText \in [Refreshers -> Texts]
        /\ completed \in SUBSET Refreshers
    BY PublicationAssumption DEF Init
  <1>4. /\ origin \in Origins /\ storing \in {"gate", "approve", "finish", "done"}
        /\ estimate \in Texts \cup {"none", "done"}
    BY DEF Init
  <1>5. current \in SUBSET Readers /\ informed \in SUBSET Readers /\ rebound \in BOOLEAN
    BY DEF Init
  <1> QED BY <1>1, <1>2, <1>3, <1>4, <1>5 DEF TypeOK

LEMMA TypeOfHumans ==
    ASSUME TypeOK, NEW h \in Humans, Human(h)
    PROVE  TypeOK'
  <1> USE DEF TypeOK, storage, refresh, problem
  <1>1. CASE Read(h)
    BY <1>1 DEF Read, Readers
  <1>2. CASE ManualApprove(h)
    <2>1. ApplyGate(TRUE, TRUE, TRUE)
      BY <1>2 DEF ManualApprove
    <2>2. /\ status' \in {"quarantined", "published"} /\ rebound' \in BOOLEAN
          /\ owned' \in BOOLEAN /\ approved' \in BOOLEAN /\ everApproved' \in BOOLEAN
          /\ current' = {}
      BY <2>1, GateStores
    <2> QED BY <1>2, <2>2 DEF ManualApprove
  <1>3. ASSUME NEW patch \in Patches, NEW t \in Texts, Edit(h, patch, t) PROVE TypeOK'
    <2>1. status' \in {"generating", "draft", "quarantined"}
      BY <1>3, EditWithdraws DEF Edit
    <2> QED BY <1>3, <2>1 DEF Edit, Rebind, Touch
  <1> QED BY <1>1, <1>2, <1>3 DEF Human

LEMMA TypeOfRefreshes ==
    ASSUME TypeOK, NEW w \in Refreshers, Refresh(w)
    PROVE  TypeOK'
  <1> USE DEF TypeOK, storage, problem, knowing, Goto
  <1>1. CASE Fetch(w)
    BY <1>1 DEF Fetch, Readers
  <1>2. CASE Check(w)
    BY <1>2 DEF Check
  <1>3. CASE StoreVector(w)
    BY <1>3 DEF StoreVector
  <1>4. CASE Request(w) \/ Begin(w) \/ ClearBlocked(w)
    BY <1>4 DEF Request, Begin, ClearBlocked
  <1>5. CASE ClearStale(w)
    BY <1>5 DEF ClearStale, StatusAfterArtifacts, Rebind, Touch
  <1>6. CASE RefreshGate(w)
    <2>1. ApplyGate(owned, approved, everApproved)
      BY <1>6 DEF RefreshGate
    <2>2. /\ status' \in {"quarantined", "published"} /\ rebound' \in BOOLEAN
          /\ owned' \in BOOLEAN /\ approved' \in BOOLEAN /\ everApproved' \in BOOLEAN
          /\ current' = {}
      BY <2>1, GateStores
    <2> QED BY <1>6, <2>2 DEF RefreshGate
  <1>7. CASE Finish(w) \/ Interrupt(w)
    BY <1>7 DEF Finish, Interrupt
  <1>8. CASE Retry(w)
    BY <1>8, PublicationAssumption DEF Retry, AttemptsLeft
  <1>9. CASE Again(w)
    BY <1>9, PublicationAssumption DEF Again
  <1> QED BY <1>1, <1>2, <1>3, <1>4, <1>5, <1>6, <1>7, <1>8, <1>9 DEF Refresh

LEMMA TypeOfStorage ==
    ASSUME TypeOK, Store \/ Approve
    PROVE  TypeOK'
  <1> USE DEF TypeOK, refresh, problem, storage, knowing
  <1> DEFINE Gated == /\ status' \in {"quarantined", "published"} /\ rebound' \in BOOLEAN
                      /\ owned' \in BOOLEAN /\ approved' \in BOOLEAN
                      /\ everApproved' \in BOOLEAN /\ current' = {}
  <1>1. CASE StoreGate
    <2>1. Gated BY <1>1, GateStores DEF StoreGate
    <2> QED BY <1>1, <2>1 DEF StoreGate
  <1>2. CASE StoreApprove
    <2>1. Gated BY <1>2, GateStores DEF StoreApprove
    <2> QED BY <1>2, <2>1 DEF StoreApprove
  <1>3. CASE Approve
    <2>1. Gated BY <1>3, GateStores DEF Approve
    <2> QED BY <1>3, <2>1 DEF Approve
  <1>4. CASE StoreReviewQuarantine
    BY <1>4 DEF StoreReviewQuarantine, Touch
  <1>5. CASE StoreSkip \/ StoreRedelivered \/ StoreCompleted \/ EstimateBegun
    BY <1>5 DEF StoreSkip, StoreRedelivered, StoreCompleted, EstimateBegun
  <1>6. CASE SetImportedDifficulty
    BY <1>6 DEF SetImportedDifficulty, StatusStored, Rebind, Touch
  <1>7. CASE Backfill
    BY <1>7 DEF Backfill
  <1> QED BY <1>1, <1>2, <1>3, <1>4, <1>5, <1>6, <1>7 DEF Store

LEMMA TypeNext == TypeOK /\ [Next]_vars => TypeOK'
  <1> SUFFICES ASSUME TypeOK, [Next]_vars PROVE TypeOK'
    OBVIOUS
  <1>1. CASE UNCHANGED vars
    BY <1>1 DEF TypeOK, vars, problem, refresh, storage, knowing
  <1> QED BY <1>1, TypeOfHumans, TypeOfRefreshes, TypeOfStorage DEF Next

-----------------------------------------------------------------------------
(***************************************************************************)
(* Records                                                                 *)
(***************************************************************************)
\* A gate that records no approval keeps the records.
LEMMA GateKeepsRecords ==
    ASSUME Records, NEW rights \in {owned, TRUE},
           ApplyGate(rights, approved, everApproved),
           UNCHANGED <<reviewed, origin, estimate>>
    PROVE  Records'
  <1>1. approved' = approved /\ everApproved' = everApproved
    BY DEF ApplyGate
  <1> QED BY <1>1 DEF Records

LEMMA RecordsNext ==
    ASSUME TypeOK, Records, [Next]_vars
    PROVE  Records'
  <1> USE DEF Records, problem, refresh, storage, knowing
  <1>1. ASSUME NEW h \in Humans, Human(h) PROVE Records'
    <2>1. CASE Read(h)
      BY <2>1 DEF Read
    <2>2. CASE ManualApprove(h)
      BY <2>2 DEF ManualApprove, ApplyGate
    <2>3. ASSUME NEW patch \in Patches, NEW t \in Texts, Edit(h, patch, t) PROVE Records'
      BY <2>3 DEF Edit, Rebind
    <2> QED BY <1>1, <2>1, <2>2, <2>3 DEF Human
  <1>2. ASSUME NEW w \in Refreshers, Refresh(w) PROVE Records'
    <2>1. CASE ClearStale(w)
      BY <2>1 DEF ClearStale, Rebind
    <2>2. CASE RefreshGate(w)
      BY <2>2, GateKeepsRecords DEF RefreshGate
    <2>3. CASE \/ Fetch(w) \/ Check(w) \/ StoreVector(w) \/ Request(w) \/ Begin(w)
               \/ ClearBlocked(w) \/ Finish(w) \/ Interrupt(w) \/ Retry(w) \/ Again(w)
      BY <2>3 DEF Fetch, Check, StoreVector, Request, Begin, ClearBlocked, Finish,
                  Interrupt, Retry, Again
    <2> QED BY <1>2, <2>1, <2>2, <2>3 DEF Refresh
  <1>3. CASE Store
    <2>1. CASE StoreGate \/ StoreApprove
      BY <2>1, GateKeepsRecords DEF StoreGate, StoreApprove
    <2>2. CASE StoreReviewQuarantine
      BY <2>2 DEF StoreReviewQuarantine
    <2>3. CASE EstimateBegun \/ SetImportedDifficulty
      <3>1. CASE EstimateBegun
        BY <3>1 DEF EstimateBegun
      <3>2. CASE SetImportedDifficulty
        <4>1. origin = "imported" /\ reviewed' = reviewed /\ origin' = origin
          BY <3>2, PublicationAssumption DEF SetImportedDifficulty
        <4>2. approved' => everApproved'
          BY <3>2 DEF SetImportedDifficulty, Rebind
        <4> QED BY <4>1, <4>2
      <3> QED BY <2>3, <3>1, <3>2
    <2>4. CASE StoreSkip \/ StoreRedelivered \/ StoreCompleted \/ Backfill
      BY <2>4 DEF StoreSkip, StoreRedelivered, StoreCompleted, Backfill
    <2> QED BY <1>3, <2>1, <2>2, <2>3, <2>4 DEF Store
  <1>4. CASE Approve
    BY <1>4, GateKeepsRecords DEF Approve
  <1>5. CASE UNCHANGED vars
    BY <1>5 DEF vars
  <1> QED BY <1>1, <1>2, <1>3, <1>4, <1>5 DEF Next

-----------------------------------------------------------------------------
(***************************************************************************)
(* Rules                                                                   *)
(***************************************************************************)
\* A step that leaves the problem alone keeps the rules.
LEMMA Frame ==
    ASSUME Rules, UNCHANGED <<problem, rebound>>
    PROVE  Rules'
  BY DEF Rules, ReviewedNeedsHuman, PublishedMeetsGate, Fresh, problem

\* Writing the vector of a text that has none disturbs no fresh one.
LEMMA VectorsKeepRules ==
    ASSUME TypeOK, Rules, NEW t \in Texts,
           vector' = [vector EXCEPT ![t] = IF @ = "none" THEN "fresh" ELSE @],
           UNCHANGED <<status, text, stale, reviewed, owned, approved, everApproved, rebound>>
    PROVE  Rules'
  <1>1. Fresh => Fresh'
    BY DEF Fresh, TypeOK
  <1> QED BY <1>1 DEF Rules, ReviewedNeedsHuman, PublishedMeetsGate

LEMMA RulesNext ==
    ASSUME TypeOK, Records, Rules, [Next]_vars
    PROVE  Rules'
  <1>1. ASSUME NEW h \in Humans, Human(h) PROVE Rules'
    <2>1. CASE Read(h)
      BY <2>1, Frame DEF Read
    <2>2. CASE ManualApprove(h)
      BY <2>2, GateKeepsRules DEF ManualApprove
    <2>3. ASSUME NEW patch \in Patches, NEW t \in Texts, Edit(h, patch, t) PROVE Rules'
      <3>1. status' # "published"
        BY <2>3, EditWithdraws DEF Edit
      <3> QED BY <3>1 DEF Rules, ReviewedNeedsHuman, PublishedMeetsGate
    <2> QED BY <1>1, <2>1, <2>2, <2>3 DEF Human
  <1>2. ASSUME NEW w \in Refreshers, Refresh(w) PROVE Rules'
    <2>1. CASE StoreVector(w)
      <3>1. embedText[w] \in Texts
        BY <1>2 DEF TypeOK
      <3> QED BY <2>1, <3>1, VectorsKeepRules DEF StoreVector
    <2>2. CASE ClearStale(w)
      \* The definition is rebound: a problem under review was approved, so the
      \* trigger withdraws it.
      <3>1. reviewed' = reviewed /\ rebound' = TRUE
        BY <2>2 DEF ClearStale
      <3>2. reviewed => status' # "published"
        BY <2>2 DEF ClearStale, StatusAfterArtifacts, Records, Rules, ReviewedNeedsHuman
      <3> QED BY <3>1, <3>2 DEF Rules, ReviewedNeedsHuman, PublishedMeetsGate
    <2>3. CASE RefreshGate(w)
      <3>1. owned \in BOOLEAN /\ approved \in BOOLEAN /\ everApproved \in BOOLEAN
        BY DEF TypeOK
      <3> QED BY <2>3, <3>1, GateKeepsRules DEF RefreshGate
    <2>4. CASE \/ Fetch(w) \/ Check(w) \/ Request(w) \/ Begin(w) \/ ClearBlocked(w)
               \/ Finish(w) \/ Interrupt(w) \/ Retry(w) \/ Again(w)
      BY <2>4, Frame DEF Fetch, Check, Request, Begin, ClearBlocked, Finish, Interrupt,
                         Retry, Again
    <2> QED BY <1>2, <2>1, <2>2, <2>3, <2>4 DEF Refresh
  <1>3. CASE Store
    <2>1. owned \in BOOLEAN /\ approved \in BOOLEAN /\ everApproved \in BOOLEAN
      BY DEF TypeOK
    <2>2. CASE StoreGate
      BY <2>1, <2>2, GateKeepsRules DEF StoreGate
    <2>3. CASE StoreApprove
      BY <2>1, <2>3, GateKeepsRules DEF StoreApprove
    <2>4. CASE StoreReviewQuarantine
      BY <2>4 DEF StoreReviewQuarantine, Rules, ReviewedNeedsHuman, PublishedMeetsGate
    <2>5. CASE SetImportedDifficulty
      \* An imported problem has no review; the rebound definition is excepted.
      <3>1. ~reviewed /\ reviewed' = reviewed
        BY <2>5, PublicationAssumption DEF SetImportedDifficulty, Records
      <3>2. CASE text = estimate
        BY <2>5, <3>1, <3>2 DEF SetImportedDifficulty, Rules, ReviewedNeedsHuman,
                                PublishedMeetsGate
      <3>3. CASE text # estimate
        BY <2>5, <3>3, Frame DEF SetImportedDifficulty, problem
      <3> QED BY <3>2, <3>3
    <2>6. CASE Backfill
      <3>1. text \in Texts
        BY DEF TypeOK
      <3>2. vector' = [vector EXCEPT ![text] = IF @ = "none" THEN "fresh" ELSE @]
        BY <2>6, <3>1 DEF Backfill, TypeOK
      <3> QED BY <2>6, <3>1, <3>2, VectorsKeepRules DEF Backfill
    <2>7. CASE StoreSkip \/ StoreRedelivered \/ StoreCompleted \/ EstimateBegun
      BY <2>7, Frame DEF StoreSkip, StoreRedelivered, StoreCompleted, EstimateBegun
    <2> QED BY <1>3, <2>2, <2>3, <2>4, <2>5, <2>6, <2>7 DEF Store
  <1>4. CASE Approve
    <2>1. approved \in BOOLEAN /\ everApproved \in BOOLEAN
      BY DEF TypeOK
    <2> QED BY <1>4, <2>1, GateKeepsRules DEF Approve
  <1>5. CASE UNCHANGED vars
    BY <1>5, Frame DEF vars
  <1> QED BY <1>1, <1>2, <1>3, <1>4, <1>5 DEF Next

-----------------------------------------------------------------------------
(***************************************************************************)
(* Revisions                                                               *)
(***************************************************************************)
LEMMA RevisionsNext ==
    ASSUME RevisionIdentifiesContent, [Next]_vars
    PROVE  RevisionIdentifiesContent'
  <1> USE DEF RevisionIdentifiesContent, Touch, ApplyGate, knowing
  <1>1. ASSUME NEW h \in Humans, Human(h) PROVE RevisionIdentifiesContent'
    BY <1>1 DEF Human, Read, ManualApprove, Edit
  <1>2. ASSUME NEW w \in Refreshers, Refresh(w) PROVE RevisionIdentifiesContent'
    BY <1>2 DEF Refresh, Fetch, Check, StoreVector, Request, Begin, ClearBlocked,
                ClearStale, RefreshGate, Finish, Interrupt, Retry, Again
  <1>3. CASE Store
    BY <1>3 DEF Store, StoreGate, StoreApprove, StoreSkip, StoreReviewQuarantine,
                StoreRedelivered, StoreCompleted, EstimateBegun, SetImportedDifficulty,
                Backfill
  <1>4. CASE Approve
    BY <1>4 DEF Approve
  <1>5. CASE UNCHANGED vars
    BY <1>5 DEF vars
  <1> QED BY <1>1, <1>2, <1>3, <1>4, <1>5 DEF Next

-----------------------------------------------------------------------------
(***************************************************************************)
(* Theorems                                                                *)
(***************************************************************************)
LEMMA InvInit == Init => IInv
  <1> SUFFICES ASSUME Init PROVE IInv
    OBVIOUS
  <1>1. status # "published"
    BY StatusInit
  <1>2. Records /\ RevisionIdentifiesContent
    BY DEF Init, Records, RevisionIdentifiesContent
  <1>3. ReviewedNeedsHuman /\ PublishedMeetsGate
    BY <1>1 DEF ReviewedNeedsHuman, PublishedMeetsGate
  <1> QED BY <1>2, <1>3, TypeInit DEF IInv

LEMMA InvNext == IInv /\ [Next]_vars => IInv'
  <1> SUFFICES ASSUME IInv, [Next]_vars PROVE IInv'
    OBVIOUS
  <1>1. TypeOK' BY TypeNext DEF IInv
  <1>2. Records' BY RecordsNext DEF IInv
  <1>3. Rules' BY RulesNext DEF IInv, Rules
  <1>4. RevisionIdentifiesContent' BY RevisionsNext DEF IInv
  <1> QED BY <1>1, <1>2, <1>3, <1>4 DEF IInv, Rules

LEMMA Invariance == Spec => []IInv
  BY InvInit, InvNext, PTL DEF Spec

\* Every variable keeps its type through edits, refreshes, gates and retries; a
\* refresh never uses more attempts than its retry policy has.
THEOREM TypeCorrect == Spec => []TypeOK
  <1>1. IInv => TypeOK BY DEF IInv
  <1> QED BY <1>1, Invariance, PTL

\* A problem the automated review rejected is public only under a standing human
\* approval, whatever editors, refreshes and redelivered activities do.
THEOREM ReviewedNeedsHumanHolds == Spec => []ReviewedNeedsHuman
  <1>1. IInv => ReviewedNeedsHuman BY DEF IInv
  <1> QED BY <1>1, Invariance, PTL

\* A published problem has what the gate asks for, but for a definition rebound
\* since the last gate.
THEOREM PublishedMeetsGateHolds == Spec => []PublishedMeetsGate
  <1>1. IInv => PublishedMeetsGate BY DEF IInv
  <1> QED BY <1>1, Invariance, PTL

\* The optimistic check on updated_at is sound: whoever passes it has seen the
\* present content and reviews.
THEOREM RevisionIdentifiesContentHolds == Spec => []RevisionIdentifiesContent
  <1>1. IInv => RevisionIdentifiesContent BY DEF IInv
  <1> QED BY <1>1, Invariance, PTL
=============================================================================

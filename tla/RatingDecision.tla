--------------------------- MODULE RatingDecision ---------------------------
(***************************************************************************)
(* How a problem gets its official rating and who may rely on it.  Three   *)
(* requests are made from something read before: a decision from an        *)
(* administrator's page, a calibration from the feedback it counts, an     *)
(* assembled set from a preview.  What they read, they read in pieces, one *)
(* query after the other, while editors, reviewers and other               *)
(* administrators write; what they write, they write in one transaction    *)
(* under the problem's advisory lock, which compares the pieces again.     *)
(*                                                                         *)
(* A subject hash is the text it stands for, so an edit that is taken back *)
(* restores it.  A snapshot of feedback has the revisions of its entries   *)
(* in its hash, so every change makes a new one: a counter per text.       *)
(* Decision ids are fresh: a counter.                                      *)
(***************************************************************************)
EXTENDS Naturals, FiniteSets

CONSTANTS
    Deciders,       \* those who open the rating page and decide or calibrate
    Authors,        \* those who assemble sets by official rating
    Texts,          \* subjects the problem has had or will have
    MaxRevisions,   \* bound: changes of the feedback about a text
    MaxEvidence,    \* bound: assessments and calibrations
    MaxDecisions,   \* bound: decisions that set the rating
    Blank           \* not read

People == Deciders \cup Authors
Numbers == 0 .. MaxRevisions

ASSUME DecisionAssumption ==
    /\ MaxRevisions \in Nat /\ MaxEvidence \in Nat /\ MaxDecisions \in Nat
    /\ Texts # {} /\ Blank \notin Texts

VARIABLES
    text,       \* the problem's subject now
    feedback,   \* the snapshot of the feedback about each text
    evidence,   \* completed assessments and calibrations
    official,   \* rating_official: the decision and its subject
    step,       \* of each request: the next step, or how it was answered
    page,       \* what it has read
    known       \* the pieces it has read that nobody has written since

decisionVars == <<text, feedback, evidence, official, step, page, known>>

Kinds == {"assessment", "calibration"}
Evidence == [by : Kinds, text : Texts, feedback : Numbers]
NoPage == [text |-> Blank, feedback |-> 0, decision |-> 0, evidence |-> Blank]

Ready == {"idle", "accepted", "conflict"}

DecisionInit ==
    /\ text = CHOOSE t \in Texts : TRUE
    /\ feedback = [t \in Texts |-> 0]
    /\ evidence = {}
    /\ official = [decision |-> 0, text |-> Blank]
    /\ step = [p \in People |-> "idle"]
    /\ page = [p \in People |-> NoPage]
    /\ known = [p \in People |-> {}]

Turn(p, s) == step' = [step EXCEPT ![p] = s]

Forget(p) == page' = [page EXCEPT ![p] = NoPage] /\ known' = [known EXCEPT ![p] = {}]

Knows(p, piece) == known' = [known EXCEPT ![p] = @ \cup {piece}]

(***************************************************************************)
(* Edits, assessments and feedback                                         *)
(***************************************************************************)
Edit(t) ==
    /\ t # text
    /\ text' = t
    /\ known' = [p \in People |-> known[p] \ {"subject"}]
    /\ UNCHANGED <<feedback, evidence, official, step, page>>

\* A row of evidence; nothing changes it any more.
Record(e) == Cardinality(evidence \cup {e}) <= MaxEvidence /\ evidence' = evidence \cup {e}

\* An assessment ends completed, perhaps after its text was replaced.
Assess(t) ==
    /\ Record([by |-> "assessment", text |-> t, feedback |-> 0])
    /\ UNCHANGED <<text, feedback, official, step, page, known>>

\* SubmitFeedback, with something new; the invitation may be for an earlier text.
SubmitFeedback(t) ==
    /\ feedback[t] < MaxRevisions
    /\ feedback' = [feedback EXCEPT ![t] = @ + 1]
    /\ known' = [p \in People |->
                    IF page[p].text = t THEN known[p] \ {"feedback"} ELSE known[p]]
    /\ UNCHANGED <<text, evidence, official, step, page>>

(***************************************************************************)
(* The administrator's page: Workspace; the first reads of HandleCalibrate *)
(***************************************************************************)
\* CaptureSubject
OpenPage(d, next) ==
    /\ step[d] \in Ready
    /\ Turn(d, next)
    /\ page' = [page EXCEPT ![d] = [NoPage EXCEPT !.text = text]]
    /\ known' = [known EXCEPT ![d] = {"subject"}]
    /\ UNCHANGED <<text, feedback, evidence, official>>

\* Mutant: the page hides an official rating of an earlier text.
ShownDecisionFresh(d) == IF official.text = page[d].text THEN official.decision ELSE 0

\* An official rating of an earlier text is shown, marked as stale.
ShownDecision(d) == official.decision

ReadOfficial(d) ==
    /\ step[d] = "official"
    /\ page' = [page EXCEPT ![d].decision = ShownDecision(d)]
    /\ Knows(d, "decision")
    /\ Turn(d, "feedback")
    /\ UNCHANGED <<text, feedback, evidence, official>>

ReadFeedback(d) ==
    /\ step[d] \in {"feedback", "collect"}
    /\ page' = [page EXCEPT ![d].feedback = feedback[page[d].text]]
    /\ Knows(d, "feedback")
    /\ Turn(d, IF step[d] = "collect" THEN "save" ELSE "choose")
    /\ UNCHANGED <<text, feedback, evidence, official>>

\* The administrator names an assessment or a calibration.
Choose(d, e) ==
    /\ step[d] = "choose"
    /\ page' = [page EXCEPT ![d].evidence = e]
    /\ Turn(d, "decide")
    /\ UNCHANGED <<text, feedback, evidence, official, known>>

(***************************************************************************)
(* SaveCalibration and Decide                                              *)
(***************************************************************************)
ReadNow(d) == page[d].text = text /\ page[d].feedback = feedback[text]

SaveCalibration(d) ==
    /\ step[d] = "save" /\ ReadNow(d)
    /\ Record([by |-> "calibration", text |-> text, feedback |-> feedback[text]])
    /\ Turn(d, "accepted") /\ Forget(d)
    /\ UNCHANGED <<text, feedback, official>>

\* An assessment of the present text, or a calibration that counts all the
\* feedback about it.
Supports(e) == e.text = text /\ (e.by = "calibration" => e.feedback = feedback[text])

Agrees(d) ==
    /\ ReadNow(d)
    /\ Supports(page[d].evidence)
    /\ page[d].decision = official.decision

\* "accept" and "modify": the decision becomes official.
Rate(d) ==
    /\ step[d] = "decide" /\ Agrees(d)
    /\ official.decision < MaxDecisions
    /\ official' = [decision |-> official.decision + 1, text |-> text]
    /\ Turn(d, "accepted")
    /\ page' = [page EXCEPT ![d] = NoPage]
    /\ known' = [p \in People |-> IF p = d THEN {} ELSE known[p] \ {"decision"}]
    /\ UNCHANGED <<text, feedback, evidence>>

\* "reject" and "defer" are recorded and leave the official rating alone.
Note(d) ==
    /\ step[d] = "decide" /\ Agrees(d)
    /\ Turn(d, "accepted") /\ Forget(d)
    /\ UNCHANGED <<text, feedback, evidence, official>>

\* ErrConflict
Conflict(d) ==
    /\ \/ step[d] = "save" /\ ~ReadNow(d)
       \/ step[d] = "decide" /\ ~Agrees(d)
    /\ Turn(d, "conflict") /\ Forget(d)
    /\ UNCHANGED <<text, feedback, evidence, official>>

\* Refused for another reason (the report's validity, no proposal to accept, an
\* unreadable body), or abandoned.
Drop(p) ==
    /\ step[p] \notin {"idle"}
    /\ Turn(p, "idle") /\ Forget(p)
    /\ UNCHANGED <<text, feedback, evidence, official>>

(***************************************************************************)
(* Sets assembled by official rating: CurrentOfficial, VerifyOfficialTx    *)
(***************************************************************************)
Preview(a) ==
    /\ step[a] \in Ready
    /\ official.decision # 0
    /\ page' = [page EXCEPT ![a] = [text |-> official.text, feedback |-> 0,
                                     decision |-> official.decision, evidence |-> Blank]]
    /\ known' = [known EXCEPT ![a] = {"decision"}]
    /\ Turn(a, "subject")
    /\ UNCHANGED <<text, feedback, evidence, official>>

\* The subject is captured after the rating was read; another one hides it.
Offer(a) ==
    /\ step[a] = "subject"
    /\ IF text = page[a].text
       THEN Turn(a, "confirm") /\ Knows(a, "subject") /\ UNCHANGED page
       ELSE Turn(a, "idle") /\ Forget(a)
    /\ UNCHANGED <<text, feedback, evidence, official>>

Verified(a) ==
    /\ text = page[a].text /\ official.text = page[a].text
    /\ official.decision = page[a].decision

\* CreateAssembled; what else it compares of the problem is left out.
Confirm(a) ==
    /\ step[a] = "confirm"
    /\ Turn(a, IF Verified(a) THEN "accepted" ELSE "conflict") /\ Forget(a)
    /\ UNCHANGED <<text, feedback, evidence, official>>

(***************************************************************************)
(* Specification                                                           *)
(***************************************************************************)
Decider(d) ==
    \/ OpenPage(d, "official") \/ ReadOfficial(d)
    \/ OpenPage(d, "collect") \/ ReadFeedback(d)
    \/ \E e \in evidence : Choose(d, e)
    \/ SaveCalibration(d) \/ Rate(d) \/ Note(d) \/ Conflict(d)

Author(a) == Preview(a) \/ Offer(a) \/ Confirm(a)

DecisionNext ==
    \/ \E t \in Texts : Edit(t) \/ Assess(t) \/ SubmitFeedback(t)
    \/ \E d \in Deciders : Decider(d)
    \/ \E a \in Authors : Author(a)
    \/ \E p \in People : Drop(p)

DecisionSpec == DecisionInit /\ [][DecisionNext]_decisionVars

(***************************************************************************)
(* Properties                                                              *)
(***************************************************************************)
\* Every variable has its type.
DecisionTypeOK ==
    /\ text \in Texts
    /\ feedback \in [Texts -> Numbers]
    /\ evidence \subseteq Evidence
    /\ official \in [decision : 0 .. MaxDecisions, text : Texts \cup {Blank}]
    /\ step \in [People -> Ready \cup {"official", "feedback", "collect", "choose", "decide",
                                       "save", "subject", "confirm"}]
    /\ page \in [People -> [text : Texts \cup {Blank}, feedback : Numbers,
                            decision : 0 .. MaxDecisions, evidence : Evidence \cup {Blank}]]
    /\ known \in [People -> SUBSET {"subject", "feedback", "decision"}]

\* The pieces a request was made from, by the step that is left to do.
Relied(p) ==
    CASE step[p] = "decide"  -> {"subject", "feedback", "decision"}
      [] step[p] = "save"    -> {"subject", "feedback"}
      [] step[p] = "confirm" -> {"subject", "decision"}
      [] OTHER               -> {}

\* A decision names evidence about what its page shows.
Fits(p) ==
    step[p] = "decide" =>
        LET e == page[p].evidence
        IN  e.text = page[p].text /\ (e.by = "calibration" => e.feedback = page[p].feedback)

\* A decision, a calibration or a set is accepted only if nobody has given feedback
\* or decided since it was read, the problem is what it was, and the evidence is
\* about just that; it is refused as a conflict only if somebody wrote in between.
AnsweredTruly ==
    [][\A p \in People : step'[p] # step[p] =>
          /\ step'[p] = "accepted" =>
                page[p].text = text /\ Relied(p) \ known[p] \subseteq {"subject"} /\ Fits(p)
          /\ step'[p] = "conflict" => ~(Relied(p) \subseteq known[p]) \/ ~Fits(p)]_decisionVars
=============================================================================

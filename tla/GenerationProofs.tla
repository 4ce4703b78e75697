-------------------------- MODULE GenerationProofs --------------------------
(***************************************************************************)
(* Theorems about Generation and GenerationJob: the first part is about one *)
(* run, for any number of attempts and any set of diagnostics, the second  *)
(* about the job and its chain of runs, for any number of runs, reviewers, *)
(* repair rounds and faults.  What the first part shares with the second   *)
(* carries "Run" in its name.                                              *)
(***************************************************************************)
EXTENDS Generation, GenerationJob, SequenceTheorems, TLAPS

(***************************************************************************)
(* One run, up to its candidate                                            *)
(***************************************************************************)
After == {"finalize", "final_similarity", "manifest", "candidate"}
Judged == After \cup {"validate", "feasibility"}
Measured == Judged \cup {"brute"}
Provided == Measured \cup SolutionStages

Agreement == stage \in After => compared \in agreed
Calibration == stage \in Measured => calibrated = attempt
Distinctness == stage \in {"manifest", "candidate"} => stmt \in distinct
StaleTests == stage \in Provided => (tests.of # stmt => tests.external)
StaleMain == stage \in Measured => (main.of # attempt => main.external)
StaleBrute == stage \in Judged => (brute.of # attempt => brute.external)

\* The properties, stated for every stage at which they are already settled.
RunIInv ==
    /\ RunTypeOK
    /\ GateBeforeTests
    /\ Agreement
    /\ Calibration
    /\ Distinctness
    /\ StaleTests
    /\ StaleMain
    /\ StaleBrute

Repairs == [round : 0 .. MaxRepairs, last : Diagnostics \cup {Unset}, then : {"clean", "gate"}]

\* What the control of the two loops changes.
LoopsTyped ==
    /\ stage \in Stages
    /\ stmt \in Statements
    /\ sol \in 1 .. MaxSolutions
    /\ testTry \in 1 .. 2
    /\ calibrated \in Attempts \cup {Unset}
    /\ lastFailure \in ((SolutionStages \cup {"feasibility"}) \X Diagnostics) \cup {Unset}

\* A variable's other components.
RestTyped ==
    /\ defects \in Diagnostics \cup {Unset}
    /\ repair \in Repairs
    /\ tests \in Held(Statements)
    /\ main \in Held(Attempts)
    /\ brute \in Held(Attempts)
    /\ agreed \subseteq (Attempts \cup {Unset}) \X (Attempts \cup {Unset})
    /\ differed \subseteq (Attempts \cup {Unset}) \X (Attempts \cup {Unset})
    /\ distinct \subseteq Statements

\* The type invariant in its two halves.
LEMMA TypeSplits ==
  /\ RunTypeOK <=> LoopsTyped /\ RestTyped
  /\ RunTypeOK' <=> LoopsTyped' /\ RestTyped'
  BY DEF RunTypeOK, LoopsTyped, RestTyped, Repairs

\* A repair is in bounds when none is under way, when one begins and in its next round.
LEMMA RepairTyped ==
  /\ NoRepair \in Repairs
  /\ \A then \in {"clean", "gate"} : [round |-> 1, last |-> Unset, then |-> then] \in Repairs
  /\ \A r \in Repairs, found \in Diagnostics :
        r.round < MaxRepairs => [r EXCEPT !.round = r.round + 1, !.last = found] \in Repairs
<1>1. /\ NoRepair \in Repairs
      /\ \A then \in {"clean", "gate"} : [round |-> 1, last |-> Unset, then |-> then] \in Repairs
  BY GenerationAssumption DEF NoRepair, Repairs
<1>2. ASSUME NEW r \in Repairs, NEW found \in Diagnostics, r.round < MaxRepairs
      PROVE [r EXCEPT !.round = r.round + 1, !.last = found] \in Repairs
  <2>1. r.round + 1 \in 0 .. MaxRepairs
    BY <1>2, GenerationAssumption DEF Repairs
  <2>2. [r EXCEPT !.round = r.round + 1] \in Repairs
    BY <2>1 DEF Repairs
  <2> QED BY <2>2 DEF Repairs
<1> QED BY <1>1, <1>2

\* The rest keeps its types when only the diagnostics and the repair change.
LEMMA RestKept ==
  ASSUME RestTyped, defects' \in Diagnostics \cup {Unset}, repair' \in Repairs,
         UNCHANGED <<tests, main, brute, verdicts>>
  PROVE RestTyped'
  BY DEF RestTyped, verdicts

\* Giving up a statement keeps the types and leads to another one or to failure.
LEMMA NextStatementTyped ==
  ASSUME LoopsTyped, NextStatement
  PROVE LoopsTyped' /\ stage' \in {"statement", "failed"}
<1>1. CASE stmt < MaxStatements
  BY <1>1, GenerationAssumption DEF LoopsTyped, NextStatement, Goto, Statements, Stages
<1>2. CASE ~(stmt < MaxStatements)
  BY <1>2 DEF LoopsTyped, NextStatement, Fail, Goto, loops, Stages
<1> QED BY <1>1, <1>2

\* So does failing.
LEMMA FailTyped ==
  ASSUME LoopsTyped, Fail
  PROVE LoopsTyped' /\ stage' = "failed"
  BY DEF LoopsTyped, Fail, Goto, loops, Stages

\* A failed solution attempt leads to another one for the same statement, or
\* gives the statement up.
LEMMA NextSolutionTyped ==
  ASSUME LoopsTyped,
         NEW f \in (SolutionStages \cup {"feasibility"}) \X Diagnostics,
         NextSolution(f)
  PROVE /\ LoopsTyped'
        /\ stage' \in {"solution", "statement", "failed"}
        /\ stage' = "solution" => stmt' = stmt
<1>1. CASE sol < MaxSolutions /\ f # lastFailure
  BY <1>1, GenerationAssumption
     DEF LoopsTyped, NextSolution, Goto, Stages, SolutionStages
<1>2. CASE ~(sol < MaxSolutions /\ f # lastFailure)
  BY <1>2, NextStatementTyped DEF NextSolution
<1> QED BY <1>1, <1>2

\* Past its gate a statement gets test data or is given up.
LEMMA PassGateTyped ==
  ASSUME LoopsTyped, PassGate
  PROVE LoopsTyped' /\ stage' \in {"tests", "statement", "failed"}
<1>1. CASE Goto("tests") /\ UNCHANGED <<loops, testTry, calibrated, lastFailure>>
  BY <1>1 DEF Goto, LoopsTyped, loops, Stages
<1>2. CASE NextStatement
  BY <1>2, NextStatementTyped
<1> QED BY <1>1, <1>2 DEF PassGate

\* The second try at test data keeps the statement.
LEMMA RetryTestsTyped ==
  ASSUME LoopsTyped, RetryTests, stage = "tests"
  PROVE LoopsTyped' /\ stage' \in {"tests", "statement", "failed"}
<1>1. CASE testTry = 1
  BY <1>1 DEF RetryTests, LoopsTyped, loops
<1>2. CASE testTry # 1
  BY <1>2, NextStatementTyped DEF RetryTests
<1> QED BY <1>1, <1>2

\* A decoded result is the new one, or an old reference.
LEMMA DecodeTyped ==
  ASSUME NEW S, NEW old \in Held(S), NEW id \in S, NEW large \in BOOLEAN
  PROVE /\ Decode(old, id, large) \in Held(S)
        /\ Decode(old, id, large).of # id => Decode(old, id, large).external
  BY DEF Decode, Held

\* Between a run's start and its tests, and once it has failed, only the gate
\* of the test data is owed.
LEMMA Resting ==
  ASSUME LoopsTyped', RestTyped', GateBeforeTests',
         stage' \in {"similarity", "statement", "repair", "clean", "tests", "failed"}
  PROVE RunIInv'
  BY TypeSplits
     DEF RunIInv, RunTypeOK, LoopsTyped, RestTyped, Agreement, Calibration, Distinctness,
         StaleTests, StaleMain, StaleBrute, Provided, Measured, Judged, After, SolutionStages

\* The initial state satisfies the invariant.
LEMMA RunInitIInv == RunInit => RunIInv
  BY GenerationAssumption
     DEF RunInit, RunIInv, RunTypeOK, Statements, Stages, NoRepair, Nothing, Held, GateBeforeTests,
         Agreement, Calibration, Distinctness, StaleTests, StaleMain, StaleBrute,
         Provided, Measured, Judged, After, SolutionStages

\* Every step that writes, repairs or cleans a statement keeps the invariant.
LEMMA StatementSteps ==
  ASSUME RunIInv,
         \/ SimilarityPasses \/ SimilarityFails
         \/ StatementFails \/ RepairFails \/ CleanFails
         \/ \E found \in Diagnostics \cup {Unset} :
               StatementGenerated(found) \/ RepairAnswers(found) \/ Cleaned(found)
  PROVE RunIInv'
<1> USE DEF RunIInv
<1>t. LoopsTyped /\ RestTyped
  BY TypeSplits
<1>1. CASE SimilarityPasses
  <2>1. LoopsTyped' /\ RestTyped'
    BY <1>1, <1>t DEF SimilarityPasses, Goto, loops, results, verdicts, LoopsTyped, RestTyped,
       Stages
  <2>2. stage' = "statement" /\ GateBeforeTests'
    BY <1>1 DEF SimilarityPasses, Goto, GateBeforeTests, SolutionStages
  <2> QED BY <2>1, <2>2, Resting
<1>2. CASE SimilarityFails
  <2>1. LoopsTyped' /\ stage' = "failed"
    BY <1>2, <1>t, FailTyped DEF SimilarityFails
  <2>2. RestTyped'
    BY <1>2, <1>t DEF SimilarityFails, verdicts, RestTyped
  <2> QED BY <2>1, <2>2, Resting DEF GateBeforeTests, SolutionStages
<1>3. CASE StatementFails \/ CleanFails
  <2>1. LoopsTyped' /\ stage' \in {"statement", "failed"}
    BY <1>3, <1>t, NextStatementTyped DEF StatementFails, CleanFails
  <2>2. RestTyped'
    BY <1>3, <1>t DEF StatementFails, CleanFails, verdicts, RestTyped
  <2> QED BY <2>1, <2>2, Resting DEF GateBeforeTests, SolutionStages
<1>4. CASE RepairFails
  <2>1. LoopsTyped' /\ stage' \in {"statement", "failed"}
    BY <1>4, <1>t, NextStatementTyped DEF RepairFails
  <2>2. RestTyped'
    BY <1>4, <1>t, RepairTyped, RestKept DEF RepairFails, RestTyped
  <2> QED BY <2>1, <2>2, Resting DEF GateBeforeTests, SolutionStages
<1>5. ASSUME NEW found \in Diagnostics \cup {Unset}, StatementGenerated(found)
      PROVE RunIInv'
  <2>1. LoopsTyped' /\ stage' \in {"clean", "repair"}
    BY <1>5, <1>t DEF StatementGenerated, Goto, BeginRepair, loops, results, LoopsTyped, Stages
  <2>2. RestTyped'
    BY <1>5, <1>t, RepairTyped, RestKept DEF StatementGenerated, BeginRepair, results, RestTyped
  <2> QED BY <2>1, <2>2, Resting DEF GateBeforeTests, SolutionStages
<1>6. ASSUME NEW found \in Diagnostics \cup {Unset}, RepairAnswers(found)
      PROVE RunIInv'
  <2>1. CASE found = Unset
    <3>1. LoopsTyped' /\ stage' \in {"clean", "tests", "statement", "failed"}
      <4>1. CASE repair.then = "gate" /\ PassGate
        BY <4>1, <1>t, PassGateTyped
      <4>2. CASE Goto("clean") /\ UNCHANGED <<loops, testTry, calibrated, lastFailure>>
        BY <4>2, <1>t DEF Goto, loops, LoopsTyped, Stages
      <4> QED BY <1>6, <2>1, <4>1, <4>2 DEF RepairAnswers
    <3>2. RestTyped'
      BY <1>6, <2>1, <1>t, RepairTyped, RestKept DEF RepairAnswers
    <3>3. GateBeforeTests'
      BY <1>6, <2>1 DEF RepairAnswers, GateBeforeTests
    <3> QED BY <3>1, <3>2, <3>3, Resting
  <2>2. CASE found # Unset /\ repair.round < MaxRepairs /\ found # repair.last
    <3>1. LoopsTyped' /\ stage' = "repair"
      BY <1>6, <2>2, <1>t DEF RepairAnswers, loops, LoopsTyped
    <3>2. RestTyped'
      <4>1. repair' = [repair EXCEPT !.round = repair.round + 1, !.last = found]
        BY <1>6, <2>2 DEF RepairAnswers
      <4>2. repair' \in Repairs
        BY <4>1, <2>2, <1>t, RepairTyped DEF RestTyped
      <4> QED BY <1>6, <4>2, <1>t, RestKept DEF RepairAnswers
    <3> QED BY <3>1, <3>2, Resting DEF GateBeforeTests, SolutionStages
  <2>3. CASE found # Unset /\ ~(repair.round < MaxRepairs /\ found # repair.last)
    <3>1. LoopsTyped' /\ stage' \in {"statement", "failed"}
      BY <1>6, <2>3, <1>t, NextStatementTyped DEF RepairAnswers
    <3>2. RestTyped'
      BY <1>6, <2>3, <1>t, RepairTyped, RestKept DEF RepairAnswers
    <3> QED BY <3>1, <3>2, Resting DEF GateBeforeTests, SolutionStages
  <2> QED BY <2>1, <2>2, <2>3
<1>7. ASSUME NEW found \in Diagnostics \cup {Unset}, Cleaned(found)
      PROVE RunIInv'
  <2>2. RestTyped'
    BY <1>7, <1>t, RepairTyped, RestKept DEF Cleaned, BeginRepair, RestTyped
  <2>3. CASE found = Unset
    <3>1. LoopsTyped' /\ stage' \in {"tests", "statement", "failed"}
      BY <1>7, <2>3, <1>t, PassGateTyped DEF Cleaned
    <3>2. GateBeforeTests'
      BY <1>7, <2>3 DEF Cleaned, GateBeforeTests
    <3> QED BY <3>1, <3>2, <2>2, Resting
  <2>4. CASE found # Unset
    <3>1. LoopsTyped' /\ stage' = "repair"
      BY <1>7, <2>4, <1>t DEF Cleaned, BeginRepair, Goto, loops, LoopsTyped, Stages
    <3> QED BY <3>1, <2>2, Resting DEF GateBeforeTests, SolutionStages
  <2> QED BY <2>3, <2>4
<1> QED BY <1>1, <1>2, <1>3, <1>4, <1>5, <1>6, <1>7

\* Every step about test data keeps the invariant.
LEMMA TestSteps ==
  ASSUME RunIInv,
         TestsFail \/ \E large \in BOOLEAN : TestsRefused(large) \/ TestsGenerated(large)
  PROVE RunIInv'
<1> USE DEF RunIInv
<1>t. LoopsTyped /\ RestTyped
  BY TypeSplits
<1>1. CASE TestsFail
  <2>1. LoopsTyped' /\ stage' \in {"tests", "statement", "failed"}
    BY <1>1, <1>t, RetryTestsTyped, NextStatementTyped DEF TestsFail
  <2>2. RestTyped' /\ defects' = defects
    BY <1>1, <1>t DEF TestsFail, verdicts, RestTyped
  <2>3. GateBeforeTests'
    BY <1>1, <2>2 DEF TestsFail, GateBeforeTests
  <2> QED BY <2>1, <2>2, <2>3, Resting
<1>2. ASSUME NEW large \in BOOLEAN, TestsRefused(large)
      PROVE RunIInv'
  <2>1. LoopsTyped' /\ stage' \in {"tests", "statement", "failed"}
    BY <1>2, <1>t, RetryTestsTyped, NextStatementTyped, FailTyped DEF TestsRefused
  <2>2. tests' \in Held(Statements)
    BY <1>2, <1>t, DecodeTyped DEF TestsRefused, LoopsTyped, RestTyped
  <2>3. RestTyped' /\ defects' = defects
    BY <1>2, <2>2, <1>t DEF TestsRefused, verdicts, RestTyped
  <2>4. GateBeforeTests'
    BY <1>2, <2>3 DEF TestsRefused, GateBeforeTests
  <2> QED BY <2>1, <2>3, <2>4, Resting
<1>3. ASSUME NEW large \in BOOLEAN, TestsGenerated(large)
      PROVE RunIInv'
  <2>1. LoopsTyped' /\ stage' = "solution" /\ stmt' = stmt
    BY <1>3, <1>t DEF TestsGenerated, Goto, loops, LoopsTyped, Stages, SolutionStages
  <2>2. tests' \in Held(Statements) /\ (tests'.of # stmt => tests'.external)
    BY <1>3, <1>t, DecodeTyped DEF TestsGenerated, LoopsTyped, RestTyped
  <2>3. RestTyped'
    BY <1>3, <2>2, <1>t DEF TestsGenerated, verdicts, RestTyped
  <2>4. GateBeforeTests'
    BY <1>3 DEF TestsGenerated, GateBeforeTests
  <2> QED
    BY <2>1, <2>2, <2>3, <2>4, TypeSplits
       DEF Agreement, Calibration, Distinctness, StaleTests, StaleMain, StaleBrute,
           Measured, Judged, After
<1> QED BY <1>1, <1>2, <1>3

\* Every step of the solution loop keeps the invariant.
LEMMA SolutionSteps ==
  ASSUME RunIInv,
         \/ SolutionAdvances \/ OutputsAgree \/ OutputsDiffer
         \/ \E large \in BOOLEAN : MainRan(large) \/ BruteRan(large)
         \/ \E d \in Diagnostics : SolutionStepFails(d) \/ Assessed(d)
  PROVE RunIInv'
<1> USE DEF RunIInv
<1>t. LoopsTyped /\ RestTyped
  BY TypeSplits
<1>a. attempt \in Attempts
  BY <1>t DEF attempt, Attempts, LoopsTyped
<1>g. ASSUME stage \in SolutionStages \cup {"feasibility"}
      PROVE defects = Unset
  BY <1>g DEF GateBeforeTests
<1>1. CASE SolutionAdvances
  <2>1. /\ stage \in SolutionStages
        /\ stage' \in {"compile", "benchmark", "main"}
        /\ UNCHANGED <<loops, defects, repair, testTry, results, lastFailure, verdicts>>
    BY <1>1 DEF SolutionAdvances, Goto, SolutionStages
  <2>2. LoopsTyped' /\ RestTyped' /\ GateBeforeTests'
    BY <2>1, <1>t, <1>g
       DEF LoopsTyped, RestTyped, GateBeforeTests, loops, results, verdicts, Stages, SolutionStages
  <2> QED
    BY <2>1, <2>2, TypeSplits
       DEF Agreement, Calibration, Distinctness, StaleTests, StaleMain, StaleBrute,
           Provided, Measured, Judged, After, loops, results
<1>2. ASSUME NEW large \in BOOLEAN, MainRan(large)
      PROVE RunIInv'
  <2>1. stage' = "brute" /\ UNCHANGED <<loops, defects, tests>> /\ calibrated' = attempt
    BY <1>2 DEF MainRan, Goto
  <2>2. main' \in Held(Attempts) /\ (main'.of # attempt => main'.external)
    BY <1>2, <1>t, <1>a, DecodeTyped DEF MainRan, RestTyped
  <2>3. LoopsTyped' /\ RestTyped' /\ GateBeforeTests'
    BY <1>2, <2>1, <2>2, <1>t, <1>a, <1>g
       DEF MainRan, LoopsTyped, RestTyped, GateBeforeTests, loops, verdicts, Stages, SolutionStages
  <2>4. StaleTests'
    BY <1>2, <2>1 DEF MainRan, StaleTests, Provided, SolutionStages, loops
  <2>5. Calibration' /\ StaleMain'
    BY <2>1, <2>2 DEF Calibration, StaleMain, attempt, loops
  <2> QED
    BY <2>1, <2>3, <2>4, <2>5, TypeSplits
       DEF Agreement, Distinctness, StaleBrute, Judged, After
<1>3. ASSUME NEW large \in BOOLEAN, BruteRan(large)
      PROVE RunIInv'
  <2>1. /\ stage = "brute" /\ stage' = "validate"
        /\ UNCHANGED <<loops, defects, tests, main, calibrated>>
    BY <1>3 DEF BruteRan, Goto
  <2>2. brute' \in Held(Attempts) /\ (brute'.of # attempt => brute'.external)
    BY <1>3, <1>t, <1>a, DecodeTyped DEF BruteRan, RestTyped
  <2>3. LoopsTyped' /\ RestTyped' /\ GateBeforeTests'
    BY <1>3, <2>1, <2>2, <1>t, <1>g
       DEF BruteRan, LoopsTyped, RestTyped, GateBeforeTests, loops, verdicts, Stages, SolutionStages
  <2>4. StaleTests' /\ StaleMain' /\ Calibration'
    BY <2>1 DEF StaleTests, StaleMain, Calibration, Provided, Measured, SolutionStages, attempt, loops
  <2>5. StaleBrute'
    BY <2>1, <2>2 DEF StaleBrute, attempt, loops
  <2> QED
    BY <2>1, <2>3, <2>4, <2>5, TypeSplits DEF Agreement, Distinctness, After
<1>4. ASSUME NEW d \in Diagnostics, SolutionStepFails(d)
      PROVE RunIInv'
  <2>1. stage \in SolutionStages /\ UNCHANGED <<defects, repair, tests, brute, verdicts>>
    BY <1>4 DEF SolutionStepFails
  <2>2. /\ LoopsTyped'
        /\ stage' \in {"solution", "statement", "failed"}
        /\ stage' = "solution" => stmt' = stmt
    <3>1. <<stage, d>> \in (SolutionStages \cup {"feasibility"}) \X Diagnostics
      BY <2>1
    <3> QED BY <1>4, <3>1, <1>t, NextSolutionTyped DEF SolutionStepFails
  <2>3. main' \in Held(Attempts)
    BY <1>4, <1>t, <1>a, DecodeTyped DEF SolutionStepFails, RestTyped
  <2>4. RestTyped' /\ GateBeforeTests'
    BY <2>1, <2>3, <1>t, <1>g DEF RestTyped, GateBeforeTests, verdicts
  <2>5. StaleTests'
    BY <2>1, <2>2 DEF StaleTests, Provided, Measured, Judged, After, SolutionStages
  <2> QED
    BY <2>2, <2>4, <2>5, TypeSplits
       DEF Agreement, Calibration, Distinctness, StaleMain, StaleBrute, Measured, Judged, After
<1>5. CASE OutputsAgree
  <2>1. /\ stage = "validate" /\ stage' = "finalize"
        /\ UNCHANGED <<loops, defects, repair, testTry, results, lastFailure, differed, distinct>>
        /\ agreed' = agreed \cup {compared}
    BY <1>5 DEF OutputsAgree, Goto
  <2>2. compared \in (Attempts \cup {Unset}) \X (Attempts \cup {Unset}) /\ compared' = compared
    BY <2>1, <1>t DEF compared, RestTyped, Held, results
  <2>3. LoopsTyped' /\ RestTyped' /\ GateBeforeTests'
    BY <2>1, <2>2, <1>t, <1>g
       DEF LoopsTyped, RestTyped, GateBeforeTests, loops, results, Stages, SolutionStages
  <2>4. Agreement'
    BY <2>1, <2>2 DEF Agreement
  <2> QED
    BY <2>1, <2>3, <2>4, TypeSplits
       DEF Calibration, Distinctness, StaleTests, StaleMain, StaleBrute,
           Provided, Measured, Judged, After, loops, results, attempt
<1>6. CASE OutputsDiffer
  <2>1. /\ stage = "validate" /\ stage' = "feasibility"
        /\ UNCHANGED <<loops, defects, repair, testTry, results, lastFailure, agreed, distinct>>
        /\ differed' = differed \cup {compared}
    BY <1>6 DEF OutputsDiffer, Goto
  <2>2. compared \in (Attempts \cup {Unset}) \X (Attempts \cup {Unset})
    BY <1>t DEF compared, RestTyped, Held
  <2>3. LoopsTyped' /\ RestTyped' /\ GateBeforeTests'
    BY <2>1, <2>2, <1>t, <1>g
       DEF LoopsTyped, RestTyped, GateBeforeTests, loops, results, Stages, SolutionStages
  <2> QED
    BY <2>1, <2>3, TypeSplits
       DEF Agreement, Calibration, Distinctness, StaleTests, StaleMain, StaleBrute,
           Provided, Measured, Judged, After, loops, results, attempt
<1>7. ASSUME NEW d \in Diagnostics, Assessed(d)
      PROVE RunIInv'
  <2>1. stage = "feasibility" /\ UNCHANGED <<defects, repair, tests, main, brute, verdicts>>
    BY <1>7 DEF Assessed
  <2>2. /\ LoopsTyped'
        /\ stage' \in {"solution", "statement", "failed"}
        /\ stage' = "solution" => stmt' = stmt
    <3>1. <<stage, d>> \in (SolutionStages \cup {"feasibility"}) \X Diagnostics
      BY <2>1
    <3> QED BY <1>7, <3>1, <1>t, NextSolutionTyped, NextStatementTyped DEF Assessed
  <2>3. RestTyped' /\ GateBeforeTests'
    BY <2>1, <1>t, <1>g DEF RestTyped, GateBeforeTests, verdicts
  <2>4. StaleTests'
    BY <2>1, <2>2 DEF StaleTests, Provided, Measured, Judged, After, SolutionStages
  <2> QED
    BY <2>2, <2>3, <2>4, TypeSplits
       DEF Agreement, Calibration, Distinctness, StaleMain, StaleBrute, Measured, Judged, After
<1> QED BY <1>1, <1>2, <1>3, <1>4, <1>5, <1>6, <1>7

\* Every step from validation to the candidate keeps the invariant.
LEMMA FinishSteps ==
  ASSUME RunIInv,
         \/ Finalized \/ FinalSimilarityPasses \/ HardReject
         \/ ManifestBuilt \/ FinishFails \/ AuthenticationFails
  PROVE RunIInv'
<1> USE DEF RunIInv
<1>t. LoopsTyped /\ RestTyped
  BY TypeSplits
<1>1. ASSUME /\ stage \in {"finalize", "final_similarity", "manifest"}
             /\ stage' \in {"final_similarity", "manifest", "candidate"}
             /\ stage' # "final_similarity" => stmt \in distinct'
             /\ distinct' \in SUBSET Statements
             /\ UNCHANGED <<loops, defects, repair, testTry, results, lastFailure, agreed,
                           differed>>
      PROVE RunIInv'
  <2>1. LoopsTyped' /\ RestTyped' /\ GateBeforeTests'
    BY <1>1, <1>t
       DEF LoopsTyped, RestTyped, GateBeforeTests, loops, results, Stages, SolutionStages
  <2> QED
    BY <1>1, <2>1, TypeSplits
       DEF Agreement, Calibration, Distinctness, StaleTests, StaleMain, StaleBrute, compared,
           Provided, Measured, Judged, After, SolutionStages, loops, results, attempt
<1>2. CASE Finalized
  BY <1>2, <1>1, <1>t DEF Finalized, Goto, verdicts, RestTyped
<1>3. CASE FinalSimilarityPasses
  BY <1>3, <1>1, <1>t DEF FinalSimilarityPasses, Goto, RestTyped, LoopsTyped
<1>4. CASE ManifestBuilt
  BY <1>4, <1>1, <1>t DEF ManifestBuilt, Goto, verdicts, RestTyped, Distinctness
<1>5. CASE HardReject
  <2>1. LoopsTyped' /\ stage' \in {"statement", "failed"}
    BY <1>5, <1>t, NextStatementTyped DEF HardReject
  <2>2. RestTyped'
    BY <1>5, <1>t DEF HardReject, verdicts, RestTyped
  <2> QED BY <2>1, <2>2, Resting DEF GateBeforeTests, SolutionStages
<1>6. CASE FinishFails \/ AuthenticationFails
  <2>1. LoopsTyped' /\ stage' = "failed"
    BY <1>6, <1>t, FailTyped DEF FinishFails, AuthenticationFails
  <2>2. RestTyped'
    BY <1>6, <1>t DEF FinishFails, AuthenticationFails, verdicts, RestTyped
  <2> QED BY <2>1, <2>2, Resting DEF GateBeforeTests, SolutionStages
<1> QED BY <1>2, <1>3, <1>4, <1>5, <1>6

\* The invariant survives every step of a run, and stuttering.
LEMMA RunNextIInv == RunIInv /\ [RunNext]_runVars => RunIInv'
<1> SUFFICES ASSUME RunIInv, [RunNext]_runVars PROVE RunIInv'
  OBVIOUS
<1>1. CASE UNCHANGED runVars
  BY <1>1 DEF runVars, loops, results, verdicts, RunIInv, RunTypeOK, GateBeforeTests, Agreement,
     Calibration, Distinctness, StaleTests, StaleMain, StaleBrute, compared, attempt
<1>2. CASE RunNext
  BY <1>2, StatementSteps, TestSteps, SolutionSteps, FinishSteps DEF RunNext
<1> QED BY <1>1, <1>2

\* At a candidate the invariant says what the properties say.
LEMMA RunIInvProperties == RunIInv => CandidateEarned /\ StaleOnlyByReference
  BY DEF RunIInv, CandidateEarned, StaleOnlyByReference, Agreement, Calibration, Distinctness,
     StaleTests, StaleMain, StaleBrute, Provided, Measured, Judged, After

\* Every variable keeps its type: the attempts stay within their limits.
THEOREM RunTypeCorrect == RunSpec => []RunTypeOK
<1>1. RunIInv => RunTypeOK
  BY DEF RunIInv
<1> QED BY <1>1, RunInitIInv, RunNextIInv, PTL DEF RunSpec

\* Test data and solutions are only paid for when the statement's text, as the
\* last activity left it, has passed the Markdown gate.
THEOREM GateFirst == RunSpec => []GateBeforeTests
<1>1. RunIInv => GateBeforeTests
  BY DEF RunIInv
<1> QED BY <1>1, RunInitIInv, RunNextIInv, PTL DEF RunSpec

\* A candidate's outputs were compared and agreed, its limits were measured with
\* its own solution, and its final text passed the similarity check.
THEOREM CandidatesEarned == RunSpec => []CandidateEarned
<1> QED BY RunIInvProperties, RunInitIInv, RunNextIInv, PTL DEF RunSpec

\* A candidate that carries another attempt's data carries it by reference.
THEOREM OnlyReferencesGoStale == RunSpec => []StaleOnlyByReference
<1> QED BY RunIInvProperties, RunInitIInv, RunNextIInv, PTL DEF RunSpec

(***************************************************************************)
(* The job                                                                 *)
(***************************************************************************)
Past == Closed \cup {"continued"}
Storing == working \cup began \cup stored

\* The latest run is the only one that can go on.
Chained ==
    \A r \in Runs :
        /\ r < run => phase[r] \in Past
        /\ r > run => phase[r] = "absent"

\* A run waits for a human only if one is required, and until he has decided.
Waits ==
    \A r \in Runs :
        /\ phase[r] = "waiting" => /\ requireReview /\ decision[r] = None
                                   /\ verdict[r] \in {"approved", "objected"}
        /\ phase[r] \in {"absent", "producing"} => decision[r] = None

\* What reaches the store has been decided.
Decided ==
    \A r \in Storing :
        /\ phase[r] \notin {"absent", "producing", "waiting"}
        /\ verdict[r] \in {"approved", "objected"}
        /\ requireReview => decision[r] = "approve"

\* The ledger has one entry for the job, and it is that of the run that stored.
Ledger ==
    /\ \A r \in began : op[Job] = r
    /\ stored \subseteq began
    /\ withheld \subseteq stored
    /\ \A r \in stored : r \in withheld <=> Evidence(r)

Silent == \A r \in timedOut : phase[r] = "failed" /\ inbox[r] = <<>>

\* A reviewer has no answer before he has decided on a run he saw.
Asked ==
    \A v \in Reviewers :
        /\ step[v] # "away" => saw[v] \in Runs /\ wish[v] \in Decisions
        /\ step[v] # "answered" => answer[v] = "none"

Counted == \A r \in Runs : chain[r] = input[r].rounds

IInv ==
    /\ TypeOK
    /\ Chained /\ Waits
    /\ Decided /\ Ledger /\ SuccessIsOwn
    /\ Silent /\ Asked /\ AcknowledgedTruly
    /\ Counted

Phases == Open \cup Closed \cup {"absent", "continued"}

\* The job's first run satisfies the invariant.
LEMMA InitIInv == Init => IInv
<1> SUFFICES ASSUME Init PROVE IInv
  OBVIOUS
<1>1. <<>> \in Seq(Decisions) /\ 1 \in Runs
  BY JobAssumption DEF Runs
<1>2. TypeOK
  BY <1>1, JobAssumption DEF Init, TypeOK, Open, NoRounds
<1>3. Chained /\ Waits /\ Decided /\ Ledger /\ SuccessIsOwn
  BY DEF Init, Chained, Waits, Decided, Storing, Ledger, SuccessIsOwn, Succeeded, Runs
<1>4. Silent /\ Asked /\ AcknowledgedTruly /\ Counted
  BY DEF Init, Silent, Asked, AcknowledgedTruly, Counted, NoRounds
<1> QED BY <1>2, <1>3, <1>4 DEF IInv

\* A run that goes on is the latest.
LEMMA GoesOn ==
  ASSUME IInv, NEW r \in Runs, phase[r] \in Open
  PROVE r = run
  BY DEF IInv, TypeOK, Chained, Past, Open, Closed, Succeeded, Retryable, Runs

\* The parts about the store and the reviewers do not see how a run without a
\* store changes its phase.
LEMMA StoreKept ==
  ASSUME IInv, NEW r \in Runs, r \notin Storing, decision[r] = None, phase' \in [Runs -> Phases],
         \A s \in Runs \ {r} : phase'[s] = phase[s],
         UNCHANGED <<requireReview, decision, store>>, phase'[r] \notin Succeeded,
         \A s \in Runs \ {r} : verdict'[s] = verdict[s]
  PROVE Decided' /\ Ledger' /\ SuccessIsOwn'
<1>1. UNCHANGED <<op, working, began, stored, withheld, refused, requireReview, decision>>
  BY DEF store
<1>2. Decided'
  <2> SUFFICES ASSUME NEW s \in Storing'
               PROVE /\ phase'[s] \notin {"absent", "producing", "waiting"}
                     /\ verdict'[s] \in {"approved", "objected"}
                     /\ requireReview' => decision'[s] = "approve"
    BY DEF Decided
  <2>1. s \in Storing /\ s \in Runs \ {r}
    BY <1>1 DEF Storing, IInv, TypeOK
  <2>2. /\ phase[s] \notin {"absent", "producing", "waiting"}
        /\ verdict[s] \in {"approved", "objected"}
        /\ requireReview => decision[s] = "approve"
    BY <2>1 DEF IInv, Decided
  <2> QED BY <1>1, <2>1, <2>2
<1>3. Ledger'
  BY <1>1 DEF IInv, TypeOK, Ledger, Evidence, Storing
<1>4. SuccessIsOwn'
  BY <1>1 DEF IInv, TypeOK, SuccessIsOwn
<1> QED BY <1>2, <1>3, <1>4

\* A decision, once made, stays; so what a reviewer was told stays true.
LEMMA ReviewersKept ==
  ASSUME IInv, UNCHANGED api,
         \A r \in Runs : decision[r] # None => decision'[r] = decision[r]
  PROVE Asked' /\ AcknowledgedTruly'
<1>1. UNCHANGED <<step, saw, wish, answer>>
  BY DEF api
<1>2. Asked'
  BY <1>1 DEF IInv, Asked
<1>3. ASSUME NEW v \in Reviewers, answer[v] = "ok"
      PROVE decision'[saw[v]] = wish[v]
  <2>1. step[v] = "answered"
    BY <1>3 DEF IInv, Asked
  <2>2. saw[v] \in Runs /\ wish[v] \in Decisions
    BY <2>1 DEF IInv, Asked
  <2>3. decision[saw[v]] = wish[v] /\ wish[v] # None
    BY <1>3, <2>2, JobAssumption DEF IInv, AcknowledgedTruly
  <2> QED BY <2>2, <2>3
<1>4. AcknowledgedTruly'
  BY <1>1, <1>3 DEF AcknowledgedTruly
<1> QED BY <1>2, <1>4

\* A run that has not come to its end leaves the lists of those timed out alone.
LEMMA SilentKept ==
  ASSUME IInv, NEW r \in Runs, phase[r] # "failed", timedOut' = timedOut,
         \A s \in Runs \ {r} : phase'[s] = phase[s] /\ inbox'[s] = inbox[s]
  PROVE Silent'
  BY DEF IInv, TypeOK, Silent

(***************************************************************************)
(* Up to the review                                                        *)
(***************************************************************************)
\* A run without a store that ends in a way that is no success.
LEMMA EndsPreserves ==
  ASSUME IInv, NEW r \in Runs, phase[r] = "producing", NEW e \in Retryable, Enter(r, e),
         verdict' \in [Runs -> {"none", "approved", "objected", "duplicate"}],
         \A s \in Runs \ {r} : verdict'[s] = verdict[s],
         UNCHANGED <<requireReview, run, input, chain, review, canceling, store, api, faults>>
  PROVE IInv'
<1>1. r = run
  BY GoesOn DEF Open
<1>2. /\ phase' = [phase EXCEPT ![r] = e]
      /\ UNCHANGED <<decision, inbox, expired, timedOut, op, working, began, stored, withheld,
                     refused, step, saw, wish, answer>>
  BY DEF Enter, review, store, api
<1>3. TypeOK'
  BY <1>2 DEF IInv, TypeOK, Open, Closed, Succeeded, Retryable
<1>4. Chained'
  BY <1>1, <1>2 DEF IInv, TypeOK, Chained, Past, Closed, Retryable, Succeeded, Runs
<1>5. Waits'
  BY <1>2 DEF IInv, TypeOK, Waits, Retryable
<1>6. Decided' /\ Ledger' /\ SuccessIsOwn'
  <2>1. r \notin Storing
    BY DEF IInv, Decided
  <2>2. decision[r] = None
    BY DEF IInv, Waits
  <2>3. phase' \in [Runs -> Phases] /\ phase'[r] \notin Succeeded
    BY <1>2, <1>3 DEF IInv, TypeOK, Phases, Succeeded, Retryable
  <2>4. \A s \in Runs \ {r} : phase'[s] = phase[s]
    BY <1>2 DEF IInv, TypeOK
  <2> QED BY <2>1, <2>2, <2>3, <2>4, <1>2, StoreKept
<1>7. Silent'
  BY <1>2, SilentKept DEF IInv, TypeOK
<1>8. Asked' /\ AcknowledgedTruly'
  BY <1>2, ReviewersKept
<1>9. Counted'
  BY DEF IInv, Counted
<1> QED BY <1>3, <1>4, <1>5, <1>6, <1>7, <1>8, <1>9 DEF IInv

\* A run goes on to the human or to the store, after a review that takes the
\* problem for no duplicate.
LEMMA AfterReviewPreserves ==
  ASSUME IInv, NEW r \in Runs, phase[r] = "producing", NEW v \in {"approved", "objected"},
         verdict' = [verdict EXCEPT ![r] = v], AfterReview(r),
         UNCHANGED <<requireReview, run, input, chain, review, canceling, op, began, stored,
                     withheld, refused, api, faults>>
  PROVE IInv'
<1>1. r = run /\ r \notin Storing /\ decision[r] = None
  BY GoesOn DEF Open, IInv, Decided, Waits
<1>2. UNCHANGED <<decision, inbox, expired, timedOut, step, saw, wish, answer>>
  BY DEF review, api
<1>3. \/ /\ requireReview /\ working' = working
         /\ phase' = [phase EXCEPT ![r] = "waiting"]
      \/ /\ ~requireReview /\ working' \in {working, working \cup {r}}
         /\ phase' = [phase EXCEPT ![r] = "storing"]
  BY DEF AfterReview, EnterStore, Enter
<1>4. TypeOK'
  BY <1>2, <1>3 DEF IInv, TypeOK, Open
<1>5. Chained'
  <2>1. \A s \in Runs \ {r} : phase'[s] = phase[s]
    BY <1>3 DEF IInv, TypeOK
  <2> QED BY <1>1, <2>1 DEF IInv, TypeOK, Chained, Runs
<1>6. Waits'
  BY <1>1, <1>2, <1>3 DEF IInv, TypeOK, Waits
<1>7. Decided'
  <2> SUFFICES ASSUME NEW s \in Storing'
               PROVE /\ phase'[s] \notin {"absent", "producing", "waiting"}
                     /\ verdict'[s] \in {"approved", "objected"}
                     /\ requireReview' => decision'[s] = "approve"
    BY DEF Decided
  <2>1. CASE s = r
    <3>1. working' # working
      BY <1>1, <2>1 DEF Storing
    <3>2. ~requireReview /\ phase'[r] = "storing"
      BY <1>3, <3>1 DEF IInv, TypeOK
    <3>3. verdict'[r] = v
      BY DEF IInv, TypeOK
    <3> QED BY <2>1, <3>2, <3>3
  <2>2. CASE s # r
    <3>1. s \in Storing /\ s \in Runs
      BY <1>3, <2>2 DEF Storing, IInv, TypeOK
    <3>2. phase'[s] = phase[s] /\ verdict'[s] = verdict[s]
      BY <1>3, <2>2, <3>1 DEF IInv, TypeOK
    <3> QED BY <1>2, <3>1, <3>2 DEF IInv, Decided
  <2> QED BY <2>1, <2>2
<1>8. Ledger'
  <2>1. \A s \in stored : Evidence(s)' <=> Evidence(s)
    BY <1>1 DEF Evidence, IInv, TypeOK, Storing
  <2> QED BY <2>1 DEF IInv, Ledger
<1>9. SuccessIsOwn'
  BY <1>3 DEF IInv, TypeOK, SuccessIsOwn, Succeeded
<1>10. Silent'
  <2>1. \A s \in Runs \ {r} : phase'[s] = phase[s] /\ inbox'[s] = inbox[s]
    BY <1>2, <1>3 DEF IInv, TypeOK
  <2> QED BY <1>2, <2>1, SilentKept
<1>11. Asked' /\ AcknowledgedTruly'
  BY <1>2, ReviewersKept
<1>12. Counted'
  BY DEF IInv, Counted
<1> QED BY <1>4, <1>5, <1>6, <1>7, <1>8, <1>9, <1>10, <1>11, <1>12 DEF IInv

\* A run ends and another begins with its parameters, or with those of one more
\* repair round.
LEMMA ContinuePreserves ==
  ASSUME IInv, NEW r \in Runs, r = run, phase[r] \in Retryable \cup {"producing"},
         NEW e \in Past, e \notin Succeeded, phase[r] # "producing" => e = phase[r],
         NEW p \in [rounds : 0 .. MaxRounds, feedback : Feedbacks \cup {None}],
         Continue(r, e, p, p.rounds),
         verdict' \in [Runs -> {"none", "approved", "objected", "duplicate"}],
         \A s \in Runs \ {r} : verdict'[s] = verdict[s],
         phase[r] # "producing" => verdict'[r] = verdict[r],
         UNCHANGED <<requireReview, review, canceling, store, api, faults>>
  PROVE IInv'
<1>1. /\ r + 1 \in Runs /\ run' = r + 1 /\ r \in Nat
      /\ phase' = [phase EXCEPT ![r] = e, ![r + 1] = "producing"]
      /\ input' = [input EXCEPT ![r + 1] = p]
      /\ chain' = [chain EXCEPT ![r + 1] = p.rounds]
  BY JobAssumption DEF Continue, Runs
<1>2. UNCHANGED <<decision, inbox, expired, timedOut, op, working, began, stored, withheld,
                 refused, step, saw, wish, answer>>
  BY DEF review, store, api
<1>3. phase[r + 1] = "absent" /\ r + 1 # r
  BY <1>1 DEF IInv, Chained
<1>4. decision[r + 1] = None /\ r + 1 \notin Storing
  BY <1>1, <1>3 DEF IInv, Waits, Decided
<1>5. TypeOK'
  <2>1. p.rounds \in Nat
    BY JobAssumption
  <2> QED BY <1>1, <1>2, <2>1 DEF IInv, TypeOK, Open, Past, Closed
<1>6. phase'[r] = e /\ phase'[r + 1] = "producing"
  BY <1>1, <1>3 DEF IInv, TypeOK
<1>7. \A s \in Runs \ {r, r + 1} : phase'[s] = phase[s]
  BY <1>1 DEF IInv, TypeOK
<1>8. Chained'
  <2> SUFFICES ASSUME NEW s \in Runs
               PROVE /\ s < r + 1 => phase'[s] \in Past
                     /\ s > r + 1 => phase'[s] = "absent"
    BY <1>1 DEF Chained
  <2>1. CASE s \in {r, r + 1}
    BY <2>1, <1>1, <1>6
  <2>2. CASE s \notin {r, r + 1}
    <3>1. /\ s < r => phase[s] \in Past
          /\ s > r => phase[s] = "absent"
      BY DEF IInv, Chained
    <3>2. s < r + 1 => s < r
      BY <1>1, <2>2 DEF Runs
    <3>3. s > r + 1 => s > r
      BY <1>1, <2>2 DEF Runs
    <3> QED BY <3>1, <3>2, <3>3, <1>7, <2>2
  <2> QED BY <2>1, <2>2
<1>9. e \notin {"absent", "producing", "waiting"}
  BY DEF Past, Closed, Succeeded, Retryable
<1>10. Waits'
  <2> SUFFICES ASSUME NEW s \in Runs
               PROVE /\ phase'[s] = "waiting" => /\ requireReview' /\ decision'[s] = None
                                                 /\ verdict'[s] \in {"approved", "objected"}
                     /\ phase'[s] \in {"absent", "producing"} => decision'[s] = None
    BY DEF Waits
  <2>1. CASE s = r
    BY <2>1, <1>6, <1>9
  <2>2. CASE s = r + 1
    BY <2>2, <1>2, <1>4, <1>6
  <2>3. CASE s \notin {r, r + 1}
    BY <2>3, <1>2, <1>7 DEF IInv, Waits
  <2> QED BY <2>1, <2>2, <2>3
<1>11. Decided'
  <2> SUFFICES ASSUME NEW s \in Storing
               PROVE /\ phase'[s] \notin {"absent", "producing", "waiting"}
                     /\ verdict'[s] \in {"approved", "objected"}
                     /\ requireReview => decision[s] = "approve"
    BY <1>2 DEF Decided, Storing
  <2>1. /\ s \in Runs /\ s # r + 1 /\ phase[s] \notin {"absent", "producing", "waiting"}
        /\ verdict[s] \in {"approved", "objected"}
        /\ requireReview => decision[s] = "approve"
    BY <1>4 DEF IInv, Decided, Storing, TypeOK
  <2>2. CASE s = r
    BY <2>1, <2>2, <1>6, <1>9
  <2>3. CASE s # r
    BY <2>1, <2>3, <1>7
  <2> QED BY <2>2, <2>3
<1>12. Ledger'
  <2>1. \A s \in stored : verdict'[s] = verdict[s]
    <3> SUFFICES ASSUME NEW s \in stored PROVE verdict'[s] = verdict[s]
      OBVIOUS
    <3>1. s \in Runs /\ phase[s] # "producing"
      BY DEF IInv, TypeOK, Decided, Storing
    <3> QED BY <3>1
  <2>2. \A s \in stored : Evidence(s)' <=> Evidence(s)
    BY <2>1 DEF Evidence
  <2> QED BY <1>2, <2>2 DEF IInv, Ledger
<1>13. SuccessIsOwn'
  <2> SUFFICES ASSUME NEW s \in Runs, phase'[s] \in Succeeded
               PROVE s \in stored /\ (phase'[s] = "quarantined" <=> s \in withheld)
    BY <1>2 DEF SuccessIsOwn
  <2>1. s \notin {r, r + 1}
    BY <1>6 DEF Succeeded
  <2>2. phase'[s] = phase[s]
    BY <1>7, <2>1
  <2> QED BY <2>2 DEF IInv, SuccessIsOwn
<1>14. Silent'
  <2> SUFFICES ASSUME NEW s \in timedOut PROVE phase'[s] = "failed" /\ inbox[s] = <<>>
    BY <1>2 DEF Silent
  <2>1. s \in Runs /\ phase[s] = "failed" /\ inbox[s] = <<>>
    BY DEF IInv, TypeOK, Silent
  <2>2. CASE s = r
    BY <2>1, <2>2, <1>6
  <2>3. CASE s # r
    BY <2>1, <2>3, <1>3, <1>7
  <2> QED BY <2>1, <2>2, <2>3
<1>15. Asked' /\ AcknowledgedTruly'
  BY <1>2, ReviewersKept
<1>16. Counted'
  BY <1>1 DEF IInv, TypeOK, Counted
<1> QED BY <1>5, <1>8, <1>10, <1>11, <1>12, <1>13, <1>14, <1>15, <1>16 DEF IInv

LEMMA ProductionPreserves ==
  ASSUME IInv, NEW r \in Runs, Production(r)
  PROVE IInv'
<1>1. CASE ProductionFails(r) \/ ProductionCanceled(r)
  BY <1>1, EndsPreserves DEF ProductionFails, ProductionCanceled, Retryable, IInv, TypeOK, runs
<1>2. CASE ReviewApproves(r)
  BY <1>2, AfterReviewPreserves DEF ReviewApproves
<1>3. ASSUME NEW v \in {"objected", "duplicate"}, NEW f \in Feedbacks,
             ReviewRepairs(r, v, f)
      PROVE IInv'
  <2>1. /\ phase[r] = "producing" /\ Repairable(input[r], f)
        /\ verdict' = [verdict EXCEPT ![r] = v]
        /\ Continue(r, "continued", NextInput(input[r], f), chain[r] + 1)
        /\ UNCHANGED <<requireReview, review, canceling, store, api, faults>>
    BY <1>3 DEF ReviewRepairs
  <2>2. r = run
    BY <2>1, GoesOn DEF Open
  <2>3. NextInput(input[r], f) \in [rounds : 0 .. MaxRounds, feedback : Feedbacks \cup {None}]
    BY <2>1, JobAssumption DEF NextInput, Repairable, IInv, TypeOK
  <2>4. chain[r] + 1 = NextInput(input[r], f).rounds
    BY DEF NextInput, IInv, Counted
  <2>5. verdict' \in [Runs -> {"none", "approved", "objected", "duplicate"}]
    BY <2>1 DEF IInv, TypeOK
  <2>6. \A s \in Runs \ {r} : verdict'[s] = verdict[s]
    BY <2>1 DEF IInv, TypeOK
  <2>7. "continued" \in Past /\ "continued" \notin Succeeded
    BY DEF Past, Succeeded
  <2>8. Continue(r, "continued", NextInput(input[r], f), NextInput(input[r], f).rounds)
    BY <2>1, <2>4
  <2> QED BY <2>1, <2>2, <2>3, <2>5, <2>6, <2>7, <2>8, ContinuePreserves
<1>4. ASSUME NEW v \in {"objected", "duplicate"}, NEW f \in Feedbacks,
             ReviewObjects(r, v, f)
      PROVE IInv'
  <2>1. CASE v = "duplicate"
    <3>1. /\ phase[r] = "producing" /\ Enter(r, "failed")
          /\ verdict' = [verdict EXCEPT ![r] = v]
          /\ UNCHANGED <<requireReview, run, input, chain, review, canceling, store, api, faults>>
      BY <1>4, <2>1 DEF ReviewObjects, store
    <3>2. verdict' \in [Runs -> {"none", "approved", "objected", "duplicate"}]
      BY <3>1 DEF IInv, TypeOK
    <3>3. \A s \in Runs \ {r} : verdict'[s] = verdict[s]
      BY <3>1 DEF IInv, TypeOK
    <3> QED BY <3>1, <3>2, <3>3, EndsPreserves DEF Retryable
  <2>2. CASE v = "objected"
    BY <1>4, <2>2, AfterReviewPreserves DEF ReviewObjects
  <2> QED BY <2>1, <2>2
<1> QED BY <1>1, <1>2, <1>3, <1>4 DEF Production

(***************************************************************************)
(* The wait for a human                                                    *)
(***************************************************************************)
LEMMA TimerFiresPreserves ==
  ASSUME IInv, NEW r \in Runs, TimerFires(r)
  PROVE IInv'
<1>1. /\ expired' = expired \cup {r}
      /\ UNCHANGED <<requireReview, run, phase, input, verdict, chain, decision, inbox, timedOut,
                     canceling, op, working, began, stored, withheld, refused, step, saw, wish,
                     answer, faults>>
  BY DEF TimerFires, runs, store, api
<1>2. TypeOK'
  BY <1>1 DEF IInv, TypeOK
<1>3. Chained' /\ Waits' /\ Decided' /\ SuccessIsOwn' /\ Silent' /\ Counted'
  BY <1>1 DEF IInv, Chained, Waits, Decided, Storing, SuccessIsOwn, Silent, Counted
<1>4. Ledger'
  BY <1>1 DEF IInv, Ledger, Evidence
<1>5. Asked' /\ AcknowledgedTruly'
  BY <1>1, ReviewersKept DEF api
<1> QED BY <1>2, <1>3, <1>4, <1>5 DEF IInv

LEMMA ReviewTaskPreserves ==
  ASSUME IInv, NEW r \in Runs, ReviewTask(r)
  PROVE IInv'
<1>1. /\ phase[r] = "waiting" /\ r = run /\ r \notin Storing
      /\ requireReview /\ decision[r] = None /\ verdict[r] \in {"approved", "objected"}
  BY GoesOn DEF ReviewTask, Open, IInv, Decided, Waits
<1>2. UNCHANGED <<requireReview, run, input, verdict, chain, inbox, expired, canceling, op, began,
                 stored, withheld, refused, step, saw, wish, answer, faults>>
  BY DEF ReviewTask, api
<1>3. \/ /\ inbox[r] # <<>>
         /\ decision' = [decision EXCEPT ![r] = "approve"]
         /\ phase' = [phase EXCEPT ![r] = "storing"]
         /\ working' \in {working, working \cup {r}}
         /\ timedOut' = timedOut
      \/ /\ inbox[r] # <<>>
         /\ decision' = [decision EXCEPT ![r] = "reject"]
         /\ phase' = [phase EXCEPT ![r] = "failed"]
         /\ UNCHANGED <<working, timedOut>>
      \/ /\ inbox[r] = <<>>
         /\ phase' = [phase EXCEPT ![r] = "failed"]
         /\ timedOut' = timedOut \cup {r}
         /\ UNCHANGED <<decision, working>>
  <2>1. CASE inbox[r] # <<>>
    <3>1. Head(inbox[r]) \in {"approve", "reject"}
      BY <2>1, HeadTailProperties DEF IInv, TypeOK, Decisions
    <3> QED BY <2>1, <3>1 DEF ReviewTask, Decide, EnterStore, Enter
  <2>2. CASE inbox[r] = <<>>
    BY <2>2 DEF ReviewTask, GiveUp, Enter
  <2> QED BY <2>1, <2>2
<1>4. TypeOK'
  BY <1>2, <1>3 DEF IInv, TypeOK, Open, Closed, Retryable, Decisions
<1>5. /\ \A s \in Runs \ {r} : phase'[s] = phase[s] /\ decision'[s] = decision[s]
      /\ phase'[r] \in {"storing", "failed"}
  BY <1>3 DEF IInv, TypeOK
<1>6. Chained'
  BY <1>1, <1>2, <1>5 DEF IInv, TypeOK, Chained, Runs
<1>7. Waits'
  <2> SUFFICES ASSUME NEW s \in Runs
               PROVE /\ phase'[s] = "waiting" => /\ requireReview' /\ decision'[s] = None
                                                 /\ verdict'[s] \in {"approved", "objected"}
                     /\ phase'[s] \in {"absent", "producing"} => decision'[s] = None
    BY DEF Waits
  <2>1. CASE s = r
    BY <2>1, <1>5
  <2>2. CASE s # r
    BY <2>2, <1>2, <1>5 DEF IInv, Waits
  <2> QED BY <2>1, <2>2
<1>8. Decided'
  <2> SUFFICES ASSUME NEW s \in Storing'
               PROVE /\ phase'[s] \notin {"absent", "producing", "waiting"}
                     /\ verdict'[s] \in {"approved", "objected"}
                     /\ requireReview' => decision'[s] = "approve"
    BY DEF Decided
  <2>1. CASE s = r
    <3>1. working' # working
      BY <1>1, <1>2, <2>1 DEF Storing
    <3>2. phase'[r] = "storing" /\ decision'[r] = "approve"
      BY <1>3, <3>1 DEF IInv, TypeOK
    <3> QED BY <1>1, <1>2, <2>1, <3>2
  <2>2. CASE s # r
    <3>1. s \in Storing /\ s \in Runs
      BY <1>2, <1>3, <2>2 DEF Storing, IInv, TypeOK
    <3> QED BY <1>2, <1>5, <2>2, <3>1 DEF IInv, Decided
  <2> QED BY <2>1, <2>2
<1>9. Ledger'
  BY <1>2 DEF IInv, Ledger, Evidence
<1>10. SuccessIsOwn'
  <2> SUFFICES ASSUME NEW s \in Runs, phase'[s] \in Succeeded
               PROVE s \in stored /\ (phase'[s] = "quarantined" <=> s \in withheld)
    BY <1>2 DEF SuccessIsOwn
  <2>1. s # r
    BY <1>5 DEF Succeeded
  <2> QED BY <2>1, <1>5 DEF IInv, SuccessIsOwn
<1>11. Silent'
  <2> SUFFICES ASSUME NEW s \in timedOut' PROVE phase'[s] = "failed" /\ inbox[s] = <<>>
    BY <1>2 DEF Silent
  <2>1. CASE s = r
    <3>1. r \notin timedOut
      BY <1>1 DEF IInv, Silent
    <3> QED BY <1>3, <2>1, <3>1 DEF IInv, TypeOK
  <2>2. CASE s # r
    <3>1. s \in timedOut /\ s \in Runs
      BY <1>3, <2>2 DEF IInv, TypeOK
    <3> QED BY <1>5, <2>2, <3>1 DEF IInv, Silent
  <2> QED BY <2>1, <2>2
<1>12. Asked' /\ AcknowledgedTruly'
  <2>1. \A s \in Runs : decision[s] # None => decision'[s] = decision[s]
    BY <1>1, <1>5
  <2> QED BY <1>2, <2>1, ReviewersKept DEF api
<1>13. Counted'
  BY <1>2 DEF IInv, Counted
<1> QED BY <1>4, <1>6, <1>7, <1>8, <1>9, <1>10, <1>11, <1>12, <1>13 DEF IInv

(***************************************************************************)
(* The store                                                               *)
(***************************************************************************)
\* What the store does without ending a run.
LEMMA StoreStepPreserves ==
  ASSUME IInv, UNCHANGED <<requireReview, runs, review, canceling, api, faults>>,
         working' \subseteq working, began' \subseteq working \cup began,
         stored' \subseteq began, withheld' \subseteq Runs, refused' \subseteq Runs,
         op' \in [Keys -> Runs \cup {None}], Ledger', SuccessIsOwn'
  PROVE IInv'
<1>1. UNCHANGED <<requireReview, run, phase, input, verdict, chain, decision, inbox, expired,
                 timedOut, canceling, step, saw, wish, answer, faults>>
  BY DEF runs, review, api
<1>2. TypeOK'
  BY <1>1 DEF IInv, TypeOK
<1>3. Chained' /\ Waits' /\ Silent' /\ Counted'
  BY <1>1 DEF IInv, Chained, Waits, Silent, Counted
<1>4. Decided'
  <2>1. Storing' \subseteq Storing
    BY DEF Storing
  <2> QED BY <1>1, <2>1 DEF IInv, Decided
<1>5. Asked' /\ AcknowledgedTruly'
  BY <1>1, ReviewersKept DEF api
<1> QED BY <1>2, <1>3, <1>4, <1>5 DEF IInv

\* A run whose store is over.
LEMMA StoreEndPreserves ==
  ASSUME IInv, NEW r \in Runs, phase[r] = "storing", NEW e \in Closed,
         phase' = [phase EXCEPT ![r] = e], working' \subseteq working, refused' \subseteq Runs,
         e \in Succeeded => r \in stored /\ (e = "quarantined" <=> r \in withheld),
         UNCHANGED <<requireReview, run, input, verdict, chain, review, canceling, op, began, stored,
                     withheld, api>>,
         faults' \in 0 .. MaxFaults
  PROVE IInv'
<1>1. UNCHANGED <<decision, inbox, expired, timedOut, step, saw, wish, answer>>
  BY DEF review, api
<1>2. r = run
  BY GoesOn DEF Open
<1>3. /\ phase'[r] = e
      /\ \A s \in Runs \ {r} : phase'[s] = phase[s]
  BY DEF IInv, TypeOK
<1>4. e \notin {"absent", "producing", "waiting", "storing"}
  BY DEF Closed, Succeeded, Retryable
<1>5. TypeOK'
  BY <1>1 DEF IInv, TypeOK
<1>6. Chained'
  BY <1>2, <1>3 DEF IInv, TypeOK, Chained, Runs
<1>7. Waits'
  <2> SUFFICES ASSUME NEW s \in Runs
               PROVE /\ phase'[s] = "waiting" => /\ requireReview' /\ decision'[s] = None
                                                 /\ verdict'[s] \in {"approved", "objected"}
                     /\ phase'[s] \in {"absent", "producing"} => decision'[s] = None
    BY DEF Waits
  <2>1. CASE s = r
    BY <2>1, <1>3, <1>4
  <2>2. CASE s # r
    BY <2>2, <1>1, <1>3 DEF IInv, Waits
  <2> QED BY <2>1, <2>2
<1>8. Decided'
  <2> SUFFICES ASSUME NEW s \in Storing'
               PROVE /\ phase'[s] \notin {"absent", "producing", "waiting"}
                     /\ verdict'[s] \in {"approved", "objected"}
                     /\ requireReview' => decision'[s] = "approve"
    BY DEF Decided
  <2>1. s \in Storing /\ s \in Runs
    BY DEF Storing, IInv, TypeOK
  <2>2. /\ phase[s] \notin {"absent", "producing", "waiting"}
        /\ verdict[s] \in {"approved", "objected"}
        /\ requireReview => decision[s] = "approve"
    BY <2>1 DEF IInv, Decided
  <2>3. phase'[s] \notin {"absent", "producing", "waiting"}
    BY <1>3, <1>4, <2>1, <2>2
  <2> QED BY <1>1, <2>2, <2>3
<1>9. Ledger'
  BY DEF IInv, Ledger, Evidence
<1>10. SuccessIsOwn'
  <2> SUFFICES ASSUME NEW s \in Runs, phase'[s] \in Succeeded
               PROVE s \in stored /\ (phase'[s] = "quarantined" <=> s \in withheld)
    BY DEF SuccessIsOwn
  <2>1. CASE s = r
    BY <2>1, <1>3
  <2>2. CASE s # r
    BY <2>2, <1>3 DEF IInv, SuccessIsOwn
  <2> QED BY <2>1, <2>2
<1>11. Silent'
  <2>1. phase[r] # "failed"
    OBVIOUS
  <2> QED BY <1>1, <1>3, <2>1, SilentKept
<1>12. Asked' /\ AcknowledgedTruly'
  BY <1>1, ReviewersKept
<1>13. Counted'
  BY DEF IInv, Counted
<1> QED BY <1>5, <1>6, <1>7, <1>8, <1>9, <1>10, <1>11, <1>12, <1>13 DEF IInv

LEMMA StoreActivityPreserves ==
  ASSUME IInv, NEW r \in Runs, StoreActivity(r)
  PROVE IInv'
<1>1. CASE StoreBegins(r)
  <2>1. /\ r \in working /\ op[Job] \in {None, r}
        /\ op' = [op EXCEPT ![Job] = IF @ = None THEN r ELSE @]
        /\ began' = began \cup {r}
        /\ UNCHANGED <<requireReview, runs, review, canceling, working, stored, withheld, refused,
                       api, faults>>
    BY <1>1 DEF StoreBegins, Accepts, Key
  <2>2. op' \in [Keys -> Runs \cup {None}] /\ op'[Job] = r
    BY <2>1, JobAssumption DEF IInv, TypeOK, Keys
  <2>3. \A q \in began : q = r
    <3> SUFFICES ASSUME NEW q \in began PROVE q = r
      OBVIOUS
    <3>1. op[Job] = q /\ q # None
      BY JobAssumption DEF IInv, TypeOK, Ledger
    <3> QED BY <2>1, <3>1
  <2>4. Ledger'
    <3>1. \A q \in began' : op'[Job] = q
      BY <2>1, <2>2, <2>3
    <3>2. stored' \subseteq began' /\ withheld' \subseteq stored'
      BY <2>1 DEF IInv, Ledger
    <3>3. \A q \in stored' : q \in withheld' <=> Evidence(q)'
      BY <2>1 DEF IInv, Ledger, Evidence, runs
    <3> QED BY <3>1, <3>2, <3>3 DEF Ledger
  <2>5. SuccessIsOwn'
    BY <2>1 DEF IInv, SuccessIsOwn, runs
  <2>6. stored' \subseteq began /\ withheld' \subseteq Runs /\ refused' \subseteq Runs
    BY <2>1 DEF IInv, TypeOK, Ledger
  <2>7. working' \subseteq working /\ began' \subseteq working \cup began
    BY <2>1
  <2> QED BY <2>1, <2>2, <2>4, <2>5, <2>6, <2>7, StoreStepPreserves
<1>2. CASE StoreRefused(r)
  <2>1. /\ refused' \subseteq Runs /\ working' \subseteq working
        /\ UNCHANGED <<requireReview, run, input, verdict, chain, review, canceling, op, began,
                       stored, withheld, api, faults>>
    BY <1>2 DEF StoreRefused, IInv, TypeOK
  <2>2. CASE phase[r] = "storing"
    <3>1. phase' = [phase EXCEPT ![r] = "failed"]
      BY <1>2, <2>2 DEF StoreRefused
    <3>2. "failed" \in Closed /\ "failed" \notin Succeeded /\ faults' \in 0 .. MaxFaults
      BY <2>1 DEF Closed, Retryable, Succeeded, IInv, TypeOK
    <3> QED BY <2>1, <2>2, <3>1, <3>2, StoreEndPreserves
  <2>3. CASE phase[r] # "storing"
    <3>1. phase' = phase
      BY <1>2, <2>3 DEF StoreRefused
    <3>2. Ledger' /\ SuccessIsOwn'
      BY <2>1, <3>1 DEF IInv, Ledger, Evidence, SuccessIsOwn
    <3>3. stored' \subseteq began /\ withheld' \subseteq Runs /\ began' \subseteq working \cup began
      BY <2>1 DEF IInv, TypeOK, Ledger
    <3>4. op' \in [Keys -> Runs \cup {None}] /\ UNCHANGED runs
      BY <2>1, <3>1 DEF IInv, TypeOK, runs
    <3> QED BY <2>1, <3>2, <3>3, <3>4, StoreStepPreserves
  <2> QED BY <2>2, <2>3
<1>3. CASE StoreCommits(r)
  <2>1. /\ r \in began /\ stored = {} /\ withheld = {} /\ stored' = {r}
        /\ withheld' = IF Evidence(r) THEN {r} ELSE {}
        /\ UNCHANGED <<requireReview, runs, review, canceling, op, working, began, refused, api,
                       faults>>
    BY <1>3 DEF StoreCommits, Key, IInv, Ledger
  <2>2. Ledger'
    <3>1. Evidence(r)' <=> Evidence(r)
      BY <2>1 DEF Evidence, runs
    <3> QED BY <2>1, <3>1 DEF IInv, Ledger
  <2>3. SuccessIsOwn'
    BY <2>1 DEF IInv, SuccessIsOwn, runs
  <2>4. /\ stored' \subseteq began /\ withheld' \subseteq Runs /\ refused' \subseteq Runs
        /\ op' \in [Keys -> Runs \cup {None}]
        /\ working' \subseteq working /\ began' \subseteq working \cup began
    BY <2>1 DEF IInv, TypeOK
  <2> QED BY <2>1, <2>2, <2>3, <2>4, StoreStepPreserves
<1>4. CASE StoreAnswers(r)
  <2>1. /\ r \in began /\ stored # {} /\ working' \subseteq working
        /\ UNCHANGED <<requireReview, run, input, verdict, chain, review, canceling, op, began,
                       stored, withheld, refused, api, faults>>
    BY <1>4 DEF StoreAnswers
  <2>2. r \in stored
    BY <2>1 DEF IInv, Ledger
  <2>3. CASE phase[r] = "storing"
    <3> DEFINE e == IF Evidence(r) THEN "quarantined" ELSE "completed"
    <3>1. phase' = [phase EXCEPT ![r] = e]
      BY <1>4, <2>3 DEF StoreAnswers
    <3>2. e \in Closed /\ (e = "quarantined" <=> r \in withheld)
      BY <2>2 DEF Closed, Succeeded, IInv, Ledger
    <3>3. refused' \subseteq Runs /\ faults' \in 0 .. MaxFaults
      BY <2>1 DEF IInv, TypeOK
    <3> HIDE DEF e
    <3> QED BY <2>1, <2>2, <2>3, <3>1, <3>2, <3>3, StoreEndPreserves
  <2>4. CASE phase[r] # "storing"
    <3>1. phase' = phase
      BY <1>4, <2>4 DEF StoreAnswers
    <3>2. Ledger' /\ SuccessIsOwn'
      BY <2>1, <3>1 DEF IInv, Ledger, Evidence, SuccessIsOwn
    <3>3. /\ stored' \subseteq began /\ withheld' \subseteq Runs /\ refused' \subseteq Runs
          /\ began' \subseteq working \cup began
      BY <2>1 DEF IInv, TypeOK, Ledger
    <3>4. op' \in [Keys -> Runs \cup {None}] /\ UNCHANGED runs
      BY <2>1, <3>1 DEF IInv, TypeOK, runs
    <3> QED BY <2>1, <3>2, <3>3, <3>4, StoreStepPreserves
  <2> QED BY <2>3, <2>4
<1> QED BY <1>1, <1>2, <1>3, <1>4 DEF StoreActivity

\* One more fault is within the bound.
LEMMA FaultBound == IInv /\ Fault => faults' \in 0 .. MaxFaults
  BY JobAssumption DEF Fault, IInv, TypeOK

LEMMA StoreLostPreserves ==
  ASSUME IInv, NEW r \in Runs, StoreFails(r) \/ StoreCanceled(r) \/ StoreGone(r)
  PROVE IInv'
<1>1. CASE StoreFails(r) \/ StoreCanceled(r)
  <2>1. PICK e \in Retryable : phase' = [phase EXCEPT ![r] = e]
    BY <1>1 DEF StoreFails, StoreCanceled, Enter, Retryable
  <2>2. e \in Closed /\ e \notin Succeeded
    BY DEF Closed, Retryable, Succeeded
  <2>3. faults' \in 0 .. MaxFaults
    BY <1>1, FaultBound DEF StoreFails, StoreCanceled, IInv, TypeOK
  <2>4. /\ phase[r] = "storing" /\ working' \subseteq working /\ refused' \subseteq Runs
        /\ UNCHANGED <<requireReview, run, input, verdict, chain, review, canceling, op, began,
                       stored, withheld, api>>
    BY <1>1 DEF StoreFails, StoreCanceled, store, IInv, TypeOK
  <2> QED BY <2>1, <2>2, <2>3, <2>4, StoreEndPreserves
<1>2. CASE StoreGone(r)
  <2>1. /\ UNCHANGED <<requireReview, runs, review, canceling, op, began, stored, withheld, refused,
                       api, faults>>
        /\ working' \subseteq working
    BY <1>2 DEF StoreGone
  <2>2. Ledger' /\ SuccessIsOwn'
    BY <2>1 DEF IInv, Ledger, Evidence, SuccessIsOwn, runs
  <2>3. /\ stored' \subseteq began /\ withheld' \subseteq Runs /\ refused' \subseteq Runs
        /\ began' \subseteq working \cup began /\ op' \in [Keys -> Runs \cup {None}]
    BY <2>1 DEF IInv, TypeOK, Ledger
  <2> QED BY <2>1, <2>2, <2>3, StoreStepPreserves
<1> QED BY <1>1, <1>2

(***************************************************************************)
(* The API                                                                 *)
(***************************************************************************)
\* Steps of a reviewer change nothing but what he has seen, asked and been told.
LEMMA ReviewerPreserves ==
  ASSUME IInv, NEW v \in Reviewers,
         UNCHANGED <<requireReview, runs, decision, expired, timedOut, canceling, store>>,
         inbox' \in [Runs -> Seq(Decisions)],
         \A r \in timedOut : inbox'[r] = inbox[r],
         NEW t \in {"looking", "signaling", "confirming", "answered"},
         step' = [step EXCEPT ![v] = t],
         saw' \in [Reviewers -> Runs \cup {None}], wish' \in [Reviewers -> Decisions \cup {None}],
         \A u \in Reviewers \ {v} : saw'[u] = saw[u] /\ wish'[u] = wish[u],
         saw'[v] \in Runs, wish'[v] \in Decisions,
         NEW a \in {"none", "ok", "conflict", "unknown"}, answer' = [answer EXCEPT ![v] = a],
         t # "answered" => a = "none",
         a = "ok" => decision[saw'[v]] = wish'[v],
         faults' \in 0 .. MaxFaults
  PROVE IInv'
<1>1. UNCHANGED <<run, phase, input, verdict, chain, op, working, began, stored, withheld, refused>>
  BY DEF runs, store
<1>2. TypeOK'
  BY <1>1 DEF IInv, TypeOK
<1>3. Chained' /\ Waits' /\ Decided' /\ SuccessIsOwn' /\ Counted'
  BY <1>1 DEF IInv, Chained, Waits, Decided, Storing, SuccessIsOwn, Counted
<1>4. Ledger'
  BY <1>1 DEF IInv, Ledger, Evidence
<1>5. Silent'
  BY <1>1 DEF IInv, Silent
<1>6. /\ step'[v] = t /\ answer'[v] = a
      /\ \A u \in Reviewers \ {v} : step'[u] = step[u] /\ answer'[u] = answer[u]
  BY DEF IInv, TypeOK
<1>7. Asked'
  BY <1>6 DEF IInv, Asked
<1>8. AcknowledgedTruly'
  BY <1>6 DEF IInv, AcknowledgedTruly
<1> QED BY <1>2, <1>3, <1>4, <1>5, <1>7, <1>8 DEF IInv

LEMMA LookPreserves ==
  ASSUME IInv, NEW v \in Reviewers, Look(v)
  PROVE IInv'
<1>1. PICK d \in Decisions : wish' = [wish EXCEPT ![v] = d]
  BY DEF Look
<1>2. /\ step' = [step EXCEPT ![v] = "looking"] /\ saw' = [saw EXCEPT ![v] = run]
      /\ answer' = [answer EXCEPT ![v] = "none"]
  BY DEF Look, IInv, TypeOK, Asked
<1>3. UNCHANGED <<requireReview, runs, decision, inbox, expired, timedOut, canceling, store, faults>>
  BY DEF Look, review
<1>4. /\ saw' \in [Reviewers -> Runs \cup {None}] /\ wish' \in [Reviewers -> Decisions \cup {None}]
      /\ \A u \in Reviewers \ {v} : saw'[u] = saw[u] /\ wish'[u] = wish[u]
      /\ saw'[v] \in Runs /\ wish'[v] \in Decisions
  BY <1>1, <1>2 DEF IInv, TypeOK
<1>5. inbox' \in [Runs -> Seq(Decisions)] /\ faults' \in 0 .. MaxFaults
  BY <1>3 DEF IInv, TypeOK
<1> QED BY <1>2, <1>3, <1>4, <1>5, ReviewerPreserves

\* What a reviewer saw and asked is known once he has looked.
LEMMA Seen ==
  ASSUME IInv, NEW v \in Reviewers, step[v] # "away", UNCHANGED <<saw, wish>>
  PROVE /\ saw' \in [Reviewers -> Runs \cup {None}] /\ wish' \in [Reviewers -> Decisions \cup {None}]
        /\ \A u \in Reviewers \ {v} : saw'[u] = saw[u] /\ wish'[u] = wish[u]
        /\ saw'[v] \in Runs /\ wish'[v] \in Decisions
  BY DEF IInv, TypeOK, Asked

LEMMA AnswerPreserves ==
  ASSUME IInv, NEW v \in Reviewers, step[v] # "away",
         NEW a \in {"ok", "conflict", "unknown"}, Answer(v, a),
         a = "ok" => decision[saw[v]] = wish[v],
         UNCHANGED <<requireReview, runs, review, canceling, store, saw, wish>>,
         faults' \in 0 .. MaxFaults
  PROVE IInv'
<1>1. /\ step' = [step EXCEPT ![v] = "answered"] /\ answer' = [answer EXCEPT ![v] = a]
      /\ UNCHANGED <<decision, inbox, expired, timedOut, saw, wish>>
  BY DEF Answer, review
<1>2. inbox' \in [Runs -> Seq(Decisions)]
  BY <1>1 DEF IInv, TypeOK
<1>3. /\ saw' \in [Reviewers -> Runs \cup {None}] /\ wish' \in [Reviewers -> Decisions \cup {None}]
      /\ \A u \in Reviewers \ {v} : saw'[u] = saw[u] /\ wish'[u] = wish[u]
      /\ saw'[v] \in Runs /\ wish'[v] \in Decisions
  BY <1>1, Seen
<1> QED BY <1>1, <1>2, <1>3, ReviewerPreserves

\* A reviewer goes on, without an answer.
LEMMA MovesPreserves ==
  ASSUME IInv, NEW v \in Reviewers, step[v] # "away",
         NEW t \in {"looking", "signaling", "confirming"}, step' = [step EXCEPT ![v] = t],
         answer' = [answer EXCEPT ![v] = "none"],
         UNCHANGED <<requireReview, runs, decision, expired, timedOut, canceling, store, saw, wish,
                     faults>>,
         inbox' \in [Runs -> Seq(Decisions)],
         \A r \in timedOut : inbox'[r] = inbox[r]
  PROVE IInv'
<1>1. /\ saw' \in [Reviewers -> Runs \cup {None}] /\ wish' \in [Reviewers -> Decisions \cup {None}]
      /\ \A u \in Reviewers \ {v} : saw'[u] = saw[u] /\ wish'[u] = wish[u]
      /\ saw'[v] \in Runs /\ wish'[v] \in Decisions
  BY Seen
<1>2. faults' \in 0 .. MaxFaults
  BY DEF IInv, TypeOK
<1> QED BY <1>1, <1>2, ReviewerPreserves

\* An acknowledgement is true.
LEMMA AcknowledgementTrue ==
  ASSUME NEW v \in Reviewers
  PROVE /\ Acknowledgement(v) \in {"ok", "conflict", "unknown"}
        /\ Acknowledgement(v) = "ok" => decision[saw[v]] = wish[v]
  BY DEF Acknowledgement

LEMMA ApiPreserves ==
  ASSUME IInv, NEW v \in Reviewers,
         Submit(v) \/ Signal(v) \/ Confirm(v) \/ ConfirmLost(v) \/ SubmitAgain(v)
  PROVE IInv'
<1>1. CASE Submit(v)
  <2>1. /\ step[v] = "looking" /\ answer[v] = "none"
        /\ UNCHANGED <<requireReview, runs, review, canceling, store, saw, wish, faults>>
    BY <1>1 DEF Submit, IInv, Asked
  <2>2. CASE phase[saw[v]] = "waiting" /\ saw[v] = run
    <3>1. step' = [step EXCEPT ![v] = "signaling"] /\ answer' = [answer EXCEPT ![v] = "none"]
      BY <1>1, <2>1, <2>2 DEF Submit, IInv, TypeOK
    <3>2. UNCHANGED <<decision, inbox, expired, timedOut>> /\ inbox' \in [Runs -> Seq(Decisions)]
      BY <2>1 DEF review, IInv, TypeOK
    <3> QED BY <2>1, <3>1, <3>2, MovesPreserves
  <2>3. CASE ~(phase[saw[v]] = "waiting" /\ saw[v] = run)
    <3>1. Answer(v, Acknowledgement(v)) /\ faults' \in 0 .. MaxFaults
      BY <1>1, <2>1, <2>3 DEF Submit, IInv, TypeOK
    <3> QED BY <2>1, <3>1, AcknowledgementTrue, AnswerPreserves
  <2> QED BY <2>2, <2>3
<1>2. CASE Signal(v)
  <2>1. /\ step[v] = "signaling" /\ answer[v] = "none" /\ saw[v] \in Runs /\ wish[v] \in Decisions
        /\ UNCHANGED <<requireReview, runs, decision, expired, timedOut, canceling, store, saw, wish,
                       faults>>
    BY <1>2 DEF Signal, IInv, Asked
  <2>2. CASE phase[saw[v]] \in Open
    <3>1. step' = [step EXCEPT ![v] = "confirming"] /\ answer' = [answer EXCEPT ![v] = "none"]
      BY <1>2, <2>1, <2>2 DEF Signal, IInv, TypeOK
    <3>2. inbox' = [inbox EXCEPT ![saw[v]] =
                      IF phase[saw[v]] = "waiting" THEN Append(@, wish[v]) ELSE @]
      BY <1>2, <2>2 DEF Signal
    <3>3. inbox' \in [Runs -> Seq(Decisions)]
      <4>1. Append(inbox[saw[v]], wish[v]) \in Seq(Decisions)
        BY <2>1 DEF IInv, TypeOK
      <4> QED BY <3>2, <4>1 DEF IInv, TypeOK
    <3>4. \A r \in timedOut : inbox'[r] = inbox[r]
      BY <2>1, <3>2 DEF IInv, TypeOK, Silent
    <3> QED BY <2>1, <3>1, <3>3, <3>4, MovesPreserves
  <2>3. CASE phase[saw[v]] \notin Open
    <3>1. Answer(v, "conflict") /\ UNCHANGED inbox /\ faults' \in 0 .. MaxFaults
      BY <1>2, <2>1, <2>3 DEF Signal, IInv, TypeOK
    <3> QED BY <2>1, <3>1, AnswerPreserves DEF review
  <2> QED BY <2>2, <2>3
<1>3. CASE Confirm(v)
  <2>1. /\ step[v] # "away" /\ Answer(v, Acknowledgement(v)) /\ faults' \in 0 .. MaxFaults
        /\ UNCHANGED <<requireReview, runs, review, canceling, store, saw, wish>>
    BY <1>3 DEF Confirm, IInv, TypeOK
  <2> QED BY <2>1, AcknowledgementTrue, AnswerPreserves
<1>4. CASE ConfirmLost(v)
  <2>1. /\ step[v] # "away" /\ Answer(v, "unknown") /\ Fault
        /\ UNCHANGED <<requireReview, runs, review, canceling, store, saw, wish>>
    BY <1>4 DEF ConfirmLost
  <2> QED BY <2>1, FaultBound, AnswerPreserves
<1>5. CASE SubmitAgain(v)
  <2>1. /\ step[v] # "away" /\ step' = [step EXCEPT ![v] = "looking"]
        /\ answer' = [answer EXCEPT ![v] = "none"]
        /\ UNCHANGED <<requireReview, runs, decision, inbox, expired, timedOut, canceling, store, saw,
                       wish, faults>>
    BY <1>5 DEF SubmitAgain, review
  <2>2. inbox' \in [Runs -> Seq(Decisions)]
    BY <2>1 DEF IInv, TypeOK
  <2> QED BY <2>1, <2>2, MovesPreserves
<1> QED BY <1>1, <1>2, <1>3, <1>4, <1>5

LEMMA OperatorPreserves ==
  ASSUME IInv, Cancel \/ Retry
  PROVE IInv'
<1>1. CASE Cancel
  <2>1. /\ canceling' = canceling \cup {run} /\ faults' \in 0 .. MaxFaults
        /\ UNCHANGED <<requireReview, run, phase, input, verdict, chain, decision, inbox, expired,
                       timedOut, op, working, began, stored, withheld, refused, step, saw, wish,
                       answer>>
    BY <1>1, FaultBound DEF Cancel, runs, review, store, api
  <2>2. TypeOK'
    BY <2>1 DEF IInv, TypeOK
  <2>3. Chained' /\ Waits' /\ Decided' /\ SuccessIsOwn' /\ Silent' /\ Counted'
    BY <2>1 DEF IInv, Chained, Waits, Decided, Storing, SuccessIsOwn, Silent, Counted
  <2>4. Ledger'
    BY <2>1 DEF IInv, Ledger, Evidence
  <2>5. Asked' /\ AcknowledgedTruly'
    BY <2>1, ReviewersKept DEF api
  <2> QED BY <2>2, <2>3, <2>4, <2>5 DEF IInv
<1>2. CASE Retry
  <2>1. /\ run \in Runs /\ phase[run] \in Retryable /\ chain[run] = input[run].rounds
        /\ input[run] \in [rounds : 0 .. MaxRounds, feedback : Feedbacks \cup {None}]
        /\ verdict \in [Runs -> {"none", "approved", "objected", "duplicate"}]
    BY <1>2 DEF Retry, IInv, TypeOK, Counted
  <2>2. /\ Continue(run, phase[run], input[run], input[run].rounds)
        /\ UNCHANGED <<requireReview, verdict, review, canceling, store, api, faults>>
    BY <1>2, <2>1 DEF Retry
  <2>3. phase[run] \in Past /\ phase[run] \notin Succeeded
    BY <2>1 DEF Past, Closed, Retryable, Succeeded
  <2> QED BY <2>1, <2>2, <2>3, ContinuePreserves
<1> QED BY <1>1, <1>2

(***************************************************************************)
(* The theorems                                                            *)
(***************************************************************************)
LEMMA StepPreserves == IInv /\ [Next]_vars => IInv'
<1> SUFFICES ASSUME IInv, [Next]_vars PROVE IInv'
  OBVIOUS
<1>1. ASSUME NEW r \in Runs,
             \/ Production(r) \/ TimerFires(r) \/ ReviewTask(r)
             \/ StoreActivity(r) \/ StoreFails(r) \/ StoreCanceled(r) \/ StoreGone(r)
      PROVE IInv'
  BY <1>1, ProductionPreserves, TimerFiresPreserves, ReviewTaskPreserves, StoreActivityPreserves,
     StoreLostPreserves
<1>2. CASE Cancel \/ Retry
  BY <1>2, OperatorPreserves
<1>3. ASSUME NEW v \in Reviewers,
             Look(v) \/ Submit(v) \/ Signal(v) \/ Confirm(v) \/ ConfirmLost(v) \/ SubmitAgain(v)
      PROVE IInv'
  BY <1>3, LookPreserves, ApiPreserves
<1>4. CASE UNCHANGED vars
  <2>1. UNCHANGED <<requireReview, run, phase, input, verdict, chain, decision, inbox, expired,
                   timedOut, canceling, op, working, began, stored, withheld, refused, step, saw,
                   wish, answer, faults>>
    BY <1>4 DEF vars, runs, review, store, api
  <2>2. TypeOK' /\ Asked' /\ AcknowledgedTruly'
    BY <2>1 DEF IInv, TypeOK, Asked, AcknowledgedTruly
  <2>3. Chained' /\ Waits' /\ Decided' /\ SuccessIsOwn' /\ Silent' /\ Counted'
    BY <2>1 DEF IInv, Chained, Waits, Decided, Storing, SuccessIsOwn, Silent, Counted
  <2>4. Ledger'
    BY <2>1 DEF IInv, Ledger, Evidence
  <2> QED BY <2>2, <2>3, <2>4 DEF IInv
<1> QED BY <1>1, <1>2, <1>3, <1>4 DEF Next

\* The invariant holds in every reachable state of a job.
LEMMA Invariant == Spec => []IInv
<1>1. Init => IInv
  BY InitIInv
<1>2. IInv /\ [Next]_vars => IInv'
  BY StepPreserves
<1> QED BY <1>1, <1>2, PTL DEF Spec

\* Every variable of a job keeps its type, in particular the repair rounds in the
\* parameters of a run.
THEOREM TypeCorrect == Spec => []TypeOK
<1>1. IInv => TypeOK
  BY DEF IInv
<1> QED BY <1>1, Invariant, PTL

\* However often a job is retried, repaired or cancelled under way, it leaves one
\* problem.
THEOREM StoresOnce == Spec => []JobStoresOnce
<1>1. IInv => JobStoresOnce
  BY DEF IInv, Ledger, JobStoresOnce
<1> QED BY <1>1, Invariant, PTL

\* What is in the database is what was decided about that very candidate.
THEOREM StoresAsDecided == Spec => []StoredAsDecided
<1>1. ASSUME IInv, NEW r \in stored
      PROVE /\ verdict[r] \in {"approved", "objected"}
            /\ IF requireReview THEN decision[r] = "approve"
                                ELSE verdict[r] = "approved" \/ r \in withheld
  <2>1. /\ verdict[r] \in {"approved", "objected"}
        /\ requireReview => decision[r] = "approve"
    BY <1>1 DEF IInv, Decided, Storing
  <2>2. r \in withheld <=> Evidence(r)
    BY <1>1 DEF IInv, Ledger
  <2> QED BY <2>1, <2>2 DEF Evidence
<1>2. IInv => StoredAsDecided
  BY <1>1 DEF StoredAsDecided
<1> QED BY <1>2, Invariant, PTL

\* A run that ends well has stored its own candidate and says under what.
THEOREM SuccessesOwn == Spec => []SuccessIsOwn
<1>1. IInv => SuccessIsOwn
  BY DEF IInv
<1> QED BY <1>1, Invariant, PTL

\* A reviewer who is told "ok" decided the run he saw.
THEOREM AcknowledgementsTrue == Spec => []AcknowledgedTruly
<1>1. IInv => AcknowledgedTruly
  BY DEF IInv
<1> QED BY <1>1, Invariant, PTL

\* A review that is reported as timed out got no decision.
THEOREM TimeoutsSilent == Spec => []TimeoutMeansSilence
<1>1. IInv => TimeoutMeansSilence
  BY DEF IInv, Silent, TimeoutMeansSilence
<1> QED BY <1>1, Invariant, PTL

\* Review-driven repairs are bounded over the whole chain of runs.
THEOREM RepairsAreBounded == Spec => []RepairsBounded
<1>1. IInv => RepairsBounded
  BY JobAssumption DEF IInv, TypeOK, Counted, RepairsBounded
<1> QED BY <1>1, Invariant, PTL

(***************************************************************************)
(* The job implements WriteOnce.                                           *)
(***************************************************************************)
answers == [r \in Runs |-> IF phase[r] \in Succeeded THEN {r} ELSE {}]

\* No problem and no run that has ended yet.
LEMMA RegisterInit == Init => Register!Init
  BY DEF Init, Register!Init, Succeeded

\* A run that ends otherwise, goes on or begins answers nobody.
LEMMA Unanswered ==
  ASSUME IInv, NEW r \in Runs, phase[r] \in Open, NEW next \in Phases \ Succeeded, Enter(r, next)
  PROVE UNCHANGED answers
<1>1. phase' = [phase EXCEPT ![r] = next] /\ phase[r] \notin Succeeded
  BY DEF Enter, Open, Succeeded
<1>2. \A s \in Runs : phase'[s] \in Succeeded <=> phase[s] \in Succeeded
  BY <1>1 DEF IInv, TypeOK
<1> QED BY <1>2 DEF answers

\* Nor does the latest run when another follows it.
LEMMA Succeeds ==
  ASSUME IInv, NEW r \in Runs, r = run, phase[r] \notin Succeeded,
         NEW ended \in Phases \ Succeeded, NEW params, NEW rounds,
         Continue(r, ended, params, rounds)
  PROVE UNCHANGED answers
<1>1. r + 1 \in Runs /\ r + 1 > run
  BY JobAssumption DEF Continue, Runs
<1>2. phase[r + 1] \notin Succeeded
  BY <1>1 DEF IInv, Chained, Succeeded
<1>3. \A s \in Runs : phase'[s] \in Succeeded <=> phase[s] \in Succeeded
  BY <1>2 DEF Continue, IInv, TypeOK, Succeeded
<1> QED BY <1>3 DEF answers

\* The workflow up to the store decides and answers nothing.
LEMMA RunsUnanswered ==
  ASSUME IInv, NEW r \in Runs,
         \/ Production(r) \/ TimerFires(r) \/ ReviewTask(r)
         \/ StoreFails(r) \/ StoreCanceled(r) \/ StoreGone(r)
  PROVE UNCHANGED <<stored, answers>>
<1>1. /\ {"producing", "waiting", "storing"} \subseteq Open
      /\ {"failed", "canceled", "waiting", "storing", "continued"} \subseteq Phases \ Succeeded
  BY DEF Open, Phases, Closed, Succeeded, Retryable
<1>2. CASE ProductionFails(r) \/ ProductionCanceled(r) \/ StoreFails(r) \/ StoreCanceled(r)
  BY <1>1, <1>2, Unanswered
     DEF ProductionFails, ProductionCanceled, StoreFails, StoreCanceled, store
<1>3. ASSUME AfterReview(r), phase[r] = "producing"
      PROVE UNCHANGED answers
  BY <1>1, <1>3, Unanswered DEF AfterReview, EnterStore
<1>4. CASE ReviewApproves(r)
  BY <1>3, <1>4 DEF ReviewApproves
<1>5. ASSUME NEW v \in {"objected", "duplicate"}, NEW f \in Feedbacks, ReviewObjects(r, v, f)
      PROVE UNCHANGED <<stored, answers>>
  BY <1>1, <1>3, <1>5, Unanswered DEF ReviewObjects
<1>6. ASSUME NEW v \in {"objected", "duplicate"}, NEW f \in Feedbacks, ReviewRepairs(r, v, f)
      PROVE UNCHANGED <<stored, answers>>
  <2>1. r = run /\ phase[r] \notin Succeeded
    BY <1>1, <1>6, GoesOn DEF ReviewRepairs, Succeeded
  <2> QED BY <1>1, <1>6, <2>1, Succeeds DEF ReviewRepairs, store
<1>7. CASE ReviewTask(r)
  <2>1. CASE Decide(r)
    BY <1>1, <1>7, <2>1, Unanswered DEF ReviewTask, Decide, EnterStore
  <2>2. CASE GiveUp(r)
    BY <1>1, <1>7, <2>2, Unanswered DEF ReviewTask, GiveUp
  <2> QED BY <1>7, <2>1, <2>2 DEF ReviewTask
<1>8. CASE TimerFires(r) \/ StoreGone(r)
  BY <1>8 DEF TimerFires, StoreGone, runs, store, answers
<1> QED BY <1>2, <1>4, <1>5, <1>6, <1>7, <1>8 DEF Production

\* The store's commit decides, what it tells a run that waits answers, and
\* nothing else of it is seen from outside.
LEMMA StoreDecides ==
  ASSUME IInv, NEW r \in Runs, StoreActivity(r)
  PROVE Register!Next \/ UNCHANGED <<stored, answers>>
<1>0. phase \in [Runs -> Phases]
  BY DEF IInv, TypeOK, Phases
<1>1. CASE StoreBegins(r)
  BY <1>1 DEF StoreBegins, runs, answers
<1>2. CASE StoreRefused(r)
  <2>1. CASE phase[r] = "storing"
    BY <1>2, <2>1, Unanswered
       DEF StoreRefused, Enter, Open, Phases, Closed, Succeeded, Retryable
  <2>2. CASE phase[r] # "storing"
    BY <1>2, <2>2 DEF StoreRefused, answers
  <2> QED BY <2>1, <2>2
<1>3. CASE StoreCommits(r)
  <2>1. stored = {}
    BY <1>3 DEF StoreCommits, Key
  <2>2. stored' = {r} /\ UNCHANGED answers
    BY <1>3, <2>1 DEF StoreCommits, runs, answers
  <2> QED BY <2>1, <2>2 DEF Register!Next, Register!Decide, answers
<1>4. CASE StoreAnswers(r)
  <2>1. stored = {r} /\ UNCHANGED stored
    <3>1. op[Job] = r
      BY <1>4 DEF StoreAnswers, IInv, Ledger
    <3>2. \A s \in stored : s = r
      BY <3>1 DEF IInv, Ledger
    <3> QED BY <1>4, <3>2 DEF StoreAnswers
  <2>2. CASE phase[r] # "storing"
    BY <1>4, <2>1, <2>2 DEF StoreAnswers, answers
  <2>3. CASE phase[r] = "storing"
    <3>1. PICK end \in Succeeded : phase' = [phase EXCEPT ![r] = end]
      BY <1>4, <2>3 DEF StoreAnswers, Succeeded
    <3>2. answers[r] = {}
      BY <2>3 DEF answers, Succeeded
    <3>3. answers' = [answers EXCEPT ![r] = {r}]
      BY <1>0, <3>1 DEF answers
    <3>4. Register!Answer(r)
      BY <2>1, <3>2, <3>3 DEF Register!Answer, answers
    <3> QED BY <3>4 DEF Register!Next
  <2> QED BY <2>2, <2>3
<1> QED BY <1>1, <1>2, <1>3, <1>4 DEF StoreActivity

\* Every step of the job is a step of the register or changes nothing there.
LEMMA RegisterStep ==
  ASSUME IInv, [Next]_vars
  PROVE Register!Next \/ UNCHANGED <<stored, answers>>
<1>1. ASSUME NEW r \in Runs,
             \/ Production(r) \/ TimerFires(r) \/ ReviewTask(r)
             \/ StoreActivity(r) \/ StoreFails(r) \/ StoreCanceled(r) \/ StoreGone(r)
      PROVE Register!Next \/ UNCHANGED <<stored, answers>>
  BY <1>1, RunsUnanswered, StoreDecides
<1>2. CASE Retry
  <2>1. run \in Runs /\ phase[run] \notin Succeeded /\ phase[run] \in Phases \ Succeeded
    BY <1>2 DEF Retry, Retryable, Succeeded, Phases, Closed, IInv, TypeOK
  <2> QED BY <1>2, <2>1, Succeeds DEF Retry, store
<1>3. ASSUME NEW v \in Reviewers,
             \/ Cancel \/ Look(v) \/ Submit(v) \/ Signal(v)
             \/ Confirm(v) \/ ConfirmLost(v) \/ SubmitAgain(v)
      PROVE UNCHANGED <<stored, answers>>
  BY <1>3 DEF Cancel, Look, Submit, Signal, Confirm, ConfirmLost, SubmitAgain, runs, store, answers
<1>4. CASE Cancel \/ UNCHANGED vars
  BY <1>4 DEF Cancel, vars, runs, store, answers
<1> QED BY <1>1, <1>2, <1>3, <1>4 DEF Next

\* The job is a register for its runs: decided once, and whoever ends well ends
\* with what was decided.
THEOREM JobImplementsRegister == Spec => JobIsWriteOnce
<1>1. IInv /\ [Next]_vars => [Register!Next]_<<stored, answers>>
  BY RegisterStep
<1> QED
  BY <1>1, RegisterInit, Invariant, PTL DEF Spec, JobIsWriteOnce, Register!Spec, answers
=============================================================================

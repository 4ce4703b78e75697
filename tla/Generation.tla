----------------------------- MODULE Generation -----------------------------
(***************************************************************************)
(* How one run of ProblemGenerationWorkflow arrives at a candidate, with   *)
(* all version markers at their newest: statement attempts, each with      *)
(* repairs of its Markdown, test data, and a loop of solution attempts;    *)
(* then the finished statement's similarity check and the test manifest.   *)
(* Every action is one workflow task: the result of an activity and what   *)
(* the workflow code does until it schedules the next one.                 *)
(*                                                                         *)
(* Statements and solutions are told apart by the attempt that produced    *)
(* them.  Activity results are decoded into variables declared once for    *)
(* the whole run, and a decoder leaves a field alone that the message does *)
(* not mention.  Test inputs and sandbox outputs are mentioned inline or,  *)
(* when large, as an artifact reference that takes precedence wherever     *)
(* both are present: `of` is the attempt whose data the variable stands    *)
(* for, `external` that it holds a reference.                              *)
(*                                                                         *)
(* GenerationJob is about the chain of such runs; what both modules have   *)
(* carries "Run" here, so that GenerationProofs can extend the two.        *)
(***************************************************************************)
EXTENDS Naturals

CONSTANTS
    MaxStatements,   \* maxStatementAttempts
    MaxSolutions,    \* maxSolutionAttempts
    MaxRepairs,      \* problemGenerationStatementRepairMaxRoundsV1
    Diagnostics,     \* fingerprints of Markdown defects and of solution failures
    Unset

Statements == 1 .. MaxStatements
Attempts == Statements \X (1 .. MaxSolutions)

ASSUME GenerationAssumption ==
    /\ MaxStatements \in Nat \ {0}
    /\ MaxSolutions \in Nat \ {0}
    /\ MaxRepairs \in Nat \ {0}
    /\ Unset \notin Diagnostics /\ Unset \notin Statements /\ Unset \notin Attempts

SolutionStages == {"solution", "compile", "benchmark", "main", "brute", "validate"}
Stages == SolutionStages \cup
          {"similarity", "statement", "repair", "clean", "tests", "feasibility",
           "finalize", "final_similarity", "manifest", "candidate", "failed"}
Ended == {"candidate", "failed"}

VARIABLES
    stage,       \* the activity the workflow waits for, or how the run ended
    stmt, sol,   \* stmtAttempt and solAttempt, counted from one
    defects,     \* diagnostics of the current statement's Markdown, or Unset
    repair,      \* [round, last, then]: the repair under way and where it leads
    testTry,     \* testDataAttempt, counted from one
    tests,       \* testDataResult: the statement whose inputs it holds
    main, brute, \* the sandbox results: the attempt whose outputs they hold
    calibrated,  \* resourceCalibration: the attempt it was measured with
    lastFailure, \* lastFailureFingerprint of this statement's solution loop
    agreed, differed, \* pairs of outputs compared, by verdict
    distinct     \* statements whose final text passed the similarity check

loops == <<stmt, sol>>
results == <<tests, main, brute, calibrated>>
verdicts == <<agreed, differed, distinct>>
runVars == <<stage, loops, defects, repair, testTry, results, lastFailure, verdicts>>

NoRepair == [round |-> 0, last |-> Unset, then |-> "clean"]
Nothing == [of |-> Unset, external |-> FALSE]
attempt == <<stmt, sol>>

RunInit ==
    /\ stage = "similarity"
    /\ stmt = 1 /\ sol = 1
    /\ defects = Unset
    /\ repair = NoRepair
    /\ testTry = 1
    /\ tests = Nothing /\ main = Nothing /\ brute = Nothing
    /\ calibrated = Unset
    /\ lastFailure = Unset
    /\ agreed = {} /\ differed = {} /\ distinct = {}

\* Decoding a result into the variable that held the previous one.
Decode(old, id, large) ==
    IF large THEN [of |-> id, external |-> TRUE]
    ELSE IF old.external THEN old
    ELSE [of |-> id, external |-> FALSE]

Goto(next) == stage' = next

\* The run ends without a candidate.
Fail == Goto("failed") /\ UNCHANGED <<loops, testTry, calibrated, lastFailure>>

(***************************************************************************)
(* The two loops                                                           *)
(***************************************************************************)
\* Mutant: another statement is tried with the inputs of the one before.
NextStatementKeepingTests ==
    IF stmt < MaxStatements
    THEN /\ Goto(IF tests = Nothing THEN "statement" ELSE "solution")
         /\ stmt' = stmt + 1 /\ sol' = 1 /\ testTry' = 1
         /\ calibrated' = Unset /\ lastFailure' = Unset
    ELSE Fail

\* Mutant: the attempts at a statement are not counted.
NextStatementForEver ==
    /\ Goto("statement")
    /\ sol' = 1 /\ testTry' = 1
    /\ calibrated' = Unset /\ lastFailure' = Unset
    /\ UNCHANGED stmt

\* The candidate statement is given up: the outer loop goes round or is over.
NextStatement ==
    IF stmt < MaxStatements
    THEN /\ Goto("statement")
         /\ stmt' = stmt + 1 /\ sol' = 1 /\ testTry' = 1
         /\ calibrated' = Unset /\ lastFailure' = Unset
    ELSE Fail

\* A solution attempt failed in a way that has this fingerprint; the same one
\* twice in a row abandons the statement.
NextSolution(failure) ==
    IF sol < MaxSolutions /\ failure # lastFailure
    THEN /\ Goto("solution")
         /\ sol' = sol + 1
         /\ lastFailure' = failure
         /\ calibrated' = Unset
         /\ UNCHANGED <<stmt, testTry>>
    ELSE NextStatement

(***************************************************************************)
(* Statements                                                              *)
(***************************************************************************)
\* SimilarityCheckActivity, or its being switched off.
SimilarityPasses ==
    /\ stage = "similarity"
    /\ Goto("statement")
    /\ UNCHANGED <<loops, defects, repair, testTry, results, lastFailure, verdicts>>

SimilarityFails ==
    /\ stage = "similarity"
    /\ Fail
    /\ UNCHANGED <<defects, repair, tests, main, brute, verdicts>>

BeginRepair(then) == Goto("repair") /\ repair' = [round |-> 1, last |-> Unset, then |-> then]

\* The statement has passed its gate.  Its sample placeholder may have been
\* lost on the way, which costs the statement.
PassGate ==
    \/ /\ Goto("tests")
       /\ UNCHANGED <<loops, testTry, calibrated, lastFailure>>
    \/ NextStatement

\* The list may also be the one of the statement before: an empty list is not
\* mentioned in the result.
StatementGenerated(found) ==
    /\ stage = "statement"
    /\ defects' = found
    /\ IF found = Unset THEN Goto("clean") /\ UNCHANGED repair ELSE BeginRepair("clean")
    /\ UNCHANGED <<loops, testTry, results, lastFailure, verdicts>>

StatementFails ==
    /\ stage = "statement"
    /\ NextStatement
    /\ UNCHANGED <<defects, repair, tests, main, brute, verdicts>>

\* A round of repairGeneratedStatementWithQualityV1 that leaves `found`.
RepairAnswers(found) ==
    /\ stage = "repair"
    /\ defects' = found
    /\ IF found = Unset
       THEN /\ \/ repair.then = "clean" /\ Goto("clean")
                  /\ UNCHANGED <<loops, testTry, calibrated, lastFailure>>
               \/ repair.then = "gate" /\ PassGate
            /\ repair' = NoRepair
       ELSE IF repair.round < MaxRepairs /\ found # repair.last
       THEN /\ repair' = [repair EXCEPT !.round = @ + 1, !.last = found]
            /\ UNCHANGED <<stage, loops, testTry, calibrated, lastFailure>>
       ELSE NextStatement /\ repair' = NoRepair
    /\ UNCHANGED <<tests, main, brute, verdicts>>

\* The activity fails, or answers with another title, tags or hint.
RepairFails ==
    /\ stage = "repair"
    /\ NextStatement
    /\ repair' = NoRepair
    /\ UNCHANGED <<defects, tests, main, brute, verdicts>>

\* Mutant: the cleaner's answer is not diagnosed again.
CleanedUnchecked(found) ==
    /\ stage = "clean"
    /\ defects' = found
    /\ PassGate
    /\ UNCHANGED <<repair, tests, main, brute, verdicts>>

\* CleanStatementActivity answers, and the gate diagnoses what it returned.
Cleaned(found) ==
    /\ stage = "clean"
    /\ defects' = found
    /\ IF found = Unset
       THEN PassGate /\ UNCHANGED repair
       ELSE BeginRepair("gate") /\ UNCHANGED <<loops, testTry, calibrated, lastFailure>>
    /\ UNCHANGED <<tests, main, brute, verdicts>>

\* The cleaner rejects the statement.  The workflow diagnoses it again and would
\* repair what it finds, but the text is the one that was found clean.
CleanFails ==
    /\ stage = "clean"
    /\ NextStatement
    /\ UNCHANGED <<defects, repair, tests, main, brute, verdicts>>

(***************************************************************************)
(* Test data                                                               *)
(***************************************************************************)
\* A malformed generator gets one more try with the same statement.
RetryTests ==
    IF testTry = 1
    THEN testTry' = 2 /\ UNCHANGED <<stage, loops, calibrated, lastFailure>>
    ELSE NextStatement

\* GenerateTestDataActivity fails, in a way the statement survives or not.
TestsFail ==
    /\ stage = "tests"
    /\ RetryTests \/ NextStatement
    /\ UNCHANGED <<defects, repair, tests, main, brute, verdicts>>

\* It answers with what the sample gate or the count gate refuses, or with
\* nothing the two programs could be compared on.
TestsRefused(large) ==
    /\ stage = "tests"
    /\ tests' = Decode(tests, stmt, large)
    /\ RetryTests \/ NextStatement \/ Fail
    /\ UNCHANGED <<defects, repair, main, brute, verdicts>>

TestsGenerated(large) ==
    /\ stage = "tests"
    /\ tests' = Decode(tests, stmt, large)
    /\ Goto("solution")
    /\ testTry' = 1
    /\ UNCHANGED <<loops, defects, repair, main, brute, calibrated, lastFailure, verdicts>>

(***************************************************************************)
(* Solutions                                                               *)
(***************************************************************************)
\* GenerateSolutionActivity or RepairSolutionActivity, CompileCheckActivity and
\* the benchmark with the loosest limits answer.
SolutionAdvances ==
    /\ \/ stage = "solution" /\ Goto("compile")
       \/ stage = "compile" /\ Goto("benchmark")
       \/ stage = "benchmark" /\ Goto("main")
    /\ UNCHANGED <<loops, defects, repair, testTry, results, lastFailure, verdicts>>

\* The main program has run on all tests under the limits derived from it.
MainRan(large) ==
    /\ stage = "main"
    /\ main' = Decode(main, attempt, large)
    /\ calibrated' = attempt
    /\ Goto("brute")
    /\ UNCHANGED <<loops, defects, repair, testTry, tests, brute, lastFailure, verdicts>>

\* The reference program has run on its selection of the tests.
BruteRan(large) ==
    /\ stage = "brute"
    /\ brute' = Decode(brute, attempt, large)
    /\ Goto("validate")
    /\ UNCHANGED <<loops, defects, repair, testTry, tests, main, calibrated,
                   lastFailure, verdicts>>

\* One of the steps fails.  A result whose receipt is refused has been decoded.
SolutionStepFails(d) ==
    /\ stage \in SolutionStages
    /\ \/ UNCHANGED main
       \/ stage = "main" /\ \E large \in BOOLEAN : main' = Decode(main, attempt, large)
    /\ NextSolution(<<stage, d>>)
    /\ UNCHANGED <<defects, repair, tests, brute, verdicts>>

compared == <<main.of, brute.of>>

\* ValidateActivity compares what the two variables stand for.
OutputsAgree ==
    /\ stage = "validate"
    /\ compared \notin differed
    /\ agreed' = agreed \cup {compared}
    /\ Goto("finalize")
    /\ UNCHANGED <<loops, defects, repair, testTry, results, lastFailure, differed, distinct>>

OutputsDiffer ==
    /\ stage = "validate"
    /\ compared \notin agreed
    /\ differed' = differed \cup {compared}
    /\ Goto("feasibility")
    /\ UNCHANGED <<loops, defects, repair, testTry, results, lastFailure, agreed, distinct>>

\* AssessProblemFeasibilityActivity blames the programs, or the statement (so
\* does its failure).
Assessed(d) ==
    /\ stage = "feasibility"
    /\ NextSolution(<<stage, d>>) \/ NextStatement
    /\ UNCHANGED <<defects, repair, tests, main, brute, verdicts>>

(***************************************************************************)
(* The candidate                                                           *)
(***************************************************************************)
\* FinalizeStatementSamplesActivity, or no structured samples.
Finalized ==
    /\ stage = "finalize"
    /\ Goto("final_similarity")
    /\ UNCHANGED <<loops, defects, repair, testTry, results, lastFailure, verdicts>>

FinalSimilarityPasses ==
    /\ stage = "final_similarity"
    /\ distinct' = distinct \cup {stmt}
    /\ Goto("manifest")
    /\ UNCHANGED <<loops, defects, repair, testTry, results, lastFailure, agreed, differed>>

\* Mutant: a hard rejection of the last statement does not withdraw it.
HardRejectKeepsLast ==
    /\ stage = "final_similarity"
    /\ IF stmt < MaxStatements
       THEN NextStatement
       ELSE Goto("manifest") /\ UNCHANGED <<loops, testTry, calibrated, lastFailure>>
    /\ UNCHANGED <<defects, repair, tests, main, brute, verdicts>>

HardReject ==
    /\ stage = "final_similarity"
    /\ NextStatement
    /\ UNCHANGED <<defects, repair, tests, main, brute, verdicts>>

ManifestBuilt ==
    /\ stage = "manifest"
    /\ Goto("candidate")
    /\ UNCHANGED <<loops, defects, repair, testTry, results, lastFailure, verdicts>>

FinishFails ==
    /\ stage \in {"finalize", "final_similarity", "manifest"}
    /\ Fail
    /\ UNCHANGED <<defects, repair, tests, main, brute, verdicts>>

\* A provider refuses the credentials: no other attempt is made.
AuthenticationFails ==
    /\ stage \in {"statement", "repair", "clean", "tests", "solution", "feasibility"}
    /\ Fail
    /\ UNCHANGED <<defects, repair, tests, main, brute, verdicts>>

RunNext ==
    \/ SimilarityPasses \/ SimilarityFails
    \/ StatementFails \/ RepairFails \/ CleanFails \/ TestsFail
    \/ \E found \in Diagnostics \cup {Unset} :
          StatementGenerated(found) \/ RepairAnswers(found) \/ Cleaned(found)
    \/ \E large \in BOOLEAN :
          TestsRefused(large) \/ TestsGenerated(large) \/ MainRan(large) \/ BruteRan(large)
    \/ SolutionAdvances \/ OutputsAgree \/ OutputsDiffer
    \/ \E d \in Diagnostics : SolutionStepFails(d) \/ Assessed(d)
    \/ Finalized \/ FinalSimilarityPasses \/ HardReject \/ ManifestBuilt \/ FinishFails
    \/ AuthenticationFails

RunSpec == RunInit /\ [][RunNext]_runVars

\* Every activity has a timeout and finitely many attempts, so the workflow
\* task that follows it comes.
FairRunSpec == RunSpec /\ WF_runVars(RunNext)

(***************************************************************************)
(* Properties                                                              *)
(***************************************************************************)
Held(ids) == [of : ids \cup {Unset}, external : BOOLEAN]

\* Every variable has its type.
RunTypeOK ==
    /\ stage \in Stages
    /\ stmt \in Statements
    /\ sol \in 1 .. MaxSolutions
    /\ defects \in Diagnostics \cup {Unset}
    /\ repair \in [round : 0 .. MaxRepairs, last : Diagnostics \cup {Unset},
                   then : {"clean", "gate"}]
    /\ testTry \in 1 .. 2
    /\ tests \in Held(Statements)
    /\ main \in Held(Attempts)
    /\ brute \in Held(Attempts)
    /\ calibrated \in Attempts \cup {Unset}
    /\ lastFailure \in ((SolutionStages \cup {"feasibility"}) \X Diagnostics) \cup {Unset}
    /\ agreed \subseteq (Attempts \cup {Unset}) \X (Attempts \cup {Unset})
    /\ differed \subseteq (Attempts \cup {Unset}) \X (Attempts \cup {Unset})
    /\ distinct \subseteq Statements

\* Nothing is paid for test data or solutions of a statement with Markdown
\* defects: whichever of the writer, the cleaner and the repairs touched it
\* last, the gate has seen that very text.
GateBeforeTests ==
    stage \in SolutionStages \cup {"tests", "feasibility", "finalize", "final_similarity",
                                   "manifest", "candidate"}
        => defects = Unset

\* A candidate's outputs, as whoever reads them next will resolve them, were
\* compared and agreed; its limits were measured with its own solution; and its
\* final text passed the similarity check, even if it is the last statement the
\* loop may try.
CandidateEarned ==
    stage = "candidate" =>
        /\ compared \in agreed
        /\ calibrated = attempt
        /\ stmt \in distinct

\* The only way a candidate can carry the data of another attempt is an
\* artifact reference that a small result left in place.
StaleOnlyByReference ==
    stage = "candidate" =>
        /\ tests.of # stmt => tests.external
        /\ main.of # attempt => main.external
        /\ brute.of # attempt => brute.external

\* The run ends: no combination of repairs, retries and regenerations goes on.
EventuallyEnded == <>(stage \in Ended)

\* "The outer loop regenerates statement + test-case inputs", "Inner loop:
\* regenerates solutions only": a candidate consists of the statement, inputs
\* and outputs of the attempt that was validated.
CandidateIsFresh ==
    stage = "candidate" => tests.of = stmt /\ main.of = attempt /\ brute.of = attempt
=============================================================================

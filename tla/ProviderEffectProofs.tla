------------------------ MODULE ProviderEffectProofs ------------------------
(***************************************************************************)
(* Theorems about ProviderEffect for every number of attempts, every lease *)
(* longer than the activity timeout and every bound on faults.  IInv gives *)
(* one call at a time and the committed answers; on top of it, ChargedInv  *)
(* keeps the account of calls and faults, and SurvivalInv an attempt in    *)
(* reserve.                                                                *)
(***************************************************************************)
EXTENDS ProviderEffect, FiniteSets, FiniteSetTheorems, TLAPS

\* The row is leased exactly while it is in progress, and only a completed row
\* holds a result, which answers the row's request.
RowInv ==
    /\ status = "absent" => token = None /\ result = None
    /\ status = "in_progress" => /\ token \in Attempts
                                 /\ rowReq \in Requests
                                 /\ result = None
    /\ status = "completed" => /\ result \in Responses
                               /\ result.req = rowReq

\* An attempt with a provider call in flight holds the lease, and the lease
\* outlives the attempt's context.
LeaseInv ==
    \A a \in Attempts :
        pc[a] = "invoke" => /\ status = "in_progress"
                            /\ token = a
                            /\ rowReq = req[a]
                            /\ leaseLeft > left[a]

\* Attempts are dispatched in order, with a request.
DispatchInv ==
    \A a \in Attempts :
        /\ a > cur => pc[a] = "idle"
        /\ pc[a] # "idle" => req[a] \in Requests

\* The response about to be stored answers the attempt's request.
ReplyInv ==
    \A a \in Attempts :
        pc[a] = "complete" => reply[a] \in Responses /\ reply[a].req = req[a]

IInv == TypeOK /\ RowInv /\ LeaseInv /\ DispatchInv /\ ReplyInv /\ AnswersCommitted

-----------------------------------------------------------------------------
\* The invariant holds at the start.
LEMMA InitIInv == Init => IInv
  BY LeaseAssumption, NoneAssumption
  DEF Init, IInv, TypeOK, RowInv, LeaseInv, DispatchInv, ReplyInv,
      AnswersCommitted, Steps, Attempts

\* A lease is only ever taken from nobody's call in flight.
LEMMA LeaseFree ==
  ASSUME IInv, NEW a \in Attempts, NEW b \in Attempts, CanLease(a)
  PROVE  pc[b] # "invoke"
  BY LeaseAssumption DEF IInv, TypeOK, LeaseInv, CanLease, LeaseExpired, Attempts

\* Taking a lease keeps the row well formed and disturbs no other attempt.
LEMMA TakeLeaseRow ==
  ASSUME IInv, NEW a \in Attempts, TakeLease(a), pc[a] = "acquire"
  PROVE  /\ status' = "in_progress" /\ rowReq' \in Requests /\ rowReq' = req[a]
         /\ token' = a /\ leaseLeft' = Lease /\ result' = None /\ result' = result
         /\ Lease \in 0 .. Lease
         /\ \A b \in Attempts : pc[b] # "invoke" /\ pc[b] # "returned"
  <1>1. CanLease(a)
    BY DEF TakeLease
  <1>2. status # "completed" /\ result = None
    BY <1>1 DEF CanLease, IInv, RowInv
  <1>3. \A b \in Attempts : pc[b] # "invoke" /\ pc[b] # "returned"
    BY <1>1, <1>2, LeaseFree DEF IInv, AnswersCommitted
  <1>4. req[a] \in Requests
    BY DEF IInv, DispatchInv
  <1>5. QED
    BY <1>2, <1>3, <1>4, LeaseAssumption DEF TakeLease

\* Storing a result keeps the row well formed; the caller held the lease.
LEMMA StoreResultRow ==
  ASSUME IInv, NEW a \in Attempts, StoreResult(a), pc[a] = "complete"
  PROVE  /\ status' = "completed" /\ rowReq' = rowReq /\ rowReq = req[a]
         /\ token' = None /\ leaseLeft' = 0 /\ result' = reply[a]
         /\ result' \in Responses /\ result'.req = rowReq'
         /\ result = None
         /\ 0 \in 0 .. Lease
         /\ \A b \in Attempts : pc[b] # "invoke" /\ pc[b] # "returned"
  <1>1. HoldsLease(a) /\ result' = reply[a] /\ token = a
    BY DEF StoreResult, HoldsLease
  <1>2. reply[a] \in Responses /\ reply[a].req = req[a]
    BY DEF IInv, ReplyInv
  <1>3. \A b \in Attempts : pc[b] # "invoke"
    BY <1>1 DEF IInv, LeaseInv
  <1>4. \A b \in Attempts : pc[b] # "returned"
    BY <1>1 DEF IInv, AnswersCommitted, HoldsLease
  <1>5. result = None
    BY <1>1 DEF HoldsLease, IInv, RowInv
  <1>6. QED
    BY <1>1, <1>2, <1>3, <1>4, <1>5, LeaseAssumption
    DEF StoreResult, HoldsLease, SameRequest

-----------------------------------------------------------------------------
\* Acquire preserves the invariant in each of its outcomes.
LEMMA AcquireStep ==
  ASSUME IInv, NEW a \in Attempts,
         \/ AcquireGranted(a) \/ AcquireCached(a) \/ AcquireBusy(a)
         \/ AcquireMismatch(a) \/ AcquireError(a)
  PROVE  IInv'
  <1> USE DEF Goto, Fault, server
  <1>0. pc \in [Attempts -> Steps] /\ left \in [Attempts -> 0 .. Timeout]
    BY DEF IInv, TypeOK
  <1>1. CASE AcquireGranted(a)
    <2>1. TakeLease(a) /\ pc[a] = "acquire"
      BY <1>1 DEF AcquireGranted
    <2>2. TypeOK'
      BY <1>1, <2>1, TakeLeaseRow DEF AcquireGranted, IInv, TypeOK, Steps
    <2>3. RowInv' /\ ReplyInv' /\ DispatchInv' /\ AnswersCommitted'
      BY <1>0, <1>1, <2>1, TakeLeaseRow
      DEF AcquireGranted, IInv, RowInv, ReplyInv, DispatchInv, AnswersCommitted
    <2>4. LeaseInv'
      <3>1. left[a] \in 0 .. Timeout /\ left' = left /\ req' = req
        BY <1>0, <1>1 DEF AcquireGranted
      <3>2. leaseLeft' > left'[a]
        BY <2>1, <3>1, TakeLeaseRow, LeaseAssumption
      <3>3. \A b \in Attempts : pc'[b] = "invoke" => b = a
        BY <1>0, <1>1, <2>1, TakeLeaseRow DEF AcquireGranted
      <3>4. QED
        BY <2>1, <3>1, <3>2, <3>3, TakeLeaseRow DEF LeaseInv
    <2>5. QED
      BY <2>2, <2>3, <2>4 DEF IInv
  <1>2. CASE AcquireCached(a)
    BY <1>0, <1>2
    DEF AcquireCached, row, IInv, TypeOK, Steps, RowInv, LeaseInv, ReplyInv,
        DispatchInv, AnswersCommitted, SameRequest
  <1>3. CASE AcquireBusy(a)
    <2>1. leaseLeft + Buffer \in 0 .. Lease + Buffer
      BY LeaseAssumption DEF IInv, TypeOK
    <2>2. TypeOK'
      BY <1>3, <2>1 DEF AcquireBusy, row, IInv, TypeOK, Steps
    <2>3. QED
      BY <1>0, <1>3, <2>2
      DEF AcquireBusy, row, IInv, RowInv, LeaseInv, ReplyInv, DispatchInv,
          AnswersCommitted
  <1>4. CASE AcquireMismatch(a)
    BY <1>0, <1>4
    DEF AcquireMismatch, row, IInv, TypeOK, Steps, RowInv, LeaseInv, ReplyInv,
        DispatchInv, AnswersCommitted
  <1>5. CASE AcquireError(a)
    <2>1. pc[a] = "acquire" /\ pc' = [pc EXCEPT ![a] = "failed"]
          /\ UNCHANGED <<req, left, reply, hint, fatal, cur, activity, retryIn, calls>>
          /\ faults' = faults + 1
      BY <1>5 DEF AcquireError
    <2>2. CASE TakeLease(a)
      <3>1. TypeOK'
        BY <2>1, <2>2, TakeLeaseRow DEF IInv, TypeOK, Steps
      <3>2. QED
        BY <1>0, <2>1, <2>2, <3>1, TakeLeaseRow
        DEF IInv, RowInv, LeaseInv, ReplyInv, DispatchInv, AnswersCommitted
    <2>3. CASE UNCHANGED row
      BY <1>0, <2>1, <2>3
      DEF row, IInv, TypeOK, Steps, RowInv, LeaseInv, ReplyInv, DispatchInv,
          AnswersCommitted
    <2>4. QED
      BY <1>5, <2>2, <2>3 DEF AcquireError
  <1>6. QED
    BY <1>1, <1>2, <1>3, <1>4, <1>5

\* The provider's answer, or its failure, preserves the invariant.
LEMMA InvokeStep ==
  ASSUME IInv, NEW a \in Attempts,
         (\E text \in Texts : InvokeAnswers(a, text)) \/ InvokeFails(a)
  PROVE  IInv'
  <1> USE DEF Goto, Fault, server, row
  <1>1. ASSUME NEW text \in Texts, InvokeAnswers(a, text)
        PROVE  IInv'
    <2>1. req[a] \in Requests
      BY <1>1 DEF InvokeAnswers, IInv, DispatchInv
    <2>2. [req |-> req[a], text |-> text] \in Responses
      BY <2>1 DEF Responses
    <2>3. TypeOK'
      BY <1>1, <2>2 DEF InvokeAnswers, IInv, TypeOK, Steps
    <2>4. QED
      BY <1>1, <2>2, <2>3
      DEF InvokeAnswers, IInv, TypeOK, RowInv, LeaseInv, ReplyInv, DispatchInv,
          AnswersCommitted
  <1>2. CASE InvokeFails(a)
    BY <1>2
    DEF InvokeFails, IInv, TypeOK, Steps, RowInv, LeaseInv, ReplyInv, DispatchInv,
        AnswersCommitted
  <1>3. QED
    BY <1>1, <1>2

\* Complete preserves the invariant in each of its outcomes.
LEMMA CompleteStep ==
  ASSUME IInv, NEW a \in Attempts,
         CompleteCommits(a) \/ CompleteRejected(a) \/ CompleteError(a)
  PROVE  IInv'
  <1> USE DEF Goto, Fault, server
  <1>0. pc \in [Attempts -> Steps] /\ pc[a] = "complete"
    BY DEF IInv, TypeOK, CompleteCommits, CompleteRejected, CompleteError
  <1>1. PICK step \in {"returned", "release"} :
          /\ pc' = [pc EXCEPT ![a] = step]
          /\ UNCHANGED <<req, left, reply, hint, fatal, cur, activity, retryIn, calls>>
          /\ faults' \in {faults, faults + 1}
    BY DEF CompleteCommits, CompleteRejected, CompleteError
  <1>2. CASE StoreResult(a)
    <2>1. TypeOK'
      BY <1>0, <1>1, <1>2, StoreResultRow DEF IInv, TypeOK, Steps
    <2>2. QED
      BY <1>0, <1>1, <1>2, <2>1, StoreResultRow
      DEF IInv, RowInv, LeaseInv, ReplyInv, DispatchInv, AnswersCommitted
  <1>3. CASE UNCHANGED row /\ (step = "release" \/ AlreadyStored(a))
    <2>1. TypeOK' /\ RowInv' /\ LeaseInv' /\ ReplyInv' /\ DispatchInv'
      BY <1>0, <1>1, <1>3
      DEF row, IInv, TypeOK, Steps, RowInv, LeaseInv, ReplyInv, DispatchInv
    <2>2. AlreadyStored(a) => result.req = req[a] /\ reply[a] = result
      BY DEF AlreadyStored, SameRequest, IInv, RowInv
    <2>3. AnswersCommitted'
      BY <1>0, <1>1, <1>3, <2>2 DEF row, IInv, AnswersCommitted, AlreadyStored
    <2>4. QED
      BY <2>1, <2>3 DEF IInv
  <1>4. QED
    <2>1. "returned" # "release"
      OBVIOUS
    <2>2. pc'[a] = step
      BY <1>0, <1>1
    <2>3. CompleteCommits(a) => StoreResult(a) \/ (AlreadyStored(a) /\ UNCHANGED row)
      BY DEF CompleteCommits
    <2>4. CompleteRejected(a) => UNCHANGED row /\ step = "release"
      BY <1>0, <2>2 DEF CompleteRejected
    <2>5. CompleteError(a) => StoreResult(a) \/ (UNCHANGED row /\ step = "release")
      BY <1>0, <2>2 DEF CompleteError
    <2>6. QED
      BY <1>2, <1>3, <2>3, <2>4, <2>5

-----------------------------------------------------------------------------
\* Giving the lease up, losing the worker, and everything the server does.
LEMMA OtherStep ==
  ASSUME IInv, NEW a \in Attempts,
         Release(a) \/ ReleaseError(a) \/ Crash(a) \/ Report(a) \/ AttemptTimeout(a)
  PROVE  IInv'
  <1> USE DEF Goto, Fault, server
  <1>1. CASE Release(a)
    <2>1. leaseLeft' \in 0 .. Lease
      BY <1>1, LeaseAssumption DEF Release, IInv, TypeOK
    <2>2. TypeOK'
      BY <1>1, <2>1 DEF Release, IInv, TypeOK, Steps
    <2>3. LeaseInv'
      BY <1>1 DEF Release, HoldsLease, IInv, TypeOK, LeaseInv
    <2>4. QED
      BY <1>1, <2>2, <2>3
      DEF Release, IInv, TypeOK, RowInv, ReplyInv, DispatchInv, AnswersCommitted
  <1>2. CASE ReleaseError(a)
    BY <1>2 DEF ReleaseError, row, IInv, TypeOK, Steps, RowInv, LeaseInv, ReplyInv,
                DispatchInv, AnswersCommitted
  <1>3. CASE Crash(a)
    BY <1>3 DEF Crash, row, IInv, TypeOK, Steps, RowInv, LeaseInv, ReplyInv,
                DispatchInv, AnswersCommitted
  <1>4. CASE ReportSuccess(a)
    BY <1>4 DEF ReportSuccess, row, worker, IInv, TypeOK, RowInv, LeaseInv,
                ReplyInv, DispatchInv, AnswersCommitted
  <1>5. CASE ReportFailure(a)
    BY <1>5 DEF ReportFailure, Unsuccessful, row, worker, IInv, TypeOK, RowInv,
                LeaseInv, ReplyInv, DispatchInv, AnswersCommitted
  <1>6. CASE AttemptTimeout(a)
    <2>1. 0 \in 0 .. Lease + Buffer
      BY LeaseAssumption
    <2>2. QED
      BY <1>6, <2>1 DEF AttemptTimeout, row, worker, IInv, TypeOK, RowInv, LeaseInv,
                ReplyInv, DispatchInv, AnswersCommitted
  <1>7. QED
    BY <1>1, <1>2, <1>3, <1>4, <1>5, <1>6 DEF Report

\* A dispatch starts the next attempt and touches no attempt dispatched before.
LEMMA DispatchStep ==
  ASSUME IInv, NEW q \in Requests, Dispatch(q)
  PROVE  IInv'
  <1>1. cur + 1 \in Attempts /\ cur \in 0 .. MaxAttempts /\ cur' = cur + 1
    BY LeaseAssumption DEF Dispatch, IInv, TypeOK, Attempts
  <1>2. pc[cur + 1] = "idle"
    BY <1>1 DEF IInv, DispatchInv
  <1>3. cur' \in 0 .. MaxAttempts /\ Timeout \in 0 .. Timeout
    BY <1>1, LeaseAssumption DEF Attempts
  <1>4. TypeOK'
    BY <1>1, <1>3 DEF Dispatch, Fault, row, IInv, TypeOK, Steps
  <1>5. RowInv' /\ ReplyInv' /\ AnswersCommitted' /\ LeaseInv'
    BY <1>1, <1>2
    DEF Dispatch, row, IInv, TypeOK, RowInv, LeaseInv, ReplyInv, AnswersCommitted
  <1>6. DispatchInv'
    BY <1>1 DEF Dispatch, IInv, TypeOK, DispatchInv, Attempts
  <1>7. QED
    BY <1>4, <1>5, <1>6 DEF IInv

\* The clock leaves the lease of a call in flight ahead of the call's context.
LEMMA TickStep ==
  ASSUME IInv, Tick
  PROVE  IInv'
  <1>1. \A n \in Nat : \A t \in 0 .. n : Elapse(t) \in 0 .. n
    BY DEF Elapse
  <1>2. Lease \in Nat /\ Timeout \in Nat /\ Lease + Buffer \in Nat
    BY LeaseAssumption
  <1>3. TypeOK'
    BY <1>1, <1>2 DEF Tick, IInv, TypeOK
  <1>4. LeaseInv'
    <2> SUFFICES ASSUME NEW b \in Attempts, pc[b] = "invoke"
                 PROVE  leaseLeft' > left'[b]
      BY DEF Tick, IInv, LeaseInv
    <2>1. leaseLeft > left[b] /\ left[b] > 0
      BY DEF Tick, InContext, IInv, LeaseInv
    <2>2. leaseLeft \in Nat /\ left[b] \in Nat
      BY LeaseAssumption DEF IInv, TypeOK
    <2>3. left'[b] = Elapse(left[b]) /\ leaseLeft' = Elapse(leaseLeft)
      BY DEF Tick
    <2>4. QED
      BY <2>1, <2>2, <2>3 DEF Elapse
  <1>5. QED
    BY <1>3, <1>4
    DEF Tick, IInv, RowInv, ReplyInv, DispatchInv, AnswersCommitted

\* Every step keeps the invariant.
LEMMA StepIInv == IInv /\ [Next]_vars => IInv'
  <1> SUFFICES ASSUME IInv, [Next]_vars
               PROVE  IInv'
    OBVIOUS
  <1>1. ASSUME NEW a \in Attempts, Work(a)
        PROVE  IInv'
    BY <1>1, AcquireStep, InvokeStep, CompleteStep, OtherStep DEF Work
  <1>2. ASSUME NEW a \in Attempts, Failure(a)
        PROVE  IInv'
    BY <1>2, AcquireStep, InvokeStep, CompleteStep, OtherStep DEF Failure
  <1>3. ASSUME NEW a \in Attempts, Report(a) \/ AttemptTimeout(a)
        PROVE  IInv'
    BY <1>3, OtherStep
  <1>4. CASE UNCHANGED vars
    BY <1>4 DEF vars, row, worker, server, IInv, TypeOK, RowInv, LeaseInv, ReplyInv,
                DispatchInv, AnswersCommitted
  <1>5. QED
    BY <1>1, <1>2, <1>3, <1>4, DispatchStep, TickStep DEF Next

\* The inductive invariant holds throughout.
LEMMA InductiveInvariant == Spec => []IInv
  BY InitIInv, StepIInv, PTL DEF Spec

-----------------------------------------------------------------------------
\* Every variable keeps its type in every reachable state.
THEOREM TypeCorrect == Spec => []TypeOK
  <1>1. IInv => TypeOK
    BY DEF IInv
  <1>2. QED
    BY <1>1, InductiveInvariant, PTL

\* cachedProviderEffect never has two provider calls of one effect key in flight,
\* crashed, timed-out and zombie attempts included.
THEOREM SingleFlightHolds == Spec => []SingleFlight
  <1>1. IInv => SingleFlight
    BY DEF IInv, LeaseInv, SingleFlight
  <1>2. QED
    BY <1>1, InductiveInvariant, PTL

\* What an attempt returns is the committed response to its own request.
THEOREM AnswersCommittedHolds == Spec => []AnswersCommitted
  <1>1. IInv => AnswersCommitted
    BY DEF IInv
  <1>2. QED
    BY <1>1, InductiveInvariant, PTL
-----------------------------------------------------------------------------
Answers == [a \in Attempts |-> IF pc[a] = "returned" THEN reply[a] ELSE None]

\* A step that moves one attempt and stores nothing changes at most its answer,
\* and only by returning.
LEMMA SameAnswers ==
  ASSUME NEW a \in Attempts, TypeOK, NEW step \in Steps \ {"returned"},
         pc[a] # "returned", pc' = [pc EXCEPT ![a] = step],
         \A b \in Attempts \ {a} : reply'[b] = reply[b]
  PROVE  Answers' = Answers
  BY DEF Answers, TypeOK

\* Every step of the lease protocol is a step of the write-once register.
LEMMA RegisterStep == IInv /\ [Next]_vars => [Register!Next]_<<result, Answers>>
  <1> SUFFICES ASSUME IInv, [Next]_vars
               PROVE  [Register!Next]_<<result, Answers>>
    OBVIOUS
  <1> USE DEF Goto, server
  <1>0. TypeOK
    BY DEF IInv
  <1>1. ASSUME NEW a \in Attempts, pc[a] # "returned", result' = result,
               NEW step \in Steps \ {"returned"}, pc' = [pc EXCEPT ![a] = step],
               \A b \in Attempts \ {a} : reply'[b] = reply[b]
        PROVE  [Register!Next]_<<result, Answers>>
    BY <1>0, <1>1, SameAnswers
  <1>2. ASSUME UNCHANGED <<result, pc, reply>>
        PROVE  [Register!Next]_<<result, Answers>>
    BY <1>2 DEF Answers
  <1>3. ASSUME NEW a \in Attempts, result \in Responses, result' = result,
               pc[a] # "returned", pc' = [pc EXCEPT ![a] = "returned"],
               reply'[a] = result, \A b \in Attempts \ {a} : reply'[b] = reply[b]
        PROVE  Register!Next
    <2>1. result # None /\ Answers[a] = None
      BY <1>3, NoneAssumption DEF Answers
    <2>2. Answers' = [Answers EXCEPT ![a] = result]
      BY <1>0, <1>3 DEF Answers, TypeOK
    <2>3. Register!Answer(a)
      BY <1>3, <2>1, <2>2 DEF Register!Answer, Answers
    <2>4. QED
      BY <2>3 DEF Register!Next
  <1>4. ASSUME NEW a \in Attempts, StoreResult(a), pc[a] = "complete",
               NEW step \in {"returned", "release"}, pc' = [pc EXCEPT ![a] = step],
               reply' = reply
        PROVE  Register!Next
    <2>1. result = None /\ result' = reply[a] /\ result' \in Responses
      BY <1>4, StoreResultRow
    <2>2. Answers[a] = None
      BY <1>4 DEF Answers
    <2>3. PICK v \in Responses : v = reply[a]
      BY <2>1
    <2>4. CASE step = "returned"
      <3>1. Answers' = [Answers EXCEPT ![a] = v]
        BY <1>0, <1>4, <2>3, <2>4 DEF Answers, TypeOK
      <3>2. Register!DecideAndAnswer(a)
        BY <2>1, <2>2, <2>3, <3>1 DEF Register!DecideAndAnswer, Answers
      <3>3. QED
        BY <3>2 DEF Register!Next
    <2>5. CASE step = "release"
      <3>1. Answers' = Answers
        BY <1>0, <1>4, <2>5, SameAnswers DEF Steps
      <3>2. Register!Decide
        BY <2>1, <2>3, <3>1 DEF Register!Decide, Answers
      <3>3. QED
        BY <3>2 DEF Register!Next
    <2>6. QED
      BY <1>4, <2>4, <2>5
  <1>5. ASSUME NEW a \in Attempts, Work(a)
        PROVE  [Register!Next]_<<result, Answers>>
    <2>1. CASE AcquireGranted(a)
      <3>1. TakeLease(a) /\ pc[a] = "acquire"
        BY <2>1 DEF AcquireGranted
      <3>2. result' = result
        BY <3>1 DEF TakeLease
      <3>3. QED
        BY <1>1, <2>1, <3>1, <3>2 DEF AcquireGranted, Steps
    <2>2. CASE AcquireCached(a)
      <3>1. result \in Responses
        BY <2>2 DEF AcquireCached, IInv, RowInv
      <3>2. QED
        BY <1>0, <1>3, <2>2, <3>1 DEF AcquireCached, row, TypeOK
    <2>3. CASE AcquireBusy(a)
      BY <1>1, <2>3 DEF AcquireBusy, row, Steps
    <2>4. CASE AcquireMismatch(a)
      BY <1>1, <2>4 DEF AcquireMismatch, row, Steps
    <2>5. ASSUME NEW text \in Texts, InvokeAnswers(a, text)
          PROVE  [Register!Next]_<<result, Answers>>
      BY <1>0, <1>1, <2>5 DEF InvokeAnswers, row, Steps, TypeOK
    <2>6. CASE CompleteCommits(a)
      <3>1. CASE StoreResult(a)
        BY <1>4, <2>6, <3>1 DEF CompleteCommits
      <3>2. CASE AlreadyStored(a) /\ UNCHANGED row
        <4>1. result \in Responses /\ reply[a] = result
          BY <3>2 DEF AlreadyStored, IInv, RowInv
        <4>2. QED
          BY <1>3, <2>6, <3>2, <4>1 DEF CompleteCommits, row
      <3>3. QED
        BY <2>6, <3>1, <3>2 DEF CompleteCommits
    <2>7. CASE CompleteRejected(a)
      BY <1>1, <2>7 DEF CompleteRejected, row, Steps
    <2>8. CASE Release(a)
      BY <1>1, <2>8 DEF Release, Steps
    <2>9. QED
      BY <1>5, <2>1, <2>2, <2>3, <2>4, <2>5, <2>6, <2>7, <2>8 DEF Work
  <1>6. ASSUME NEW a \in Attempts, Failure(a)
        PROVE  [Register!Next]_<<result, Answers>>
    <2>1. CASE AcquireError(a)
      BY <1>1, <2>1 DEF AcquireError, TakeLease, row, Steps
    <2>2. CASE InvokeFails(a)
      BY <1>1, <2>2 DEF InvokeFails, row, Steps
    <2>3. CASE CompleteError(a)
      <3>1. CASE StoreResult(a)
        BY <1>4, <2>3, <3>1 DEF CompleteError
      <3>2. CASE UNCHANGED row
        BY <1>1, <2>3, <3>2 DEF CompleteError, row, Steps
      <3>3. QED
        BY <2>3, <3>1, <3>2 DEF CompleteError
    <2>4. CASE ReleaseError(a)
      BY <1>1, <2>4 DEF ReleaseError, row, Steps
    <2>5. CASE Crash(a)
      BY <1>1, <2>5 DEF Crash, row, Steps
    <2>6. QED
      BY <1>6, <2>1, <2>2, <2>3, <2>4, <2>5 DEF Failure
  <1>7. ASSUME NEW a \in Attempts, Report(a) \/ AttemptTimeout(a)
        PROVE  [Register!Next]_<<result, Answers>>
    BY <1>2, <1>7 DEF Report, ReportSuccess, ReportFailure, AttemptTimeout, row, worker
  <1>8. ASSUME NEW q \in Requests, Dispatch(q)
        PROVE  [Register!Next]_<<result, Answers>>
    <2>1. cur + 1 \in Attempts
      BY <1>0, <1>8, LeaseAssumption DEF Dispatch, TypeOK, Attempts
    <2>2. pc[cur + 1] = "idle"
      BY <1>0, <2>1 DEF IInv, DispatchInv, TypeOK
    <2>3. QED
      BY <1>1, <1>8, <2>1, <2>2 DEF Dispatch, row, Steps
  <1>9. CASE Tick
    BY <1>2, <1>9 DEF Tick
  <1>10. CASE UNCHANGED vars
    BY <1>2, <1>10 DEF vars, row, worker
  <1>11. QED
    BY <1>5, <1>6, <1>7, <1>8, <1>9, <1>10 DEF Next

\* The ledger and the code around it implement the write-once register: the
\* result column is decided once, and it is what every attempt returns.
THEOREM LedgerImplementsRegister == Spec => ImplementsWriteOnce
  <1>1. Init => Register!Init
    BY DEF Init, Register!Init
  <1>2. IInv /\ [Next]_vars => [Register!Next]_<<result, Answers>>
    BY RegisterStep
  <1>3. QED
    BY <1>1, <1>2, InductiveInvariant, PTL
    DEF Spec, ImplementsWriteOnce, Register!Spec, Answers

-----------------------------------------------------------------------------
\* Attempts the server has given up on that may still acquire the lease and call.
Zombies == {a \in Attempts : pc[a] = "acquire" /\ ~(activity = "running" /\ a = cur)}

\* The attempt the server waits for has called, and nothing has gone wrong since.
Calling == activity = "running" /\ cur \in Attempts /\ pc[cur] \in {"invoke", "complete"}

\* It holds the lease, and its activity timeout comes first.
CallingInv ==
    Calling => /\ status = "in_progress" /\ token = cur /\ rowReq = req[cur]
               /\ leaseLeft > left[cur]

\* Whoever has drawn the lease has left the acquisition, and a success was reported.
PlaceInv ==
    /\ status = "in_progress" => pc[token] \notin {"idle", "acquire"}
    /\ activity = "running" => cur \in Attempts
    /\ activity = "succeeded" => cur \in Attempts /\ pc[cur] = "returned"

\* Every call is paid by a fault, but for one that is still under way or was stored;
\* the fault that made a zombie pays for the call it may yet make.
Excused == IF Calling \/ status = "completed" THEN 1 ELSE 0

ChargedInv == calls + Cardinality(Zombies) <= faults + Excused

BInv == IInv /\ CallingInv /\ PlaceInv

\* Nothing has happened yet.
LEMMA InitBInv == Init => BInv /\ ChargedInv
  <1> SUFFICES ASSUME Init PROVE BInv /\ ChargedInv
    OBVIOUS
  <1>1. BInv
    BY InitIInv DEF Init, BInv, CallingInv, Calling, PlaceInv
  <1>2. Zombies = {}
    BY DEF Init, Zombies
  <1>3. QED
    BY <1>1, <1>2, FS_EmptySet DEF Init, ChargedInv, Excused, Calling

\* While the attempt the server waits for is calling, nobody takes its lease or stores.
LEMMA CallerAlone ==
  ASSUME BInv, Calling, NEW a \in Attempts
  PROVE  ~CanLease(a) /\ (a # cur => ~HoldsLease(a)) /\ HoldsLease(cur)
  BY LeaseAssumption
  DEF BInv, IInv, TypeOK, CallingInv, Calling, CanLease, LeaseExpired, HoldsLease, SameRequest

\* A step of one attempt that takes it neither to nor from a call, or that makes it fail,
\* and leaves a lease somebody else holds.
LEMMA AttemptBInv ==
  ASSUME BInv, IInv', NEW a \in Attempts, pc[a] \notin {"idle", "returned"},
         NEW step \in Steps \ {"idle", "acquire"}, pc' = [pc EXCEPT ![a] = step],
         UNCHANGED <<cur, activity, req, left>>,
         a = cur /\ step \in {"invoke", "complete"} /\ activity = "running" =>
             status' = "in_progress" /\ token' = a /\ rowReq' = req[a] /\ leaseLeft' > left[a],
         a # cur => UNCHANGED <<status, token, rowReq, leaseLeft>> \/ ~Calling,
         status' = "in_progress" => token' = a \/ (status = "in_progress" /\ token' = token)
  PROVE  CallingInv' /\ PlaceInv'
  <1>0. pc \in [Attempts -> Steps] /\ token' \in Attempts \cup {None}
    BY DEF BInv, IInv, TypeOK
  <1>1. CallingInv'
    BY <1>0 DEF BInv, CallingInv, Calling
  <1>2. status' = "in_progress" => token' \in Attempts
    BY DEF IInv, RowInv
  <1>3. PlaceInv'
    BY <1>0, <1>2 DEF BInv, PlaceInv
  <1>4. QED
    BY <1>1, <1>3

\* Whoever acquires, nobody else holds the lease, or the caller keeps it.
LEMMA AcquireBInv ==
  ASSUME BInv, IInv', NEW a \in Attempts,
         \/ AcquireGranted(a) \/ AcquireCached(a) \/ AcquireBusy(a)
         \/ AcquireMismatch(a) \/ AcquireError(a)
  PROVE  CallingInv' /\ PlaceInv'
  <1> USE DEF Goto, server
  <1>0. IInv /\ left[a] \in 0 .. Timeout
    BY DEF BInv, IInv, TypeOK
  <1>1. ASSUME TakeLease(a), pc[a] = "acquire"
        PROVE  /\ ~Calling /\ status' = "in_progress" /\ token' = a /\ rowReq' = req[a]
               /\ leaseLeft' > left[a]
    BY <1>0, <1>1, CallerAlone, TakeLeaseRow, LeaseAssumption DEF TakeLease
  <1>2. CASE AcquireGranted(a)
    BY <1>1, <1>2, AttemptBInv DEF AcquireGranted, Steps
  <1>3. CASE AcquireCached(a)
    BY <1>3, AttemptBInv DEF AcquireCached, row, Steps
  <1>4. CASE AcquireBusy(a)
    BY <1>4, AttemptBInv DEF AcquireBusy, row, Steps
  <1>5. CASE AcquireMismatch(a)
    BY <1>5, AttemptBInv DEF AcquireMismatch, row, Steps
  <1>6. CASE AcquireError(a)
    BY <1>1, <1>6, AttemptBInv DEF AcquireError, row, Steps
  <1>7. QED
    BY <1>2, <1>3, <1>4, <1>5, <1>6

\* The caller keeps its lease through the call and until it stores; others keep off it.
LEMMA CallBInv ==
  ASSUME BInv, IInv', NEW a \in Attempts,
         \/ \E text \in Texts : InvokeAnswers(a, text)
         \/ InvokeFails(a) \/ CompleteCommits(a) \/ CompleteRejected(a) \/ CompleteError(a)
         \/ Release(a) \/ ReleaseError(a) \/ Crash(a)
  PROVE  CallingInv' /\ PlaceInv'
  <1> USE DEF Goto, server
  <1>1. ASSUME NEW text \in Texts, InvokeAnswers(a, text)
        PROVE  CallingInv' /\ PlaceInv'
    <2>1. a = cur /\ activity = "running" => Calling
      BY <1>1 DEF InvokeAnswers, Calling
    <2>2. QED
      BY <1>1, <2>1, AttemptBInv DEF InvokeAnswers, row, Steps, BInv, CallingInv
  <1>2. CASE InvokeFails(a)
    BY <1>2, AttemptBInv DEF InvokeFails, row, Steps
  <1>3. ASSUME StoreResult(a)
        PROVE  (a # cur => ~Calling) /\ status' = "completed"
    BY <1>3, CallerAlone DEF StoreResult
  <1>4. CASE CompleteCommits(a)
    BY <1>3, <1>4, AttemptBInv DEF CompleteCommits, row, Steps
  <1>5. CASE CompleteRejected(a)
    BY <1>5, AttemptBInv DEF CompleteRejected, row, Steps
  <1>6. CASE CompleteError(a)
    BY <1>3, <1>6, AttemptBInv DEF CompleteError, row, Steps
  <1>7. CASE Release(a)
    <2>1. a # cur /\ Calling => leaseLeft' = leaseLeft
      BY <1>7, CallerAlone DEF Release
    <2>2. QED
      BY <1>7, <2>1, AttemptBInv DEF Release, Steps
  <1>8. CASE ReleaseError(a)
    BY <1>8, AttemptBInv DEF ReleaseError, row, Steps
  <1>9. CASE Crash(a)
    BY <1>9, AttemptBInv DEF Crash, row, Steps
  <1>10. QED
    BY <1>1, <1>2, <1>4, <1>5, <1>6, <1>7, <1>8, <1>9

\* The server takes a caller for lost before it lets its lease be waited out.
LEMMA ServerBInv ==
  ASSUME BInv, IInv',
         \/ \E a \in Attempts : Report(a) \/ AttemptTimeout(a)
         \/ \E q \in Requests : Dispatch(q)
         \/ Tick
  PROVE  CallingInv' /\ PlaceInv'
  <1>0. TypeOK /\ RowInv /\ CallingInv /\ PlaceInv
    BY DEF BInv, IInv
  <1>1. ASSUME NEW a \in Attempts, ReportSuccess(a) \/ ReportFailure(a) \/ AttemptTimeout(a)
        PROVE  CallingInv' /\ PlaceInv'
    <2>1. activity' # "running" /\ UNCHANGED <<pc, status, token, cur>>
      BY <1>1 DEF ReportSuccess, ReportFailure, AttemptTimeout, Unsuccessful, row, worker
    <2>2. activity' = "succeeded" => cur \in Attempts /\ pc[cur] = "returned"
      BY <1>1 DEF ReportSuccess, ReportFailure, AttemptTimeout, Unsuccessful
    <2>3. QED
      BY <1>0, <2>1, <2>2 DEF CallingInv, Calling, PlaceInv
  <1>2. ASSUME NEW q \in Requests, Dispatch(q)
        PROVE  CallingInv' /\ PlaceInv'
    <2>1. cur + 1 \in Attempts /\ cur' = cur + 1 /\ activity' = "running"
          /\ pc' = [pc EXCEPT ![cur + 1] = "acquire"] /\ UNCHANGED <<status, token>>
      BY <1>0, <1>2, LeaseAssumption DEF Dispatch, row, TypeOK, Attempts
    <2>2. pc'[cur'] = "acquire"
      BY <1>0, <2>1 DEF TypeOK
    <2>3. pc[cur + 1] = "idle"
      BY <1>0, <2>1 DEF BInv, IInv, DispatchInv, TypeOK
    <2>4. status = "in_progress" => token \in Attempts /\ token # cur + 1
      BY <1>0, <2>3 DEF RowInv, PlaceInv
    <2>5. QED
      BY <1>0, <2>1, <2>2, <2>4 DEF CallingInv, Calling, PlaceInv, TypeOK
  <1>3. CASE Tick
    <2>1. PlaceInv'
      BY <1>0, <1>3 DEF Tick, PlaceInv
    <2>2. ASSUME Calling'
          PROVE  leaseLeft' > left'[cur']
      <3>1. Calling /\ cur \in Attempts /\ activity = "running" /\ cur' = cur
        BY <1>3, <2>2 DEF Tick, Calling
      <3>2. leaseLeft > left[cur] /\ left[cur] > 0
        BY <1>0, <1>3, <3>1 DEF CallingInv, Tick
      <3>3. leaseLeft \in Nat /\ left[cur] \in Nat
        BY <1>0, <3>1, LeaseAssumption DEF TypeOK
      <3>4. left'[cur] = Elapse(left[cur]) /\ leaseLeft' = Elapse(leaseLeft)
        BY <1>3, <3>1 DEF Tick
      <3>5. QED
        BY <3>1, <3>2, <3>3, <3>4 DEF Elapse
    <2>3. CallingInv'
      BY <1>0, <1>3, <2>2 DEF Tick, CallingInv, Calling
    <2>4. QED
      BY <2>1, <2>3
  <1>4. QED
    BY <1>1, <1>2, <1>3 DEF Report

\* Every step keeps what callers hold.
LEMMA StepBInv == BInv /\ [Next]_vars => BInv'
  <1> SUFFICES ASSUME BInv, [Next]_vars
               PROVE  BInv'
    OBVIOUS
  <1>1. IInv'
    BY StepIInv DEF BInv
  <1>2. CASE UNCHANGED vars
    <2>1. CallingInv' /\ PlaceInv'
      BY <1>2 DEF vars, row, worker, server, BInv, CallingInv, Calling, PlaceInv
    <2>2. QED
      BY <1>1, <2>1 DEF BInv
  <1>3. CASE Next
    <2>1. ASSUME NEW a \in Attempts, Work(a) \/ Failure(a)
          PROVE  CallingInv' /\ PlaceInv'
      BY <1>1, <2>1, AcquireBInv, CallBInv DEF Work, Failure
    <2>2. CallingInv' /\ PlaceInv'
      BY <1>1, <1>3, <2>1, ServerBInv DEF Next
    <2>3. QED
      BY <1>1, <2>2 DEF BInv
  <1>4. QED
    BY <1>2, <1>3

-----------------------------------------------------------------------------
\* The zombies are counted.
LEMMA ZombiesCounted ==
  ASSUME NEW S \in SUBSET Attempts, NEW T \in SUBSET Attempts, NEW a
  PROVE  /\ Cardinality(S) \in Nat /\ Cardinality(T) \in Nat
         /\ T \subseteq S => Cardinality(T) <= Cardinality(S)
         /\ T \subseteq S \cup {a} => Cardinality(T) <= Cardinality(S) + 1
         /\ a \in S /\ T \subseteq S \ {a} => Cardinality(T) <= Cardinality(S) - 1
  <1>1. IsFiniteSet(Attempts)
    BY LeaseAssumption, FS_Interval DEF Attempts
  <1>2. IsFiniteSet(S) /\ IsFiniteSet(T)
    BY <1>1, FS_Subset
  <1>3. Cardinality(S) \in Nat /\ Cardinality(T) \in Nat
    BY <1>2, FS_CardinalityType
  <1>4. T \subseteq S => Cardinality(T) <= Cardinality(S)
    BY <1>2, FS_Subset
  <1>5. ASSUME T \subseteq S \cup {a}
        PROVE  Cardinality(T) <= Cardinality(S) + 1
    <2> DEFINE n == Cardinality(S)
               m == Cardinality(S \cup {a})
    <2>0. IsFiniteSet(S \cup {a}) /\ m = IF a \in S THEN n ELSE n + 1
      BY <1>2, FS_AddElement, Zenon
    <2>1. IsFiniteSet(S \cup {a}) /\ m <= n + 1
      <3> n \in Nat
        BY <1>3
      <3> HIDE DEF m, n
      <3>1. QED
        BY <2>0
    <2>2. Cardinality(T) <= Cardinality(S \cup {a})
      BY <1>5, <2>1, FS_Subset
    <2>3. Cardinality(S \cup {a}) \in Nat
      BY <2>1, FS_CardinalityType
    <2>4. QED
      BY <1>3, <2>1, <2>2, <2>3
  <1>6. ASSUME a \in S, T \subseteq S \ {a}
        PROVE  Cardinality(T) <= Cardinality(S) - 1
    <2>1. IsFiniteSet(S \ {a}) /\ Cardinality(S \ {a}) = Cardinality(S) - 1
      BY <1>2, <1>6, FS_RemoveElement
    <2>2. QED
      BY <1>6, <2>1, FS_Subset
  <1>7. QED
    BY <1>3, <1>4, <1>5, <1>6

\* The three ways to keep the account: nothing is charged; a fault happens; a zombie's
\* call, which its fault has paid, is made.
LEMMA Account ==
  ASSUME TypeOK, TypeOK', ChargedInv, NEW a \in Attempts,
         \/ /\ calls' = calls /\ faults' \in {faults, faults + 1} /\ Excused' >= Excused
            /\ Zombies' \subseteq Zombies
         \/ /\ calls' = calls /\ faults' = faults + 1 /\ Zombies' \subseteq Zombies
         \/ /\ calls' = calls /\ faults' = faults + 1 /\ Excused' >= Excused
            /\ Zombies' \subseteq Zombies \cup {a}
         \/ /\ calls' = calls + 1 /\ faults' = faults /\ Excused = 0
            /\ \/ Excused' = 1 /\ Zombies' \subseteq Zombies
               \/ a \in Zombies /\ Zombies' \subseteq Zombies \ {a}
  PROVE  ChargedInv'
  <1> DEFINE z == Cardinality(Zombies)
             y == Cardinality(Zombies')
  <1>1. Zombies \in SUBSET Attempts /\ Zombies' \in SUBSET Attempts
    BY DEF Zombies
  <1>2. /\ z \in Nat /\ y \in Nat
        /\ Zombies' \subseteq Zombies => y <= z
        /\ Zombies' \subseteq Zombies \cup {a} => y <= z + 1
        /\ a \in Zombies /\ Zombies' \subseteq Zombies \ {a} => y <= z - 1
    BY <1>1, ZombiesCounted
  <1>3. Excused \in 0 .. 1 /\ Excused' \in 0 .. 1
    BY DEF Excused
  <1>4. calls + z <= faults + Excused /\ calls \in Nat /\ faults \in Nat
    BY DEF ChargedInv, TypeOK
  <1>5. calls' + y <= faults' + Excused'
    <2> HIDE DEF z, y
    <2>1. QED
      BY <1>2, <1>3, <1>4
  <1>6. QED
    BY <1>5 DEF ChargedInv

\* A step of one attempt out of where it stands.
LEMMA ZombiesLeft ==
  ASSUME TypeOK, NEW a \in Attempts, NEW step \in Steps \ {"acquire"},
         pc' = [pc EXCEPT ![a] = step], UNCHANGED <<cur, activity>>
  PROVE  Zombies' \subseteq Zombies \ {a}
  BY DEF TypeOK, Zombies

\* A granted lease is a call that somebody has paid for, or the one that is free.
LEMMA AttemptCharged ==
  ASSUME BInv, TypeOK', ChargedInv, NEW a \in Attempts, Work(a) \/ Failure(a)
  PROVE  ChargedInv'
  <1> USE DEF Goto, server
  <1>0. TypeOK /\ IInv
    BY DEF BInv, IInv
  <1>1. CASE Failure(a)
    <2>1. PICK step \in Steps \ {"acquire"} :
            pc' = [pc EXCEPT ![a] = step] /\ UNCHANGED <<cur, activity>>
      BY <1>1 DEF Failure, AcquireError, InvokeFails, CompleteError, ReleaseError, Crash, Steps
    <2>2. calls' = calls /\ faults' = faults + 1
      BY <1>1 DEF Failure, AcquireError, InvokeFails, CompleteError, ReleaseError, Crash, Fault
    <2>3. QED
      BY <1>0, <2>1, <2>2, ZombiesLeft, Account
  <1>2. CASE AcquireGranted(a)
    <2>1. pc[a] = "acquire" /\ pc' = [pc EXCEPT ![a] = "invoke"]
          /\ UNCHANGED <<cur, activity, faults>> /\ calls' = calls + 1
      BY <1>2 DEF AcquireGranted
    <2>2. Excused = 0
      BY <1>2, CallerAlone DEF AcquireGranted, TakeLease, CanLease, Excused
    <2>3. Zombies' \subseteq Zombies \ {a}
      BY <1>0, <2>1, ZombiesLeft DEF Steps
    <2>4. CASE activity = "running" /\ a = cur
      <3>1. Calling'
        BY <1>0, <2>1, <2>4 DEF Calling, TypeOK
      <3>2. QED
        BY <1>0, <2>1, <2>2, <2>3, <3>1, Account DEF Excused
    <2>5. CASE ~(activity = "running" /\ a = cur)
      <3>1. a \in Zombies
        BY <2>1, <2>5 DEF Zombies
      <3>2. QED
        BY <1>0, <2>1, <2>2, <2>3, <3>1, Account
    <2>6. QED
      BY <2>4, <2>5
  <1>3. ASSUME NEW step \in Steps \ {"acquire"}, pc' = [pc EXCEPT ![a] = step],
               UNCHANGED <<cur, activity, calls, faults>>,
               \/ status' = status
                  /\ (pc[a] \notin {"invoke", "complete"} \/ step = "complete"
                      \/ ~(activity = "running" /\ a = cur))
               \/ status' = "completed"
        PROVE  ChargedInv'
    <2>1. Excused' >= Excused
      BY <1>0, <1>3 DEF Excused, Calling, TypeOK
    <2>2. Zombies' \subseteq Zombies
      BY <1>0, <1>3, ZombiesLeft
    <2>3. QED
      BY <1>0, <1>3, <2>1, <2>2, Account
  <1>4. CASE AcquireCached(a) \/ AcquireBusy(a) \/ AcquireMismatch(a)
    BY <1>3, <1>4 DEF AcquireCached, AcquireBusy, AcquireMismatch, row, Steps
  <1>5. ASSUME NEW text \in Texts, InvokeAnswers(a, text)
        PROVE  ChargedInv'
    BY <1>3, <1>5 DEF InvokeAnswers, row, Steps
  <1>6. CASE CompleteCommits(a)
    BY <1>3, <1>6 DEF CompleteCommits, StoreResult, AlreadyStored, row, Steps
  <1>7. CASE CompleteRejected(a)
    <2>1. ~(activity = "running" /\ a = cur)
      BY <1>7, CallerAlone DEF CompleteRejected, Calling
    <2>2. QED
      BY <1>3, <1>7, <2>1 DEF CompleteRejected, row, Steps
  <1>8. CASE Release(a)
    BY <1>3, <1>8 DEF Release, Steps
  <1>9. QED
    BY <1>1, <1>2, <1>4, <1>5, <1>6, <1>7, <1>8 DEF Work

\* What the server gives up on has paid for the call it may yet make.
LEMMA ServerCharged ==
  ASSUME BInv, TypeOK', ChargedInv,
         \/ \E a \in Attempts : Report(a) \/ AttemptTimeout(a)
         \/ \E q \in Requests : Dispatch(q)
         \/ Tick
  PROVE  ChargedInv'
  <1>0. TypeOK /\ IInv
    BY DEF BInv, IInv
  <1>1. ASSUME NEW a \in Attempts, Report(a)
        PROVE  ChargedInv'
    <2>1. a = cur /\ pc[a] \in {"returned", "failed"}
          /\ UNCHANGED <<pc, cur, status, calls, faults>>
      BY <1>1 DEF Report, ReportSuccess, ReportFailure, row, worker
    <2>2. Zombies' \subseteq Zombies /\ Excused' >= Excused
      BY <2>1 DEF Zombies, Excused, Calling
    <2>3. QED
      BY <1>0, <2>1, <2>2, Account
  <1>2. ASSUME NEW a \in Attempts, AttemptTimeout(a)
        PROVE  ChargedInv'
    <2>1. a = cur /\ activity' # "running" /\ UNCHANGED <<pc, cur, status, calls>>
      BY <1>2 DEF AttemptTimeout, row, worker
    <2>2. /\ Zombies' \subseteq Zombies \cup {a}
          /\ pc[a] # "acquire" => Zombies' \subseteq Zombies
      BY <2>1 DEF Zombies
    <2>3. pc[a] \notin {"invoke", "complete"} => Excused' >= Excused
      BY <2>1 DEF Excused, Calling
    <2>4. IF pc[a] = "dead" THEN faults' = faults ELSE faults' = faults + 1
      BY <1>2 DEF AttemptTimeout, Fault
    <2>5. CASE pc[a] = "acquire"
      BY <1>0, <2>1, <2>2, <2>3, <2>4, <2>5, Account
    <2>6. CASE pc[a] = "dead"
      BY <1>0, <2>1, <2>2, <2>3, <2>4, <2>6, Account
    <2>7. CASE pc[a] \notin {"acquire", "dead"}
      BY <1>0, <2>1, <2>2, <2>4, <2>7, Account
    <2>8. QED
      BY <2>5, <2>6, <2>7
  <1>3. ASSUME NEW q \in Requests, Dispatch(q)
        PROVE  ChargedInv'
    <2>1. /\ cur + 1 \in Attempts /\ cur' = cur + 1 /\ activity = "backoff"
          /\ activity' = "running" /\ pc' = [pc EXCEPT ![cur + 1] = "acquire"]
          /\ UNCHANGED <<status, calls>> /\ faults' \in {faults, faults + 1}
      BY <1>0, <1>3, LeaseAssumption DEF Dispatch, Fault, row, TypeOK, Attempts
    <2>2. Zombies' \subseteq Zombies
      BY <1>0, <2>1 DEF Zombies, TypeOK
    <2>3. Excused' >= Excused
      BY <2>1 DEF Excused, Calling
    <2>4. QED
      BY <1>0, <2>1, <2>2, <2>3, Account
  <1>4. CASE Tick
    <2>1. UNCHANGED <<Zombies, Excused, calls, faults>>
      BY <1>4 DEF Tick, Zombies, Excused, Calling
    <2>2. QED
      BY <2>1 DEF ChargedInv
  <1>5. QED
    BY <1>1, <1>2, <1>3, <1>4

\* Every step keeps the account.
LEMMA StepCharged == BInv /\ ChargedInv /\ [Next]_vars => ChargedInv'
  <1> SUFFICES ASSUME BInv, ChargedInv, [Next]_vars
               PROVE  ChargedInv'
    OBVIOUS
  <1>1. TypeOK'
    BY StepBInv DEF BInv, IInv
  <1>2. CASE UNCHANGED vars
    BY <1>2 DEF vars, row, worker, server, ChargedInv, Zombies, Excused, Calling
  <1>3. CASE Next
    BY <1>1, <1>3, AttemptCharged, ServerCharged DEF Next
  <1>4. QED
    BY <1>2, <1>3

\* The account is in order throughout.
LEMMA ChargedInvariant == Spec => [](BInv /\ ChargedInv)
  BY InitBInv, StepBInv, StepCharged, PTL DEF Spec

\* The provider is billed once, and once more for a fault at most, with any number of
\* attempts, zombies and lapsed leases.
THEOREM CallsAccountedHolds == Spec => []CallsAccounted
  <1>1. BInv /\ ChargedInv => CallsAccounted
    <2> SUFFICES ASSUME BInv, ChargedInv
                 PROVE  CallsAccounted
      OBVIOUS
    <2>1. Zombies \in SUBSET Attempts
      BY DEF Zombies
    <2>2. Cardinality(Zombies) \in Nat
      BY <2>1, ZombiesCounted
    <2>3. Excused \in 0 .. 1 /\ calls \in Nat /\ faults \in Nat
      BY DEF Excused, BInv, IInv, TypeOK
    <2>4. QED
      BY <2>2, <2>3 DEF ChargedInv, CallsAccounted
  <1>2. QED
    BY <1>1, ChargedInvariant, PTL

-----------------------------------------------------------------------------
\* The places of an attempt that met no fault and no lease.
Well == {"acquire", "invoke", "complete", "returned"}

\* The first attempt has drawn the lease, and it is over after the delay.
WaitedOut(delay) == pc[1] # "acquire" /\ status # "absent" /\ delay >= leaseLeft

SameRequests ==
    /\ \A a \in Attempts : a <= cur => req[a] = req[1]
    /\ status # "absent" => rowReq = req[1]

\* Without a fault the first attempt succeeds.
NoFault ==
    /\ cur <= 1
    /\ cur = 1 => /\ activity \in {"running", "succeeded"}
                  /\ pc[1] \in Well
                  /\ pc[1] = "acquire" => status = "absent"

\* With one fault the second attempt may meet a lease, and nothing else.
SecondAttempt ==
    cur = 2 => /\ pc[2] \in Well \cup {"failed"}
               /\ activity = "running" /\ pc[2] = "failed" => WaitedOut(hint[2])
               /\ activity = "backoff" => pc[2] = "failed" /\ WaitedOut(retryIn)

\* The third attempt comes when that lease is over.
ThirdAttempt ==
    cur = 3 => /\ activity \in {"running", "succeeded"}
               /\ pc[2] = "failed" /\ pc[1] # "acquire"
               /\ pc[3] \in Well
               /\ pc[3] = "acquire" => leaseLeft = 0 /\ status # "absent"

Survival ==
    /\ cur <= 3 /\ activity # "exhausted"
    /\ cur = 0 => status = "absent"
    /\ SameRequests
    /\ faults = 0 => NoFault
    /\ SecondAttempt /\ ThirdAttempt

SurvivalInv == faults <= 1 /\ fatal = {} => Survival

\* Only a dispatched attempt acts, and of those there are three.
LEMMA Dispatched ==
  ASSUME BInv, Survival, MaxAttempts >= 3, NEW a \in Attempts, pc[a] # "idle"
  PROVE  /\ a \in 1 .. 3 /\ a <= cur /\ cur \in 1 .. 3 /\ req[a] = req[1]
         /\ {1, 2, 3} \subseteq Attempts
  BY LeaseAssumption DEF BInv, IInv, TypeOK, DispatchInv, Survival, SameRequests, Attempts

\* A step of one attempt that meets neither a fault nor a lease.
LEMMA WellStep ==
  ASSUME BInv, Survival, MaxAttempts >= 3, NEW a \in Attempts, pc[a] \in Well,
         NEW step \in {"invoke", "complete", "returned"}, pc' = [pc EXCEPT ![a] = step],
         UNCHANGED <<cur, activity, req, faults, hint, retryIn>>,
         status # "absent" => status' # "absent",
         status' # "absent" => rowReq' = req[1],
         pc[a] = "acquire" \/ leaseLeft' = leaseLeft \/ leaseLeft' = 0
  PROVE  Survival'
  <1>0. pc \in [Attempts -> Steps] /\ leaseLeft \in Nat /\ hint \in [Attempts -> Nat]
        /\ retryIn \in Nat
    BY LeaseAssumption DEF BInv, IInv, TypeOK
  <1>1. a \in 1 .. 3 /\ a <= cur /\ cur \in 1 .. 3 /\ {1, 2, 3} \subseteq Attempts
    BY Dispatched DEF Well
  <1>2. SameRequests'
    BY DEF Survival, SameRequests
  <1>3. faults' = 0 => NoFault'
    BY <1>0, <1>1 DEF Survival, NoFault, Well
  <1>4. SecondAttempt'
    BY <1>0, <1>1 DEF Survival, SecondAttempt, WaitedOut, Well
  <1>5. ThirdAttempt'
    BY <1>0, <1>1 DEF Survival, ThirdAttempt, Well
  <1>6. QED
    BY <1>1, <1>2, <1>3, <1>4, <1>5 DEF Survival

\* Without another fault every attempt goes on, but a second one that meets a lease.
LEMMA WorkSurvives ==
  ASSUME BInv, Survival, MaxAttempts >= 3, NEW a \in Attempts, Work(a)
  PROVE  Survival'
  <1> USE DEF Goto, server
  <1>0. TypeOK /\ RowInv /\ PlaceInv /\ IInv
    BY DEF BInv, IInv
  <1>1. a \in 1 .. 3 /\ a <= cur /\ cur \in 1 .. 3 /\ req[a] = req[1]
        /\ {1, 2, 3} \subseteq Attempts
    <2>1. pc[a] # "idle"
      BY DEF Work, AcquireGranted, AcquireCached, AcquireBusy, AcquireMismatch,
             InvokeAnswers, CompleteCommits, CompleteRejected, Release
    <2>2. QED
      BY <2>1, Dispatched
  <1>2. CASE AcquireGranted(a)
    <2>1. status' = "in_progress" /\ rowReq' = req[1]
      BY <1>1, <1>2 DEF AcquireGranted, TakeLease
    <2>2. QED
      BY <1>2, <2>1, WellStep DEF AcquireGranted, Well
  <1>3. CASE AcquireCached(a)
    BY <1>3, WellStep DEF AcquireCached, row, Well, Survival, SameRequests
  <1>4. CASE AcquireBusy(a)
    <2>1. /\ pc[a] = "acquire" /\ pc' = [pc EXCEPT ![a] = "failed"]
          /\ hint' = [hint EXCEPT ![a] = leaseLeft + Buffer]
          /\ UNCHANGED <<cur, activity, req, faults, retryIn, status, rowReq, leaseLeft>>
          /\ status = "in_progress" /\ leaseLeft # 0
      BY <1>4 DEF AcquireBusy, LeaseExpired, row
    <2>2. leaseLeft \in Nat /\ leaseLeft + Buffer >= leaseLeft
      BY <1>0, LeaseAssumption DEF TypeOK
    <2>3. pc \in [Attempts -> Steps] /\ hint \in [Attempts -> 0 .. Lease + Buffer]
      BY <1>0 DEF TypeOK
    <2>4. a # 3 \/ cur # 3
      BY <2>1 DEF Survival, ThirdAttempt
    <2>5. faults # 0
      BY <1>1, <2>1 DEF Survival, NoFault
    <2>6. cur = 2 /\ a = 2 => pc[1] # "acquire"
      <3>1. token \in Attempts /\ pc[token] \notin {"idle", "acquire"}
        BY <1>0, <2>1 DEF RowInv, PlaceInv
      <3>2. token <= cur /\ token # a
        BY <1>0, <2>1, <3>1, Dispatched
      <3>3. token \in Nat /\ token >= 1
        BY <3>1, LeaseAssumption DEF Attempts
      <3>4. QED
        BY <3>1, <3>2, <3>3
    <2>7. SecondAttempt'
      <3>1. CASE a = 2
        BY <1>1, <2>1, <2>2, <2>3, <2>6, <3>1 DEF Survival, SecondAttempt, WaitedOut
      <3>2. CASE a # 2
        BY <1>1, <2>1, <2>3, <3>2 DEF Survival, SecondAttempt, WaitedOut
      <3>3. QED
        BY <3>1, <3>2
    <2>8. ThirdAttempt'
      BY <1>1, <2>1, <2>3, <2>4 DEF Survival, ThirdAttempt
    <2>9. QED
      BY <1>1, <2>1, <2>5, <2>7, <2>8 DEF Survival, SameRequests
  <1>5. CASE AcquireMismatch(a)
    BY <1>1, <1>5 DEF AcquireMismatch, SameRequest, Survival, SameRequests
  <1>6. ASSUME NEW text \in Texts, InvokeAnswers(a, text)
        PROVE  Survival'
    BY <1>6, WellStep DEF InvokeAnswers, row, Well, Survival, SameRequests
  <1>7. CASE CompleteCommits(a)
    <2>1. status # "absent" /\ status' # "absent" /\ rowReq' = rowReq
          /\ (leaseLeft' = leaseLeft \/ leaseLeft' = 0)
      BY <1>7 DEF CompleteCommits, StoreResult, HoldsLease, AlreadyStored, row
    <2>2. QED
      BY <1>7, <2>1, WellStep DEF CompleteCommits, Well, Survival, SameRequests
  <1>8. ASSUME pc[a] \in {"complete", "release"},
               pc[a] = "complete" => ~(a = cur /\ activity = "running"),
               NEW step \in {"release", "failed"}, pc' = [pc EXCEPT ![a] = step],
               UNCHANGED <<cur, activity, req, faults, hint, retryIn, status, rowReq>>,
               leaseLeft' = leaseLeft \/ leaseLeft' = 0
        PROVE  Survival'
    <2>1. pc \in [Attempts -> Steps] /\ leaseLeft \in Nat /\ hint \in [Attempts -> Nat]
          /\ retryIn \in Nat /\ activity \in {"backoff", "running", "succeeded", "exhausted"}
      BY <1>0, LeaseAssumption DEF TypeOK
    <2>2. a = cur => activity # "succeeded"
      BY <1>0, <1>8 DEF PlaceInv
    <2>3. faults # 0 /\ a = 1
      BY <1>1, <1>8, <2>1, <2>2 DEF Survival, NoFault, SecondAttempt, ThirdAttempt, Well
    <2>4. SecondAttempt' /\ ThirdAttempt'
      BY <1>1, <1>8, <2>1, <2>3 DEF Survival, SecondAttempt, ThirdAttempt, WaitedOut
    <2>5. QED
      BY <1>1, <1>8, <2>3, <2>4 DEF Survival, SameRequests
  <1>9. CASE CompleteRejected(a)
    <2>1. ~(a = cur /\ activity = "running")
      BY <1>9, CallerAlone DEF CompleteRejected, Calling
    <2>2. QED
      BY <1>8, <1>9, <2>1 DEF CompleteRejected, row
  <1>10. CASE Release(a)
    BY <1>8, <1>10 DEF Release
  <1>11. QED
    BY <1>2, <1>3, <1>4, <1>5, <1>6, <1>7, <1>9, <1>10 DEF Work

\* The one fault hits the first attempt.
LEMMA FailureSurvives ==
  ASSUME BInv, Survival, MaxAttempts >= 3, NEW a \in Attempts, Failure(a), faults' <= 1
  PROVE  Survival'
  <1> USE DEF Goto, Fault, server
  <1>1. pc[a] # "idle" /\ faults' = faults + 1 /\ UNCHANGED <<cur, activity, req>>
    BY DEF Failure, AcquireError, InvokeFails, CompleteError, ReleaseError, Crash
  <1>2. faults = 0 /\ faults' = 1
    BY <1>1 DEF BInv, IInv, TypeOK
  <1>3. cur = 1 /\ req[a] = req[1]
    BY <1>1, <1>2, Dispatched DEF Survival, NoFault
  <1>4. TakeLease(a) \/ StoreResult(a) \/ UNCHANGED <<status, rowReq>>
    BY DEF Failure, AcquireError, InvokeFails, CompleteError, ReleaseError, Crash, row
  <1>5. SameRequests'
    BY <1>1, <1>3, <1>4
    DEF TakeLease, StoreResult, HoldsLease, Survival, SameRequests
  <1>6. QED
    BY <1>1, <1>2, <1>3, <1>5 DEF Survival, SecondAttempt, ThirdAttempt

\* The server gives up on the first attempt, or records how one ended.
LEMMA ReportSurvives ==
  ASSUME BInv, Survival, MaxAttempts >= 3, NEW a \in Attempts,
         Report(a) \/ AttemptTimeout(a), faults' <= 1, fatal = {}
  PROVE  Survival'
  <1>0. TypeOK /\ cur \in Nat /\ cur <= 3 /\ {1, 2, 3} \subseteq Attempts
    BY LeaseAssumption DEF BInv, IInv, TypeOK, Survival, Attempts
  <1>1. CASE ReportSuccess(a)
    <2>1. a = cur /\ pc[a] = "returned" /\ activity' = "succeeded"
          /\ UNCHANGED <<cur, pc, req, faults, status, rowReq, leaseLeft>>
      BY <1>1 DEF ReportSuccess, row, worker
    <2>2. cur = 1 => pc[1] = "returned"
      BY <2>1
    <2>3. QED
      BY <2>1, <2>2
      DEF Survival, SameRequests, NoFault, SecondAttempt, ThirdAttempt, Well
  <1>2. CASE ReportFailure(a)
    <2>1. a = cur /\ pc[a] = "failed" /\ retryIn' = hint[a] /\ activity = "running"
          /\ UNCHANGED <<cur, pc, req, hint, faults, status, rowReq, leaseLeft>>
      BY <1>2 DEF ReportFailure, row, worker
    <2>2. cur # 3 /\ faults # 0
      BY <1>0, <2>1, LeaseAssumption
      DEF Survival, NoFault, ThirdAttempt, Well, Attempts
    <2>3. activity' = "backoff"
      BY <1>0, <1>2, <2>1, <2>2 DEF ReportFailure, Unsuccessful
    <2>4. QED
      BY <2>1, <2>2, <2>3 DEF Survival, SameRequests, SecondAttempt, ThirdAttempt, WaitedOut
  <1>3. CASE AttemptTimeout(a)
    <2>1. a = cur /\ activity = "running"
          /\ UNCHANGED <<cur, pc, req, status, rowReq>>
          /\ IF pc[a] = "dead" THEN faults' = faults ELSE faults' = faults + 1
      BY <1>3 DEF AttemptTimeout, Fault, row, worker
    <2>2. cur \in 1 .. 3
      BY <1>0, <2>1, LeaseAssumption DEF Attempts
    <2>3. cur = 1 /\ faults' # 0
      <3>1. CASE pc[a] = "dead"
        BY <2>1, <2>2, <3>1
        DEF Survival, NoFault, SecondAttempt, ThirdAttempt, Well
      <3>2. CASE pc[a] # "dead"
        BY <1>0, <2>1, <2>2, <3>2 DEF Survival, NoFault, TypeOK
      <3>3. QED
        BY <3>1, <3>2
    <2>4. activity' = "backoff"
      BY <1>3, <2>1, <2>3 DEF AttemptTimeout
    <2>5. QED
      BY <2>1, <2>3, <2>4 DEF Survival, SameRequests, SecondAttempt, ThirdAttempt
  <1>4. QED
    BY <1>1, <1>2, <1>3 DEF Report

\* The next attempt asks what the one before asked; the third finds no lease.
LEMMA DispatchSurvives ==
  ASSUME BInv, Survival, MaxAttempts >= 3, NEW q \in Requests, Dispatch(q), faults' <= 1
  PROVE  Survival'
  <1>0. TypeOK /\ {1, 2, 3} \subseteq Attempts
    BY LeaseAssumption DEF BInv, IInv, TypeOK, Attempts
  <1>1. /\ activity = "backoff" /\ activity' = "running" /\ retryIn = 0
        /\ cur' = cur + 1 /\ cur + 1 \in Attempts
        /\ pc' = [pc EXCEPT ![cur + 1] = "acquire"] /\ req' = [req EXCEPT ![cur + 1] = q]
        /\ UNCHANGED <<status, rowReq, leaseLeft, hint>>
        /\ IF cur \in Attempts /\ q # req[cur] THEN faults' = faults + 1 ELSE faults' = faults
    BY <1>0, LeaseAssumption DEF Dispatch, Fault, row, TypeOK, Attempts
  <1>2. cur \in 0 .. 2 /\ (faults = 0 => cur = 0)
    BY <1>0, <1>1 DEF Survival, NoFault, ThirdAttempt, TypeOK
  <1>3. cur # 0 => q = req[cur] /\ faults' = faults
    BY <1>0, <1>1, <1>2 DEF TypeOK, Attempts
  <1>4. cur = 0 => status = "absent" /\ faults' = faults
    BY <1>1 DEF Survival, Attempts
  <1>5. cur = 2 => leaseLeft = 0 /\ status # "absent" /\ pc[1] # "acquire" /\ pc[2] = "failed"
    BY <1>0, <1>1, LeaseAssumption DEF Survival, SecondAttempt, WaitedOut, TypeOK
  <1>6. SameRequests'
    <2>1. req \in [Attempts -> Requests \cup {None}]
      BY <1>0 DEF TypeOK
    <2>2. cur # 0 => q = req[1]
      BY <1>0, <1>2, <1>3 DEF Survival, SameRequests
    <2>3. cur # 0 => req'[1] = req[1]
      BY <1>0, <1>1, <1>2, <2>1
    <2>4. ASSUME NEW a \in Attempts, a <= cur'
          PROVE  req'[a] = req'[1]
      <3>1. CASE cur = 0
        BY <1>0, <1>1, <2>4, <3>1 DEF Attempts
      <3>2. CASE cur # 0 /\ a = cur + 1
        BY <1>0, <1>1, <2>1, <2>2, <2>3, <3>2
      <3>3. CASE cur # 0 /\ a # cur + 1
        <4>1. a <= cur
          BY <1>1, <1>2, <2>4, <3>3 DEF Attempts
        <4>2. QED
          BY <1>1, <2>1, <2>3, <3>3, <4>1 DEF Survival, SameRequests
      <3>4. QED
        BY <3>1, <3>2, <3>3
    <2>5. status' # "absent" => rowReq' = req'[1]
      BY <1>1, <1>4, <2>3 DEF Survival, SameRequests
    <2>6. QED
      BY <2>4, <2>5 DEF SameRequests
  <1>7. faults' = 0 => NoFault'
    BY <1>0, <1>1, <1>2, <1>3, <1>4 DEF NoFault, Well, TypeOK
  <1>8. SecondAttempt' /\ ThirdAttempt'
    BY <1>0, <1>1, <1>2, <1>5 DEF SecondAttempt, ThirdAttempt, Well, TypeOK
  <1>9. QED
    BY <1>1, <1>2, <1>6, <1>7, <1>8 DEF Survival

\* The delay and the lease run out together.
LEMMA TickSurvives ==
  ASSUME BInv, Survival, Tick
  PROVE  Survival'
  <1>1. leaseLeft \in Nat /\ retryIn \in Nat /\ (2 \in Attempts => hint[2] \in Nat)
    BY LeaseAssumption DEF BInv, IInv, TypeOK
  <1>2. /\ leaseLeft' = Elapse(leaseLeft) /\ retryIn' = Elapse(retryIn)
        /\ UNCHANGED <<status, rowReq, pc, req, hint, cur, activity, faults>>
    BY DEF Tick
  <1>3. /\ leaseLeft' <= leaseLeft /\ (leaseLeft = 0 => leaseLeft' = 0)
        /\ (retryIn >= leaseLeft => retryIn' >= leaseLeft')
        /\ leaseLeft' \in Nat
    BY <1>1, <1>2 DEF Elapse
  <1>4. cur = 2 => 2 \in Attempts
    BY LeaseAssumption DEF BInv, IInv, TypeOK, Attempts
  <1>5. SecondAttempt' /\ ThirdAttempt'
    BY <1>1, <1>2, <1>3, <1>4 DEF Survival, SecondAttempt, ThirdAttempt, WaitedOut
  <1>6. QED
    BY <1>2, <1>5 DEF Survival, SameRequests, NoFault

\* Every step that is not a second fault keeps an attempt in reserve.
LEMMA StepSurvival ==
  ASSUME MaxAttempts >= 3, BInv, SurvivalInv, [Next]_vars
  PROVE  SurvivalInv'
  <1> SUFFICES ASSUME faults' <= 1, fatal' = {}
               PROVE  Survival'
    BY DEF SurvivalInv
  <1>0. faults \in Nat
    BY DEF BInv, IInv, TypeOK
  <1>1. ASSUME NEW a \in Attempts, Work(a)
        PROVE  faults' = faults /\ fatal' = fatal
    BY <1>1 DEF Work, AcquireGranted, AcquireCached, AcquireBusy, AcquireMismatch,
                InvokeAnswers, CompleteCommits, CompleteRejected, Release
  <1>2. ASSUME NEW a \in Attempts, Failure(a)
        PROVE  faults' = faults + 1 /\ fatal \subseteq fatal'
    BY <1>2 DEF Failure, AcquireError, InvokeFails, CompleteError, ReleaseError, Crash, Fault
  <1>3. ASSUME NEW a \in Attempts, Report(a) \/ AttemptTimeout(a)
        PROVE  faults' \in {faults, faults + 1} /\ fatal' = fatal
    BY <1>3 DEF Report, ReportSuccess, ReportFailure, AttemptTimeout, Fault, worker
  <1>4. ASSUME NEW q \in Requests, Dispatch(q)
        PROVE  faults' \in {faults, faults + 1} /\ fatal' = fatal
    BY <1>4 DEF Dispatch, Fault
  <1>5. CASE Tick
    <2>1. Survival
      BY <1>5 DEF Tick, SurvivalInv
    <2>2. QED
      BY <1>5, <2>1, TickSurvives
  <1>6. CASE UNCHANGED vars
    BY <1>6 DEF vars, row, worker, server, SurvivalInv, Survival, SameRequests, NoFault,
                SecondAttempt, ThirdAttempt, WaitedOut
  <1>7. ASSUME NEW a \in Attempts, Work(a)
        PROVE  Survival'
    BY <1>1, <1>7, WorkSurvives DEF SurvivalInv
  <1>8. ASSUME NEW a \in Attempts, Failure(a)
        PROVE  Survival'
    BY <1>0, <1>2, <1>8, FailureSurvives DEF SurvivalInv
  <1>9. ASSUME NEW a \in Attempts, Report(a) \/ AttemptTimeout(a)
        PROVE  Survival'
    BY <1>0, <1>3, <1>9, ReportSurvives DEF SurvivalInv
  <1>10. ASSUME NEW q \in Requests, Dispatch(q)
        PROVE  Survival'
    BY <1>0, <1>4, <1>10, DispatchSurvives DEF SurvivalInv
  <1>11. QED
    BY <1>5, <1>6, <1>7, <1>8, <1>9, <1>10 DEF Next

\* Whenever an activity has three attempts, no single fault fails it: a crash, a timeout,
\* a lost reply or a lease nobody returned.  The busy error's NextRetryDelay is what
\* makes the third attempt enough.
THEOREM SurvivesOneFaultHolds ==
  ASSUME MaxAttempts >= 3
  PROVE  Spec => []SurvivesOneFault
  <1>1. Init => SurvivalInv
    BY DEF Init, SurvivalInv, Survival, SameRequests, NoFault, SecondAttempt, ThirdAttempt,
           Attempts
  <1>2. BInv /\ SurvivalInv /\ [Next]_vars => SurvivalInv'
    BY StepSurvival
  <1>3. BInv /\ SurvivalInv => SurvivesOneFault
    BY DEF BInv, IInv, TypeOK, SurvivalInv, Survival, SurvivesOneFault
  <1>4. QED
    BY InitBInv, StepBInv, <1>1, <1>2, <1>3, PTL DEF Spec
=============================================================================

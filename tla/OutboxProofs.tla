---------------------------- MODULE OutboxProofs ----------------------------
(***************************************************************************)
(* The safety of the outbox for any number of events and dispatchers, any  *)
(* batch size, lease and fault bound the configuration admits.             *)
(***************************************************************************)
EXTENDS Outbox, FiniteSetTheorems, FunctionTheorems, TLAPS

\* A batch exists between a claim and its end; what is in hand belongs to it,
\* and only a publication has a request in flight.
Shape ==
    \A d \in Dispatchers :
        /\ pc[d] \in {"idle", "stats"} => batch[d] = {} /\ d \notin late
        /\ pc[d] \in {"publish", "delivered", "failed"} => current[d] \in batch[d]
        /\ pc[d] # "publish" => requestLeft[d] = 0

\* The events of the batch whose publication has not begun.
Remaining(d) == IF pc[d] = "next" THEN batch[d] ELSE batch[d] \ {current[d]}

\* The time a punctual dispatcher may still take for its batch.
Need(d) == Cardinality(Remaining(d)) * RequestTimeout + requestLeft[d]

\* A dispatcher that did not stall holds its leases longer than it needs them.
BudgetOf(d) ==
    d \notin late =>
        \A e \in batch[d] :
            status[e] = "processing" /\ lock[e] = d /\ lockLeft[e] > Need(d)

Budget == \A d \in Dispatchers : BudgetOf(d)

\* The row's lease is held by a dispatcher that is working on it in time.
Attended(e) == \E d \in Dispatchers : lock[e] = d /\ e \in batch[d] /\ d \notin late

\* An unattended lease was paid for by a fault.
AttemptedOf(e) ==
    /\ status[e] \in {"absent", "pending", "retry"} => attempts[e] < MaxAttempt
    /\ attempts[e] <= MaxAttempt + faults
    /\ status[e] = "processing" /\ ~Attended(e) => attempts[e] < MaxAttempt + faults

Attempted == \A e \in Events : AttemptedOf(e)

\* An event is on its way to "delivered" only if the receiver took it.
Receipt ==
    /\ DeliveredWasReceived
    /\ \A d \in Dispatchers : pc[d] = "delivered" => current[d] \in received

IInv == TypeOK /\ Shape /\ Budget /\ Attempted /\ Receipt

-----------------------------------------------------------------------------
(***************************************************************************)
(* Counting                                                                *)
(***************************************************************************)
LEMMA SubsetsOfEvents ==
    ASSUME NEW S \in SUBSET Events
    PROVE  IsFiniteSet(S) /\ Cardinality(S) \in Nat
  <1>1. IsFiniteSet(Events)
    BY ConfigAssumption, FS_Interval DEF Events
  <1> QED BY <1>1, FS_Subset, FS_CardinalityType

LEMMA Products ==
    /\ \A n \in Nat : n * RequestTimeout \in Nat
    /\ \A n \in Nat : (n + 1) * RequestTimeout = n * RequestTimeout + RequestTimeout
    /\ \A n, m \in Nat : n <= m => n * RequestTimeout <= m * RequestTimeout
  <1>1. RequestTimeout \in Nat BY ConfigAssumption
  <1>2. \A n \in Nat : n * RequestTimeout \in Nat BY <1>1
  <1>3. \A n \in Nat : (n + 1) * RequestTimeout = n * RequestTimeout + RequestTimeout
    BY <1>1
  <1>4. \A n, m \in Nat : n <= m => n * RequestTimeout <= m * RequestTimeout BY <1>1
  <1> QED BY <1>2, <1>3, <1>4

\* The rank of a ready row orders a claim, so a claim fits a batch.
LEMMA ClaimFits == Claimable \in SUBSET Events /\ Cardinality(Claimable) <= BatchSize
  <1> DEFINE Before(e) == {f \in ReadyEvents : f < e}
             rank == [e \in Claimable |-> Cardinality(Before(e))]
             Slots == 0 .. BatchSize - 1
  <1>1. Claimable \in SUBSET Events /\ ReadyEvents \in SUBSET Events
    BY DEF Claimable, ReadyEvents
  <1>2. \A e \in Claimable : rank[e] \in Slots
    <2> SUFFICES ASSUME NEW e \in Claimable PROVE rank[e] \in Slots
      OBVIOUS
    <2>1. Cardinality(Before(e)) \in Nat
      BY <1>1, SubsetsOfEvents
    <2>2. Cardinality(Before(e)) < BatchSize
      BY DEF Claimable
    <2> QED BY <2>1, <2>2, ConfigAssumption
  <1>3. ASSUME NEW e \in Claimable, NEW f \in Claimable, e < f
        PROVE  rank[e] # rank[f]
    <2>1. /\ e \in Events /\ f \in Events /\ e \in ReadyEvents
      BY <1>1 DEF Claimable
    <2>2. Before(e) \in SUBSET Before(f)
      <3>1. ASSUME NEW g \in Before(e) PROVE g \in Before(f)
        <4>1. g \in ReadyEvents /\ g \in Events /\ g < e BY <1>1
        <4>2. g < f BY <1>3, <2>1, <4>1 DEF Events
        <4> QED BY <4>1, <4>2
      <3> QED BY <3>1
    <2>3. e \in Before(f) /\ e \notin Before(e)
      BY <1>3, <2>1 DEF Events
    <2>4. IsFiniteSet(Before(f))
      BY <1>1, SubsetsOfEvents
    <2>5. Cardinality(Before(e)) # Cardinality(Before(f))
      BY <2>2, <2>3, <2>4, FS_Subset
    <2> QED BY <2>5
  <1>4. rank \in Injection(Claimable, Slots)
    <2>1. rank \in [Claimable -> Slots] BY <1>2
    <2>2. \A e, f \in Claimable : rank[e] = rank[f] => e = f
      BY <1>1, <1>3 DEF Events
    <2> QED BY <2>1, <2>2 DEF Injection, IsInjective
  <1>5. IsFiniteSet(Slots) /\ Cardinality(Slots) = BatchSize
    BY ConfigAssumption, FS_Interval
  <1> HIDE DEF rank, Slots
  <1>6. Cardinality(Claimable) <= BatchSize
    BY <1>4, <1>5, FS_Injection
  <1> QED BY <1>1, <1>6

LEMMA NeedNat ==
    ASSUME TypeOK, NEW d \in Dispatchers
    PROVE  Need(d) \in Nat /\ Cardinality(Remaining(d)) \in Nat
  <1>1. Remaining(d) \in SUBSET Events BY DEF TypeOK, Remaining
  <1>2. requestLeft[d] \in Nat BY ConfigAssumption DEF TypeOK
  <1>3. Cardinality(Remaining(d)) \in Nat BY <1>1, SubsetsOfEvents
  <1>4. Cardinality(Remaining(d)) * RequestTimeout \in Nat BY <1>3, Products
  <1> QED BY <1>2, <1>3, <1>4 DEF Need

-----------------------------------------------------------------------------
(***************************************************************************)
(* Typing                                                                  *)
(***************************************************************************)
LEMMA RetryDelayType == \A n \in Nat : RetryDelay(n) \in 0 .. 128
  BY DEF RetryDelay, RetryDelays

LEMMA LeaseRowsType ==
    ASSUME TypeOK, NEW d \in Dispatchers, LeaseRows(d, Claimable)
    PROVE  /\ status' \in [Events -> {"absent", "pending", "processing", "retry",
                                      "delivered", "dead"}]
           /\ attempts' \in [Events -> Nat]
           /\ lock' \in [Events -> Dispatchers \cup {None}]
           /\ lockLeft' \in [Events -> 0 .. Lease]
           /\ delay' \in [Events -> 0 .. 128]
  BY ConfigAssumption DEF TypeOK, LeaseRows

LEMMA MarkType ==
    ASSUME TypeOK, NEW d \in Dispatchers, current[d] \in Events,
           MarkDelivered(d) \/ MarkFailed(d)
    PROVE  /\ status' \in [Events -> {"absent", "pending", "processing", "retry",
                                      "delivered", "dead"}]
           /\ attempts' \in [Events -> Nat]
           /\ lock' \in [Events -> Dispatchers \cup {None}]
           /\ lockLeft' \in [Events -> 0 .. Lease]
           /\ delay' \in [Events -> 0 .. 128]
  <1>1. 0 \in 0 .. Lease BY ConfigAssumption
  <1>2. RetryDelay(attempts[current[d]]) \in 0 .. 128
    BY RetryDelayType DEF TypeOK
  <1>3. CASE MarkDelivered(d)
    BY <1>1, <1>3 DEF TypeOK, MarkDelivered
  <1>4. CASE MarkFailed(d)
    BY <1>1, <1>2, <1>4 DEF TypeOK, MarkFailed
  <1> QED BY <1>3, <1>4

\* Every step keeps every variable in its type.
LEMMA TypeStep == TypeOK /\ Shape /\ [Next]_vars => TypeOK'
  <1> SUFFICES ASSUME TypeOK, Shape, [Next]_vars PROVE TypeOK'
    OBVIOUS
  <1>0. /\ 0 \in 0 .. Lease /\ 0 \in 0 .. RequestTimeout
        /\ RequestTimeout \in 0 .. RequestTimeout
        /\ faults \in Nat
    BY ConfigAssumption DEF TypeOK
  <1>f. Fault => faults' \in Nat BY <1>0 DEF Fault
  <1>1. ASSUME NEW d \in Dispatchers, Claim(d) PROVE TypeOK'
    BY <1>1, LeaseRowsType, ClaimFits DEF TypeOK, Claim, Goto
  <1>2. ASSUME NEW d \in Dispatchers, ClaimError(d) PROVE TypeOK'
    <2>1. CASE LeaseRows(d, Claimable)
      BY <1>2, <1>f, <2>1, LeaseRowsType DEF TypeOK, ClaimError, Goto
    <2>2. CASE UNCHANGED rows
      BY <1>2, <1>f, <2>2 DEF TypeOK, ClaimError, Goto, rows
    <2> QED BY <1>2, <2>1, <2>2 DEF ClaimError
  <1>3. ASSUME NEW d \in Dispatchers, StartPublish(d) PROVE TypeOK'
    <2>1. PICK e \in batch[d] : current' = [current EXCEPT ![d] = e]
      BY <1>3 DEF StartPublish
    <2>2. e \in Events BY DEF TypeOK
    <2> QED BY <1>3, <1>0, <2>1, <2>2 DEF TypeOK, StartPublish, Goto, rows
  <1>4. ASSUME NEW d \in Dispatchers, NEW accepted \in BOOLEAN,
               NEW answered \in BOOLEAN, Publish(d, accepted, answered)
        PROVE  TypeOK'
    <2>1. current[d] \in Events BY <1>4 DEF TypeOK, Shape, Publish
    <2> QED BY <1>4, <1>0, <2>1 DEF TypeOK, Publish, Goto, rows
  <1>5. ASSUME NEW d \in Dispatchers, AckDelivered(d) \/ AckFailed(d) PROVE TypeOK'
    <2>1. current[d] \in Events
      BY <1>5 DEF TypeOK, Shape, AckDelivered, AckFailed
    <2>2. MarkDelivered(d) \/ MarkFailed(d)
      BY <1>5 DEF AckDelivered, AckFailed
    <2>3. Proceed(d) /\ troubled' \in SUBSET Dispatchers
      BY <1>5 DEF AckDelivered, AckFailed, TypeOK
    <2>4. /\ pc' \in [Dispatchers -> {"idle", "next", "publish", "delivered",
                                      "failed", "stats"}]
          /\ batch' \in [Dispatchers -> SUBSET Events]
          /\ current' \in [Dispatchers -> Events \cup {None}]
      BY <2>3 DEF TypeOK, Proceed, Goto
    <2> QED BY <1>5, <2>1, <2>2, <2>3, <2>4, MarkType
            DEF TypeOK, AckDelivered, AckFailed
  <1>6. ASSUME NEW d \in Dispatchers, AckRejected(d) PROVE TypeOK'
    BY <1>6 DEF TypeOK, AckRejected, Abandon, Goto, rows
  <1>7. ASSUME NEW d \in Dispatchers, AckError(d) PROVE TypeOK'
    <2>1. current[d] \in Events
      BY <1>7 DEF TypeOK, Shape, AckError
    <2>2. CASE MarkDelivered(d) \/ MarkFailed(d)
      BY <1>7, <1>f, <2>1, <2>2, MarkType DEF TypeOK, AckError, Abandon, Goto
    <2>3. CASE UNCHANGED rows
      BY <1>7, <1>f, <2>3 DEF TypeOK, AckError, Abandon, Goto, rows
    <2> QED BY <1>7, <2>2, <2>3 DEF AckError
  <1>8. ASSUME NEW d \in Dispatchers, NEW tooOld \in BOOLEAN,
               \/ EndBatch(d) \/ BeginCheck(d) \/ CheckBacklog(d, tooOld)
               \/ CheckError(d)
        PROVE  TypeOK'
    BY <1>8, <1>f
       DEF TypeOK, EndBatch, BeginCheck, CheckBacklog, CheckError, Goto, rows
  <1>9. ASSUME NEW d \in Dispatchers, Crash(d) \/ Stall(d) PROVE TypeOK'
    BY <1>9, <1>0, <1>f DEF TypeOK, Crash, Stall, Goto, rows
  <1>10. ASSUME NEW e \in Events, Enqueue(e) PROVE TypeOK'
    BY <1>10 DEF TypeOK, Enqueue, loop
  <1>11. CASE Tick
    <2>1. /\ lockLeft' \in [Events -> 0 .. Lease]
          /\ delay' \in [Events -> 0 .. 128]
          /\ requestLeft' \in [Dispatchers -> 0 .. RequestTimeout]
      BY <1>11, ConfigAssumption DEF TypeOK, Tick, Elapse
    <2> QED BY <1>11, <2>1 DEF TypeOK, Tick
  <1>12. CASE UNCHANGED vars
    BY <1>12 DEF TypeOK, vars, rows, loop
  <1> QED
    BY <1>1, <1>2, <1>3, <1>4, <1>5, <1>6, <1>7, <1>8, <1>9, <1>10, <1>11, <1>12
       DEF Next, Work, Failure

-----------------------------------------------------------------------------
(***************************************************************************)
(* The strengthening, one conjunct at a time                               *)
(***************************************************************************)
LEMMA InitIInv == Init => IInv
  <1> SUFFICES ASSUME Init PROVE IInv
    OBVIOUS
  <1>1. TypeOK BY ConfigAssumption DEF Init, TypeOK
  <1>2. Shape BY DEF Init, Shape
  <1>3. Budget BY DEF Init, Budget, BudgetOf
  <1>4. Attempted BY ConfigAssumption DEF Init, Attempted, AttemptedOf
  <1>5. Receipt BY DEF Init, Receipt, DeliveredWasReceived, WithStatus
  <1> QED BY <1>1, <1>2, <1>3, <1>4, <1>5 DEF IInv

LEMMA ShapeStep == IInv /\ [Next]_vars => Shape'
  <1> SUFFICES ASSUME TypeOK, Shape, [Next]_vars PROVE Shape'
    BY DEF IInv
  <1>1. ASSUME NEW d \in Dispatchers, Claim(d) \/ ClaimError(d) PROVE Shape'
    BY <1>1 DEF TypeOK, Shape, Claim, ClaimError, Goto
  <1>2. ASSUME NEW d \in Dispatchers, StartPublish(d) PROVE Shape'
    BY <1>2 DEF TypeOK, Shape, StartPublish, Goto
  <1>3. ASSUME NEW d \in Dispatchers, NEW accepted \in BOOLEAN,
               NEW answered \in BOOLEAN, Publish(d, accepted, answered)
        PROVE  Shape'
    BY <1>3 DEF TypeOK, Shape, Publish, Goto
  <1>4. ASSUME NEW d \in Dispatchers, AckDelivered(d) \/ AckFailed(d) PROVE Shape'
    BY <1>4 DEF TypeOK, Shape, AckDelivered, AckFailed, Proceed, Goto
  <1>5. ASSUME NEW d \in Dispatchers, AckRejected(d) \/ AckError(d) PROVE Shape'
    <2>1. Abandon(d) /\ UNCHANGED requestLeft /\ pc[d] \in {"delivered", "failed"}
      BY <1>5 DEF AckRejected, AckError
    <2> QED BY <2>1 DEF TypeOK, Shape, Abandon, Goto
  <1>6. ASSUME NEW d \in Dispatchers, NEW tooOld \in BOOLEAN,
               \/ EndBatch(d) \/ BeginCheck(d) \/ CheckBacklog(d, tooOld)
               \/ CheckError(d)
        PROVE  Shape'
    BY <1>6 DEF TypeOK, Shape, EndBatch, BeginCheck, CheckBacklog, CheckError, Goto
  <1>7. ASSUME NEW d \in Dispatchers, Crash(d) PROVE Shape'
    BY <1>7 DEF TypeOK, Shape, Crash, Goto
  <1>8. ASSUME NEW d \in Dispatchers, Stall(d) PROVE Shape'
    BY <1>8 DEF TypeOK, Shape, Stall, Working
  <1>9. ASSUME NEW e \in Events, Enqueue(e) PROVE Shape'
    BY <1>9 DEF Shape, Enqueue, loop
  <1>10. CASE Tick
    BY <1>10, ConfigAssumption DEF TypeOK, Shape, Tick, Elapse
  <1>11. CASE UNCHANGED vars
    BY <1>11 DEF Shape, vars, rows, loop
  <1> QED
    BY <1>1, <1>2, <1>3, <1>4, <1>5, <1>6, <1>7, <1>8, <1>9, <1>10, <1>11
       DEF Next, Work, Failure

LEMMA ReceiptStep == IInv /\ [Next]_vars => Receipt'
  <1> SUFFICES ASSUME TypeOK, Shape, Receipt, [Next]_vars PROVE Receipt'
    BY DEF IInv
  <1> USE DEF Receipt, DeliveredWasReceived, WithStatus
  <1>1. ASSUME NEW d \in Dispatchers, Claim(d) \/ ClaimError(d) PROVE Receipt'
    BY <1>1 DEF TypeOK, Claim, ClaimError, LeaseRows, Goto, rows
  <1>2. ASSUME NEW d \in Dispatchers, StartPublish(d) PROVE Receipt'
    BY <1>2 DEF TypeOK, StartPublish, Goto, rows
  <1>3. ASSUME NEW d \in Dispatchers, NEW accepted \in BOOLEAN,
               NEW answered \in BOOLEAN, Publish(d, accepted, answered)
        PROVE  Receipt'
    BY <1>3 DEF TypeOK, Publish, Goto, rows
  <1>4. ASSUME NEW d \in Dispatchers, AckDelivered(d) PROVE Receipt'
    BY <1>4 DEF TypeOK, AckDelivered, MarkDelivered, Proceed, Goto
  <1>5. ASSUME NEW d \in Dispatchers, AckFailed(d) PROVE Receipt'
    BY <1>5 DEF TypeOK, AckFailed, MarkFailed, Proceed, Goto
  <1>6. ASSUME NEW d \in Dispatchers, AckRejected(d) PROVE Receipt'
    BY <1>6 DEF TypeOK, AckRejected, Abandon, Goto, rows
  <1>7. ASSUME NEW d \in Dispatchers, AckError(d) PROVE Receipt'
    <2>1. Abandon(d) /\ UNCHANGED received
      BY <1>7 DEF AckError
    <2>2. \A c \in Dispatchers : pc'[c] = "delivered" => current'[c] \in received'
      BY <2>1 DEF TypeOK, Abandon, Goto
    <2>3. CASE pc[d] = "delivered" /\ MarkDelivered(d)
      BY <2>1, <2>2, <2>3 DEF TypeOK, MarkDelivered
    <2>4. CASE MarkFailed(d)
      BY <2>1, <2>2, <2>4 DEF TypeOK, MarkFailed
    <2>5. CASE UNCHANGED rows
      BY <2>1, <2>2, <2>5 DEF rows
    <2> QED BY <1>7, <2>3, <2>4, <2>5 DEF AckError
  <1>8. ASSUME NEW d \in Dispatchers, NEW tooOld \in BOOLEAN,
               \/ EndBatch(d) \/ BeginCheck(d) \/ CheckBacklog(d, tooOld)
               \/ CheckError(d)
        PROVE  Receipt'
    BY <1>8 DEF TypeOK, EndBatch, BeginCheck, CheckBacklog, CheckError, Goto, rows
  <1>9. ASSUME NEW d \in Dispatchers, Crash(d) \/ Stall(d) PROVE Receipt'
    BY <1>9 DEF TypeOK, Crash, Stall, Goto, rows
  <1>10. ASSUME NEW e \in Events, Enqueue(e) PROVE Receipt'
    BY <1>10 DEF TypeOK, Enqueue, loop
  <1>11. CASE Tick
    BY <1>11 DEF Tick
  <1>12. CASE UNCHANGED vars
    BY <1>12 DEF vars, rows, loop
  <1> QED
    BY <1>1, <1>2, <1>3, <1>4, <1>5, <1>6, <1>7, <1>8, <1>9, <1>10, <1>11, <1>12
       DEF Next, Work, Failure

\* What dispatcher d does leaves the others' budgets alone, as long as it
\* touches no lease in force that another one holds.
LEMMA BudgetFrame ==
    ASSUME TypeOK, Budget, NEW d \in Dispatchers,
           \A c \in Dispatchers : c # d =>
               /\ pc'[c] = pc[c] /\ batch'[c] = batch[c]
               /\ current'[c] = current[c] /\ requestLeft'[c] = requestLeft[c]
               /\ c \notin late' => c \notin late,
           \A e \in Events :
               status[e] = "processing" /\ lock[e] # d /\ lockLeft[e] > 0 =>
                   /\ status'[e] = status[e] /\ lock'[e] = lock[e]
                   /\ lockLeft'[e] = lockLeft[e],
           BudgetOf(d)'
    PROVE  Budget'
  <1> SUFFICES ASSUME NEW c \in Dispatchers, c # d PROVE BudgetOf(c)'
    BY DEF Budget
  <1>1. Need(c)' = Need(c) BY DEF Need, Remaining
  <1>2. Need(c) \in Nat BY NeedNat
  <1>3. SUFFICES ASSUME c \notin late', NEW e \in batch'[c]
                 PROVE  /\ status'[e] = "processing" /\ lock'[e] = c
                        /\ lockLeft'[e] > Need(c)'
    BY DEF BudgetOf
  <1>4. e \in batch[c] /\ e \in Events BY <1>3 DEF TypeOK
  <1>5. status[e] = "processing" /\ lock[e] = c /\ lockLeft[e] > Need(c)
    BY <1>3, <1>4 DEF Budget, BudgetOf
  <1>6. lockLeft[e] > 0
    BY <1>2, <1>4, <1>5, ConfigAssumption DEF TypeOK
  <1> QED BY <1>1, <1>4, <1>5, <1>6

LEMMA MarkFrame ==
    ASSUME TypeOK, NEW d \in Dispatchers, MarkDelivered(d) \/ MarkFailed(d),
           NEW e \in Events, lock[e] # d \/ e # current[d]
    PROVE  /\ status'[e] = status[e] /\ lock'[e] = lock[e]
           /\ lockLeft'[e] = lockLeft[e] /\ attempts'[e] = attempts[e]
  <1>1. CASE MarkDelivered(d)
    BY <1>1 DEF TypeOK, MarkDelivered, HoldsLock
  <1>2. CASE MarkFailed(d)
    BY <1>2 DEF TypeOK, MarkFailed, HoldsLock
  <1> QED BY <1>1, <1>2

\* An acknowledgement takes one event, and its share of the budget, out of hand.
LEMMA ProceedBudget ==
    ASSUME TypeOK, Shape, Budget, NEW d \in Dispatchers,
           pc[d] \in {"delivered", "failed"},
           MarkDelivered(d) \/ MarkFailed(d), Proceed(d),
           UNCHANGED <<requestLeft, late>>
    PROVE  Budget'
  <1>1. /\ pc'[d] = "next" /\ batch'[d] = batch[d] \ {current[d]}
        /\ current[d] \in batch[d] /\ requestLeft[d] = 0
    BY DEF TypeOK, Shape, Proceed, Goto
  <1>2. Need(d)' = Need(d)
    BY <1>1 DEF Need, Remaining
  <1>3. BudgetOf(d)'
    <2> SUFFICES ASSUME d \notin late', NEW e \in batch'[d]
                 PROVE  /\ status'[e] = "processing" /\ lock'[e] = d
                        /\ lockLeft'[e] > Need(d)'
      BY DEF BudgetOf
    <2>1. e \in batch[d] /\ e # current[d] /\ e \in Events BY <1>1 DEF TypeOK
    <2>2. status[e] = "processing" /\ lock[e] = d /\ lockLeft[e] > Need(d)
      BY <2>1 DEF Budget, BudgetOf
    <2> QED BY <1>2, <2>1, <2>2, MarkFrame
  <1>4. \A c \in Dispatchers : c # d =>
            /\ pc'[c] = pc[c] /\ batch'[c] = batch[c]
            /\ current'[c] = current[c] /\ requestLeft'[c] = requestLeft[c]
            /\ c \notin late' => c \notin late
    BY DEF TypeOK, Proceed, Goto
  <1>5. \A e \in Events :
            status[e] = "processing" /\ lock[e] # d /\ lockLeft[e] > 0 =>
                /\ status'[e] = status[e] /\ lock'[e] = lock[e]
                /\ lockLeft'[e] = lockLeft[e]
    BY MarkFrame
  <1> QED BY <1>3, <1>4, <1>5, BudgetFrame

\* A dispatcher without a batch has nothing to keep.
LEMMA EmptyBudget == ASSUME NEW d, batch[d] = {} PROVE BudgetOf(d)
  BY DEF BudgetOf

LEMMA LeaseRowsFrame ==
    ASSUME TypeOK, NEW d \in Dispatchers, LeaseRows(d, Claimable),
           NEW e \in Events, status[e] = "processing", lockLeft[e] > 0
    PROVE  /\ status'[e] = status[e] /\ lock'[e] = lock[e]
           /\ lockLeft'[e] = lockLeft[e]
  <1>1. e \notin Claimable
    BY ConfigAssumption DEF TypeOK, Claimable, ReadyEvents, Ready
  <1> QED BY <1>1 DEF LeaseRows

\* A fresh batch fits its fresh leases: this is what config.go checks for.
LEMMA ClaimBudget ==
    ASSUME TypeOK, Shape, Budget, NEW d \in Dispatchers, Claim(d)
    PROVE  Budget'
  <1>1. /\ pc'[d] = "next" /\ batch'[d] = Claimable /\ requestLeft'[d] = 0
        /\ LeaseRows(d, Claimable)
    BY DEF TypeOK, Shape, Claim, Goto
  <1>2. Need(d)' = Cardinality(Claimable) * RequestTimeout
    <2>1. Need(d)' = Cardinality(Claimable) * RequestTimeout + 0
      BY <1>1 DEF Need, Remaining
    <2>2. Cardinality(Claimable) * RequestTimeout \in Nat
      BY ClaimFits, SubsetsOfEvents, Products
    <2> QED BY <2>1, <2>2
  <1>3. Need(d)' < Lease
    <2>1. Cardinality(Claimable) \in Nat BY ClaimFits, SubsetsOfEvents
    <2>2. Cardinality(Claimable) * RequestTimeout <= BatchSize * RequestTimeout
      BY <2>1, ClaimFits, Products, ConfigAssumption
    <2>3. /\ Cardinality(Claimable) * RequestTimeout \in Nat
          /\ BatchSize * RequestTimeout \in Nat
      BY <2>1, Products, ConfigAssumption
    <2> QED BY <1>2, <2>2, <2>3, ConfigAssumption
  <1>4. BudgetOf(d)'
    <2> SUFFICES ASSUME NEW e \in batch'[d]
                 PROVE  /\ status'[e] = "processing" /\ lock'[e] = d
                        /\ lockLeft'[e] > Need(d)'
      BY DEF BudgetOf
    <2>1. e \in Claimable /\ e \in Events BY <1>1, ClaimFits
    <2>2. status'[e] = "processing" /\ lock'[e] = d /\ lockLeft'[e] = Lease
      BY <1>1, <2>1 DEF LeaseRows
    <2> QED BY <1>3, <2>2
  <1>5. \A c \in Dispatchers : c # d =>
            /\ pc'[c] = pc[c] /\ batch'[c] = batch[c]
            /\ current'[c] = current[c] /\ requestLeft'[c] = requestLeft[c]
            /\ c \notin late' => c \notin late
    BY DEF TypeOK, Claim, Goto
  <1> QED BY <1>1, <1>4, <1>5, LeaseRowsFrame, BudgetFrame

LEMMA StartBudget ==
    ASSUME TypeOK, Shape, Budget, NEW d \in Dispatchers, StartPublish(d)
    PROVE  Budget'
  <1>1. PICK x \in batch[d] : current' = [current EXCEPT ![d] = x]
    BY DEF StartPublish
  <1>2. /\ pc[d] = "next" /\ pc'[d] = "publish" /\ batch'[d] = batch[d]
        /\ current'[d] = x /\ requestLeft[d] = 0 /\ requestLeft'[d] = RequestTimeout
    BY <1>1 DEF TypeOK, Shape, StartPublish, Goto
  <1>3. batch[d] \in SUBSET Events BY DEF TypeOK
  <1>4. /\ Cardinality(batch[d] \ {x}) \in Nat
        /\ Cardinality(batch[d]) = Cardinality(batch[d] \ {x}) + 1
    BY <1>3, SubsetsOfEvents, FS_RemoveElement
  <1>5. Need(d) = Cardinality(batch[d]) * RequestTimeout + 0
    BY <1>2 DEF Need, Remaining
  <1>6. Need(d)' = Cardinality(batch[d] \ {x}) * RequestTimeout + RequestTimeout
    BY <1>2 DEF Need, Remaining
  <1>7. Cardinality(batch[d]) * RequestTimeout \in Nat
    BY <1>3, SubsetsOfEvents, Products
  <1>8. Need(d)' = Need(d) BY <1>4, <1>5, <1>6, <1>7, Products
  <1>9. BudgetOf(d)'
    BY <1>2, <1>8 DEF Budget, BudgetOf, StartPublish, rows
  <1>10. \A c \in Dispatchers : c # d =>
            /\ pc'[c] = pc[c] /\ batch'[c] = batch[c]
            /\ current'[c] = current[c] /\ requestLeft'[c] = requestLeft[c]
            /\ c \notin late' => c \notin late
    BY <1>1 DEF TypeOK, StartPublish, Goto
  <1> QED BY <1>9, <1>10, BudgetFrame DEF StartPublish, rows

LEMMA PublishBudget ==
    ASSUME TypeOK, Shape, Budget, NEW d \in Dispatchers, NEW accepted \in BOOLEAN,
           NEW answered \in BOOLEAN, Publish(d, accepted, answered)
    PROVE  Budget'
  <1>1. /\ pc[d] = "publish" /\ pc'[d] \in {"delivered", "failed"}
        /\ batch'[d] = batch[d] /\ current'[d] = current[d] /\ requestLeft'[d] = 0
    BY DEF TypeOK, Publish, Goto
  <1>2. /\ Need(d) = Cardinality(Remaining(d)) * RequestTimeout + requestLeft[d]
        /\ Need(d)' = Cardinality(Remaining(d)) * RequestTimeout + 0
    BY <1>1 DEF Need, Remaining
  <1>3. Cardinality(Remaining(d)) * RequestTimeout \in Nat /\ requestLeft[d] \in Nat
    BY NeedNat, Products, ConfigAssumption DEF TypeOK
  <1>4. Need(d)' <= Need(d) /\ Need(d) \in Nat /\ Need(d)' \in Nat
    BY <1>2, <1>3
  <1>5. BudgetOf(d)'
    <2> SUFFICES ASSUME d \notin late, NEW e \in batch[d]
                 PROVE  /\ status[e] = "processing" /\ lock[e] = d
                        /\ lockLeft[e] > Need(d)'
      BY <1>1 DEF BudgetOf, Publish, rows
    <2>1. status[e] = "processing" /\ lock[e] = d /\ lockLeft[e] > Need(d)
      BY DEF Budget, BudgetOf
    <2>2. lockLeft[e] \in Nat BY ConfigAssumption DEF TypeOK
    <2> QED BY <1>4, <2>1, <2>2
  <1>6. \A c \in Dispatchers : c # d =>
            /\ pc'[c] = pc[c] /\ batch'[c] = batch[c]
            /\ current'[c] = current[c] /\ requestLeft'[c] = requestLeft[c]
            /\ c \notin late' => c \notin late
    BY DEF TypeOK, Publish, Goto
  <1> QED BY <1>5, <1>6, BudgetFrame DEF Publish, rows

\* What leaves a dispatcher without a batch, or late, keeps the budgets.
LEMMA DropBudget ==
    ASSUME TypeOK, Budget, NEW d \in Dispatchers,
           \A c \in Dispatchers : c # d =>
               /\ pc'[c] = pc[c] /\ batch'[c] = batch[c]
               /\ current'[c] = current[c] /\ requestLeft'[c] = requestLeft[c]
               /\ c \notin late' => c \notin late,
           batch'[d] = {} \/ d \in late',
           \A e \in Events :
               status[e] = "processing" /\ lock[e] # d /\ lockLeft[e] > 0 =>
                   /\ status'[e] = status[e] /\ lock'[e] = lock[e]
                   /\ lockLeft'[e] = lockLeft[e]
    PROVE  Budget'
  <1>1. BudgetOf(d)' BY DEF BudgetOf
  <1> QED BY <1>1, BudgetFrame

LEMMA BudgetStep == IInv /\ [Next]_vars => Budget'
  <1> SUFFICES ASSUME TypeOK, Shape, Budget, [Next]_vars PROVE Budget'
    BY DEF IInv
  <1>1. ASSUME NEW d \in Dispatchers, ClaimError(d) PROVE Budget'
    <2>1. batch'[d] = {} BY <1>1 DEF Shape, ClaimError
    <2>2. \A e \in Events :
              status[e] = "processing" /\ lock[e] # d /\ lockLeft[e] > 0 =>
                  /\ status'[e] = status[e] /\ lock'[e] = lock[e]
                  /\ lockLeft'[e] = lockLeft[e]
      <3>1. CASE LeaseRows(d, Claimable) BY <3>1, LeaseRowsFrame
      <3>2. CASE UNCHANGED rows BY <3>2 DEF rows
      <3> QED BY <1>1, <3>1, <3>2 DEF ClaimError
    <2>3. \A c \in Dispatchers : c # d =>
              /\ pc'[c] = pc[c] /\ batch'[c] = batch[c]
              /\ current'[c] = current[c] /\ requestLeft'[c] = requestLeft[c]
              /\ c \notin late' => c \notin late
      BY <1>1 DEF TypeOK, ClaimError, Goto
    <2> QED BY <2>1, <2>2, <2>3, DropBudget
  <1>2. ASSUME NEW d \in Dispatchers, AckDelivered(d) \/ AckFailed(d) PROVE Budget'
    <2>1. /\ pc[d] \in {"delivered", "failed"} /\ Proceed(d)
          /\ MarkDelivered(d) \/ MarkFailed(d)
          /\ UNCHANGED <<requestLeft, late>>
      BY <1>2 DEF AckDelivered, AckFailed
    <2> QED BY <2>1, ProceedBudget
  <1>3. ASSUME NEW d \in Dispatchers, AckRejected(d) \/ AckError(d) PROVE Budget'
    <2>1. Abandon(d) /\ UNCHANGED requestLeft
      BY <1>3 DEF AckRejected, AckError
    <2>2. batch'[d] = {} BY <2>1 DEF TypeOK, Abandon
    <2>3. \A c \in Dispatchers : c # d =>
              /\ pc'[c] = pc[c] /\ batch'[c] = batch[c]
              /\ current'[c] = current[c] /\ requestLeft'[c] = requestLeft[c]
              /\ c \notin late' => c \notin late
      BY <2>1 DEF TypeOK, Abandon, Goto
    <2>4. UNCHANGED rows \/ MarkDelivered(d) \/ MarkFailed(d)
      BY <1>3 DEF AckRejected, AckError
    <2>5. \A e \in Events :
              status[e] = "processing" /\ lock[e] # d /\ lockLeft[e] > 0 =>
                  /\ status'[e] = status[e] /\ lock'[e] = lock[e]
                  /\ lockLeft'[e] = lockLeft[e]
      BY <2>4, MarkFrame DEF rows
    <2> QED BY <2>2, <2>3, <2>5, DropBudget
  <1>4. ASSUME NEW d \in Dispatchers, EndBatch(d) PROVE Budget'
    <2>1. batch'[d] = {} BY <1>4 DEF EndBatch
    <2>2. \A c \in Dispatchers : c # d =>
              /\ pc'[c] = pc[c] /\ batch'[c] = batch[c]
              /\ current'[c] = current[c] /\ requestLeft'[c] = requestLeft[c]
              /\ c \notin late' => c \notin late
      BY <1>4 DEF TypeOK, EndBatch, Goto
    <2> QED BY <1>4, <2>1, <2>2, DropBudget DEF EndBatch, rows
  <1>5. ASSUME NEW d \in Dispatchers, NEW tooOld \in BOOLEAN,
               BeginCheck(d) \/ CheckBacklog(d, tooOld) \/ CheckError(d)
        PROVE  Budget'
    <2>1. /\ batch[d] = {} /\ UNCHANGED <<rows, batch, current, requestLeft, late>>
          /\ \A c \in Dispatchers : c # d => pc'[c] = pc[c]
      BY <1>5 DEF TypeOK, Shape, BeginCheck, CheckBacklog, CheckError, Goto
    <2> QED BY <2>1, DropBudget DEF rows
  <1>6. ASSUME NEW d \in Dispatchers, Crash(d) PROVE Budget'
    <2>1. batch'[d] = {} BY <1>6 DEF TypeOK, Crash
    <2>2. \A c \in Dispatchers : c # d =>
              /\ pc'[c] = pc[c] /\ batch'[c] = batch[c]
              /\ current'[c] = current[c] /\ requestLeft'[c] = requestLeft[c]
              /\ c \notin late' => c \notin late
      BY <1>6 DEF TypeOK, Crash, Goto
    <2> QED BY <1>6, <2>1, <2>2, DropBudget DEF Crash, rows
  <1>7. ASSUME NEW d \in Dispatchers, Stall(d) PROVE Budget'
    <2>1. d \in late' BY <1>7 DEF TypeOK, Stall
    <2>2. \A c \in Dispatchers : c # d =>
              /\ pc'[c] = pc[c] /\ batch'[c] = batch[c]
              /\ current'[c] = current[c] /\ requestLeft'[c] = requestLeft[c]
              /\ c \notin late' => c \notin late
      BY <1>7 DEF TypeOK, Stall
    <2> QED BY <1>7, <2>1, <2>2, DropBudget DEF Stall, rows
  <1>8. ASSUME NEW e \in Events, Enqueue(e) PROVE Budget'
    <2> SUFFICES ASSUME NEW d \in Dispatchers, d \notin late, NEW f \in batch[d]
                 PROVE  /\ status'[f] = "processing" /\ lock[f] = d
                        /\ lockLeft[f] > Need(d)'
      BY <1>8 DEF Budget, BudgetOf, Enqueue, loop
    <2>1. status[f] = "processing" /\ lock[f] = d /\ lockLeft[f] > Need(d)
      BY DEF Budget, BudgetOf
    <2>2. Need(d)' = Need(d) BY <1>8 DEF Need, Remaining, Enqueue, loop
    <2> QED BY <1>8, <2>1, <2>2 DEF TypeOK, Enqueue
  <1>9. CASE Tick
    <2> SUFFICES ASSUME NEW d \in Dispatchers, d \notin late, NEW f \in batch[d]
                 PROVE  /\ status[f] = "processing" /\ lock[f] = d
                        /\ lockLeft'[f] > Need(d)'
      BY <1>9 DEF Budget, BudgetOf, Tick
    <2>1. status[f] = "processing" /\ lock[f] = d /\ lockLeft[f] > Need(d)
      BY DEF Budget, BudgetOf
    <2>2. Punctual(d) BY DEF Punctual, Working, Shape
    <2>3. pc[d] = "publish" /\ requestLeft[d] > 0 BY <1>9, <2>2 DEF Tick
    <2>4. requestLeft[d] \in Nat /\ f \in Events /\ lockLeft[f] \in Nat
      BY ConfigAssumption DEF TypeOK
    <2>5. requestLeft'[d] = requestLeft[d] - 1
      BY <1>9, <2>3, <2>4 DEF Tick, Elapse
    <2>6. Cardinality(Remaining(d)) * RequestTimeout \in Nat
      BY NeedNat, Products
    <2>7. /\ Need(d) = Cardinality(Remaining(d)) * RequestTimeout + requestLeft[d]
          /\ Need(d)' = Cardinality(Remaining(d)) * RequestTimeout + requestLeft'[d]
      BY <1>9 DEF Need, Remaining, Tick
    <2>8. lockLeft'[f] = IF lockLeft[f] = 0 THEN 0 ELSE lockLeft[f] - 1
      BY <1>9, <2>4 DEF Tick, Elapse
    <2> QED BY <2>1, <2>3, <2>4, <2>5, <2>6, <2>7, <2>8
  <1>10. CASE UNCHANGED vars
    BY <1>10 DEF Budget, BudgetOf, Need, Remaining, vars, rows, loop
  <1> QED
    BY <1>1, <1>2, <1>3, <1>4, <1>5, <1>6, <1>7, <1>8, <1>9, <1>10,
       ClaimBudget, StartBudget, PublishBudget DEF Next, Work, Failure

\* A step that pays for a fault may leave a lease unattended.
LEMMA FaultPays ==
    ASSUME TypeOK, NEW e \in Events, AttemptedOf(e), Fault,
           \/ status'[e] = status[e] /\ attempts'[e] = attempts[e]
           \/ /\ status'[e] = "processing"
              /\ attempts'[e] = attempts[e] + 1
              /\ attempts[e] < MaxAttempt + faults
           \/ /\ status'[e] \in {"delivered", "dead"}
              /\ attempts'[e] = attempts[e]
           \/ /\ status'[e] = "retry" /\ attempts'[e] = attempts[e]
              /\ attempts[e] < MaxAttempt
    PROVE  AttemptedOf(e)'
  <1>1. /\ attempts[e] \in Nat /\ faults \in Nat /\ MaxAttempt \in Nat
        /\ faults' = faults + 1
    BY ConfigAssumption DEF TypeOK, Fault
  <1> QED BY <1>1 DEF AttemptedOf

\* A row whose status and attempts do not change stays accounted for as long as
\* its lease stays attended.
LEMMA StillAttended ==
    ASSUME NEW e \in Events, AttemptedOf(e), UNCHANGED faults,
           status'[e] = status[e], attempts'[e] = attempts[e],
           status[e] = "processing" /\ Attended(e) => Attended(e)'
    PROVE  AttemptedOf(e)'
  BY DEF AttemptedOf

\* A claimable row has an attempt left, counting the faults.
LEMMA ClaimableBudget ==
    ASSUME TypeOK, Budget, NEW e \in Claimable, AttemptedOf(e)
    PROVE  attempts[e] < MaxAttempt + faults
  <1>1. e \in Events /\ Ready(e) BY ClaimFits DEF Claimable, ReadyEvents
  <1>2. CASE status[e] \in {"pending", "retry"}
    <2>1. /\ attempts[e] < MaxAttempt /\ attempts[e] \in Nat /\ faults \in Nat
          /\ MaxAttempt \in Nat
      BY <1>1, <1>2, ConfigAssumption DEF AttemptedOf, TypeOK
    <2> QED BY <2>1
  <1>3. CASE status[e] = "processing" /\ lockLeft[e] = 0
    <2>1. ~Attended(e)
      <3> SUFFICES ASSUME NEW d \in Dispatchers, e \in batch[d], d \notin late
                   PROVE  FALSE
        BY DEF Attended
      <3>1. lockLeft[e] > Need(d) /\ Need(d) \in Nat
        BY NeedNat DEF Budget, BudgetOf
      <3> QED BY <1>3, <3>1
    <2> QED BY <1>3, <2>1 DEF AttemptedOf
  <1> QED BY <1>1, <1>2, <1>3 DEF Ready

\* An acknowledgement settles the event in hand, or leaves it an attempt to spend.
LEMMA MarkOutcome ==
    ASSUME TypeOK, NEW d \in Dispatchers, current[d] \in Events,
           MarkDelivered(d) \/ MarkFailed(d)
    PROVE  /\ attempts' = attempts
           /\ \/ status'[current[d]] \in {"delivered", "dead"}
              \/ status'[current[d]] = "retry" /\ attempts[current[d]] < MaxAttempt
           /\ \A e \in Events : e # current[d] => status'[e] = status[e]
  <1>1. CASE MarkDelivered(d) BY <1>1 DEF TypeOK, MarkDelivered
  <1>2. CASE MarkFailed(d)
    BY <1>2, ConfigAssumption DEF TypeOK, MarkFailed, OutOfBudget
  <1> QED BY <1>1, <1>2

LEMMA ClaimAttempted ==
    ASSUME TypeOK, Shape, Budget, Attempted, NEW d \in Dispatchers, Claim(d)
    PROVE  Attempted'
  <1> SUFFICES ASSUME NEW e \in Events PROVE AttemptedOf(e)'
    BY DEF Attempted
  <1>1. AttemptedOf(e) BY DEF Attempted
  <1>2. /\ LeaseRows(d, Claimable) /\ batch' = [batch EXCEPT ![d] = Claimable]
        /\ UNCHANGED <<late, faults>> /\ d \notin late /\ batch[d] = {}
    BY DEF Claim, Shape
  <1>3. CASE e \in Claimable
    <2>1. /\ status'[e] = "processing" /\ attempts'[e] = attempts[e] + 1
          /\ lock'[e] = d /\ e \in batch'[d]
      BY <1>2, <1>3 DEF LeaseRows, TypeOK
    <2>2. Attended(e)' BY <1>2, <2>1 DEF Attended
    <2>3. attempts[e] < MaxAttempt + faults BY <1>1, <1>3, ClaimableBudget
    <2>4. /\ attempts[e] \in Nat /\ MaxAttempt \in Nat /\ faults \in Nat
      BY ConfigAssumption DEF TypeOK
    <2> QED BY <1>2, <2>1, <2>2, <2>3, <2>4 DEF AttemptedOf
  <1>4. CASE e \notin Claimable
    <2>1. /\ status'[e] = status[e] /\ attempts'[e] = attempts[e]
          /\ lock'[e] = lock[e]
      BY <1>2, <1>4 DEF LeaseRows
    <2>2. Attended(e) => Attended(e)'
      <3> SUFFICES ASSUME NEW c \in Dispatchers, lock[e] = c, e \in batch[c],
                          c \notin late
                   PROVE  lock'[e] = c /\ e \in batch'[c] /\ c \notin late'
        BY DEF Attended
      <3>1. c # d BY <1>2
      <3> QED BY <1>2, <2>1, <3>1 DEF TypeOK
    <2> QED BY <1>1, <1>2, <2>1, <2>2, StillAttended
  <1> QED BY <1>3, <1>4

LEMMA AckAttempted ==
    ASSUME TypeOK, Shape, Attempted, NEW d \in Dispatchers,
           pc[d] \in {"delivered", "failed"},
           MarkDelivered(d) \/ MarkFailed(d), Proceed(d), UNCHANGED <<late, faults>>
    PROVE  Attempted'
  <1> SUFFICES ASSUME NEW e \in Events PROVE AttemptedOf(e)'
    BY DEF Attempted
  <1>1. AttemptedOf(e) BY DEF Attempted
  <1>2. current[d] \in Events BY DEF TypeOK, Shape
  <1>3. CASE e = current[d]
    <2>1. /\ attempts'[e] = attempts[e]
          /\ \/ status'[e] \in {"delivered", "dead"}
             \/ status'[e] = "retry" /\ attempts[e] < MaxAttempt
      BY <1>2, <1>3, MarkOutcome
    <2> QED BY <1>1, <2>1 DEF AttemptedOf
  <1>4. CASE e # current[d]
    <2>1. status'[e] = status[e] /\ attempts'[e] = attempts[e] /\ lock'[e] = lock[e]
      BY <1>4, MarkFrame
    <2>2. Attended(e) => Attended(e)'
      <3> SUFFICES ASSUME NEW c \in Dispatchers, lock[e] = c, e \in batch[c],
                          c \notin late
                   PROVE  e \in batch'[c]
        BY <2>1 DEF Attended
      <3> QED BY <1>4 DEF TypeOK, Proceed
    <2> QED BY <1>1, <2>1, <2>2, StillAttended
  <1> QED BY <1>3, <1>4

LEMMA AttemptedStep == IInv /\ [Next]_vars => Attempted'
  <1> SUFFICES ASSUME TypeOK, Shape, Budget, Attempted, [Next]_vars PROVE Attempted'
    BY DEF IInv
  <1>0. \A e \in Events : AttemptedOf(e) BY DEF Attempted
  <1>1. ASSUME NEW d \in Dispatchers, ClaimError(d) PROVE Attempted'
    <2> SUFFICES ASSUME NEW e \in Events PROVE AttemptedOf(e)'
      BY DEF Attempted
    <2>1. CASE LeaseRows(d, Claimable) /\ e \in Claimable
      <3>1. /\ status'[e] = "processing" /\ attempts'[e] = attempts[e] + 1
        BY <2>1 DEF LeaseRows
      <3> QED BY <1>0, <1>1, <2>1, <3>1, ClaimableBudget, FaultPays DEF ClaimError
    <2>2. CASE LeaseRows(d, Claimable) /\ e \notin Claimable
      <3>1. status'[e] = status[e] /\ attempts'[e] = attempts[e]
        BY <2>2 DEF LeaseRows
      <3> QED BY <1>0, <1>1, <3>1, FaultPays DEF ClaimError
    <2>3. CASE UNCHANGED rows
      BY <1>0, <1>1, <2>3, FaultPays DEF ClaimError, rows
    <2> QED BY <1>1, <2>1, <2>2, <2>3 DEF ClaimError
  <1>2. ASSUME NEW d \in Dispatchers, AckDelivered(d) \/ AckFailed(d) PROVE Attempted'
    <2>1. /\ pc[d] \in {"delivered", "failed"} /\ Proceed(d)
          /\ MarkDelivered(d) \/ MarkFailed(d)
          /\ UNCHANGED <<late, faults>>
      BY <1>2 DEF AckDelivered, AckFailed
    <2> QED BY <2>1, AckAttempted
  <1>3. ASSUME NEW d \in Dispatchers, AckRejected(d) PROVE Attempted'
    <2>1. d \in late
      <3>1. current[d] \in batch[d] /\ ~HoldsLock(d)
        BY <1>3 DEF Shape, AckRejected
      <3> QED BY <3>1 DEF Budget, BudgetOf, HoldsLock
    <2>2. ASSUME NEW e \in Events, Attended(e) PROVE Attended(e)'
      <3>1. PICK c \in Dispatchers : lock[e] = c /\ e \in batch[c] /\ c \notin late
        BY <2>2 DEF Attended
      <3>2. c # d BY <2>1, <3>1
      <3>3. lock'[e] = c /\ e \in batch'[c] /\ c \notin late'
        BY <1>3, <3>1, <3>2 DEF TypeOK, AckRejected, Abandon, rows
      <3> QED BY <3>3 DEF Attended
    <2> QED BY <1>0, <1>3, <2>2, StillAttended DEF Attempted, AckRejected, rows
  <1>4. ASSUME NEW d \in Dispatchers, AckError(d) PROVE Attempted'
    <2> SUFFICES ASSUME NEW e \in Events PROVE AttemptedOf(e)'
      BY DEF Attempted
    <2>1. CASE MarkDelivered(d) \/ MarkFailed(d)
      <3>1. current[d] \in Events BY <1>4 DEF TypeOK, Shape, AckError
      <3>2. CASE e = current[d]
        BY <1>0, <1>4, <2>1, <3>1, <3>2, MarkOutcome, FaultPays DEF AckError
      <3>3. CASE e # current[d]
        BY <1>0, <1>4, <2>1, <3>1, <3>3, MarkOutcome, FaultPays DEF AckError
      <3> QED BY <3>2, <3>3
    <2>2. CASE UNCHANGED rows
      BY <1>0, <1>4, <2>2, FaultPays DEF AckError, rows
    <2> QED BY <1>4, <2>1, <2>2 DEF AckError
  <1>5. ASSUME NEW d \in Dispatchers, NEW tooOld \in BOOLEAN,
               NEW accepted \in BOOLEAN, NEW answered \in BOOLEAN,
               \/ StartPublish(d) \/ Publish(d, accepted, answered)
               \/ BeginCheck(d) \/ CheckBacklog(d, tooOld)
        PROVE  Attempted'
    <2>1. UNCHANGED <<rows, batch, late, faults>>
      BY <1>5 DEF StartPublish, Publish, BeginCheck, CheckBacklog
    <2>2. \A e \in Events : Attended(e)' <=> Attended(e)
      BY <2>1 DEF Attended, rows
    <2> QED BY <1>0, <2>1, <2>2, StillAttended DEF Attempted, rows
  <1>6. ASSUME NEW d \in Dispatchers, EndBatch(d) PROVE Attempted'
    <2>1. UNCHANGED <<rows, batch, faults>> /\ late' = late \ {d}
      BY <1>6 DEF EndBatch
    <2>2. \A e \in Events : Attended(e) => Attended(e)'
      BY <2>1 DEF Attended, rows
    <2> QED BY <1>0, <2>1, <2>2, StillAttended DEF Attempted, rows
  <1>7. ASSUME NEW d \in Dispatchers, CheckError(d) \/ Crash(d) \/ Stall(d)
        PROVE  Attempted'
    <2>1. UNCHANGED rows /\ Fault BY <1>7 DEF CheckError, Crash, Stall
    <2> QED BY <1>0, <2>1, FaultPays DEF Attempted, rows
  <1>8. ASSUME NEW f \in Events, Enqueue(f) PROVE Attempted'
    <2> SUFFICES ASSUME NEW e \in Events PROVE AttemptedOf(e)'
      BY DEF Attempted
    <2>1. AttemptedOf(e) BY <1>0
    <2>2. Attended(e)' <=> Attended(e)
      BY <1>8 DEF Attended, Enqueue, loop
    <2> QED BY <1>8, <2>1, <2>2 DEF TypeOK, AttemptedOf, Enqueue
  <1>9. CASE Tick
    <2>1. UNCHANGED <<status, attempts, lock, batch, late, faults>>
      BY <1>9 DEF Tick
    <2>2. \A e \in Events : Attended(e)' <=> Attended(e)
      BY <2>1 DEF Attended
    <2> QED BY <1>0, <2>1, <2>2, StillAttended DEF Attempted
  <1>10. CASE UNCHANGED vars
    <2>1. UNCHANGED <<status, attempts, lock, batch, late, faults>>
      BY <1>10 DEF vars, rows, loop
    <2>2. \A e \in Events : Attended(e)' <=> Attended(e)
      BY <2>1 DEF Attended
    <2> QED BY <1>0, <2>1, <2>2, StillAttended DEF Attempted
  <1> QED
    BY <1>1, <1>2, <1>3, <1>4, <1>5, <1>6, <1>7, <1>8, <1>9, <1>10,
       ClaimAttempted DEF Next, Work, Failure

LEMMA InductiveInvariant == Spec => []IInv
  <1>1. IInv /\ [Next]_vars => IInv'
    BY TypeStep, ShapeStep, BudgetStep, AttemptedStep, ReceiptStep DEF IInv
  <1> QED BY InitIInv, <1>1, PTL DEF Spec

-----------------------------------------------------------------------------
\* Every variable of the rows, the dispatchers and the receiver keeps its type.
THEOREM TypeCorrect == Spec => []TypeOK
  <1>1. IInv => TypeOK BY DEF IInv
  <1> QED BY <1>1, InductiveInvariant, PTL

\* However many workers dispatch, a dispatcher that did not stall owns every row
\* of its batch until it acknowledged it: the lease bound of config.go suffices.
THEOREM LeaseCoversBatchHolds == Spec => []LeaseCoversBatch
  <1>1. IInv => LeaseCoversBatch
    BY DEF IInv, Budget, BudgetOf, LeaseCoversBatch, Punctual
  <1> QED BY <1>1, InductiveInvariant, PTL

\* Two dispatchers post one event at the same time only if one of them stalled.
THEOREM SoleDeliveryHolds == Spec => []SoleDelivery
  <1>1. IInv => SoleDelivery
    <2> SUFFICES ASSUME Shape, Budget, NEW d1 \in Dispatchers, NEW d2 \in Dispatchers,
                        d1 # d2, pc[d1] = "publish", pc[d2] = "publish",
                        current[d1] = current[d2], d1 \notin late, d2 \notin late
                 PROVE  FALSE
      BY DEF IInv, SoleDelivery
    <2>1. current[d1] \in batch[d1] /\ current[d1] \in batch[d2] BY DEF Shape
    <2>2. lock[current[d1]] = d1 /\ lock[current[d1]] = d2
      BY <2>1 DEF Budget, BudgetOf
    <2> QED BY <2>2
  <1> QED BY <1>1, InductiveInvariant, PTL

\* No row is ever marked delivered for an event the receiver did not accept.
THEOREM DeliveredWasReceivedHolds == Spec => []DeliveredWasReceived
  <1>1. IInv => DeliveredWasReceived BY DEF IInv, Receipt
  <1> QED BY <1>1, InductiveInvariant, PTL

\* Attempts exceed the budget by no more than the faults that wasted them.
THEOREM AttemptsBoundedHolds == Spec => []AttemptsBounded
  <1>1. IInv => AttemptsBounded
    BY DEF IInv, Attempted, AttemptedOf, AttemptsBounded
  <1> QED BY <1>1, InductiveInvariant, PTL

-----------------------------------------------------------------------------
(***************************************************************************)
(* The outbox implements Delivery.                                         *)
(***************************************************************************)
\* Whatever a dispatcher has in its batch was counted as an attempt.
Counted == \A d \in Dispatchers : \A e \in batch[d] : attempts[e] > 0

\* Attempts are only counted up, and a batch grows by a claim alone.
LEMMA CountedStep == IInv /\ Counted /\ [Next]_vars => Counted'
  <1> SUFFICES ASSUME IInv, Counted, [Next]_vars PROVE Counted'
    OBVIOUS
  <1>t. TypeOK BY DEF IInv
  <1>1. ASSUME NEW d \in Dispatchers, LeaseRows(d, Claimable)
        PROVE  \A e \in Events : attempts'[e] >= attempts[e]
    BY <1>1, <1>t DEF LeaseRows, TypeOK
  <1>2. ASSUME \A e \in Events : attempts'[e] >= attempts[e],
               \A d \in Dispatchers : batch'[d] \subseteq batch[d]
        PROVE  Counted'
    <2>1. ASSUME NEW d \in Dispatchers, NEW e \in batch'[d] PROVE attempts'[e] > 0
      <3>1. e \in batch[d] /\ e \in Events
        BY <1>2, <2>1, <1>t DEF TypeOK
      <3>2. attempts[e] > 0 /\ attempts[e] \in Nat
        BY <3>1, <1>t DEF Counted, TypeOK
      <3>3. attempts'[e] >= attempts[e] /\ attempts'[e] \in Nat
        BY <3>1, <1>2, TypeStep DEF IInv, TypeOK
      <3> QED BY <3>2, <3>3
    <2> QED BY <2>1 DEF Counted
  <1>k. \A e \in Events : attempts[e] >= attempts[e]
    BY <1>t DEF TypeOK
  <1>3. ASSUME NEW d \in Dispatchers, Claim(d) PROVE Counted'
    <2>1. ASSUME NEW f \in Dispatchers, NEW e \in batch'[f] PROVE attempts'[e] > 0
      <3>1. CASE f = d
        <4>1. e \in Claimable /\ e \in Events
          BY <1>3, <2>1, <3>1, <1>t, ClaimFits DEF Claim, TypeOK
        <4> QED BY <1>3, <4>1, <1>t DEF Claim, LeaseRows, TypeOK
      <3>2. CASE f # d
        <4>1. e \in batch[f] /\ e \in Events
          BY <1>3, <2>1, <3>2, <1>t DEF Claim, TypeOK
        <4>2. attempts[e] > 0 /\ attempts[e] \in Nat
          BY <4>1, <1>t DEF Counted, TypeOK
        <4> QED BY <1>3, <4>1, <4>2 DEF Claim, LeaseRows
      <3> QED BY <3>1, <3>2
    <2> QED BY <2>1 DEF Counted
  <1>4. ASSUME NEW d \in Dispatchers, ClaimError(d) PROVE Counted'
    BY <1>4, <1>1, <1>2, <1>k DEF ClaimError, rows
  <1>5. ASSUME NEW d \in Dispatchers, NEW accepted \in BOOLEAN, NEW answered \in BOOLEAN,
               NEW tooOld \in BOOLEAN,
               \/ StartPublish(d) \/ Publish(d, accepted, answered) \/ EndBatch(d)
               \/ BeginCheck(d) \/ CheckBacklog(d, tooOld) \/ CheckError(d) \/ Stall(d)
        PROVE  Counted'
    <2>1. UNCHANGED <<attempts, batch>>
      BY <1>5 DEF StartPublish, Publish, EndBatch, BeginCheck, CheckBacklog, CheckError, Stall,
         rows
    <2> QED BY <2>1, <1>2, <1>k
  <1>6. ASSUME NEW d \in Dispatchers,
               AckDelivered(d) \/ AckFailed(d) \/ AckRejected(d) \/ AckError(d) \/ Crash(d)
        PROVE  Counted'
    <2>1. UNCHANGED attempts
      BY <1>6 DEF AckDelivered, AckFailed, AckRejected, AckError, Crash, MarkDelivered,
         MarkFailed, rows
    <2>2. batch' = [batch EXCEPT ![d] = batch[d] \ {current[d]}]
          \/ batch' = [batch EXCEPT ![d] = {}]
      BY <1>6 DEF AckDelivered, AckFailed, AckRejected, AckError, Crash, Proceed, Abandon
    <2>3. \A f \in Dispatchers : batch'[f] \subseteq batch[f]
      BY <2>2, <1>t DEF TypeOK
    <2> QED BY <2>1, <2>3, <1>2, <1>k
  <1>7. CASE Tick \/ (\E e \in Events : Enqueue(e)) \/ UNCHANGED vars
    <2>1. UNCHANGED <<attempts, batch>>
      BY <1>7 DEF Tick, Enqueue, loop, vars, rows
    <2> QED BY <2>1, <1>2, <1>k
  <1> QED BY <1>3, <1>4, <1>5, <1>6, <1>7 DEF Next, Work, Failure

\* No row: nothing sent.
LEMMA PromiseInit == Init => Promise!Init
  BY DEF Init, Promise!Init, Fate

fates == [e \in Events |-> Fate(e)]

\* What leaves status, attempts and receipts alone is a stuttering step.
LEMMA FateKept ==
    ASSUME UNCHANGED status
    PROVE  UNCHANGED fates
  BY DEF fates, Fate

\* A change of one row's status changes the fate of that event alone.
LEMMA FateChanges ==
    ASSUME TypeOK, NEW e \in Events, NEW s, status' = [status EXCEPT ![e] = s],
           s \in {"retry", "pending", "delivered", "dead"}
    PROVE  fates' = [fates EXCEPT ![e] = IF s \in {"delivered", "dead"} THEN s ELSE "open"]
  <1>1. \A f \in Events :
           Fate(f)' = IF f = e THEN (IF s \in {"delivered", "dead"} THEN s ELSE "open")
                               ELSE Fate(f)
    BY DEF Fate, TypeOK
  <1> QED BY <1>1 DEF fates

\* A claim takes up a batch of open events.
LEMMA ClaimTries ==
    ASSUME TypeOK, NEW d \in Dispatchers, LeaseRows(d, Claimable), UNCHANGED received
    PROVE  \E claimed \in SUBSET Events : Promise!Try(claimed)
  <1>1. Claimable \in SUBSET Events
    BY ClaimFits
  <1>2. \A e \in Claimable : status[e] \in {"pending", "retry", "processing"}
    BY DEF Claimable, ReadyEvents, Ready
  <1>3. \A e \in Events : Fate(e)' = Fate(e)
    BY <1>1, <1>2 DEF LeaseRows, Fate, TypeOK
  <1>4. \A e \in Claimable : e \in Events /\ Fate(e) = "open"
    BY <1>1, <1>2 DEF Fate
  <1>5. attempts' = [e \in Events |-> IF e \in Claimable THEN attempts[e] + 1 ELSE attempts[e]]
    BY DEF LeaseRows
  <1>6. Promise!Try(Claimable)
    BY <1>3, <1>4, <1>5 DEF Promise!Try
  <1> QED BY <1>1, <1>6

\* An acknowledged receipt delivers.
LEMMA MarkDelivers ==
    ASSUME TypeOK, Shape, Receipt, NEW d \in Dispatchers, pc[d] = "delivered",
           MarkDelivered(d), UNCHANGED received
    PROVE  \E e \in Events : Promise!Deliver(e)
  <1>1. current[d] \in Events /\ current[d] \in received
    BY DEF TypeOK, Shape, Receipt
  <1>2. status[current[d]] = "processing"
    BY DEF MarkDelivered, HoldsLock
  <1>3. fates' = [fates EXCEPT ![current[d]] = "delivered"]
    BY <1>1, FateChanges DEF MarkDelivered
  <1>4. Fate(current[d]) = "open"
    BY <1>2 DEF Fate
  <1>5. Promise!Deliver(current[d])
    BY <1>1, <1>3, <1>4 DEF Promise!Deliver, Promise!Settle, MarkDelivered, fates
  <1> QED BY <1>1, <1>5

\* A failed delivery gives the event up once its budget is spent, and is otherwise
\* nothing its sender would notice.
LEMMA MarkGivesUp ==
    ASSUME TypeOK, Shape, NEW d \in Dispatchers, pc[d] = "failed",
           MarkFailed(d), UNCHANGED received
    PROVE  \/ \E e \in Events : Promise!GiveUp(e)
           \/ UNCHANGED <<fates, attempts, received>>
  <1>1. current[d] \in Events
    BY DEF TypeOK, Shape
  <1>2. status[current[d]] = "processing" /\ UNCHANGED attempts
    BY DEF MarkFailed, HoldsLock
  <1>3. Fate(current[d]) = "open"
    BY <1>2 DEF Fate
  <1>4. CASE OutOfBudget(current[d])
    <2>1. fates' = [fates EXCEPT ![current[d]] = "dead"]
      BY <1>1, <1>4, FateChanges DEF MarkFailed
    <2>2. Promise!GiveUp(current[d])
      BY <1>1, <1>2, <1>3, <1>4, <2>1
         DEF Promise!GiveUp, Promise!Settle, OutOfBudget, fates
    <2> QED BY <1>1, <2>2
  <1>5. CASE ~OutOfBudget(current[d])
    <2>1. fates' = [fates EXCEPT ![current[d]] = "open"]
      BY <1>1, <1>5, FateChanges DEF MarkFailed
    <2>2. fates' = fates
      BY <1>1, <1>3, <2>1 DEF fates
    <2> QED BY <1>2, <2>2
  <1> QED BY <1>4, <1>5

\* Every step of the outbox is a step of Delivery or changes nothing there.
LEMMA PromiseStep ==
    ASSUME IInv, Counted, [Next]_vars
    PROVE  Promise!Next \/ UNCHANGED <<fates, attempts, received>>
  <1>t. TypeOK /\ Shape /\ Receipt BY DEF IInv
  <1>1. ASSUME NEW d \in Dispatchers, Claim(d) \/ ClaimError(d)
        PROVE  Promise!Next \/ UNCHANGED <<fates, attempts, received>>
    <2>1. CASE LeaseRows(d, Claimable) /\ UNCHANGED received
      BY <2>1, <1>t, ClaimTries DEF Promise!Next
    <2>2. CASE UNCHANGED rows /\ UNCHANGED received
      BY <2>2, FateKept DEF rows
    <2> QED BY <1>1, <2>1, <2>2 DEF Claim, ClaimError
  <1>2. ASSUME NEW d \in Dispatchers, NEW accepted \in BOOLEAN, NEW answered \in BOOLEAN,
               Publish(d, accepted, answered)
        PROVE  Promise!Next \/ UNCHANGED <<fates, attempts, received>>
    <2>1. UNCHANGED <<status, attempts>> /\ UNCHANGED fates
      BY <1>2, FateKept DEF Publish, rows
    <2>2. CASE accepted
      <3>1. current[d] \in Events /\ attempts[current[d]] > 0
        BY <1>2, <1>t DEF Publish, Shape, TypeOK, Counted
      <3>2. Promise!Accept(current[d])
        BY <1>2, <2>1, <2>2, <3>1 DEF Promise!Accept, Publish, fates
      <3> QED BY <3>1, <3>2 DEF Promise!Next
    <2>3. CASE ~accepted
      BY <1>2, <2>1, <2>3 DEF Publish
    <2> QED BY <2>2, <2>3
  <1>3. ASSUME NEW d \in Dispatchers, AckDelivered(d) \/ AckFailed(d) \/ AckError(d)
        PROVE  Promise!Next \/ UNCHANGED <<fates, attempts, received>>
    <2>0. UNCHANGED received
      BY <1>3 DEF AckDelivered, AckFailed, AckError
    <2>1. CASE pc[d] = "delivered" /\ MarkDelivered(d)
      BY <2>0, <2>1, <1>t, MarkDelivers DEF Promise!Next
    <2>2. CASE pc[d] = "failed" /\ MarkFailed(d)
      BY <2>0, <2>2, <1>t, MarkGivesUp DEF Promise!Next
    <2>3. CASE UNCHANGED rows
      BY <2>0, <2>3, FateKept DEF rows
    <2> QED BY <1>3, <2>1, <2>2, <2>3 DEF AckDelivered, AckFailed, AckError
  <1>4. ASSUME NEW e \in Events, Enqueue(e)
        PROVE  Promise!Next \/ UNCHANGED <<fates, attempts, received>>
    <2>1. fates' = [fates EXCEPT ![e] = "open"] /\ UNCHANGED <<attempts, received>>
      BY <1>4, <1>t, FateChanges DEF Enqueue
    <2>2. Fate(e) = "unsent"
      BY <1>4 DEF Enqueue, Fate
    <2> QED BY <2>1, <2>2 DEF Promise!Next, Promise!Send, fates
  <1>5. ASSUME NEW d \in Dispatchers, NEW tooOld \in BOOLEAN,
               \/ StartPublish(d) \/ AckRejected(d) \/ EndBatch(d) \/ BeginCheck(d)
               \/ CheckBacklog(d, tooOld) \/ CheckError(d) \/ Crash(d) \/ Stall(d)
        PROVE  UNCHANGED <<fates, attempts, received>>
    <2>1. UNCHANGED <<status, attempts, received>>
      BY <1>5 DEF StartPublish, AckRejected, EndBatch, BeginCheck, CheckBacklog, CheckError,
         Crash, Stall, rows
    <2> QED BY <2>1, FateKept
  <1>6. CASE Tick \/ UNCHANGED vars
    <2>1. UNCHANGED <<status, attempts, received>>
      BY <1>6 DEF Tick, vars, rows
    <2> QED BY <2>1, FateKept
  <1> QED BY <1>1, <1>2, <1>3, <1>4, <1>5, <1>6 DEF Next, Work, Failure

\* The outbox is at-least-once delivery within a budget of attempts, for any number
\* of events and dispatchers and whatever of them fails.
THEOREM OutboxImplementsDelivery == Spec => DeliversAtLeastOnce
  <1>1. Init => Counted
    BY DEF Init, Counted
  <1>2. Spec => [](IInv /\ Counted)
    <2>1. Init => IInv /\ Counted
      BY <1>1, InitIInv
    <2>2. IInv /\ Counted /\ [Next]_vars => IInv' /\ Counted'
      BY CountedStep, TypeStep, ShapeStep, BudgetStep, AttemptedStep, ReceiptStep DEF IInv
    <2> QED BY <2>1, <2>2, PTL DEF Spec
  <1>3. IInv /\ Counted /\ [Next]_vars => [Promise!Next]_<<fates, attempts, received>>
    BY PromiseStep
  <1> QED
    BY <1>2, <1>3, PromiseInit, PTL DEF Spec, DeliversAtLeastOnce, Promise!Spec, fates
=============================================================================

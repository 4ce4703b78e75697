------------------------ MODULE EmbeddingCutoverProofs ------------------------
(***************************************************************************)
(* Theorems of EmbeddingCutover: coverage of what is published, and what a *)
(* switch may and other steps may not do, for any number of problems,      *)
(* models, workers and administrators.                                     *)
(***************************************************************************)
EXTENDS EmbeddingCutover, TLAPS

\* Requests that switch came from this API process, which still runs their model.
SwitchInv ==
    \A a \in Admins :
        request[a] # None /\ request[a].task = "switch" => request[a].model = runtime

IInv == TypeOK /\ PublishedIsCovered /\ SwitchInv

-----------------------------------------------------------------------------
\* The initial states are typed.
LEMMA TypeInit == Init => TypeOK
  BY DEF Init, TypeOK, Kinds

\* Jobs, requests and vectors are built from what the sets of values hold.
LEMMA Built ==
    /\ \A p \in Problems, t \in Texts, s \in {"store", "refresh", "clear", "gate"} :
         Job(p, t, s) \in [problem : Problems, text : Texts,
                           step : {"store", "refresh", "clear", "gate"}]
    /\ \A p \in Problems, m \in Models, c \in Texts \cup Codes : Vector(p, m, c) \in Vectors
    /\ \A m \in Models : \A kinds \in SUBSET Kinds : Switching(m, kinds) \in Requests
    /\ \A m \in Models : \A plan \in SUBSET Vectors : Filling(m, plan) \in Requests
    /\ \A t \in Texts, c \in Codes : NewProblem(t, c) \in Row
  BY DEF Job, Vector, Vectors, Switching, Filling, Requests, NewProblem, Row

\* A worker's step keeps the types.
LEMMA TypeWork ==
    ASSUME TypeOK, NEW w \in Workers, Work(w)
    PROVE  TypeOK'
<1> USE DEF TypeOK
<1>1. CASE \E p \in Problems, t \in Texts, c \in Codes : Store(w, p, t, c)
  BY <1>1, Built DEF Store, rows, models
<1>2. CASE \E p \in Problems : Refresh(w, p)
  <2>1. PICK p \in Problems : Refresh(w, p)
    BY <1>2
  <2>2. problem[p] \in Row
    BY <2>1 DEF Refresh, Stored
  <2>3. job' \in [Workers -> {None} \cup
               [problem : Problems, text : Texts, step : {"store", "refresh", "clear", "gate"}]]
    BY <2>1, <2>2, Built DEF Refresh, Row
  <2> QED
    BY <2>1, <2>3 DEF Refresh, rows, models
<1>3. CASE WriteVector(w)
  <2>1. job[w] \in [problem : Problems, text : Texts,
                    step : {"store", "refresh", "clear", "gate"}]
    BY <1>3 DEF WriteVector, At
  <2>2. Vector(job[w].problem, pinned[w], job[w].text) \in Vectors
    BY <2>1, Built
  <2>3. job' \in [Workers -> {None} \cup
               [problem : Problems, text : Texts, step : {"store", "refresh", "clear", "gate"}]]
    BY <1>3, <2>1 DEF WriteVector, Continue
  <2> QED
    BY <1>3, <2>2, <2>3 DEF WriteVector, models
<1>4. CASE Clear(w)
  <2>1. job[w] \in [problem : Problems, text : Texts,
                    step : {"store", "refresh", "clear", "gate"}]
    BY <1>4 DEF Clear, At
  <2>2. problem[job[w].problem] \in Row
    BY <1>4, <2>1 DEF Clear, Stored
  <2>3. problem' \in [Problems -> Row \cup {None}]
    BY <1>4, <2>1, <2>2 DEF Clear, Row
  <2>4. job' \in [Workers -> {None} \cup
               [problem : Problems, text : Texts, step : {"store", "refresh", "clear", "gate"}]]
    BY <1>4, <2>1 DEF Clear, Continue
  <2> QED
    BY <1>4, <2>3, <2>4 DEF Clear, models
<1>5. CASE Decide(w)
  <2>1. job[w].problem \in Problems /\ problem[job[w].problem] \in Row
    BY <1>5 DEF Decide, At, Stored
  <2>2. problem' \in [Problems -> Row \cup {None}]
    BY <1>5, <2>1 DEF Decide, Gate, Outcomes, Row
  <2> QED
    BY <1>5, <2>2 DEF Decide, End, models
<1>6. CASE Abort(w)
  BY <1>6 DEF Abort, End, rows, models
<1>7. CASE RestartWorker(w)
  BY <1>7 DEF RestartWorker, End, rows, models
<1> QED
  BY <1>1, <1>2, <1>3, <1>4, <1>5, <1>6, <1>7 DEF Work

\* An administrator's step keeps the types.
LEMMA TypeAdminister ==
    ASSUME TypeOK, CutoverAssumption, NEW a \in Admins, Administer(a)
    PROVE  TypeOK'
<1> USE DEF TypeOK
<1> Asked \subseteq Kinds
  BY DEF CutoverAssumption, Kinds
<1>1. ASSUME NEW m \in Models, NEW kinds \in SUBSET Asked, Deploy(a, m, kinds)
      PROVE  TypeOK'
  <2>1. Switching(m, kinds) \in Requests
    BY Built
  <2>2. registry' \in [Models -> {"absent", "shadow", "active"}]
    BY <1>1 DEF Deploy
  <2> QED
    BY <1>1, <2>1, <2>2 DEF Deploy, rows
<1>2. ASSUME NEW m \in Models, NEW kinds \in SUBSET Asked, Activate(a, m, kinds)
      PROVE  TypeOK'
  <2>1. Switching(m, kinds) \in Requests
    BY Built
  <2> QED
    BY <1>2, <2>1 DEF Activate, rows, models
<1>3. ASSUME NEW kind \in Asked, Switch(a, kind)
      PROVE  TypeOK'
  <2>1. request[a] \in Requests
    BY <1>3 DEF Switch
  <2>2. /\ pointer' \in [Kinds -> Models \cup {None}]
        /\ registry' \in [Models -> {"absent", "shadow", "active"}]
    BY <1>3, <2>1 DEF Switch, Requests
  <2>3. request' \in [Admins -> Requests \cup {None}]
    <3>1. /\ request[a].model \in Models
          /\ request[a].kinds \ {kind} \in SUBSET Kinds
      BY <2>1 DEF Requests
    <3>2. Switching(request[a].model, request[a].kinds \ {kind}) \in Requests
      BY <3>1, Built
    <3> QED
      BY <1>3, <3>2 DEF Switch
  <2> QED
    BY <1>3, <2>2, <2>3 DEF Switch, rows
<1>4. ASSUME NEW kind \in Asked, NEW m \in Models, NEW all \in BOOLEAN, Plan(a, kind, m, all)
      PROVE  TypeOK'
  <2>1. PICK batch \in SUBSET Candidates(kind, m, all) :
          request' = [request EXCEPT ![a] =
              Filling(m, {Vector(p, m, Current(kind, p)) : p \in batch})]
    BY <1>4 DEF Plan
  <2>2. \A p \in batch : Vector(p, m, Current(kind, p)) \in Vectors
    <3>1. \A p \in batch : p \in Problems /\ problem[p] \in Row
      BY DEF Candidates, Embeddable, Stored
    <3> QED
      BY <3>1, Built DEF Current, Row
  <2>3. Filling(m, {Vector(p, m, Current(kind, p)) : p \in batch}) \in Requests
    BY <2>2, Built
  <2> QED
    BY <1>4, <2>1, <2>3 DEF Plan, rows, models
<1>5. ASSUME request[a] # None, NEW v \in request[a].plan, Fill(a, v)
      PROVE  TypeOK'
  <2>1. request[a] \in Requests
    BY <1>5
  <2>3. request[a].plan \subseteq Vectors
    BY <2>1 DEF Requests
  <2>4. v \in Vectors
    BY <2>3
  <2>2. request' \in [Admins -> Requests \cup {None}]
    <3>1. request[a].model \in Models /\ request[a].plan \ {v} \in SUBSET Vectors
      BY <2>1, <2>3 DEF Requests
    <3>2. Filling(request[a].model, request[a].plan \ {v}) \in Requests
      BY <3>1, Built
    <3> QED
      BY <1>5, <3>2 DEF Fill
  <2> QED
    BY <1>5, <2>2, <2>4 DEF Fill, models
<1> QED
  BY <1>1, <1>2, <1>3, <1>4, <1>5 DEF Administer

\* What people do keeps the types.
LEMMA TypeTouch ==
    ASSUME TypeOK, NEW p \in Problems, Touch(p)
    PROVE  TypeOK'
<1> USE DEF TypeOK
<1>1. ASSUME NEW t \in Texts, NEW c \in Codes, Edit(p, t, c)
      PROVE  TypeOK'
  <2>1. problem[p] \in Row
    BY <1>1 DEF Edit, Stored
  <2>2. problem' \in [Problems -> Row \cup {None}]
    BY <1>1, <2>1 DEF Edit, Row, Withdrawn
  <2> QED
    BY <1>1, <2>2 DEF Edit, MarkedByEdit, models
<1>2. CASE Approve(p)
  <2>1. problem[p] \in Row
    BY <1>2 DEF Approve, Reviewable, Stored
  <2> QED
    BY <1>2, <2>1 DEF Approve, Row, models
<1>3. CASE ManualApprove(p)
  <2>1. problem[p] \in Row
    BY <1>3 DEF ManualApprove, Reviewable, Stored
  <2> QED
    BY <1>3, <2>1 DEF ManualApprove, Row, models
<1>4. CASE Delete(p)
  BY <1>4 DEF Delete, models
<1> QED
  BY <1>1, <1>2, <1>3, <1>4 DEF Touch

\* Every step keeps the types.
LEMMA TypeNext == ASSUME TypeOK, [Next]_vars PROVE TypeOK'
<1>1. CASE UNCHANGED vars
  BY <1>1 DEF TypeOK, vars, rows, models
<1>2. CASE RestartAPI
  BY <1>2 DEF TypeOK, RestartAPI, rows, models
<1> QED
  BY <1>1, <1>2, TypeWork, TypeAdminister, TypeTouch, CutoverAssumption DEF Next

-----------------------------------------------------------------------------
\* Vectors of different problems differ.
LEMMA VectorOf == \A p, m, c : Vector(p, m, c).problem = p
  BY DEF Vector

\* While problems and pointers stay and no vector goes, coverage stays.
LEMMA CoverageFrame ==
    ASSUME PublishedIsCovered, UNCHANGED <<problem, pointer>>, vectors \subseteq vectors'
    PROVE  PublishedIsCovered'
  BY DEF PublishedIsCovered, Published, Stored

\* A worker publishes only what is covered.
LEMMA CoverageWork ==
    ASSUME TypeOK, PublishedIsCovered, NEW w \in Workers, Work(w)
    PROVE  PublishedIsCovered'
<1>1. CASE \E p \in Problems, t \in Texts, c \in Codes : Store(w, p, t, c)
  <2>1. PICK p \in Problems, t \in Texts, c \in Codes : Store(w, p, t, c)
    BY <1>1
  <2>2. p \notin Published'
    BY <2>1 DEF Store, TypeOK, Published, NewProblem
  <2> QED
    BY <2>1, <2>2 DEF Store, TypeOK, PublishedIsCovered, Published, Stored, models
<1>2. CASE \E p \in Problems : Refresh(w, p)
  BY <1>2, CoverageFrame DEF Refresh, rows, models
<1>3. CASE WriteVector(w)
  BY <1>3, CoverageFrame DEF WriteVector, models
<1>4. CASE Clear(w)
  <2>1. job[w].problem \in Problems /\ problem[job[w].problem] \in Row
    BY <1>4 DEF Clear, Stored, TypeOK
  <2> QED
    BY <1>4, <2>1 DEF Clear, TypeOK, Row, PublishedIsCovered, Published, Stored, models
<1>5. CASE Decide(w)
  <2> DEFINE q == job[w].problem
  <2>1. q \in Problems /\ problem[q] \in Row
    BY <1>5 DEF Decide, Stored, TypeOK
  <2>2. PICK s \in Outcomes(q) : problem' = [problem EXCEPT ![q].status = s]
    BY <1>5 DEF Decide, Gate
  <2>3. s = "published" => Served(q) \/ problem[q].approved
    BY <2>2 DEF Outcomes, Prerequisites
  <2>4. problem'[q].text = problem[q].text /\ problem'[q].approved = problem[q].approved
        /\ problem'[q].status = s
    BY <2>1, <2>2 DEF TypeOK, Row
  <2>5. \A p \in Problems \ {q} : problem'[p] = problem[p]
    BY <2>2 DEF TypeOK
  <2>6. UNCHANGED <<vectors, pointer>>
    BY <1>5 DEF Decide, models
  <2> QED
    BY <2>1, <2>3, <2>4, <2>5, <2>6 DEF PublishedIsCovered, Published, Stored, Served
<1>6. CASE Abort(w)
  BY <1>6, CoverageFrame DEF Abort, rows, models
<1>7. CASE RestartWorker(w)
  BY <1>7, CoverageFrame DEF RestartWorker, rows, models
<1> QED
  BY <1>1, <1>2, <1>3, <1>4, <1>5, <1>6, <1>7 DEF Work

\* A switch moves a pointer only where everything published is covered.
LEMMA CoverageAdminister ==
    ASSUME TypeOK, CutoverAssumption, PublishedIsCovered, NEW a \in Admins, Administer(a)
    PROVE  PublishedIsCovered'
<1>1. ASSUME NEW m \in Models, NEW kinds \in SUBSET Asked, Deploy(a, m, kinds)
      PROVE  PublishedIsCovered'
  BY <1>1, CoverageFrame DEF Deploy, rows
<1>2. ASSUME NEW m \in Models, NEW kinds \in SUBSET Asked, Activate(a, m, kinds)
      PROVE  PublishedIsCovered'
  BY <1>2, CoverageFrame DEF Activate, rows, models
<1>3. ASSUME NEW kind \in Asked, Switch(a, kind)
      PROVE  PublishedIsCovered'
  <2>1. UNCHANGED <<problem, vectors>>
    BY <1>3 DEF Switch, rows
  <2>2. CASE pointer'["statement"] = pointer["statement"]
    BY <2>1, <2>2 DEF PublishedIsCovered, Published, Stored
  <2>3. CASE pointer'["statement"] # pointer["statement"]
    <3>1. kind = "statement" /\ Missing(kind, request[a].model) = {}
          /\ pointer'["statement"] = request[a].model
      BY <1>3, <2>3 DEF Switch, TypeOK, Kinds
    <3>2. \A p \in Published : Vector(p, request[a].model, problem[p].text) \in vectors
      BY <3>1 DEF Missing
    <3> QED
      BY <2>1, <3>1, <3>2 DEF PublishedIsCovered, Published, Stored
  <2> QED
    BY <2>2, <2>3
<1>4. ASSUME NEW kind \in Asked, NEW m \in Models, NEW all \in BOOLEAN, Plan(a, kind, m, all)
      PROVE  PublishedIsCovered'
  BY <1>4, CoverageFrame DEF Plan, rows, models
<1>5. ASSUME NEW v \in request[a].plan, Fill(a, v)
      PROVE  PublishedIsCovered'
  BY <1>5, CoverageFrame DEF Fill, models
<1> QED
  BY <1>1, <1>2, <1>3, <1>4, <1>5 DEF Administer

\* People withdraw what they change and approve what is served or answered for.
LEMMA CoverageTouch ==
    ASSUME TypeOK, PublishedIsCovered, NEW p \in Problems, Touch(p)
    PROVE  PublishedIsCovered'
<1>1. ASSUME NEW t \in Texts, NEW c \in Codes, Edit(p, t, c)
      PROVE  PublishedIsCovered'
  <2>1. p \notin Published'
    BY <1>1 DEF Edit, TypeOK, Published, Withdrawn
  <2>2. \A q \in Problems \ {p} : problem'[q] = problem[q]
    BY <1>1 DEF Edit, TypeOK
  <2>3. UNCHANGED <<vectors, pointer>>
    BY <1>1 DEF Edit, models
  <2> QED
    BY <2>1, <2>2, <2>3 DEF PublishedIsCovered, Published, Stored
<1>2. CASE Approve(p)
  <2>1. problem[p] \in Row /\ Served(p)
    BY <1>2 DEF Approve, Reviewable, Stored, TypeOK, Prerequisites
  <2>2. problem'[p].text = problem[p].text
    BY <1>2, <2>1 DEF Approve, TypeOK, Row
  <2>3. \A q \in Problems \ {p} : problem'[q] = problem[q]
    BY <1>2 DEF Approve, TypeOK
  <2>4. UNCHANGED <<vectors, pointer>>
    BY <1>2 DEF Approve, models
  <2> QED
    BY <2>1, <2>2, <2>3, <2>4 DEF PublishedIsCovered, Published, Stored, Served
<1>3. CASE ManualApprove(p)
  <2>1. problem[p] \in Row
    BY <1>3 DEF ManualApprove, Reviewable, Stored, TypeOK
  <2>2. problem'[p].approved
    BY <1>3, <2>1 DEF ManualApprove, TypeOK, Row
  <2>3. \A q \in Problems \ {p} : problem'[q] = problem[q]
    BY <1>3 DEF ManualApprove, TypeOK
  <2>4. UNCHANGED <<vectors, pointer>>
    BY <1>3 DEF ManualApprove, models
  <2> QED
    BY <2>2, <2>3, <2>4 DEF PublishedIsCovered, Published, Stored
<1>4. CASE Delete(p)
  <2>1. p \notin Published'
    BY <1>4 DEF Delete, TypeOK, Published, Stored
  <2>2. \A q \in Problems \ {p} : problem'[q] = problem[q]
    BY <1>4 DEF Delete, TypeOK
  <2>3. \A q \in Problems \ {p} : \A m, c : Vector(q, m, c) \in vectors => Vector(q, m, c) \in vectors'
    BY <1>4, VectorOf DEF Delete
  <2>4. UNCHANGED pointer
    BY <1>4 DEF Delete, models
  <2> QED
    BY <2>1, <2>2, <2>3, <2>4 DEF PublishedIsCovered, Published, Stored
<1> QED
  BY <1>1, <1>2, <1>3, <1>4 DEF Touch

\* Every step keeps coverage.
LEMMA CoverageNext ==
    ASSUME TypeOK, PublishedIsCovered, [Next]_vars
    PROVE  PublishedIsCovered'
<1>1. CASE UNCHANGED vars
  BY <1>1, CoverageFrame DEF vars, rows, models
<1>2. CASE RestartAPI
  BY <1>2, CoverageFrame DEF RestartAPI, rows, models
<1> QED
  BY <1>1, <1>2, CoverageWork, CoverageAdminister, CoverageTouch, CutoverAssumption DEF Next

-----------------------------------------------------------------------------
\* Requests that switch are made for the model the API process runs, and die with it.
LEMMA SwitchNext ==
    ASSUME TypeOK, SwitchInv, [Next]_vars
    PROVE  SwitchInv'
<1>1. CASE UNCHANGED <<request, runtime>>
  BY <1>1 DEF SwitchInv
<1>2. CASE RestartAPI
  BY <1>2 DEF RestartAPI, SwitchInv
<1>3. ASSUME NEW w \in Workers, Work(w)
      PROVE  UNCHANGED <<request, runtime>>
  BY <1>3 DEF Work, Store, Refresh, WriteVector, Clear, Decide, Abort, RestartWorker, rows, models
<1>4. ASSUME NEW p \in Problems, Touch(p)
      PROVE  UNCHANGED <<request, runtime>>
  BY <1>4 DEF Touch, Edit, Approve, ManualApprove, Delete, models
<1>5. ASSUME NEW a \in Admins, Administer(a)
      PROVE  SwitchInv'
  <2>1. ASSUME NEW b \in Admins, request'[b] # None, request'[b].task = "switch", b # a
        PROVE  request'[b] = request[b]
    BY <1>5, <2>1 DEF Administer, Deploy, Activate, Switch, Plan, Fill, TypeOK
  <2>2. ASSUME request'[a] # None, request'[a].task = "switch"
        PROVE  request'[a].model = runtime
    <3>1. ASSUME NEW m \in Models, NEW kinds \in SUBSET Asked,
                 Deploy(a, m, kinds) \/ Activate(a, m, kinds)
          PROVE  request'[a].model = runtime
      BY <2>2, <3>1 DEF Deploy, Activate, Switching, TypeOK
    <3>2. ASSUME NEW kind \in Asked, Switch(a, kind)
          PROVE  request'[a].model = runtime
      BY <2>2, <3>2 DEF Switch, Switching, SwitchInv, TypeOK
    <3>3. ASSUME NEW kind \in Asked, NEW m \in Models, NEW all \in BOOLEAN, Plan(a, kind, m, all)
          PROVE  FALSE
      BY <2>2, <3>3 DEF Plan, Filling, TypeOK
    <3>4. ASSUME NEW v \in request[a].plan, Fill(a, v)
          PROVE  FALSE
      BY <2>2, <3>4 DEF Fill, Filling, TypeOK
    <3> QED
      BY <1>5, <3>1, <3>2, <3>3, <3>4 DEF Administer
  <2>3. UNCHANGED runtime
    BY <1>5 DEF Administer, Deploy, Activate, Switch, Plan, Fill, models
  <2> QED
    BY <2>1, <2>2, <2>3 DEF SwitchInv
<1> QED
  BY <1>1, <1>2, <1>3, <1>4, <1>5 DEF Next, vars

\* The invariant holds of the initial states and survives every step.
LEMMA IInvInit == Init => IInv
  BY TypeInit DEF Init, IInv, PublishedIsCovered, SwitchInv, Published, Stored

LEMMA IInvNext == IInv /\ [Next]_vars => IInv'
  BY TypeNext, CoverageNext, SwitchNext DEF IInv

\* Every reachable state satisfies the inductive invariant.
THEOREM Invariant == Spec => []IInv
<1>1. Init => IInv
  BY IInvInit
<1>2. IInv /\ [Next]_vars => IInv'
  BY IInvNext
<1> QED
  BY <1>1, <1>2, PTL DEF Spec

\* Values of the database, the processes and their requests keep their types.
THEOREM TypeCorrect == Spec => []TypeOK
<1>1. IInv => TypeOK
  BY DEF IInv
<1> QED
  BY <1>1, Invariant, PTL

\* Nothing published without an administrator's approval ever lacks the active
\* model's vector of its text, whoever edits, backfills, switches and restarts.
THEOREM Covered == Spec => []PublishedIsCovered
<1>1. IInv => PublishedIsCovered
  BY DEF IInv
<1> QED
  BY <1>1, Invariant, PTL

-----------------------------------------------------------------------------
\* A problem that blocks the switch of the statement pointer is a candidate of the
\* backfill with all_stale.
LEMMA BlockingIsCandidate == TypeOK => StatementsActivate
<1> SUFFICES ASSUME TypeOK, NEW m \in Models, NEW p \in Missing("statement", m)
             PROVE  p \in Candidates("statement", m, TRUE)
  BY DEF StatementsActivate
<1>1. p \in Stored /\ problem[p].status = "published"
  BY DEF Missing, Published
<1>2. problem[p].text \in Texts
  BY <1>1 DEF TypeOK, Row, Stored
<1>3. Vector(p, m, problem[p].text) \notin vectors
  BY <1>2 DEF Missing, Content
<1> QED
  BY <1>1, <1>3 DEF Candidates, Embeddable, Current

\* Backfilling until no candidate is left unblocks the switch of the statements.
THEOREM BackfillUnblocks == Spec => []StatementsActivate
<1>1. IInv => StatementsActivate
  BY BlockingIsCandidate DEF IInv
<1> QED
  BY <1>1, Invariant, PTL

-----------------------------------------------------------------------------
\* Only a switch moves a pointer, to the model of its request.
LEMMA SwitchMoves ==
    ASSUME TypeOK, SwitchInv, [Next]_vars, NEW k \in Kinds, pointer'[k] # pointer[k]
    PROVE  pointer'[k] = runtime
<1>1. ASSUME NEW w \in Workers, Work(w)
      PROVE  UNCHANGED pointer
  BY <1>1 DEF Work, Store, Refresh, WriteVector, Clear, Decide, Abort, RestartWorker, models
<1>2. ASSUME NEW p \in Problems, Touch(p)
      PROVE  UNCHANGED pointer
  BY <1>2 DEF Touch, Edit, Approve, ManualApprove, Delete, models
<1>3. CASE RestartAPI
  BY <1>3 DEF RestartAPI, models
<1>4. ASSUME NEW a \in Admins, Administer(a)
      PROVE  pointer'[k] = runtime
  <2>1. ASSUME NEW kind \in Asked, Switch(a, kind)
        PROVE  pointer'[k] = runtime
    BY <2>1 DEF Switch, SwitchInv, TypeOK
  <2>2. CASE ~\E kind \in Asked : Switch(a, kind)
    BY <1>4, <2>2 DEF Administer, Deploy, Activate, Plan, Fill, models
  <2> QED
    BY <2>1, <2>2
<1> QED
  BY <1>1, <1>2, <1>3, <1>4 DEF Next, vars, models

\* What becomes active is the model the API process runs.
THEOREM ActiveIsRun == Spec => ActivatesRuntime
<1>1. IInv /\ [Next]_vars => [\A k \in Kinds : pointer'[k] # pointer[k] => pointer'[k] = runtime]_vars
  BY SwitchMoves DEF IInv
<1> QED
  BY <1>1, Invariant, PTL DEF Spec, ActivatesRuntime

-----------------------------------------------------------------------------
\* What a step leaves of a served problem when the pointer stays.
StaysServed(p) ==
    ~problem[p].approved /\ Served(p) /\ p \in Published' /\ pointer' = pointer
      => problem'[p].approved \/ Served(p)'

\* While the texts stay, no vector goes and none is marked, what is served stays so.
LEMMA ServedFrame ==
    ASSUME NEW p, problem'[p].text = problem[p].text, vectors \subseteq vectors',
           UNCHANGED marked
    PROVE  StaysServed(p)
  BY DEF StaysServed, Served

\* A worker's step leaves published problems served.
LEMMA ServedWork ==
    ASSUME TypeOK, NEW w \in Workers, Work(w), NEW p \in Published
    PROVE  StaysServed(p)
<1>1. CASE \E q \in Problems, t \in Texts, c \in Codes : Store(w, q, t, c)
  <2>1. PICK q \in Problems, t \in Texts, c \in Codes : Store(w, q, t, c)
    BY <1>1
  <2>2. p # q
    BY <2>1 DEF Store, Published, NewProblem
  <2>3. problem'[p] = problem[p]
    BY <2>1, <2>2 DEF Store, TypeOK, Published, Stored
  <2> QED
    BY <2>1, <2>3, ServedFrame DEF Store
<1>2. CASE \E q \in Problems : Refresh(w, q)
  BY <1>2, ServedFrame DEF Refresh, rows
<1>3. CASE WriteVector(w)
  BY <1>3, ServedFrame DEF WriteVector
<1>4. CASE Clear(w)
  <2>1. p \in Problems /\ problem[p] \in Row
    BY DEF Published, Stored, TypeOK
  <2>2. problem'[p].text = problem[p].text
    BY <1>4, <2>1 DEF Clear, TypeOK, Row
  <2> QED
    BY <1>4, <2>2, ServedFrame DEF Clear
<1>5. CASE Decide(w)
  <2>1. p \in Problems /\ problem[p] \in Row
    BY DEF Published, Stored, TypeOK
  <2>2. problem'[p].text = problem[p].text
    BY <1>5, <2>1 DEF Decide, Gate, TypeOK, Row
  <2> QED
    BY <1>5, <2>2, ServedFrame DEF Decide
<1>6. CASE Abort(w)
  BY <1>6, ServedFrame DEF Abort, rows
<1>7. CASE RestartWorker(w)
  BY <1>7, ServedFrame DEF RestartWorker, rows
<1> QED
  BY <1>1, <1>2, <1>3, <1>4, <1>5, <1>6, <1>7 DEF Work

\* So does an administrator's.
LEMMA ServedAdminister ==
    ASSUME NEW a \in Admins, Administer(a), NEW p \in Published
    PROVE  StaysServed(p)
<1>1. CASE \E v \in request[a].plan : Fill(a, v)
  BY <1>1, ServedFrame DEF Fill
<1>2. CASE ~\E v \in request[a].plan : Fill(a, v)
  <2>1. UNCHANGED rows
    BY <1>2 DEF Administer, Deploy, Activate, Switch, Plan
  <2> QED
    BY <2>1, ServedFrame DEF rows
<1> QED
  BY <1>1, <1>2

\* Marks and deletions reach only the problem that was edited or deleted.
LEMMA ServedTouch ==
    ASSUME TypeOK, NEW q \in Problems, Touch(q), NEW p \in Published
    PROVE  StaysServed(p)
<1>0. p \in Problems /\ problem[p] \in Row
  BY DEF Published, Stored, TypeOK
<1>1. ASSUME NEW t \in Texts, NEW c \in Codes, Edit(q, t, c)
      PROVE  StaysServed(p)
  <2>1. CASE p = q
    BY <1>1, <2>1 DEF Edit, TypeOK, Published, Withdrawn, StaysServed
  <2>2. CASE p # q
    <3>1. problem'[p] = problem[p]
      BY <1>0, <1>1, <2>2 DEF Edit, TypeOK
    <3>2. \A m, c1 : Vector(p, m, c1) \notin MarkedByEdit(q)
      BY <2>2, VectorOf DEF MarkedByEdit
    <3> QED
      BY <1>1, <3>1, <3>2 DEF Edit, StaysServed, Served
  <2> QED
    BY <2>1, <2>2
<1>2. CASE Approve(q)
  <2>1. problem'[p].text = problem[p].text
    BY <1>0, <1>2 DEF Approve, TypeOK, Row
  <2> QED
    BY <1>2, <2>1, ServedFrame DEF Approve
<1>3. CASE ManualApprove(q)
  <2>1. problem'[p].text = problem[p].text
    BY <1>0, <1>3 DEF ManualApprove, TypeOK, Row
  <2> QED
    BY <1>3, <2>1, ServedFrame DEF ManualApprove
<1>4. CASE Delete(q)
  <2>1. CASE p = q
    BY <1>4, <2>1 DEF Delete, TypeOK, Published, Stored, StaysServed
  <2>2. CASE p # q
    <3>1. problem'[p] = problem[p]
      BY <1>0, <1>4, <2>2 DEF Delete, TypeOK
    <3>2. \A m, c : /\ Vector(p, m, c) \in vectors => Vector(p, m, c) \in vectors'
                    /\ Vector(p, m, c) \in marked' => Vector(p, m, c) \in marked
      BY <1>4, <2>2, VectorOf DEF Delete
    <3> QED
      BY <3>1, <3>2 DEF StaysServed, Served
  <2> QED
    BY <2>1, <2>2
<1> QED
  BY <1>1, <1>2, <1>3, <1>4 DEF Touch

\* A published problem is taken out of the search only by a switch, by an edit that
\* withdraws it or by its deletion.
THEOREM OnlySwitchHides == Spec => OnlySwitchUnserves
<1>1. ASSUME IInv, [Next]_vars, NEW p \in Published
      PROVE  StaysServed(p)
  <2>1. CASE UNCHANGED vars
    BY <2>1, ServedFrame DEF vars, rows
  <2>2. CASE RestartAPI
    BY <2>2, ServedFrame DEF RestartAPI, rows
  <2> QED
    BY <1>1, <2>1, <2>2, ServedWork, ServedAdminister, ServedTouch DEF Next, IInv
<1>2. IInv /\ [Next]_vars =>
        [\A p \in Published :
           ~problem[p].approved /\ Served(p) /\ p \in Published' /\ pointer' = pointer
             => problem'[p].approved \/ Served(p)']_vars
  BY <1>1 DEF StaysServed
<1> QED
  BY <1>2, Invariant, PTL DEF Spec, OnlySwitchUnserves
=============================================================================

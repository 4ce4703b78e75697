--------------------------- MODULE IdentityProofs ---------------------------
(***************************************************************************)
(* Theorems about Identity, for any number of people and requests.         *)
(***************************************************************************)
EXTENDS Identity, FiniteSetTheorems, TLAPS

OfAccount == {"session", "signedIn", "password", "admin"}
WithHash == {"session", "password", "bootstrap"} \cup InvitationKinds

\* What a request knows when it comes to write.
Knowledge ==
    \A r \in Busy :
        /\ request[r].task \in OfAccount => request[r].email \in Registered
        /\ request[r].task \in WithHash => request[r].hash \in Hashes
        /\ request[r].task \in InvitationKinds =>
              \A i \in Live(r) : i.email = request[r].email /\ i.kind = request[r].task

\* One link of a kind for an address, and none before there is an administrator.
Distinct ==
    /\ \A i, j \in invitations :
          i.id = j.id \/ (i.email = j.email /\ i.kind = j.kind) => i = j
    /\ invitations # {} => Registered # {}

IInv == TypeOK /\ AdminRemains /\ AccessIsCurrent /\ Knowledge /\ Distinct

\* The empty database satisfies the invariant.
LEMMA InitIInv == Init => IInv
  BY DEF Init, IInv, TypeOK, AdminRemains, AccessIsCurrent, SessionsAreCurrent, LinksAreCurrent,
     Knowledge, Distinct, Registered, Busy

\* What a request goes on with, and that the others' knowledge stays.
LEMMA GotoLaws ==
  ASSUME TypeOK, NEW r \in Requests, NEW task \in Tasks, NEW e \in Emails,
         NEW h \in Hashes \cup {None}, NEW i \in Ids \cup {None}, Goto(r, task, e, h, i)
  PROVE /\ request' \in [Requests -> [task : Tasks, email : Emails, hash : Hashes \cup {None},
                                      id : Ids \cup {None}] \cup {None}]
        /\ request'[r] = [task |-> task, email |-> e, hash |-> h, id |-> i]
        /\ \A q \in Requests \ {r} : request'[q] = request[q]
  BY DEF TypeOK, Goto, Knows

LEMMA DoneLaws ==
  ASSUME TypeOK, NEW r \in Requests, Done(r)
  PROVE /\ request' \in [Requests -> [task : Tasks, email : Emails, hash : Hashes \cup {None},
                                      id : Ids \cup {None}] \cup {None}]
        /\ request'[r] = None
        /\ \A q \in Requests \ {r} : request'[q] = request[q]
  BY DEF TypeOK, Done

\* What one request knows stays true while no account disappears and no link takes
\* the place of the one it follows.
KnowledgeOf(r) ==
    r \in Busy =>
        /\ request[r].task \in OfAccount => request[r].email \in Registered
        /\ request[r].task \in WithHash => request[r].hash \in Hashes
        /\ request[r].task \in InvitationKinds =>
              \A i \in Live(r) : i.email = request[r].email /\ i.kind = request[r].task

LEMMA KnowledgeByRequest == Knowledge <=> \A r \in Requests : KnowledgeOf(r)
  BY DEF Knowledge, KnowledgeOf, Busy

LEMMA KnowledgeKept ==
  ASSUME Knowledge, NEW q \in Requests, request'[q] = request[q],
         Registered \subseteq Registered',
         q \in Busy => \A i \in invitations' : i.id = request[q].id => i \in invitations
  PROVE KnowledgeOf(q)'
  BY DEF Knowledge, KnowledgeOf, Busy, Live

\* A value nobody uses, if there is one.
LEMMA FreshLaws ==
  /\ OneOf(NewHashes) \subseteq Hashes
  /\ OneOf(NewIds) \subseteq NewIds
  BY DEF OneOf, NewHashes, NewIds

\* Requests that only read.
LEMMA ReadSteps ==
  ASSUME IInv, NEW r \in Requests, UNCHANGED tables,
         request' \in [Requests -> [task : Tasks, email : Emails, hash : Hashes \cup {None},
                                    id : Ids \cup {None}] \cup {None}],
         \A q \in Requests \ {r} : request'[q] = request[q],
         KnowledgeOf(r)'
  PROVE IInv'
<1>1. TypeOK' /\ AdminRemains' /\ AccessIsCurrent' /\ Distinct'
  BY DEF IInv, tables, TypeOK, AdminRemains, AccessIsCurrent, SessionsAreCurrent,
     LinksAreCurrent, Distinct, Registered, ActiveAdmins
<1>2. Knowledge'
  <2>1. ASSUME NEW q \in Requests PROVE KnowledgeOf(q)'
    BY <2>1, KnowledgeKept DEF IInv, tables, Registered
  <2> QED BY <2>1 DEF Knowledge, KnowledgeOf, Busy
<1> QED BY <1>1, <1>2 DEF IInv

\* A request that goes on with something it has read.
LEMMA GoesOn ==
  ASSUME IInv, NEW r \in Requests, NEW task \in Tasks, NEW e \in Emails,
         NEW h \in Hashes \cup {None}, NEW i \in Ids \cup {None},
         UNCHANGED tables, Goto(r, task, e, h, i),
         task \in OfAccount => e \in Registered,
         task \in WithHash => h \in Hashes,
         task \in InvitationKinds =>
             \A j \in invitations : j.id = i => j.email = e /\ j.kind = task
  PROVE IInv'
<1>1. TypeOK
  BY DEF IInv
<1>2. request'[r] = [task |-> task, email |-> e, hash |-> h, id |-> i]
  BY <1>1, GotoLaws
<1>3. Registered' = Registered /\ invitations' = invitations
  BY DEF tables, Registered
<1>4. Live(r)' = {j \in invitations : j.id = i}
  BY <1>2, <1>3 DEF Live
<1>5. KnowledgeOf(r)'
  BY <1>2, <1>3, <1>4 DEF KnowledgeOf
<1> QED BY <1>1, <1>5, GotoLaws, ReadSteps

\* Requests that sign in, authenticate or follow a link, and those that end.
LEMMA Reading ==
  ASSUME IInv, NEW r \in Requests,
         SignIn(r) \/ ReadCredential(r) \/ Quit(r)
  PROVE IInv'
<1>0. TypeOK /\ Knowledge
  BY DEF IInv
<1> USE DEF Tasks, OfAccount, WithHash, InvitationKinds
<1>1. ASSUME NEW e \in Emails, Login(r, e) PROVE IInv'
  <2>1. e \in Registered /\ users[e] \in User
    BY <1>0, <1>1 DEF Login, TypeOK, Registered
  <2>2. users[e].hash \in Hashes
    BY <2>1 DEF User
  <2> QED BY <1>1, <2>1, <2>2, GoesOn DEF Login
<1>2. ASSUME NEW e \in Emails, BeginBootstrap(r, e) PROVE IInv'
  <2>1. PICK h \in OneOf(NewHashes) : Goto(r, "bootstrap", e, h, None)
    BY <1>2 DEF BeginBootstrap
  <2> QED BY <1>2, <2>1, FreshLaws, GoesOn DEF BeginBootstrap
<1>3. ASSUME NEW s \in sessions, NEW task \in {"admin", "signedIn"}, Authenticate(r, s, task)
      PROVE IInv'
  <2>1. s.email \in Emails /\ s.email \in Registered
    BY <1>0 DEF TypeOK, Registered
  <2> QED BY <1>3, <2>1, GoesOn DEF Authenticate
<1>4. ASSUME NEW i \in invitations, Follow(r, i) PROVE IInv'
  <2>1. PICK h \in OneOf(NewHashes) : Goto(r, i.kind, i.email, h, i.id)
    BY <1>4 DEF Follow
  <2>2. i.kind \in {"register", "reset"} /\ i.email \in Emails /\ i.id \in Ids
    BY <1>0 DEF TypeOK
  <2>3. \A j \in invitations : j.id = i.id => j = i
    BY DEF IInv, Distinct
  <2> QED BY <1>4, <2>1, <2>2, <2>3, FreshLaws, GoesOn DEF Follow
<1>5. CASE ReadCredential(r)
  <2>1. PICK e \in Registered : request[r].email = e
    BY <1>0, <1>5 DEF ReadCredential, At, Knowledge, Busy
  <2>2. e \in Emails /\ users[e] \in User
    BY <1>0 DEF TypeOK, Registered
  <2>3. users[e].hash \in Hashes
    BY <2>2 DEF User
  <2> QED BY <1>5, <2>1, <2>2, <2>3, GoesOn DEF ReadCredential
<1>6. CASE Quit(r)
  <2>1. KnowledgeOf(r)'
    BY <1>0, <1>6, DoneLaws DEF Quit, KnowledgeOf, Busy
  <2> QED BY <1>0, <1>6, <2>1, DoneLaws, ReadSteps DEF Quit
<1> QED BY <1>1, <1>2, <1>3, <1>4, <1>5, <1>6 DEF SignIn

\* Requests that write: accounts stay, links only go.
LEMMA KnowledgeWritten ==
  ASSUME IInv, NEW r \in Requests,
         \A q \in Requests \ {r} : request'[q] = request[q],
         Registered \subseteq Registered', invitations' \subseteq invitations,
         KnowledgeOf(r)'
  PROVE Knowledge'
<1>1. ASSUME NEW q \in Requests PROVE KnowledgeOf(q)'
  BY <1>1, KnowledgeKept DEF IInv
<1> QED BY <1>1 DEF Knowledge, KnowledgeOf, Busy

\* A request that is over knows nothing.
LEMMA Over ==
  ASSUME IInv, NEW r \in Requests, Done(r),
         Registered \subseteq Registered', invitations' \subseteq invitations
  PROVE Knowledge'
<1>1. TypeOK
  BY DEF IInv
<1>2. KnowledgeOf(r)'
  BY <1>1, DoneLaws DEF KnowledgeOf, Busy
<1> QED BY <1>1, <1>2, DoneLaws, KnowledgeWritten

LEMMA DistinctKept ==
  ASSUME Distinct, invitations' \subseteq invitations, Registered \subseteq Registered'
  PROVE Distinct'
  BY DEF Distinct

\* An account that is written keeps its address; a new one appears.
LEMMA AccountLaws ==
  ASSUME TypeOK, NEW e \in Emails, NEW u \in User, users' = [users EXCEPT ![e] = u]
  PROVE /\ users' \in [Emails -> User \cup {None}]
        /\ Registered' = Registered \cup {e}
        /\ users'[e] = u
        /\ \A d \in Emails \ {e} : users'[d] = users[d]
  BY NoneAssumption DEF TypeOK, Registered

\* A granted session is the account's as it is.
LEMMA SessionSteps ==
  ASSUME IInv, NEW r \in Requests, CreateSession(r)
  PROVE IInv'
<1> DEFINE e == request[r].email
           h == request[r].hash
<1>0. TypeOK /\ Knowledge
  BY DEF IInv
<1>1. e \in Registered /\ e \in Emails /\ h \in Hashes /\ users[e] \in User
  BY <1>0 DEF CreateSession, At, Knowledge, Busy, OfAccount, WithHash, TypeOK, Registered
<1>2. users' = users /\ invitations' = invitations /\ Registered' = Registered
  BY DEF CreateSession, Registered
<1>3. Knowledge' /\ Distinct'
  BY <1>2, Over, DistinctKept DEF CreateSession, IInv
<1>4. AdminRemains'
  BY <1>2 DEF IInv, AdminRemains, ActiveAdmins
<1> DEFINE s == [email |-> e, hash |-> h, role |-> users[e].role]
<1>5. sessions' = sessions \/ (CredentialHolds(e, h) /\ sessions' = sessions \cup {s})
  BY DEF CreateSession
<1>6. AccessIsCurrent'
  BY <1>2, <1>5 DEF IInv, AccessIsCurrent, SessionsAreCurrent, LinksAreCurrent, CredentialHolds
<1>7. s \in [email : Registered, hash : Hashes, role : Roles]
  BY <1>1 DEF User
<1>8. TypeOK'
  <2>1. sessions' \subseteq [email : Registered', hash : Hashes, role : Roles]
    BY <1>0, <1>2, <1>5, <1>7 DEF TypeOK
  <2> QED BY <1>0, <1>2, <2>1, DoneLaws DEF CreateSession, TypeOK
<1> QED BY <1>3, <1>4, <1>6, <1>8 DEF IInv

\* Somebody replaces the password of an enabled account: its sessions end, and so do
\* its links.
LEMMA PasswordReplaced ==
  ASSUME IInv, NEW r \in Requests, Done(r), NEW e \in Registered, NEW h \in Hashes,
         ~users[e].disabled,
         users' = [users EXCEPT ![e].hash = h],
         sessions' = sessions \ Sessions(e),
         invitations' \subseteq invitations,
         \A i \in invitations' : ~(i.email = e /\ i.kind = "reset")
  PROVE IInv'
<1>0. TypeOK /\ e \in Emails /\ users[e] \in User
  BY DEF IInv, TypeOK, Registered
<1>1. PICK u \in User : /\ users' = [users EXCEPT ![e] = u]
                      /\ u.role = users[e].role /\ u.disabled = users[e].disabled /\ u.hash = h
  <2> DEFINE v == [users[e] EXCEPT !.hash = h]
  <2>1. v \in User /\ v.role = users[e].role /\ v.disabled = users[e].disabled /\ v.hash = h
    BY <1>0 DEF User
  <2> QED BY <2>1
<1>2. /\ users' \in [Emails -> User \cup {None}] /\ Registered' = Registered
      /\ users'[e] = u /\ \A d \in Emails \ {e} : users'[d] = users[d]
  <2>1. TypeOK /\ e \in Emails /\ users' = [users EXCEPT ![e] = u]
    BY <1>0, <1>1
  <2>2. /\ users' \in [Emails -> User \cup {None}] /\ Registered' = Registered \cup {e}
        /\ users'[e] = u /\ \A d \in Emails \ {e} : users'[d] = users[d]
    BY <2>1, AccountLaws
  <2>3. Registered \cup {e} = Registered
    OBVIOUS
  <2> QED BY <2>2, <2>3
<1>3. TypeOK'
  BY <1>0, <1>2, DoneLaws DEF TypeOK
<1>4. AdminRemains'
  <2>1. ActiveAdmins' = ActiveAdmins
    BY <1>1, <1>2 DEF ActiveAdmins, Registered
  <2> QED BY <1>2, <2>1 DEF IInv, AdminRemains
<1>5. SessionsAreCurrent'
  BY <1>0, <1>2 DEF IInv, TypeOK, Registered, AccessIsCurrent, SessionsAreCurrent, Sessions
<1>6. LinksAreCurrent'
  <2> SUFFICES ASSUME NEW i \in invitations'
               PROVE  IF i.kind = "register"
                      THEN i.email \notin Registered'
                      ELSE i.email \in Registered' /\ ~users'[i.email].disabled
                           /\ users'[i.email].hash = i.hash
    BY DEF LinksAreCurrent
  <2>1. i \in invitations /\ i.kind \in {"register", "reset"} /\ i.email \in Emails
    BY <1>0 DEF TypeOK, InvitationKinds
  <2> QED BY <1>2, <2>1 DEF IInv, AccessIsCurrent, LinksAreCurrent
<1>7. Knowledge' /\ Distinct'
  BY <1>2, Over, DistinctKept DEF IInv
<1> QED BY <1>3, <1>4, <1>5, <1>6, <1>7 DEF IInv, AccessIsCurrent

\* A request that finds its right gone leaves everything as it is.
LEMMA Refused ==
  ASSUME IInv, NEW r \in Requests, Done(r), UNCHANGED tables
  PROVE IInv'
<1>1. TypeOK
  BY DEF IInv
<1>2. KnowledgeOf(r)'
  BY <1>1, DoneLaws DEF KnowledgeOf, Busy
<1> QED BY <1>1, <1>2, DoneLaws, ReadSteps

LEMMA ChangePasswordSteps ==
  ASSUME IInv, NEW r \in Requests, ChangePassword(r)
  PROVE IInv'
<1>0. TypeOK /\ Knowledge /\ Done(r)
  BY DEF IInv, ChangePassword
<1>1. PICK e \in Registered : request[r].email = e
  BY <1>0 DEF ChangePassword, At, Knowledge, Busy, OfAccount
<1>2. CASE CredentialHolds(e, request[r].hash)
  <2>1. PICK h \in OneOf(NewHashes) : users' = [users EXCEPT ![e].hash = h]
    BY <1>1, <1>2 DEF ChangePassword
  <2>2. h \in Hashes /\ ~users[e].disabled
    BY <1>2, <2>1, FreshLaws DEF CredentialHolds
  <2>3. sessions' = sessions \ Sessions(e) /\ invitations' = invitations \ Links(e, "reset")
    BY <1>1, <1>2 DEF ChangePassword
  <2>4. invitations' \subseteq invitations /\ \A i \in invitations' : ~(i.email = e /\ i.kind = "reset")
    BY <2>3 DEF Links
  <2> QED BY <1>0, <2>1, <2>2, <2>3, <2>4, PasswordReplaced
<1>3. CASE ~CredentialHolds(e, request[r].hash)
  BY <1>0, <1>1, <1>3, Refused DEF ChangePassword
<1> QED BY <1>2, <1>3

\* A link, when it is followed to its end, is the only one of its kind for its address.
LEMMA LinkLaws ==
  ASSUME IInv, NEW r \in Requests, NEW kind \in InvitationKinds, At(r, kind), Live(r) # {}
  PROVE /\ request[r].email \in Emails /\ request[r].hash \in Hashes
        /\ \A i \in invitations : i.email = request[r].email /\ i.kind = kind => i \in Live(r)
        /\ kind = "reset" => request[r].email \in Registered
<1>1. PICK i \in invitations : i.id = request[r].id
  BY DEF Live
<1>2. i.email = request[r].email /\ i.kind = kind /\ request[r].hash \in Hashes
  BY <1>1 DEF IInv, Knowledge, Busy, At, Live, WithHash
<1>3. request[r].email \in Emails
  BY <1>2 DEF IInv, TypeOK
<1>4. \A j \in invitations : j.email = i.email /\ j.kind = i.kind => j = i
  BY <1>1 DEF IInv, Distinct
<1>5. kind = "reset" => i.email \in Registered
  BY <1>2 DEF IInv, AccessIsCurrent, LinksAreCurrent
<1> QED BY <1>1, <1>2, <1>3, <1>4, <1>5 DEF Live

LEMMA ResetSteps ==
  ASSUME IInv, NEW r \in Requests, ResetPassword(r)
  PROVE IInv'
<1>1. Done(r) /\ At(r, "reset")
  BY DEF ResetPassword
<1>2. CASE Live(r) # {} /\ ~users[request[r].email].disabled
  <2>1. /\ request[r].email \in Registered /\ request[r].hash \in Hashes
        /\ \A i \in invitations : i.email = request[r].email /\ i.kind = "reset" => i \in Live(r)
    BY <1>1, <1>2, LinkLaws DEF InvitationKinds
  <2>2. PICK e \in Registered, h \in Hashes : request[r].email = e /\ request[r].hash = h
    BY <2>1
  <2>3. /\ users' = [users EXCEPT ![e].hash = h] /\ ~users[e].disabled
        /\ sessions' = sessions \ Sessions(e)
        /\ invitations' = invitations \ Live(r)
    BY <1>2, <2>2 DEF ResetPassword
  <2>4. invitations' \subseteq invitations /\ \A i \in invitations' : ~(i.email = e /\ i.kind = "reset")
    BY <2>1, <2>2, <2>3
  <2> QED BY <1>1, <2>2, <2>3, <2>4, PasswordReplaced
<1>3. CASE ~(Live(r) # {} /\ ~users[request[r].email].disabled)
  BY <1>1, <1>3, Refused DEF ResetPassword
<1> QED BY <1>2, <1>3

\* A new account, whose request goes on to sign in.
LEMMA AccountAdded ==
  ASSUME IInv, NEW r \in Requests, NEW e \in Emails \ Registered, NEW h \in Hashes,
         NEW role \in Roles, users' = [users EXCEPT ![e] = Account(role, h)],
         Goto(r, "session", e, h, None),
         sessions' \subseteq sessions,
         invitations' \subseteq invitations, \A i \in invitations' : i.email # e,
         role = "admin" \/ Registered # {}
  PROVE IInv'
<1>0. TypeOK /\ "session" \in Tasks /\ Account(role, h) \in User
  BY DEF IInv, Tasks, Account, User
<1>1. PICK u \in User : /\ users' = [users EXCEPT ![e] = u]
                        /\ u.role = role /\ u.disabled = FALSE
  BY <1>0 DEF Account
<1>2. /\ users' \in [Emails -> User \cup {None}] /\ Registered' = Registered \cup {e}
      /\ users'[e] = u /\ \A d \in Emails \ {e} : users'[d] = users[d]
  BY <1>0, <1>1, AccountLaws
<1>3. TypeOK'
  <2>1. request' \in [Requests -> [task : Tasks, email : Emails, hash : Hashes \cup {None},
                                   id : Ids \cup {None}] \cup {None}]
    BY <1>0, GotoLaws
  <2>2. sessions' \subseteq [email : Registered', hash : Hashes, role : Roles]
    BY <1>0, <1>2 DEF TypeOK
  <2> QED BY <1>0, <1>2, <2>1, <2>2 DEF TypeOK
<1>4. AdminRemains'
  <2>1. CASE role = "admin"
    <3>1. e \in ActiveAdmins'
      BY <1>1, <1>2, <2>1 DEF ActiveAdmins
    <3> QED BY <3>1 DEF AdminRemains
  <2>2. CASE Registered # {}
    <3>1. PICK d \in ActiveAdmins : TRUE
      BY <2>2 DEF IInv, AdminRemains
    <3>2. d \in Registered /\ d \in Emails \ {e}
      BY <3>1 DEF ActiveAdmins, Registered
    <3>3. d \in ActiveAdmins'
      BY <1>2, <3>1, <3>2 DEF ActiveAdmins
    <3> QED BY <3>3 DEF AdminRemains
  <2> QED BY <2>1, <2>2
<1>5. AccessIsCurrent'
  <2>1. \A s \in sessions' : s.email \in Registered /\ s.email \in Emails \ {e}
    BY <1>0 DEF TypeOK, Registered
  <2>2. \A i \in invitations' : i.email \in Emails \ {e}
    BY <1>0 DEF TypeOK
  <2>3. SessionsAreCurrent'
    BY <1>2, <2>1 DEF IInv, AccessIsCurrent, SessionsAreCurrent
  <2>4. LinksAreCurrent'
    BY <1>2, <2>2 DEF IInv, AccessIsCurrent, LinksAreCurrent
  <2> QED BY <2>3, <2>4 DEF AccessIsCurrent
<1>6. Distinct'
  BY <1>2, DistinctKept DEF IInv
<1>7. Knowledge'
  <2>1. request'[r] = [task |-> "session", email |-> e, hash |-> h, id |-> None]
    BY <1>0, GotoLaws
  <2>2. KnowledgeOf(r)'
    BY <1>2, <2>1 DEF KnowledgeOf, InvitationKinds
  <2> QED BY <1>0, <1>2, <2>2, GotoLaws, KnowledgeWritten
<1> QED BY <1>3, <1>4, <1>5, <1>6, <1>7 DEF IInv

LEMMA BootstrapSteps ==
  ASSUME IInv, NEW r \in Requests, Bootstrap(r)
  PROVE IInv'
<1>1. CASE SetupRequired
  <2>1. request[r].email \in Emails /\ request[r].hash \in Hashes
    BY DEF Bootstrap, At, IInv, Knowledge, Busy, WithHash, TypeOK
  <2>2. PICK e \in Emails, h \in Hashes : request[r].email = e /\ request[r].hash = h
    BY <2>1
  <2>3. users' = [users EXCEPT ![e] = Account("admin", h)] /\ Goto(r, "session", e, h, None)
    BY <1>1, <2>2 DEF Bootstrap
  <2>4. Registered = {} /\ sessions' = sessions /\ invitations' = invitations /\ invitations = {}
    BY <1>1 DEF SetupRequired, Bootstrap, IInv, Distinct
  <2> QED BY <2>3, <2>4, AccountAdded DEF Roles
<1>2. CASE ~SetupRequired
  BY <1>2, Refused DEF Bootstrap, tables
<1> QED BY <1>1, <1>2

LEMMA RegisterSteps ==
  ASSUME IInv, NEW r \in Requests, Register(r)
  PROVE IInv'
<1>1. CASE Live(r) # {} /\ request[r].email \notin Registered
  <2>1. /\ request[r].email \in Emails /\ request[r].hash \in Hashes
        /\ \A i \in invitations : i.email = request[r].email /\ i.kind = "register" => i \in Live(r)
    BY <1>1, LinkLaws DEF Register, InvitationKinds
  <2>2. PICK e \in Emails \ Registered, h \in Hashes : request[r].email = e /\ request[r].hash = h
    BY <1>1, <2>1
  <2>3. /\ users' = [users EXCEPT ![e] = Account("member", h)] /\ Goto(r, "session", e, h, None)
        /\ sessions' \subseteq sessions /\ invitations' = invitations \ Live(r)
    BY <1>1, <2>2 DEF Register
  <2>4. \A i \in invitations' : i.email # e
    <3>1. \A i \in invitations : i.kind # "register" => i.email \in Registered
      BY DEF IInv, AccessIsCurrent, LinksAreCurrent
    <3> QED BY <2>1, <2>2, <2>3, <3>1
  <2>5. Registered # {}
    BY <1>1 DEF Live, IInv, Distinct
  <2> QED BY <2>2, <2>3, <2>4, <2>5, AccountAdded DEF Roles
<1>2. CASE ~(Live(r) # {} /\ request[r].email \notin Registered)
  BY <1>2, Refused DEF Register
<1> QED BY <1>1, <1>2

\* Of two administrators one is left when the other goes.
LEMMA LastAdminLaw ==
  ASSUME NEW e \in ActiveAdmins, ~LastAdmin
  PROVE  \E d \in ActiveAdmins : d # e
<1> SUFFICES ASSUME \A d \in ActiveAdmins : d = e
             PROVE  LastAdmin
  OBVIOUS
<1>1. ActiveAdmins = {e}
  OBVIOUS
<1>2. Cardinality({e}) = 1
  BY FS_Singleton
<1> QED BY <1>1, <1>2 DEF LastAdmin

LEMMA UpdateSteps ==
  ASSUME IInv, NEW r \in Requests, NEW e \in Emails, NEW role \in Roles, NEW disabled \in BOOLEAN,
         UpdateUser(r, e, role, disabled)
  PROVE IInv'
<1>0. /\ TypeOK /\ Done(r) /\ e \in Registered /\ users[e] \in User
      /\ invitations' \subseteq invitations
  BY DEF IInv, UpdateUser, TypeOK, Registered
<1>1. PICK u \in User : /\ users' = [users EXCEPT ![e] = u]
                        /\ u.role = role /\ u.disabled = disabled /\ u.hash = users[e].hash
  <2> DEFINE v == [role |-> role, disabled |-> disabled, hash |-> users[e].hash]
  <2>1. v \in User /\ v.role = role /\ v.disabled = disabled /\ v.hash = users[e].hash
    BY <1>0 DEF User
  <2>2. users' = [users EXCEPT ![e] = v]
    BY DEF UpdateUser
  <2> QED BY <2>1, <2>2
<1>2. /\ users' \in [Emails -> User \cup {None}] /\ Registered' = Registered
      /\ users'[e] = u /\ \A d \in Emails \ {e} : users'[d] = users[d]
  <2>1. Registered' = Registered \cup {e}
    BY <1>0, <1>1, AccountLaws
  <2> QED BY <1>0, <1>1, <2>1, AccountLaws
<1>3. sessions' \subseteq sessions
  BY DEF UpdateUser
<1>4. TypeOK'
  BY <1>0, <1>2, <1>3, DoneLaws DEF TypeOK
<1>5. AdminRemains'
  <2>1. CASE e \in ActiveAdmins /\ (role # "admin" \/ disabled)
    <3>1. PICK d \in ActiveAdmins : d # e
      BY <2>1, LastAdminLaw DEF UpdateUser
    <3>2. d \in Registered /\ d \in Emails
      BY <3>1 DEF ActiveAdmins, Registered
    <3>3. d \in ActiveAdmins'
      BY <1>2, <3>1, <3>2 DEF ActiveAdmins
    <3> QED BY <3>3 DEF AdminRemains
  <2>2. CASE e \in ActiveAdmins /\ role = "admin" /\ ~disabled
    <3>1. e \in ActiveAdmins'
      BY <1>0, <1>1, <1>2, <2>2 DEF ActiveAdmins
    <3> QED BY <3>1 DEF AdminRemains
  <2>3. CASE e \notin ActiveAdmins
    <3>1. PICK d \in ActiveAdmins : d # e
      BY <1>0, <2>3 DEF IInv, AdminRemains
    <3>2. d \in Registered /\ d \in Emails
      BY <3>1 DEF ActiveAdmins, Registered
    <3>3. d \in ActiveAdmins'
      BY <1>2, <3>1, <3>2 DEF ActiveAdmins
    <3> QED BY <3>3 DEF AdminRemains
  <2> QED BY <2>1, <2>2, <2>3
<1>6. SessionsAreCurrent'
  <2> SUFFICES ASSUME NEW s \in sessions'
               PROVE  /\ ~users'[s.email].disabled
                      /\ users'[s.email].hash = s.hash
                      /\ users'[s.email].role = s.role
    BY DEF SessionsAreCurrent
  <2>1. s \in sessions /\ s.email \in Emails
    BY <1>0, <1>3 DEF TypeOK, Registered
  <2>2. /\ ~users[s.email].disabled /\ users[s.email].hash = s.hash
        /\ users[s.email].role = s.role
    BY <2>1 DEF IInv, AccessIsCurrent, SessionsAreCurrent
  <2>3. CASE s.email = e
    <3>1. role = users[e].role /\ disabled = users[e].disabled
      BY <2>1, <2>3 DEF UpdateUser, Sessions
    <3> QED BY <1>1, <1>2, <2>2, <2>3, <3>1
  <2>4. CASE s.email # e
    BY <1>2, <2>1, <2>2, <2>4
  <2> QED BY <2>3, <2>4
<1>7. LinksAreCurrent'
  <2> SUFFICES ASSUME NEW i \in invitations'
               PROVE  IF i.kind = "register"
                      THEN i.email \notin Registered'
                      ELSE i.email \in Registered' /\ ~users'[i.email].disabled
                           /\ users'[i.email].hash = i.hash
    BY DEF LinksAreCurrent
  <2>1. i \in invitations /\ i.email \in Emails
    BY <1>0 DEF TypeOK
  <2>2. i.email = e => ~disabled
    BY DEF UpdateUser
  <2> QED BY <1>1, <1>2, <2>1, <2>2 DEF IInv, AccessIsCurrent, LinksAreCurrent
<1>8. Knowledge' /\ Distinct'
  BY <1>0, <1>2, Over, DistinctKept DEF IInv
<1> QED BY <1>4, <1>5, <1>6, <1>7, <1>8 DEF IInv, AccessIsCurrent

\* A link sent fits the account as it is, and takes the place of the last one.
LEMMA IssueSteps ==
  ASSUME IInv, NEW r \in Requests, NEW e \in Emails, NEW kind \in InvitationKinds,
         IssueInvitation(r, e, kind)
  PROVE IInv'
<1> DEFINE i(n) == [id |-> n, email |-> e, kind |-> kind,
                    hash |-> IF kind = "reset" THEN users[e].hash ELSE None]
<1>0. TypeOK /\ Done(r) /\ users' = users /\ sessions' = sessions /\ Registered' = Registered
  BY DEF IInv, IssueInvitation, Registered
<1>1. PICK n \in NewIds : invitations' = (invitations \ Links(e, kind)) \cup {i(n)}
  BY FreshLaws DEF IssueInvitation
<1>2. kind \in {"register", "reset"} /\ n \in Ids
  BY DEF InvitationKinds, NewIds
<1>3. Invitable(e, kind)
  BY DEF IssueInvitation
<1>4. i(n).id = n /\ i(n).email = e /\ i(n).kind = kind /\ (kind = "reset" => i(n).hash = users[e].hash)
  OBVIOUS
<1>5. i(n).hash \in Hashes \cup {None}
  <2>1. kind = "reset" => users[e] \in User
    BY <1>0, <1>3 DEF Invitable, TypeOK, Registered
  <2> QED BY <2>1 DEF User
<1>6. i(n) \in [id : Ids, email : Emails, kind : InvitationKinds, hash : Hashes \cup {None}]
  BY <1>2, <1>5
<1> HIDE DEF i
<1>7. TypeOK'
  <2>1. invitations' \subseteq [id : Ids, email : Emails, kind : InvitationKinds,
                                hash : Hashes \cup {None}]
    BY <1>0, <1>1, <1>6 DEF TypeOK
  <2> QED BY <1>0, <2>1, DoneLaws DEF TypeOK
<1>8. AdminRemains' /\ SessionsAreCurrent'
  BY <1>0 DEF IInv, AdminRemains, ActiveAdmins, AccessIsCurrent, SessionsAreCurrent
<1>9. LinksAreCurrent'
  <2> SUFFICES ASSUME NEW j \in invitations'
               PROVE  IF j.kind = "register"
                      THEN j.email \notin Registered
                      ELSE j.email \in Registered /\ ~users[j.email].disabled
                           /\ users[j.email].hash = j.hash
    BY <1>0 DEF LinksAreCurrent
  <2>1. CASE j \in invitations
    BY <2>1 DEF IInv, AccessIsCurrent, LinksAreCurrent
  <2>2. CASE j = i(n)
    BY <1>2, <1>3, <1>4, <2>2 DEF Invitable
  <2> QED BY <1>1, <2>1, <2>2
<1>10. Distinct'
  <2>1. \A j, k \in invitations' :
           j.id = k.id \/ (j.email = k.email /\ j.kind = k.kind) => j = k
    <3>1. \A j \in invitations \ Links(e, kind) : j.id # n /\ ~(j.email = e /\ j.kind = kind)
      BY <1>1 DEF NewIds, Links
    <3> QED BY <1>1, <1>4, <3>1 DEF IInv, Distinct
  <2>2. Registered' # {}
    BY <1>0 DEF IssueInvitation, AsAdmin, ActiveAdmins
  <2> QED BY <2>1, <2>2 DEF Distinct
<1>11. Knowledge'
  <2>1. ASSUME NEW q \in Requests PROVE KnowledgeOf(q)'
    <3>1. CASE q = r
      BY <1>0, <3>1, DoneLaws DEF KnowledgeOf, Busy
    <3>2. CASE q # r
      <4>1. request'[q] = request[q]
        BY <1>0, <3>2, DoneLaws
      <4>2. q \in Busy => \A j \in invitations' : j.id = request[q].id => j \in invitations
        BY <1>1, <1>4 DEF NewIds
      <4> QED BY <1>0, <4>1, <4>2, KnowledgeKept DEF IInv
    <3> QED BY <3>1, <3>2
  <2> QED BY <2>1 DEF Knowledge, KnowledgeOf, Busy
<1> QED BY <1>7, <1>8, <1>9, <1>10, <1>11 DEF IInv, AccessIsCurrent

\* Sessions and links that end, with or without a request.
LEMMA EndSteps ==
  ASSUME IInv, users' = users, sessions' \subseteq sessions, invitations' \subseteq invitations,
         UNCHANGED request \/ \E r \in Requests : Done(r)
  PROVE IInv'
<1>1. Registered' = Registered /\ TypeOK
  BY DEF Registered, IInv
<1>2. TypeOK'
  BY <1>1, DoneLaws DEF TypeOK
<1>3. AdminRemains' /\ AccessIsCurrent' /\ Distinct'
  BY <1>1, DistinctKept DEF IInv, AdminRemains, ActiveAdmins, AccessIsCurrent,
     SessionsAreCurrent, LinksAreCurrent
<1>4. Knowledge'
  <2>1. CASE UNCHANGED request
    <3>1. ASSUME NEW q \in Requests PROVE KnowledgeOf(q)'
      BY <1>1, <2>1, KnowledgeKept DEF IInv
    <3> QED BY <3>1 DEF Knowledge, KnowledgeOf, Busy
  <2>2. CASE \E r \in Requests : Done(r)
    BY <1>1, <2>2, Over
  <2> QED BY <2>1, <2>2
<1> QED BY <1>2, <1>3, <1>4 DEF IInv

\* Every step keeps the invariant.
LEMMA NextIInv == IInv /\ [Next]_vars => IInv'
<1> SUFFICES ASSUME IInv, [Next]_vars PROVE IInv'
  OBVIOUS
<1>1. ASSUME NEW r \in Requests,
             \/ SignIn(r) \/ CreateSession(r) \/ ReadCredential(r) \/ ChangePassword(r)
             \/ Bootstrap(r) \/ Register(r) \/ ResetPassword(r) \/ Quit(r)
      PROVE IInv'
  BY <1>1, Reading, SessionSteps, ChangePasswordSteps, BootstrapSteps, RegisterSteps, ResetSteps
<1>2. ASSUME NEW r \in Requests, Administer(r)
      PROVE IInv'
  <2>1. ASSUME NEW i \in invitations, RevokeInvitation(r, i) PROVE IInv'
    BY <2>1, EndSteps DEF RevokeInvitation
  <2> QED BY <1>2, <2>1, UpdateSteps, IssueSteps DEF Administer
<1>3. ASSUME NEW s \in sessions, SessionEnds(s) PROVE IInv'
  BY <1>3, EndSteps DEF SessionEnds
<1>4. ASSUME NEW i \in invitations, InvitationExpires(i) PROVE IInv'
  BY <1>4, EndSteps DEF InvitationExpires
<1>5. CASE UNCHANGED vars
  BY <1>5, EndSteps DEF vars, tables
<1> QED BY <1>1, <1>2, <1>3, <1>4, <1>5 DEF Next

\* The invariant holds in every reachable state.
LEMMA Invariance == Spec => []IInv
  BY InitIInv, NextIInv, PTL DEF Spec

\* Types of accounts, sessions, links and requests, for any numbers of them.
THEOREM TypeCorrect == Spec => []TypeOK
<1>1. IInv => TypeOK
  BY DEF IInv
<1> QED BY <1>1, Invariance, PTL

\* However many administrators demote and disable each other at once, one remains.
THEOREM AnAdminRemains == Spec => []AdminRemains
<1>1. IInv => AdminRemains
  BY DEF IInv
<1> QED BY <1>1, Invariance, PTL

\* Sessions and links never outlive what they were granted for, whatever request read
\* what before the change.
THEOREM AccessStaysCurrent == Spec => []AccessIsCurrent
<1>1. IInv => AccessIsCurrent
  BY DEF IInv
<1> QED BY <1>1, Invariance, PTL
=============================================================================

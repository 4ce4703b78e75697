------------------------------ MODULE Identity ------------------------------
(***************************************************************************)
(* Accounts of the shared workspace: who may sign in, with which sessions  *)
(* and links, while administrators change roles and people change their    *)
(* passwords.                                                              *)
(*                                                                         *)
(* Passwords are hashed and compared outside the transactions, so a        *)
(* request acts on what it read before: a credential, an invitation, its   *)
(* own session.  Mutations of accounts and invitations are serialized by   *)
(* one advisory lock; CreateSession only locks the row of its user.  Each  *)
(* transaction is one action.                                              *)
(*                                                                         *)
(* An account is known by its e-mail, which never changes.  A salted hash  *)
(* and an invitation's id equal none in use.  Sessions that say the same   *)
(* are one: the end of one of two such leaves the state alone.  A          *)
(* session's hash and role, and an invitation's hash, are history: what    *)
(* they were granted for.  Limits on attempts and the audit are left out.  *)
(***************************************************************************)
EXTENDS Naturals, FiniteSets

CONSTANTS
    Emails,
    Requests,        \* HTTP requests under way
    Hashes,          \* bound: password hashes in use at a time
    Ids,             \* bound: invitations in use at a time
    None

ASSUME IdentityAssumption == IsFiniteSet(Emails) /\ None \notin Hashes

Roles == {"admin", "member"}
InvitationKinds == {"register", "reset"}
User == [role : Roles, disabled : BOOLEAN, hash : Hashes]

ASSUME NoneAssumption == None \notin User

VARIABLES
    users,       \* qraft_users by e-mail: [role, disabled, hash], or None
    sessions,    \* those neither revoked nor expired: [email, hash, role]
    invitations, \* those neither used, revoked nor expired: [id, email, kind, hash]
    request      \* what each request knows: [task, email, hash, id], or None

tables == <<users, sessions, invitations>>
vars == <<tables, request>>

Registered == {e \in Emails : users[e] # None}

ActiveAdmins == {e \in Registered : users[e].role = "admin" /\ ~users[e].disabled}

Init ==
    /\ users = [e \in Emails |-> None]
    /\ sessions = {} /\ invitations = {}
    /\ request = [r \in Requests |-> None]

Knows(task, e, h, i) == [task |-> task, email |-> e, hash |-> h, id |-> i]

At(r, task) == request[r] # None /\ request[r].task = task

Goto(r, task, e, h, i) == request' = [request EXCEPT ![r] = Knows(task, e, h, i)]

Done(r) == request' = [request EXCEPT ![r] = None]

Busy == {r \in Requests : request[r] # None}

NewHashes == {h \in Hashes :
    /\ \A e \in Registered : users[e].hash # h
    /\ \A s \in sessions : s.hash # h
    /\ \A i \in invitations : i.hash # h
    /\ \A r \in Busy : request[r].hash # h}

\* Any unused value is as good as another.
OneOf(values) == IF values = {} THEN {} ELSE {CHOOSE v \in values : TRUE}

NewIds == {n \in Ids : (\A i \in invitations : i.id # n) /\ \A r \in Busy : request[r].id # n}

(***************************************************************************)
(* Sessions                                                                *)
(***************************************************************************)
\* The credential is read and compared with the password typed.
Login(r, e) ==
    /\ request[r] = None
    /\ e \in Registered /\ ~users[e].disabled
    /\ Goto(r, "session", e, users[e].hash, None)
    /\ UNCHANGED tables

\* Mutant: the credential is not compared again.
CredentialHoldsUnread(e, h) == ~users[e].disabled

CredentialHolds(e, h) == ~users[e].disabled /\ users[e].hash = h

CreateSession(r) ==
    /\ At(r, "session")
    /\ LET e == request[r].email
           h == request[r].hash
       IN  sessions' = IF CredentialHolds(e, h)
                       THEN sessions \cup {[email |-> e, hash |-> h, role |-> users[e].role]}
                       ELSE sessions
    /\ Done(r)
    /\ UNCHANGED <<users, invitations>>

\* Logout, or the end of SessionLifetime.
SessionEnds(s) ==
    /\ s \in sessions
    /\ sessions' = sessions \ {s}
    /\ UNCHANGED <<users, invitations, request>>

\* The middleware: the request acts for the account of its session, and the
\* handlers of administration want the role the account has now.
Authenticate(r, s, task) ==
    /\ request[r] = None
    /\ s \in sessions /\ ~users[s.email].disabled
    /\ task = "admin" => users[s.email].role = "admin"
    /\ Goto(r, task, s.email, None, None)
    /\ UNCHANGED tables

Sessions(e) == {s \in sessions : s.email = e}

Links(e, kind) == {i \in invitations : i.email = e /\ i.kind = kind}

(***************************************************************************)
(* Passwords                                                               *)
(***************************************************************************)
ReadCredential(r) ==
    /\ At(r, "signedIn")
    /\ LET e == request[r].email
       IN  ~users[e].disabled /\ Goto(r, "password", e, users[e].hash, None)
    /\ UNCHANGED tables

ChangePassword(r) ==
    /\ At(r, "password")
    /\ LET e == request[r].email
       IN  IF CredentialHolds(e, request[r].hash)
           THEN /\ \E h \in OneOf(NewHashes) : users' = [users EXCEPT ![e].hash = h]
                /\ sessions' = sessions \ Sessions(e)
                /\ invitations' = invitations \ Links(e, "reset")
           ELSE UNCHANGED tables
    /\ Done(r)

(***************************************************************************)
(* The first account                                                       *)
(***************************************************************************)
SetupRequired == Registered = {}

BeginBootstrap(r, e) ==
    /\ request[r] = None
    /\ SetupRequired
    /\ \E h \in OneOf(NewHashes) : Goto(r, "bootstrap", e, h, None)
    /\ UNCHANGED tables

Account(role, h) == [role |-> role, disabled |-> FALSE, hash |-> h]

Bootstrap(r) ==
    /\ At(r, "bootstrap")
    /\ LET e == request[r].email
           h == request[r].hash
       IN  IF SetupRequired
           THEN users' = [users EXCEPT ![e] = Account("admin", h)] /\ Goto(r, "session", e, h, None)
           ELSE UNCHANGED users /\ Done(r)
    /\ UNCHANGED <<sessions, invitations>>

(***************************************************************************)
(* Administration                                                          *)
(***************************************************************************)
\* requireAdmin, inside the transaction.
AsAdmin(r) == At(r, "admin") /\ request[r].email \in ActiveAdmins

\* Mutant: disabled administrators are counted.
LastAdminMiscounted == Cardinality({e \in Registered : users[e].role = "admin"}) <= 1

LastAdmin == Cardinality(ActiveAdmins) <= 1

UpdateUser(r, e, role, disabled) ==
    /\ AsAdmin(r)
    /\ e \in Registered
    /\ e \in ActiveAdmins /\ (role # "admin" \/ disabled) => ~LastAdmin
    /\ users' = [users EXCEPT ![e] = [role |-> role, disabled |-> disabled, hash |-> @.hash]]
    /\ sessions' = IF role # users[e].role \/ disabled # users[e].disabled
                   THEN sessions \ Sessions(e)
                   ELSE sessions
    /\ invitations' = IF disabled THEN {i \in invitations : i.email # e} ELSE invitations
    /\ Done(r)

Invitable(e, kind) ==
    IF kind = "register" THEN e \notin Registered ELSE e \in Registered /\ ~users[e].disabled

IssueInvitation(r, e, kind) ==
    /\ AsAdmin(r)
    /\ Invitable(e, kind)
    /\ \E n \in OneOf(NewIds) :
          invitations' = (invitations \ Links(e, kind)) \cup
              {[id |-> n, email |-> e, kind |-> kind,
                hash |-> IF kind = "reset" THEN users[e].hash ELSE None]}
    /\ Done(r)
    /\ UNCHANGED <<users, sessions>>

RevokeInvitation(r, i) ==
    /\ AsAdmin(r)
    /\ i \in invitations
    /\ invitations' = invitations \ {i}
    /\ Done(r)
    /\ UNCHANGED <<users, sessions>>

InvitationExpires(i) ==
    /\ i \in invitations
    /\ invitations' = invitations \ {i}
    /\ UNCHANGED <<users, sessions, request>>

(***************************************************************************)
(* Invitations                                                             *)
(***************************************************************************)
\* The link is looked up before the new password is hashed.
Follow(r, i) ==
    /\ request[r] = None
    /\ i \in invitations
    /\ \E h \in OneOf(NewHashes) : Goto(r, i.kind, i.email, h, i.id)
    /\ UNCHANGED tables

Live(r) == {i \in invitations : i.id = request[r].id}

\* Nothing to be registered twice, nothing disabled to be reset.
Register(r) ==
    /\ At(r, "register")
    /\ LET e == request[r].email
           h == request[r].hash
       IN  IF Live(r) # {} /\ e \notin Registered
           THEN /\ users' = [users EXCEPT ![e] = Account("member", h)]
                /\ invitations' = invitations \ Live(r)
                /\ sessions' = sessions \ Sessions(e)
                /\ Goto(r, "session", e, h, None)
           ELSE UNCHANGED tables /\ Done(r)

ResetPassword(r) ==
    /\ At(r, "reset")
    /\ LET e == request[r].email
       IN  IF Live(r) # {} /\ ~users[e].disabled
           THEN /\ users' = [users EXCEPT ![e].hash = request[r].hash]
                /\ invitations' = invitations \ Live(r)
                /\ sessions' = sessions \ Sessions(e)
           ELSE UNCHANGED tables
    /\ Done(r)

\* A request that is refused or abandoned.
Quit(r) ==
    /\ request[r] # None
    /\ Done(r)
    /\ UNCHANGED tables

(***************************************************************************)
(* Specification                                                           *)
(***************************************************************************)
Administer(r) ==
    \/ \E e \in Emails, role \in Roles, disabled \in BOOLEAN : UpdateUser(r, e, role, disabled)
    \/ \E e \in Emails, kind \in InvitationKinds : IssueInvitation(r, e, kind)
    \/ \E i \in invitations : RevokeInvitation(r, i)

SignIn(r) ==
    \/ \E e \in Emails : Login(r, e) \/ BeginBootstrap(r, e)
    \/ \E s \in sessions, task \in {"admin", "signedIn"} : Authenticate(r, s, task)
    \/ \E i \in invitations : Follow(r, i)

Next ==
    \/ \E r \in Requests :
          \/ SignIn(r) \/ CreateSession(r) \/ ReadCredential(r) \/ ChangePassword(r)
          \/ Bootstrap(r) \/ Administer(r) \/ Register(r) \/ ResetPassword(r) \/ Quit(r)
    \/ \E s \in sessions : SessionEnds(s)
    \/ \E i \in invitations : InvitationExpires(i)

Spec == Init /\ [][Next]_vars

(***************************************************************************)
(* Properties                                                              *)
(***************************************************************************)
Tasks == {"session", "signedIn", "admin", "password", "bootstrap"} \cup InvitationKinds

\* Types; whoever has a session has an account.
TypeOK ==
    /\ users \in [Emails -> User \cup {None}]
    /\ sessions \subseteq [email : Registered, hash : Hashes, role : Roles]
    /\ invitations \subseteq [id : Ids, email : Emails, kind : InvitationKinds,
                              hash : Hashes \cup {None}]
    /\ request \in [Requests -> [task : Tasks, email : Emails, hash : Hashes \cup {None},
                                 id : Ids \cup {None}] \cup {None}]

\* Once there are accounts, one of them is an administrator's and enabled,
\* however administrators demote and disable each other and themselves.
AdminRemains == Registered # {} => ActiveAdmins # {}

\* A session belongs to an enabled account with the password and the role it
\* was granted for.
SessionsAreCurrent ==
    \A s \in sessions :
        /\ ~users[s.email].disabled
        /\ users[s.email].hash = s.hash
        /\ users[s.email].role = s.role

\* A link fits its account: nobody has registered for it, or the account is
\* enabled and has the password it had when the link was sent.
LinksAreCurrent ==
    \A i \in invitations :
        IF i.kind = "register"
        THEN i.email \notin Registered
        ELSE i.email \in Registered /\ ~users[i.email].disabled /\ users[i.email].hash = i.hash

\* No session and no link outlives what it was granted for: neither a change of
\* an account, nor a sign-in or an invitation that began before the change,
\* leaves an older one usable.
AccessIsCurrent == SessionsAreCurrent /\ LinksAreCurrent
=============================================================================

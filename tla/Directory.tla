------------------------------ MODULE Directory ------------------------------
(***************************************************************************)
(* The users of migrate-hub: sign-in with Google, with accounts matched by *)
(* google_sub, then by email, then provisioned, and the user management of *)
(* administrators.  Sign-ins and administrators interleave statement by    *)
(* statement; no transaction spans two of them.                            *)
(*                                                                         *)
(* A person stands for a Google identity, and is its own sub.  A person    *)
(* may sign in under several addresses over time, and an address may be    *)
(* presented by several people: whether Google has verified it is not      *)
(* asked.                                                                  *)
(***************************************************************************)
EXTENDS FiniteSets

CONSTANTS
  Requests,       \* requests that may be in flight at the same time
  Accounts,       \* user ids, uuid.New() takes an unused one
  People,         \* Google identities
  Emails,         \* addresses, in lower case
  AddressesOf,    \* the addresses a person may present
  RoleField,      \* what forms hold where they ask for a role
  Root,           \* the first administrator's account, made by hand
  RootEmail,
  AutoProvision,  \* MIGRATEHUB_OIDC_AUTO_PROVISION
  None

ASSUME AddressAssumption == AddressesOf \in [People -> SUBSET Emails]

ASSUME RootAssumption == Root \in Accounts /\ RootEmail \in Emails

Role == {"user", "manager", "admin"}

UserRow ==
  [email : Emails, sub : People \cup {None}, role : Role, disabled : BOOLEAN]

ASSUME NoneAssumption == None \notin UserRow \cup People \cup Accounts

VARIABLES
  users,    \* table users
  loc,      \* what each request in flight has read
  signIns   \* history: the sessions issued; cookies live on the client's side

vars == <<users, loc, signIns>>

\* barred: when the sign-in began, an account its person had used before was
\* disabled.
Local ==
  [pc : {"idle", "find_email", "link", "insert", "sign_in", "manage"},
   who : People \cup {None}, email : Emails \cup {None},
   account : Accounts \cup {None}, barred : BOOLEAN]

Idle == [pc |-> "idle", who |-> None, email |-> None, account |-> None,
         barred |-> FALSE]

SignIn == [who : People, account : Accounts, barred : BOOLEAN]

At(p, label)  == loc[p].pc = label
Becomes(p, l) == loc' = [loc EXCEPT ![p] = l]
Done(p)       == Becomes(p, Idle)

NewUser(email, sub, role) ==
  [email |-> email, sub |-> sub, role |-> role, disabled |-> FALSE]

Init ==
  /\ users = [u \in Accounts |->
       IF u = Root THEN NewUser(RootEmail, None, "admin") ELSE None]
  /\ loc = [p \in Requests |-> Idle]
  /\ signIns = {}

-----------------------------------------------------------------------------
(***************************************************************************)
(* Signing in: FindOrCreateGoogleUser, up to five statements.              *)
(***************************************************************************)
\* Mutant of HasSub: a comparison that lets a missing sub through.
HasSubOrNone(u, person) == users[u] # None /\ users[u].sub \in {person, None}

HasSub(u, person)  == users[u] # None /\ users[u].sub = person
HasEmail(u, email) == users[u] # None /\ users[u].email = email

\* Mutant of Shut: a disabled account is found like any other.
NeverShut(u) == FALSE

\* scanUser: ErrUserDisabled, which ends the search.
Shut(u) == users[u].disabled

Barred(person) ==
  \E s \in signIns : s.who = person /\ users[s.account].disabled

\* The callback of a person, and the first SELECT.
FindBySub(p, person, email) ==
  LET found == {u \in Accounts : HasSub(u, person)}
      login == [Idle EXCEPT !.who = person, !.email = email,
                            !.barred = Barred(person)]
  IN
  /\ At(p, "idle")
  /\ email \in AddressesOf[person]
  /\ \/ /\ found = {}
        /\ Becomes(p, [login EXCEPT !.pc = "find_email"])
     \/ \E u \in found : /\ ~ Shut(u)
                         /\ Becomes(p, [login EXCEPT !.pc = "sign_in",
                                                     !.account = u])
  /\ UNCHANGED <<users, signIns>>

\* The second SELECT, which also shows whether the account has a sub yet.  Who
\* the sub belongs to is not compared: an account of the address is signed in
\* to, also when it is linked to another identity.
FindByEmail(p) ==
  LET found == {u \in Accounts : HasEmail(u, loc[p].email)} IN
  /\ At(p, "find_email")
  /\ IF found = {}
     THEN IF AutoProvision THEN Becomes(p, [loc[p] EXCEPT !.pc = "insert"])
                           ELSE Done(p)            \* ErrUserNotFound
     ELSE \E u \in found :
            IF Shut(u) THEN Done(p)                \* ErrUserDisabled
            ELSE Becomes(p, [loc[p] EXCEPT
                               !.pc = IF users[u].sub = None
                                      THEN "link" ELSE "sign_in",
                               !.account = u])
  /\ UNCHANGED <<users, signIns>>

\* Mutant of SubTaken: google_sub is not UNIQUE.
SubNeverTaken(person, u) == FALSE

\* Some account other than u has the sub: UNIQUE refuses it a second time.
SubTaken(person, u) == \E v \in Accounts \ {u} : HasSub(v, person)

Linked(row, person) == [row EXCEPT !.sub = person]

\* UPDATE users SET google_sub WHERE id: it does not look at the sub again, and
\* overwrites one that was stored since.
LinkSub(p) ==
  LET u == loc[p].account
      person == loc[p].who
  IN
  /\ At(p, "link")
  /\ IF SubTaken(person, u)
     THEN Done(p) /\ UNCHANGED users
     ELSE /\ users' = [users EXCEPT ![u] = Linked(users[u], person)]
          /\ Becomes(p, [loc[p] EXCEPT !.pc = "sign_in"])
  /\ UNCHANGED signIns

EmailTaken(email) == \E v \in Accounts : HasEmail(v, email)

\* Mutant of Provisioned: the value returned to the callback lacks its ID.
ProvisionedWithoutId(login, u) == [login EXCEPT !.pc = "sign_in"]

Provisioned(login, u) == [login EXCEPT !.pc = "sign_in", !.account = u]

\* INSERT with role user; an address or a sub that got in first refuses it.
AutoProvisionUser(p, u) ==
  LET person == loc[p].who
      email == loc[p].email
  IN
  /\ At(p, "insert")
  /\ users[u] = None
  /\ IF SubTaken(person, u) \/ EmailTaken(email)
     THEN Done(p) /\ UNCHANGED users
     ELSE /\ users' = [users EXCEPT ![u] = NewUser(email, person, "user")]
          /\ Becomes(p, Provisioned(loc[p], u))
  /\ UNCHANGED signIns

\* last_login_at is set and the session cookie goes out.
IssueSession(p) ==
  /\ At(p, "sign_in")
  /\ signIns' = signIns \cup
       {[who |-> loc[p].who, account |-> loc[p].account,
         barred |-> loc[p].barred]}
  /\ Done(p)
  /\ UNCHANGED users

-----------------------------------------------------------------------------
(***************************************************************************)
(* User management.  The actor's role is read when the request is          *)
(* authenticated, and the statement follows.                               *)
(***************************************************************************)
Authenticate(p, actor) ==
  /\ At(p, "idle")
  /\ \E s \in signIns : s.account = actor
  /\ ~ Shut(actor)
  /\ users[actor].role = "admin"
  /\ Becomes(p, [Idle EXCEPT !.pc = "manage", !.account = actor])
  /\ UNCHANGED <<users, signIns>>

\* validRole; the type user_role of the column would refuse the rest as well.
ValidRole(role) == role \in Role

\* An account without a sub yet; a taken address is refused.
CreateUser(p, u, email, field) ==
  LET role == IF field = "" THEN "user" ELSE field IN
  /\ At(p, "manage")
  /\ users[u] = None
  /\ IF ValidRole(role) /\ ~ EmailTaken(email)
     THEN users' = [users EXCEPT ![u] = NewUser(email, None, role)]
     ELSE UNCHANGED users
  /\ Done(p)
  /\ UNCHANGED signIns

UpdateUser(p, u, role) ==
  /\ At(p, "manage")
  /\ IF users[u] # None /\ ValidRole(role)
     THEN users' = [users EXCEPT ![u].role = role]
     ELSE UNCHANGED users
  /\ Done(p)
  /\ UNCHANGED signIns

DisableUser(p, u) ==
  /\ At(p, "manage")
  /\ users[u] # None
  /\ users' = [users EXCEPT ![u].disabled = TRUE]
  /\ Done(p)
  /\ UNCHANGED signIns

\* The context is cancelled, the server stops or a statement fails.
GiveUp(p) ==
  /\ ~ At(p, "idle")
  /\ Done(p)
  /\ UNCHANGED <<users, signIns>>

SignInStep(p) ==
  \/ FindByEmail(p) \/ LinkSub(p) \/ IssueSession(p)
  \/ \E u \in Accounts : AutoProvisionUser(p, u)

ManageStep(p) ==
  \E u \in Accounts :
    \/ \E email \in Emails, field \in RoleField : CreateUser(p, u, email, field)
    \/ \E role \in RoleField : UpdateUser(p, u, role)
    \/ DisableUser(p, u)

Next ==
  \E p \in Requests :
    \/ \E person \in People, email \in Emails : FindBySub(p, person, email)
    \/ \E actor \in Accounts : Authenticate(p, actor)
    \/ SignInStep(p) \/ ManageStep(p) \/ GiveUp(p)

Spec == Init /\ [][Next]_vars

-----------------------------------------------------------------------------
(***************************************************************************)
(* Properties.                                                             *)
(***************************************************************************)

\* Every variable keeps the type of the table, or of the Go value, it models.
TypeOK ==
  /\ users \in [Accounts -> UserRow \cup {None}]
  /\ loc \in [Requests -> Local]
  /\ signIns \subseteq SignIn

\* Nobody else presents an address of this person.
OwnAddresses(person) ==
  \A other \in People \ {person} : AddressesOf[person] \cap AddressesOf[other] = {}

\* A person who shares no address gets all sessions for one account, also when
\* first sign-ins overlap, under two addresses, race with an administrator who
\* creates the account by hand, or with people who share theirs.
OneAccountPerPerson ==
  \A s, r \in signIns :
    s.who = r.who /\ OwnAddresses(s.who) => s.account = r.account

\* Every session is for an account whose address its person may present, on
\* whichever way the account was found.  This is all that holds in general: the
\* account may be linked to another sub.
SessionsFitAddress ==
  \A s \in signIns : users[s.account].email \in AddressesOf[s.who]

\* Who has used an account that is disabled, and shares no address, gets no
\* session any more by signing in again, under any of the addresses and by any
\* of the three ways.
DisabledStayOut == \A s \in signIns : OwnAddresses(s.who) => ~ s.barred

=============================================================================

--------------------------- MODULE DirectoryProofs ---------------------------
(***************************************************************************)
(* The safety properties of Directory, for any number of requests,         *)
(* accounts, people and addresses, with and without auto-provisioning.     *)
(***************************************************************************)
EXTENDS Directory, TLAPS

\* What the columns of users promise: email and google_sub are UNIQUE, and a
\* sub is only stored where its person may present the address.
TableOK ==
  /\ \A u, v \in Accounts :
       users[u] # None /\ users[v] # None /\ users[u].email = users[v].email => u = v
  /\ \A u, v \in Accounts, person \in People :
       HasSub(u, person) /\ HasSub(v, person) => u = v
  /\ \A u \in Accounts, person \in People :
       HasSub(u, person) => users[u].email \in AddressesOf[person]

\* An account person gets into has an address of his; if he shares none, it is
\* linked to him.
Enters(person, u) ==
  /\ users[u] # None
  /\ users[u].email \in AddressesOf[person]
  /\ OwnAddresses(person) => HasSub(u, person)

\* What a request in flight may still rely on.
FlightOK(p) ==
  /\ loc[p].pc \in {"find_email", "link", "insert", "sign_in"} =>
       /\ loc[p].who \in People
       /\ loc[p].email \in AddressesOf[loc[p].who]
       /\ OwnAddresses(loc[p].who) => ~ loc[p].barred
  /\ At(p, "link") =>
       loc[p].account \in Accounts /\ HasEmail(loc[p].account, loc[p].email)
  /\ At(p, "sign_in") =>
       loc[p].account \in Accounts /\ Enters(loc[p].who, loc[p].account)

IssuedOK ==
  \A s \in signIns :
    Enters(s.who, s.account) /\ (OwnAddresses(s.who) => ~ s.barred)

DInv ==
  /\ TypeOK
  /\ TableOK
  /\ \A p \in Requests : FlightOK(p)
  /\ IssuedOK

\* No account goes away, changes its address or loses the sub of a person who
\* shares no address.
Kept ==
  \A u \in Accounts :
    users[u] # None =>
      /\ users'[u] # None
      /\ users'[u].email = users[u].email
      /\ \A person \in People :
           OwnAddresses(person) /\ users[u].sub = person => users'[u].sub = person

-----------------------------------------------------------------------------

\* A row is told from a missing one, and a sub from a missing one.
LEMMA RowFacts ==
  /\ \A row \in UserRow : row # None
  /\ \A person \in People : person # None
  /\ \A u \in Accounts : u # None
  /\ \A person \in People : AddressesOf[person] \subseteq Emails
  BY NoneAssumption, AddressAssumption

\* Two people who may present one address share it.
LEMMA OneOwner ==
  ASSUME NEW person \in People, NEW other \in People, OwnAddresses(person),
         NEW email, email \in AddressesOf[person], email \in AddressesOf[other]
  PROVE  other = person
BY DEF OwnAddresses

\* Who enters an account keeps doing so.
LEMMA EntersKept ==
  ASSUME Kept, NEW u \in Accounts, NEW person \in People, Enters(person, u)
  PROVE  Enters(person, u)'
BY DEF Kept, Enters, HasSub

\* A request that ends leaves nothing to rely on.
LEMMA IdleOK ==
  Idle \in Local /\ Idle.pc = "idle" /\ Idle.barred = FALSE
  BY DEF Idle, Local

\* A step of one request that keeps the accounts keeps the invariant if it
\* keeps the table's part of it, and its own.
LEMMA RequestStep ==
  ASSUME DInv, NEW p \in Requests, NEW l \in Local, Becomes(p, l),
         users' \in [Accounts -> UserRow \cup {None}], Kept, TableOK',
         FlightOK(p)', UNCHANGED signIns
  PROVE  DInv'
<1>1. TypeOK'
  BY DEF DInv, TypeOK, Becomes
<1>3. ASSUME NEW q \in Requests PROVE FlightOK(q)'
  <2>1. CASE q = p
    BY <2>1
  <2>2. CASE q # p
    <3>1. loc'[q] = loc[q] /\ FlightOK(q)
      BY <2>2 DEF DInv, TypeOK, Becomes
    <3>2. At(q, "link") => HasEmail(loc[q].account, loc[q].email)'
      BY <3>1 DEF FlightOK, HasEmail, Kept
    <3>3. At(q, "sign_in") => Enters(loc[q].who, loc[q].account)'
      BY <3>1, EntersKept DEF FlightOK, At
    <3>. QED  BY <3>1, <3>2, <3>3 DEF FlightOK, At, HasEmail
  <2>. QED  BY <2>1, <2>2
<1>4. IssuedOK'
  BY EntersKept DEF DInv, TypeOK, IssuedOK, SignIn
<1>. QED  BY <1>1, <1>3, <1>4 DEF DInv

\* The same for a request that ends, or that only reads.
LEMMA ReadStep ==
  ASSUME DInv, NEW p \in Requests, NEW l \in Local, Becomes(p, l),
         FlightOK(p)', UNCHANGED <<users, signIns>>
  PROVE  DInv'
<1>1. users' \in [Accounts -> UserRow \cup {None}] /\ Kept
  BY DEF DInv, TypeOK, Kept
<1>2. TableOK'
  BY DEF DInv, TableOK, HasSub
<1>. QED  BY <1>1, <1>2, RequestStep

LEMMA DoneFlight ==
  ASSUME DInv, NEW p \in Requests, Done(p)
  PROVE  FlightOK(p)'
<1>1. loc'[p] = Idle
  BY DEF DInv, TypeOK, Done, Becomes
<1>. QED  BY <1>1, IdleOK DEF FlightOK, At

LEMMA DoneStep ==
  ASSUME DInv, NEW p \in Requests, Done(p),
         users' \in [Accounts -> UserRow \cup {None}], Kept, TableOK',
         UNCHANGED signIns
  PROVE  DInv'
  BY DoneFlight, IdleOK, RequestStep DEF Done

LEMMA DoneReading ==
  ASSUME DInv, NEW p \in Requests, Done(p), UNCHANGED <<users, signIns>>
  PROVE  DInv'
  BY DoneFlight, IdleOK, ReadStep DEF Done

-----------------------------------------------------------------------------
(***************************************************************************)
(* One lemma per action.                                                   *)
(***************************************************************************)

\* An account its person has used is found by the first SELECT, and ends the
\* search when it is disabled.
LEMMA FindBySubStep ==
  ASSUME DInv, NEW p \in Requests, NEW person \in People, NEW email \in Emails,
         FindBySub(p, person, email)
  PROVE  DInv'
<1>. DEFINE found == {u \in Accounts : HasSub(u, person)}
            login == [Idle EXCEPT !.who = person, !.email = email,
                                  !.barred = Barred(person)]
<1>1. ASSUME OwnAddresses(person), NEW s \in signIns, s.who = person
      PROVE  s.account \in found
  BY <1>1 DEF DInv, TypeOK, IssuedOK, Enters, SignIn
<1>2. Barred(person) \in BOOLEAN /\ email \in AddressesOf[person]
  BY DEF Barred, FindBySub
<1>3. CASE found = {} /\ Becomes(p, [login EXCEPT !.pc = "find_email"])
  <2>1. OwnAddresses(person) => ~ Barred(person)
    BY <1>1, <1>3 DEF Barred
  <2>2. [login EXCEPT !.pc = "find_email"] \in Local
    BY <1>2 DEF Idle, Local
  <2>3. FlightOK(p)'
    BY <1>2, <1>3, <2>1 DEF DInv, TypeOK, FindBySub, Becomes, FlightOK, At, Idle
  <2>. QED  BY <1>3, <2>2, <2>3, ReadStep DEF FindBySub
<1>4. ASSUME NEW u \in found, ~ Shut(u),
             Becomes(p, [login EXCEPT !.pc = "sign_in", !.account = u])
      PROVE  DInv'
  <2>1. OwnAddresses(person) => ~ Barred(person)
    BY <1>1, <1>4 DEF Barred, Shut, DInv, TableOK
  <2>2. [login EXCEPT !.pc = "sign_in", !.account = u] \in Local
    BY <1>2 DEF Idle, Local
  <2>3. Enters(person, u)'
    BY DEF FindBySub, HasSub, Enters, DInv, TableOK
  <2>4. FlightOK(p)'
    BY <1>2, <1>4, <2>1, <2>3
    DEF DInv, TypeOK, FindBySub, Becomes, FlightOK, At, Idle
  <2>. QED  BY <1>4, <2>2, <2>4, ReadStep DEF FindBySub
<1>. QED  BY <1>3, <1>4 DEF FindBySub

\* An account with an address that only one person presents has no sub, or
\* that person's.
LEMMA FindByEmailStep ==
  ASSUME DInv, NEW p \in Requests, FindByEmail(p)
  PROVE  DInv'
<1>. DEFINE found == {u \in Accounts : HasEmail(u, loc[p].email)}
<1>1. /\ loc[p] \in Local /\ loc[p].who \in People /\ loc[p].email \in Emails
      /\ loc[p].email \in AddressesOf[loc[p].who]
      /\ OwnAddresses(loc[p].who) => ~ loc[p].barred
  BY RowFacts DEF DInv, TypeOK, FindByEmail, FlightOK, At
<1>2. CASE Done(p)
  BY <1>2, DoneReading DEF FindByEmail
<1>3. CASE Becomes(p, [loc[p] EXCEPT !.pc = "insert"])
  <2>1. [loc[p] EXCEPT !.pc = "insert"] \in Local
    BY <1>1 DEF Local
  <2>2. FlightOK(p)'
    BY <1>1, <1>3 DEF DInv, TypeOK, Becomes, FlightOK, At, Local
  <2>. QED  BY <1>3, <2>1, <2>2, ReadStep DEF FindByEmail
<1>4. ASSUME NEW u \in found,
             Becomes(p, [loc[p] EXCEPT
                           !.pc = IF users[u].sub = None THEN "link" ELSE "sign_in",
                           !.account = u])
      PROVE  DInv'
  <2>1. users[u] \in UserRow /\ HasEmail(u, loc[p].email)
    BY DEF DInv, TypeOK, HasEmail
  <2>2. users[u].sub # None => Enters(loc[p].who, u)
    BY <1>1, <2>1, OneOwner DEF DInv, TableOK, UserRow, HasSub, HasEmail, Enters
  <2>3. [loc[p] EXCEPT !.pc = IF users[u].sub = None THEN "link" ELSE "sign_in",
                       !.account = u] \in Local
    BY <1>1 DEF Local
  <2>4. FlightOK(p)'
    BY <1>1, <1>4, <2>1, <2>2
    DEF DInv, TypeOK, FindByEmail, Becomes, FlightOK, At, Local, HasSub, HasEmail,
        Enters
  <2>. QED  BY <1>4, <2>3, <2>4, ReadStep DEF FindByEmail
<1>. QED  BY <1>2, <1>3, <1>4 DEF FindByEmail

\* The sub may replace another, but not that of a person who shares no address.
LEMMA LinkSubStep ==
  ASSUME DInv, NEW p \in Requests, LinkSub(p)
  PROVE  DInv'
<1>. DEFINE u == loc[p].account
            person == loc[p].who
<1>1. /\ loc[p] \in Local /\ person \in People /\ loc[p].email \in Emails
      /\ loc[p].email \in AddressesOf[person]
      /\ OwnAddresses(person) => ~ loc[p].barred
      /\ u \in Accounts /\ users[u] \in UserRow /\ users[u].email = loc[p].email
  BY RowFacts DEF DInv, TypeOK, LinkSub, FlightOK, At, HasEmail
<1>2. CASE SubTaken(person, u)
  BY <1>2, DoneReading DEF LinkSub
<1>3. CASE ~ SubTaken(person, u)
  <2>1. /\ users' = [users EXCEPT ![u] = [users[u] EXCEPT !.sub = person]]
        /\ Becomes(p, [loc[p] EXCEPT !.pc = "sign_in"])
        /\ UNCHANGED signIns
    BY <1>3 DEF LinkSub, Linked
  <2>2. /\ [users[u] EXCEPT !.sub = person] \in UserRow
        /\ [loc[p] EXCEPT !.pc = "sign_in"] \in Local
    BY <1>1 DEF UserRow, Local
  <2>3. users' \in [Accounts -> UserRow \cup {None}]
    BY <2>1, <2>2 DEF DInv, TypeOK
  <2>4. \A q \in People : OwnAddresses(q) /\ users[u].sub = q => q = person
    BY <1>1, RowFacts, OneOwner DEF DInv, TableOK, HasSub
  <2>5. /\ users'[u].email = users[u].email /\ users'[u].sub = person
        /\ users'[u] # None
        /\ \A v \in Accounts \ {u} : users'[v] = users[v]
    BY <1>1, <2>1, <2>2, RowFacts DEF DInv, TypeOK, UserRow
  <2>6. Kept
    BY <2>4, <2>5 DEF Kept
  <2>7. TableOK'
    <3>1. ASSUME NEW v \in Accounts, users'[v] # None
          PROVE  users[v] # None /\ users'[v].email = users[v].email
      BY <1>1, <2>5, <3>1, RowFacts
    <3>2. ASSUME NEW v \in Accounts, NEW q \in People, HasSub(v, q)'
          PROVE  IF v = u THEN q = person ELSE HasSub(v, q)
      BY <2>5, <3>2 DEF HasSub
    <3>3. \A v, w \in Accounts :
            users'[v] # None /\ users'[w] # None /\ users'[v].email = users'[w].email
              => v = w
      BY <3>1 DEF DInv, TableOK
    <3>4. \A v, w \in Accounts, q \in People :
            HasSub(v, q)' /\ HasSub(w, q)' => v = w
      BY <1>3, <3>2 DEF DInv, TableOK, SubTaken
    <3>5. \A v \in Accounts, q \in People :
            HasSub(v, q)' => users'[v].email \in AddressesOf[q]
      BY <1>1, <2>5, <3>2 DEF DInv, TableOK
    <3>. QED  BY <3>3, <3>4, <3>5 DEF TableOK
  <2>8. FlightOK(p)'
    BY <1>1, <2>1, <2>5 DEF DInv, TypeOK, Becomes, FlightOK, At, Local, HasSub, Enters
  <2>. QED  BY <2>1, <2>2, <2>3, <2>6, <2>7, <2>8, RequestStep
<1>. QED  BY <1>2, <1>3

\* A new row with an address, and perhaps a sub, nobody has yet.
LEMMA InsertedRow ==
  ASSUME DInv, NEW u \in Accounts, NEW row \in UserRow, users[u] = None,
         ~ EmailTaken(row.email),
         row.sub # None =>
           ~ SubTaken(row.sub, u) /\ row.email \in AddressesOf[row.sub],
         users' = [users EXCEPT ![u] = row]
  PROVE  /\ users' \in [Accounts -> UserRow \cup {None}] /\ Kept /\ TableOK'
         /\ users'[u] # None /\ users'[u] = row
<1>. DEFINE sub == row.sub
<1>1. /\ users' \in [Accounts -> UserRow \cup {None}]
      /\ users'[u] # None /\ users'[u] = row
      /\ \A v \in Accounts \ {u} : users'[v] = users[v]
  BY RowFacts DEF DInv, TypeOK
<1>2. Kept
  BY <1>1 DEF Kept
<1>3. \A v, w \in Accounts :
        users'[v] # None /\ users'[w] # None /\ users'[v].email = users'[w].email
          => v = w
  BY <1>1 DEF DInv, TableOK, EmailTaken, HasEmail
<1>4. ASSUME NEW v \in Accounts, NEW q \in People, HasSub(v, q)'
      PROVE  IF v = u THEN q = sub /\ sub # None ELSE HasSub(v, q)
  BY <1>1, <1>4, RowFacts DEF HasSub
<1>5. \A v, w \in Accounts, q \in People : HasSub(v, q)' /\ HasSub(w, q)' => v = w
  BY <1>4 DEF DInv, TableOK, SubTaken
<1>6. \A v \in Accounts, q \in People : HasSub(v, q)' => users'[v].email \in AddressesOf[q]
  BY <1>1, <1>4 DEF DInv, TableOK
<1>. QED  BY <1>1, <1>2, <1>3, <1>5, <1>6 DEF TableOK

\* Another role, or another flag, in a row that is there.
LEMMA ChangedRow ==
  ASSUME DInv, NEW u \in Accounts, NEW row \in UserRow, users[u] # None,
         row.email = users[u].email, row.sub = users[u].sub,
         users' = [users EXCEPT ![u] = row]
  PROVE  users' \in [Accounts -> UserRow \cup {None}] /\ Kept /\ TableOK'
<1>1. /\ users' \in [Accounts -> UserRow \cup {None}]
      /\ \A v \in Accounts :
           /\ users'[v] # None <=> users[v] # None
           /\ users[v] # None => /\ users'[v].email = users[v].email
                                 /\ users'[v].sub = users[v].sub
  BY RowFacts DEF DInv, TypeOK
<1>2. Kept
  BY <1>1 DEF Kept
<1>3. TableOK'
  BY <1>1 DEF DInv, TableOK, HasSub
<1>. QED  BY <1>1, <1>2, <1>3

LEMMA AutoProvisionUserStep ==
  ASSUME DInv, NEW p \in Requests, NEW u \in Accounts, AutoProvisionUser(p, u)
  PROVE  DInv'
<1>. DEFINE person == loc[p].who
            email == loc[p].email
<1>1. /\ loc[p] \in Local /\ person \in People /\ email \in Emails
      /\ email \in AddressesOf[person]
      /\ OwnAddresses(person) => ~ loc[p].barred
  BY RowFacts DEF DInv, TypeOK, AutoProvisionUser, FlightOK, At
<1>2. CASE SubTaken(person, u) \/ EmailTaken(email)
  BY <1>2, DoneReading DEF AutoProvisionUser
<1>3. CASE ~ (SubTaken(person, u) \/ EmailTaken(email))
  <2>1. /\ users' = [users EXCEPT ![u] = NewUser(email, person, "user")]
        /\ Becomes(p, Provisioned(loc[p], u))
        /\ users[u] = None
        /\ UNCHANGED signIns
    BY <1>3 DEF AutoProvisionUser
  <2>2. /\ users' \in [Accounts -> UserRow \cup {None}] /\ Kept /\ TableOK'
        /\ users'[u] # None /\ users'[u].sub = person /\ users'[u].email = email
    <3>. DEFINE row == NewUser(email, person, "user")
    <3>1. row \in UserRow /\ row.email = email /\ row.sub = person
      BY <1>1 DEF NewUser, UserRow, Role
    <3>. HIDE DEF row
    <3>2. ~ EmailTaken(row.email) /\ ~ SubTaken(row.sub, u)
      BY <1>3, <3>1
    <3>3. row.email \in AddressesOf[row.sub]
      BY <1>1, <3>1
    <3>4. users' = [users EXCEPT ![u] = row] /\ users[u] = None
      BY <2>1 DEF row
    <3>5. /\ users' \in [Accounts -> UserRow \cup {None}] /\ Kept /\ TableOK'
          /\ users'[u] # None /\ users'[u] = row
      BY <3>1, <3>2, <3>3, <3>4, InsertedRow
    <3>. QED  BY <3>1, <3>5
  <2>3. Provisioned(loc[p], u) \in Local
    BY <1>1 DEF Local, Provisioned
  <2>4. FlightOK(p)'
    BY <1>1, <2>1, <2>2
    DEF DInv, TypeOK, Becomes, Provisioned, FlightOK, At, Local, HasSub, Enters
  <2>. QED  BY <2>1, <2>2, <2>3, <2>4, RequestStep
<1>. QED  BY <1>2, <1>3

\* The account of a session is the one the sign-in found.
LEMMA IssueSessionStep ==
  ASSUME DInv, NEW p \in Requests, IssueSession(p)
  PROVE  DInv'
<1>. DEFINE s == [who |-> loc[p].who, account |-> loc[p].account,
                  barred |-> loc[p].barred]
<1>1. /\ loc[p] \in Local /\ s \in SignIn
      /\ Enters(s.who, s.account) /\ (OwnAddresses(s.who) => ~ s.barred)
  BY DEF DInv, TypeOK, IssueSession, FlightOK, At, SignIn, Local
<1>2. signIns' = signIns \cup {s} /\ UNCHANGED users /\ Done(p)
  BY DEF IssueSession
<1>3. TypeOK'
  BY <1>1, <1>2, IdleOK DEF DInv, TypeOK, Done, Becomes
<1>4. TableOK'
  BY <1>2 DEF DInv, TableOK, HasSub
<1>5. ASSUME NEW q \in Requests PROVE FlightOK(q)'
  <2>1. CASE q = p
    BY <1>2, <2>1, DoneFlight
  <2>2. CASE q # p
    BY <1>2, <2>2 DEF DInv, TypeOK, Done, Becomes, FlightOK, At, HasSub, HasEmail,
       Enters
  <2>. QED  BY <2>1, <2>2
<1>6. IssuedOK'
  BY <1>1, <1>2 DEF DInv, IssuedOK, HasSub, Enters
<1>. QED  BY <1>3, <1>4, <1>5, <1>6 DEF DInv

LEMMA AuthenticateStep ==
  ASSUME DInv, NEW p \in Requests, NEW actor \in Accounts, Authenticate(p, actor)
  PROVE  DInv'
<1>. DEFINE l == [Idle EXCEPT !.pc = "manage", !.account = actor]
<1>1. l \in Local
  BY DEF Local, Idle
<1>2. FlightOK(p)'
  BY DEF DInv, TypeOK, Authenticate, Becomes, FlightOK, At, Idle
<1>. QED  BY <1>1, <1>2, ReadStep DEF Authenticate

\* None of what an administrator can do touches a link.
LEMMA ManageSteps ==
  ASSUME DInv, NEW p \in Requests, ManageStep(p)
  PROVE  DInv'
<1>1. ASSUME NEW u \in Accounts, NEW email \in Emails, NEW field \in RoleField,
             CreateUser(p, u, email, field)
      PROVE  DInv'
  <2>. DEFINE role == IF field = "" THEN "user" ELSE field
  <2>1. CASE ValidRole(role) /\ ~ EmailTaken(email)
    <3>. DEFINE row == NewUser(email, None, role)
    <3>1. users' = [users EXCEPT ![u] = row] /\ users[u] = None
      BY <1>1, <2>1 DEF CreateUser
    <3>2. row \in UserRow /\ row.email = email /\ row.sub = None
      BY <2>1 DEF NewUser, UserRow, ValidRole
    <3>. HIDE DEF row
    <3>3. users' \in [Accounts -> UserRow \cup {None}] /\ Kept /\ TableOK'
      BY <2>1, <3>1, <3>2, InsertedRow
    <3>. QED  BY <1>1, <3>3, DoneStep DEF CreateUser
  <2>2. CASE ~ (ValidRole(role) /\ ~ EmailTaken(email))
    BY <1>1, <2>2, DoneReading DEF CreateUser
  <2>. QED  BY <2>1, <2>2
<1>2. ASSUME NEW u \in Accounts, NEW role \in RoleField, UpdateUser(p, u, role)
      PROVE  DInv'
  <2>1. CASE users[u] # None /\ ValidRole(role)
    <3>1. users[u] \in UserRow /\ [users[u] EXCEPT !.role = role] \in UserRow
      BY <2>1 DEF DInv, TypeOK, UserRow, ValidRole
    <3>2. users' = [users EXCEPT ![u] = [users[u] EXCEPT !.role = role]]
      BY <1>2, <2>1 DEF UpdateUser
    <3>3. users' \in [Accounts -> UserRow \cup {None}] /\ Kept /\ TableOK'
      BY <2>1, <3>1, <3>2, ChangedRow DEF UserRow
    <3>. QED  BY <1>2, <3>3, DoneStep DEF UpdateUser
  <2>2. CASE ~ (users[u] # None /\ ValidRole(role))
    BY <1>2, <2>2, DoneReading DEF UpdateUser
  <2>. QED  BY <2>1, <2>2
<1>3. ASSUME NEW u \in Accounts, DisableUser(p, u) PROVE DInv'
  <2>1. users[u] \in UserRow /\ [users[u] EXCEPT !.disabled = TRUE] \in UserRow
    BY <1>3 DEF DInv, TypeOK, UserRow, DisableUser
  <2>2. /\ users[u] # None
        /\ users' = [users EXCEPT ![u] = [users[u] EXCEPT !.disabled = TRUE]]
    BY <1>3 DEF DisableUser
  <2>3. users' \in [Accounts -> UserRow \cup {None}] /\ Kept /\ TableOK'
    BY <2>1, <2>2, ChangedRow DEF UserRow
  <2>. QED  BY <1>3, <2>3, DoneStep DEF DisableUser
<1>. QED  BY <1>1, <1>2, <1>3 DEF ManageStep

-----------------------------------------------------------------------------
(***************************************************************************)
(* The invariant, and what follows from it.                                *)
(***************************************************************************)

LEMMA DInvInit == Init => DInv
<1>. SUFFICES ASSUME Init PROVE DInv
  OBVIOUS
<1>1. NewUser(RootEmail, None, "admin") \in UserRow
  BY RootAssumption DEF NewUser, UserRow, Role
<1>2. TypeOK
  BY <1>1, IdleOK DEF Init, TypeOK
<1>3. TableOK
  BY RowFacts DEF Init, TableOK, HasSub, NewUser
<1>4. \A p \in Requests : FlightOK(p)
  BY IdleOK DEF Init, FlightOK, At
<1>. QED  BY <1>2, <1>3, <1>4 DEF Init, IssuedOK, DInv

LEMMA DInvNext == DInv /\ [Next]_vars => DInv'
<1>. SUFFICES ASSUME DInv, [Next]_vars PROVE DInv'
  OBVIOUS
<1>1. CASE UNCHANGED vars
  BY <1>1 DEF DInv, TypeOK, TableOK, FlightOK, IssuedOK, HasSub, HasEmail,
     Enters, At, vars
<1>2. ASSUME NEW p \in Requests, SignInStep(p) PROVE DInv'
  BY <1>2, FindByEmailStep, LinkSubStep, IssueSessionStep, AutoProvisionUserStep
  DEF SignInStep
<1>3. ASSUME NEW p \in Requests, GiveUp(p) PROVE DInv'
  BY <1>3, DoneReading DEF GiveUp
<1>. QED  BY <1>1, <1>2, <1>3, FindBySubStep, AuthenticateStep, ManageSteps DEF Next

THEOREM DirectoryInvariant == Spec => []DInv
  BY DInvInit, DInvNext, PTL DEF Spec

\* The users, the requests and the sessions keep their types.
THEOREM DirectoryTypes == Spec => []TypeOK
<1>1. DInv => TypeOK
  BY DEF DInv
<1>. QED  BY <1>1, DirectoryInvariant, PTL

\* All sessions of a person who shares no address are for one account, however
\* many sign-ins overlap, whatever administrators do meanwhile and whatever
\* other people share.
THEOREM PeopleKeepTheirAccount == Spec => []OneAccountPerPerson
<1>1. DInv => OneAccountPerPerson
  BY DEF DInv, TypeOK, TableOK, IssuedOK, Enters, OneAccountPerPerson, SignIn
<1>. QED  BY <1>1, DirectoryInvariant, PTL

\* Every session is for an account of an address its person may present.
THEOREM SessionsByAddress == Spec => []SessionsFitAddress
<1>1. DInv => SessionsFitAddress
  BY DEF DInv, IssuedOK, Enters, SessionsFitAddress
<1>. QED  BY <1>1, DirectoryInvariant, PTL

\* Who has used an account that is disabled, and shares no address, does not get
\* in by signing in again.
THEOREM TheDisabledStayOut == Spec => []DisabledStayOut
<1>1. DInv => DisabledStayOut
  BY DEF DInv, IssuedOK, DisabledStayOut
<1>. QED  BY <1>1, DirectoryInvariant, PTL

=============================================================================

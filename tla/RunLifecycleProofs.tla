------------------------- MODULE RunLifecycleProofs -------------------------
(***************************************************************************)
(* Theorems about RunLifecycle, for every number of requests, runs,        *)
(* migrations and targets, with cancellations and failing statements.      *)
(***************************************************************************)
EXTENDS RunLifecycle, TLAPS

-----------------------------------------------------------------------------
(***************************************************************************)
(* Type correctness.  TypeOK needs to know what a request holds at each    *)
(* label, and that the rows it refers to are there (they are never         *)
(* deleted).                                                               *)
(***************************************************************************)
Deciding     == {"approve_check", "approve_commit", "deny_commit"}
BeforeStart  == {"exec_items", "exec_check"}
AfterCheck   == {"exec_start", "exec_item", "exec_apply", "exec_record",
                 "exec_finish"}
OnItem       == {"exec_apply", "exec_record"}

\* loc[p] holds what its label promises.
Holds(p) ==
  /\ At(p, "request_insert") =>
       /\ loc[p].run \in Runs /\ loc[p].draft # None
       /\ mig[loc[p].draft.mig] # None
  /\ loc[p].pc \in {"update_write", "update_purge"} =>
       loc[p].mig \in Migrations /\ loc[p].row # None
  /\ loc[p].pc \in Deciding \cup BeforeStart \cup AfterCheck =>
       loc[p].run \in Runs /\ runs[loc[p].run] # None
  /\ loc[p].pc \in AfterCheck \cup {"approve_commit"} => loc[p].row # None
  /\ loc[p].pc \in OnItem => loc[p].cur \in Targets
  /\ At(p, "exec_record") => loc[p].result \in ItemStatus

\* A run refers to a migration that exists.
RunsHaveMigrations ==
  \A r \in Runs : runs[r] # None => mig[runs[r].mig] # None

TypeInv ==
  /\ TypeOK
  /\ RunsHaveMigrations
  /\ \A p \in Requests : Holds(p)

\* A row built from scripts is a row of the table, with its own checksums.
LEMMA MigrationRowOfType ==
  ASSUME NEW up \in Scripts, NEW down \in DownScripts \cup {None},
         NEW v \in 1 .. MaxVersion
  PROVE  MigrationRowOf(up, down, v) \in MigrationRow
BY DEF MigrationRowOf, MigrationRow, ChecksumOf, UpSums, DownSums

\* The row an edit computes is a row of the table, within the version bound.
LEMMA EditedRowType ==
  ASSUME NEW cur \in MigrationRow, NEW up \in Scripts,
         NEW down \in DownScripts \cup {None},
         SqlChanged(cur, up, down) => cur.version < MaxVersion
  PROVE  EditedRow(cur, up, down) \in MigrationRow
<1>1. CASE SqlChanged(cur, up, down)
  <2>1. cur.version + 1 \in 1 .. MaxVersion
    BY <1>1, BoundAssumption DEF MigrationRow
  <2> QED BY <1>1, <2>1, MigrationRowOfType DEF EditedRow
<1>2. CASE ~ SqlChanged(cur, up, down)
  BY <1>2 DEF EditedRow
<1> QED BY <1>1, <1>2

\* The local state of a request between two requests is well typed.
LEMMA IdleType == Idle \in Local
BY DEF Idle, Local, PC

\* Rows are never deleted, so a step of p leaves to the other requests what
\* their labels promise.
LEMMA OthersHold ==
  ASSUME TypeInv, NEW p \in Requests, Holds(p)',
         \A q \in Requests \ {p} : loc'[q] = loc[q],
         \A m \in Migrations : mig[m] # None => mig'[m] # None,
         \A r \in Runs : runs[r] # None => runs'[r] # None
  PROVE  \A q \in Requests : Holds(q)'
<1> SUFFICES ASSUME NEW q \in Requests, q # p PROVE Holds(q)'
  OBVIOUS
<1>1. loc'[q] = loc[q] /\ loc[q] \in Local
  BY DEF TypeInv, TypeOK
<1>2. loc[q].draft # None => loc[q].draft.mig \in Migrations
  BY <1>1 DEF Local, RunRow
<1> QED BY <1>1, <1>2 DEF TypeInv, Holds, At

\* A step of p, to the local state l, that leaves tables of the right type.
LEMMA StepType ==
  ASSUME TypeInv, NEW p \in Requests, NEW l \in Local,
         Becomes(p, l), Holds(p)',
         mig' \in [Migrations -> MigrationRow \cup {None}],
         runs' \in [Runs -> RunRow \cup {None}],
         items' \in [Runs -> [Targets -> ItemStatus \cup {None}]],
         approvals' \subseteq ApprovalRow,
         ledger' \in [Targets -> [Migrations -> UpSums \cup {None}]],
         grants' \subseteq Grant, effects' \subseteq Effect,
         \A m \in Migrations : mig[m] # None => mig'[m] # None,
         \A r \in Runs : runs[r] # None => runs'[r] # None,
         RunsHaveMigrations'
  PROVE  TypeInv'
<1>1. loc' \in [Requests -> Local] /\ \A q \in Requests \ {p} : loc'[q] = loc[q]
  BY DEF TypeInv, TypeOK, Becomes
<1>2. TypeOK'
  BY <1>1 DEF TypeOK
<1> QED BY <1>1, <1>2, OthersHold DEF TypeInv

\* A step that moves p only, and writes nothing.
LEMMA LocalStep ==
  ASSUME TypeInv, NEW p \in Requests, NEW l \in Local, Becomes(p, l),
         Holds(p)', UNCHANGED <<toolDB, ledger, history>>
  PROVE  TypeInv'
<1>1. RunsHaveMigrations'
  BY DEF TypeInv, RunsHaveMigrations, toolDB
<1> QED BY <1>1, StepType DEF TypeInv, TypeOK, toolDB, history

\* An idle request holds nothing.
LEMMA DoneHolds ==
  ASSUME TypeInv, NEW p \in Requests, Done(p)
  PROVE  Holds(p)'
<1>1. loc'[p] = Idle
  BY DEF TypeInv, TypeOK, Done, Becomes
<1> QED BY <1>1 DEF Holds, At, Idle, Deciding, BeforeStart, AfterCheck, OnItem

LEMMA TypeInit == Init => TypeInv
<1> SUFFICES ASSUME Init PROVE TypeInv
  OBVIOUS
<1>1. TypeOK
  BY IdleType DEF Init, TypeOK
<1>2. \A p \in Requests : Holds(p)
  BY DEF Init, Holds, At, Idle, Deciding, BeforeStart, AfterCheck, OnItem
<1>3. RunsHaveMigrations
  BY DEF Init, RunsHaveMigrations
<1> QED BY <1>1, <1>2, <1>3 DEF TypeInv

\* Rows of migrations that stay keep every run's reference good.
LEMMA MigrationsStay ==
  ASSUME TypeInv, UNCHANGED runs,
         \A m \in Migrations : mig[m] # None => mig'[m] # None
  PROVE  RunsHaveMigrations'
<1> SUFFICES ASSUME NEW r \in Runs, runs[r] # None
             PROVE  mig'[runs[r].mig] # None
  BY DEF RunsHaveMigrations
<1>1. runs[r].mig \in Migrations
  BY DEF TypeInv, TypeOK, RunRow
<1> QED BY <1>1 DEF TypeInv, RunsHaveMigrations

\* Writing a status keeps runs well typed, and their references.
LEMMA StatusWrite ==
  ASSUME TypeInv, NEW r \in Runs, runs[r] # None, NEW status \in RunStatus,
         SetRunStatus(r, status), UNCHANGED mig
  PROVE  /\ runs' \in [Runs -> RunRow \cup {None}]
         /\ \A s \in Runs : runs[s] # None => runs'[s] # None
         /\ RunsHaveMigrations'
<1>1. runs[r] \in RunRow
  BY DEF TypeInv, TypeOK
<1> DEFINE row == [runs[r] EXCEPT !.status = status]
<1>2. row \in RunRow /\ row.mig = runs[r].mig
  BY <1>1 DEF RunRow
<1>3. runs' = [runs EXCEPT ![r] = row]
  BY DEF SetRunStatus
<1> HIDE DEF row
<1>4. runs' \in [Runs -> RunRow \cup {None}]
  BY <1>2, <1>3 DEF TypeInv, TypeOK
<1>5. \A s \in Runs : runs[s] # None => runs'[s] # None
  BY <1>2, <1>3, NoneAssumption DEF TypeInv, TypeOK
<1>6. \A s \in Runs : runs'[s] # None =>
        runs[s] # None /\ runs'[s].mig = runs[s].mig
  BY <1>2, <1>3 DEF TypeInv, TypeOK
<1>7. RunsHaveMigrations'
  BY <1>6 DEF TypeInv, RunsHaveMigrations
<1> QED BY <1>4, <1>5, <1>7

LEMMA TypeNext == TypeInv /\ [Next]_vars => TypeInv'
<1> SUFFICES ASSUME TypeInv, [Next]_vars PROVE TypeInv'
  OBVIOUS
<1> USE DEF TypeInv
<1>1. ASSUME NEW m \in Migrations, NEW up \in Scripts,
             NEW down \in DownScripts \cup {None}, CreateMigration(m, up, down)
      PROVE  TypeInv'
  <2>1. mig' \in [Migrations -> MigrationRow \cup {None}]
    <3>1. 1 \in 1 .. MaxVersion
      BY BoundAssumption
    <3> QED BY <1>1, <3>1, MigrationRowOfType DEF CreateMigration, TypeOK
  <2>2. TypeOK'
    BY <1>1, <2>1 DEF CreateMigration, TypeOK, history
  <2>3. \A n \in Migrations : mig[n] # None => mig'[n] # None
    BY <1>1 DEF CreateMigration, TypeOK
  <2>4. RunsHaveMigrations'
    BY <1>1, <2>3, MigrationsStay DEF CreateMigration
  <2>5. \A p \in Requests : Holds(p)'
    <3> SUFFICES ASSUME NEW p \in Requests PROVE Holds(p)'
      OBVIOUS
    <3>1. loc[p].draft # None => loc[p].draft.mig \in Migrations
      BY DEF TypeOK, Local, RunRow
    <3> QED BY <1>1, <2>3, <3>1 DEF CreateMigration, Holds, At
  <2> QED BY <2>2, <2>4, <2>5
<1>2. ASSUME NEW p \in Requests, NEW m \in Migrations, NEW up \in Scripts,
             NEW down \in DownScripts \cup {None}, UpdateRead(p, m, up, down)
      PROVE  TypeInv'
  <2> DEFINE l == [Idle EXCEPT !.pc = "update_write", !.mig = m,
                               !.row = EditedRow(mig[m], up, down),
                               !.changed = SqlChanged(mig[m], up, down)]
  <2>1. mig[m] \in MigrationRow
    BY <1>2 DEF UpdateRead, TypeOK
  <2>2. EditedRow(mig[m], up, down) \in MigrationRow
    BY <1>2, <2>1, EditedRowType DEF UpdateRead
  <2>3. l \in Local
    BY <2>2 DEF Idle, Local, PC, SqlChanged
  <2>4. Becomes(p, l) /\ UNCHANGED <<toolDB, ledger, history>>
    BY <1>2 DEF UpdateRead
  <2>5. Holds(p)'
    <3>1. loc'[p] = l
      BY <2>4 DEF Becomes, TypeOK
    <3> QED BY <3>1, <2>2, NoneAssumption DEF Holds, At, Idle, Deciding,
               BeforeStart, AfterCheck, OnItem
  <2> QED BY <2>3, <2>4, <2>5, LocalStep
<1>3. ASSUME NEW p \in Requests, UpdateWrite(p) PROVE TypeInv'
  <2> DEFINE m == loc[p].mig
             row == loc[p].row
             l == IF loc[p].changed
                  THEN [loc[p] EXCEPT !.pc = "update_purge"] ELSE Idle
  <2>1. m \in Migrations /\ row \in MigrationRow /\ row # None
    BY <1>3 DEF UpdateWrite, At, Holds, TypeOK, Local
  <2>2. mig' = [mig EXCEPT ![m] = row]
    BY <1>3 DEF UpdateWrite
  <2>3. l \in Local
    <3>1. loc[p] \in Local
      BY DEF TypeOK
    <3>2. [loc[p] EXCEPT !.pc = "update_purge"] \in Local
      BY <3>1 DEF Local, PC
    <3> QED BY <3>2, IdleType
  <2>4. mig' \in [Migrations -> MigrationRow \cup {None}]
    BY <2>1, <2>2 DEF TypeOK
  <2>5. \A n \in Migrations : mig[n] # None => mig'[n] # None
    BY <2>1, <2>2 DEF TypeOK
  <2>6. RunsHaveMigrations'
    BY <1>3, <2>5, MigrationsStay DEF UpdateWrite
  <2>7. Becomes(p, l)
    BY <1>3 DEF UpdateWrite
  <2>8. Holds(p)'
    <3>1. loc'[p] = l
      BY <2>7 DEF Becomes, TypeOK
    <3>2. CASE loc[p].changed
      <4>1. /\ loc'[p].pc = "update_purge" /\ loc'[p].mig = m
            /\ loc'[p].row = row
        BY <3>1, <3>2 DEF TypeOK, Local
      <4> QED BY <4>1, <2>1 DEF Holds, At, Deciding, BeforeStart, AfterCheck,
                 OnItem
    <3>3. CASE ~ loc[p].changed
      BY <3>1, <3>3 DEF Holds, At, Idle, Deciding, BeforeStart, AfterCheck,
         OnItem
    <3> QED BY <3>2, <3>3
  <2> QED BY <1>3, <2>3, <2>4, <2>5, <2>6, <2>7, <2>8, StepType
          DEF UpdateWrite, TypeOK, history
<1>4. ASSUME NEW p \in Requests, UpdatePurge(p) PROVE TypeInv'
  <2>1. approvals' \subseteq ApprovalRow
    BY <1>4 DEF UpdatePurge, TypeOK
  <2>2. Done(p) /\ Holds(p)'
    BY <1>4, DoneHolds DEF UpdatePurge
  <2>3. RunsHaveMigrations'
    BY <1>4, MigrationsStay DEF UpdatePurge
  <2> QED BY <1>4, <2>1, <2>2, <2>3, StepType, IdleType
          DEF UpdatePurge, Done, TypeOK, history
<1>5. ASSUME NEW p \in Requests, NEW m \in Migrations, NEW type \in RunType,
             NEW env \in Envs, NEW set \in DBSets,
             RequestRead(p, m, type, env, set)
      PROVE  TypeInv'
  <2>1. PICK r \in Runs :
          Becomes(p, [Idle EXCEPT !.pc = "request_insert", !.run = r,
                                  !.draft = RequestedRun(m, type, env, set)])
    BY <1>5 DEF RequestRead
  <2> DEFINE draft == RequestedRun(m, type, env, set)
             l == [Idle EXCEPT !.pc = "request_insert", !.run = r,
                               !.draft = draft]
  <2>2. mig[m] \in MigrationRow
    BY <1>5 DEF RequestRead, TypeOK
  <2>3. draft \in RunRow /\ draft.mig = m
    BY <2>2 DEF RequestedRun, RunRow, RunStatus, MigrationRow
  <2> HIDE DEF draft
  <2>4. l \in Local
    BY <2>3 DEF Idle, Local, PC
  <2>5. Holds(p)'
    <3>1. loc'[p] = l
      BY <2>1 DEF Becomes, TypeOK, draft
    <3>2. draft # None /\ mig'[draft.mig] # None
      BY <1>5, <2>3, NoneAssumption DEF RequestRead, toolDB
    <3> QED BY <3>1, <3>2 DEF Holds, At, Idle, Deciding, BeforeStart,
               AfterCheck, OnItem
  <2> QED BY <1>5, <2>1, <2>4, <2>5, LocalStep DEF RequestRead, draft
<1>6. ASSUME NEW p \in Requests, NEW active \in SUBSET Targets,
             RequestInsert(p, active)
      PROVE  TypeInv'
  <2> DEFINE r == loc[p].run
             draft == loc[p].draft
  <2>1. /\ r \in Runs /\ draft \in RunRow /\ draft # None
        /\ mig[draft.mig] # None
    BY <1>6 DEF RequestInsert, At, Holds, TypeOK, Local
  <2>2. Done(p) /\ Holds(p)'
    BY <1>6, DoneHolds DEF RequestInsert
  <2>3. CASE active = {}
    BY <1>6, <2>2, <2>3, StepType, IdleType, MigrationsStay
    DEF RequestInsert, Done, TypeOK, history
  <2>4. CASE active # {}
    <3>1. runs' = [runs EXCEPT ![r] = draft]
      BY <1>6, <2>4 DEF RequestInsert
    <3>2. items' = [items EXCEPT ![r] =
             [t \in Targets |-> IF t \in active THEN "queued" ELSE None]]
      BY <1>6, <2>4 DEF RequestInsert
    <3>3. runs' \in [Runs -> RunRow \cup {None}]
      BY <2>1, <3>1 DEF TypeOK
    <3>4. items' \in [Runs -> [Targets -> ItemStatus \cup {None}]]
      BY <2>1, <3>2 DEF TypeOK, ItemStatus
    <3>5. \A s \in Runs : runs[s] # None => runs'[s] # None
      BY <2>1, <3>1 DEF TypeOK
    <3>6. RunsHaveMigrations'
      BY <1>6, <2>1, <3>1 DEF RequestInsert, RunsHaveMigrations, TypeOK
    <3> QED BY <1>6, <2>2, <3>3, <3>4, <3>5, <3>6, StepType, IdleType
            DEF RequestInsert, Done, TypeOK, history
  <2> QED BY <2>3, <2>4
<1>7. ASSUME NEW p \in Requests, NEW r \in Runs, ApproveRead(p, r)
      PROVE  TypeInv'
  <2> DEFINE l == [Idle EXCEPT !.pc = "approve_check", !.run = r]
  <2>1. l \in Local
    BY DEF Idle, Local, PC
  <2>2. Becomes(p, l) /\ runs[r] # None /\ UNCHANGED <<toolDB, ledger, history>>
    BY <1>7 DEF ApproveRead, AwaitingApproval, HasStatus
  <2>3. loc'[p] = l
    BY <2>2 DEF Becomes, TypeOK
  <2>4. Holds(p)'
    BY <2>2, <2>3 DEF Holds, At, Idle, Deciding, BeforeStart, AfterCheck,
       OnItem, toolDB
  <2> QED BY <2>1, <2>2, <2>4, LocalStep
<1>8. ASSUME NEW p \in Requests, ApproveCheck(p) PROVE TypeInv'
  <2> DEFINE r == loc[p].run
             row == mig[runs[r].mig]
             l == [loc[p] EXCEPT !.pc = "approve_commit", !.row = row]
  <2>1. r \in Runs /\ runs[r] # None
    BY <1>8 DEF ApproveCheck, At, Holds, Deciding, BeforeStart
  <2>2. row \in MigrationRow /\ row # None
    BY <2>1 DEF TypeOK, RunRow, RunsHaveMigrations
  <2>3. loc[p] \in Local
    BY DEF TypeOK
  <2>4. CASE Becomes(p, l)
    <3>1. l \in Local
      BY <2>2, <2>3 DEF Local, PC
    <3>2. loc'[p] = l
      BY <2>4 DEF Becomes, TypeOK
    <3>3. loc'[p].pc = "approve_commit" /\ loc'[p].run = r /\ loc'[p].row = row
      BY <2>3, <3>2 DEF Local
    <3>4. Holds(p)'
      BY <1>8, <2>1, <2>2, <3>3
      DEF ApproveCheck, toolDB, Holds, At, Deciding, BeforeStart, AfterCheck, OnItem
    <3> QED BY <1>8, <2>4, <3>1, <3>4, LocalStep DEF ApproveCheck
  <2>5. CASE Done(p)
    BY <1>8, <2>5, DoneHolds, LocalStep, IdleType DEF ApproveCheck, Done
  <2> QED BY <1>8, <2>4, <2>5 DEF ApproveCheck
<1>9. ASSUME NEW p \in Requests, ApproveCommit(p) PROVE TypeInv'
  <2> DEFINE r == loc[p].run
  <2>1. r \in Runs /\ runs[r] # None /\ runs[r] \in RunRow
    BY <1>9 DEF ApproveCommit, At, Holds, Deciding, TypeOK
  <2>2. Done(p) /\ Holds(p)'
    BY <1>9, DoneHolds DEF ApproveCommit
  <2>3. SetRunStatus(r, "approved") /\ UNCHANGED mig
    BY <1>9 DEF ApproveCommit, Decide, SetRunStatus
  <2>4. /\ runs' \in [Runs -> RunRow \cup {None}]
        /\ \A s \in Runs : runs[s] # None => runs'[s] # None
        /\ RunsHaveMigrations'
    BY <2>1, <2>3, StatusWrite DEF RunStatus
  <2>5. approvals' \subseteq ApprovalRow
    BY <1>9, <2>1 DEF ApproveCommit, Decide, TypeOK, ApprovalRow, RunRow, Decision
  <2>6. grants' \subseteq Grant
    <3>1. loc[p].row \in MigrationRow
      BY <1>9 DEF ApproveCommit, At, Holds, TypeOK, Local
    <3> QED BY <1>9, <2>1, <3>1 DEF ApproveCommit, TypeOK, Grant, RunRow,
            MigrationRow
  <2> QED BY <1>9, <2>2, <2>4, <2>5, <2>6, StepType, IdleType
          DEF ApproveCommit, Done, TypeOK, history
<1>10. ASSUME NEW p \in Requests, NEW r \in Runs, DenyRead(p, r)
      PROVE  TypeInv'
  <2> DEFINE l == [Idle EXCEPT !.pc = "deny_commit", !.run = r]
  <2>1. l \in Local
    BY DEF Idle, Local, PC
  <2>2. Becomes(p, l) /\ runs[r] # None /\ UNCHANGED <<toolDB, ledger, history>>
    BY <1>10 DEF DenyRead, AwaitingApproval, HasStatus
  <2>3. loc'[p] = l
    BY <2>2 DEF Becomes, TypeOK
  <2>4. Holds(p)'
    BY <2>2, <2>3 DEF Holds, At, Idle, Deciding, BeforeStart, AfterCheck,
       OnItem, toolDB
  <2> QED BY <2>1, <2>2, <2>4, LocalStep
<1>11. ASSUME NEW p \in Requests, DenyCommit(p) PROVE TypeInv'
  <2> DEFINE r == loc[p].run
  <2>1. r \in Runs /\ runs[r] # None /\ runs[r] \in RunRow
    BY <1>11 DEF DenyCommit, At, Holds, Deciding, TypeOK
  <2>2. Done(p) /\ Holds(p)'
    BY <1>11, DoneHolds DEF DenyCommit
  <2>3. SetRunStatus(r, "denied") /\ UNCHANGED mig
    BY <1>11 DEF DenyCommit, Decide, SetRunStatus
  <2>4. /\ runs' \in [Runs -> RunRow \cup {None}]
        /\ \A s \in Runs : runs[s] # None => runs'[s] # None
        /\ RunsHaveMigrations'
    BY <2>1, <2>3, StatusWrite DEF RunStatus
  <2>5. approvals' \subseteq ApprovalRow
    BY <1>11, <2>1 DEF DenyCommit, Decide, TypeOK, ApprovalRow, RunRow, Decision
  <2>6. grants' \subseteq Grant
    BY <1>11 DEF DenyCommit, TypeOK, history
  <2> QED BY <1>11, <2>2, <2>4, <2>5, <2>6, StepType, IdleType
          DEF DenyCommit, Done, TypeOK, history
<1>12. ASSUME NEW p \in Requests, NEW r \in Runs, ExecuteRead(p, r)
      PROVE  TypeInv'
  <2> DEFINE l == [Idle EXCEPT !.pc = "exec_items", !.run = r]
  <2>1. l \in Local
    BY DEF Idle, Local, PC
  <2>2. Becomes(p, l) /\ runs[r] # None /\ UNCHANGED <<toolDB, ledger, history>>
    BY <1>12 DEF ExecuteRead, Executable, HasStatus
  <2>3. loc'[p] = l
    BY <2>2 DEF Becomes, TypeOK
  <2>4. Holds(p)'
    BY <2>2, <2>3 DEF Holds, At, Idle, Deciding, BeforeStart, AfterCheck,
       OnItem, toolDB
  <2> QED BY <2>1, <2>2, <2>4, LocalStep
<1>13. ASSUME NEW p \in Requests, ExecuteListItems(p) PROVE TypeInv'
  <2> DEFINE queued == {t \in Targets : items[loc[p].run][t] = "queued"}
             l == [loc[p] EXCEPT !.pc = "exec_check", !.todo = queued]
  <2> HIDE DEF queued
  <2>1. loc[p] \in Local /\ queued \in SUBSET Targets
    BY DEF TypeOK, queued
  <2>2. l \in Local
    BY <2>1 DEF Local, PC
  <2>3. Becomes(p, l) /\ UNCHANGED <<toolDB, ledger, history>>
    BY <1>13 DEF ExecuteListItems, queued
  <2>4. loc'[p].pc = "exec_check" /\ loc'[p].run = loc[p].run
    BY <2>1, <2>3 DEF Becomes, TypeOK, Local
  <2>5. Holds(p)'
    BY <1>13, <2>3, <2>4 DEF ExecuteListItems, toolDB, Holds, At, Deciding,
       BeforeStart, AfterCheck, OnItem
  <2> QED BY <2>2, <2>3, <2>5, LocalStep
<1>14. ASSUME NEW p \in Requests, ExecuteCheck(p) PROVE TypeInv'
  <2> DEFINE r == loc[p].run
             row == mig[runs[r].mig]
             l == [loc[p] EXCEPT !.pc = "exec_start", !.row = row]
  <2>1. r \in Runs /\ runs[r] # None
    BY <1>14 DEF ExecuteCheck, At, Holds, Deciding, BeforeStart
  <2>2. row \in MigrationRow /\ row # None
    BY <2>1 DEF TypeOK, RunRow, RunsHaveMigrations
  <2>3. loc[p] \in Local
    BY DEF TypeOK
  <2>4. CASE Becomes(p, l)
    <3>1. l \in Local
      BY <2>2, <2>3 DEF Local, PC
    <3>2. loc'[p] = l
      BY <2>4 DEF Becomes, TypeOK
    <3>3. loc'[p].pc = "exec_start" /\ loc'[p].run = r /\ loc'[p].row = row
      BY <2>3, <3>2 DEF Local
    <3>4. Holds(p)'
      BY <1>14, <2>1, <2>2, <3>3
      DEF ExecuteCheck, toolDB, Holds, At, Deciding, BeforeStart, AfterCheck, OnItem
    <3> QED BY <1>14, <2>4, <3>1, <3>4, LocalStep DEF ExecuteCheck
  <2>5. CASE Done(p)
    BY <1>14, <2>5, DoneHolds, LocalStep, IdleType DEF ExecuteCheck, Done
  <2> QED BY <1>14, <2>4, <2>5 DEF ExecuteCheck
<1>15. ASSUME NEW p \in Requests, ExecuteStart(p) PROVE TypeInv'
  <2> DEFINE r == loc[p].run
             l == [loc[p] EXCEPT !.pc = "exec_item"]
  <2>1. loc[p] \in Local /\ r \in Runs /\ runs[r] # None /\ loc[p].row # None
    BY <1>15 DEF ExecuteStart, At, Holds, AfterCheck, TypeOK
  <2>2. l \in Local
    BY <2>1 DEF Local, PC
  <2>3. Becomes(p, l) /\ SetRunStatus(r, "running") /\ UNCHANGED mig
    BY <1>15 DEF ExecuteStart
  <2>4. /\ runs' \in [Runs -> RunRow \cup {None}]
        /\ \A s \in Runs : runs[s] # None => runs'[s] # None
        /\ RunsHaveMigrations'
    BY <2>1, <2>3, StatusWrite DEF RunStatus
  <2>5. loc'[p].pc = "exec_item" /\ loc'[p].run = r /\ loc'[p].row = loc[p].row
    BY <2>1, <2>3 DEF Becomes, TypeOK, Local
  <2>6. Holds(p)'
    BY <2>1, <2>4, <2>5 DEF Holds, At, Deciding, BeforeStart, AfterCheck, OnItem
  <2> QED BY <1>15, <2>2, <2>3, <2>4, <2>6, StepType
          DEF ExecuteStart, TypeOK, history
<1>16. ASSUME NEW p \in Requests, ItemStart(p) PROVE TypeInv'
  <2> DEFINE r == loc[p].run
  <2>1. loc[p] \in Local /\ r \in Runs /\ runs[r] # None /\ loc[p].row # None
    BY <1>16 DEF ItemStart, At, Holds, AfterCheck, TypeOK
  <2>2. PICK t \in NextItem(r, loc[p].todo) :
          /\ items' = [items EXCEPT ![r][t] = "running"]
          /\ Becomes(p, [loc[p] EXCEPT !.pc = "exec_apply", !.cur = t,
                                       !.todo = @ \ {t}])
    BY <1>16 DEF ItemStart
  <2> DEFINE l == [loc[p] EXCEPT !.pc = "exec_apply", !.cur = t,
                                 !.todo = loc[p].todo \ {t}]
  <2>3. t \in Targets
    BY <2>1 DEF NextItem, Local
  <2>4. l \in Local
    BY <2>1, <2>3 DEF Local, PC
  <2>5. Becomes(p, l)
    BY <2>2
  <2>6. items' \in [Runs -> [Targets -> ItemStatus \cup {None}]]
    BY <2>1, <2>2, <2>3 DEF TypeOK, ItemStatus
  <2>7. /\ loc'[p].pc = "exec_apply" /\ loc'[p].run = r
        /\ loc'[p].row = loc[p].row /\ loc'[p].cur = t
    BY <2>1, <2>5 DEF Becomes, TypeOK, Local
  <2>8. Holds(p)'
    BY <1>16, <2>1, <2>3, <2>7 DEF ItemStart, Holds, At, Deciding, BeforeStart,
       AfterCheck, OnItem
  <2>9. RunsHaveMigrations'
    BY <1>16, MigrationsStay DEF ItemStart
  <2> QED BY <1>16, <2>4, <2>5, <2>6, <2>8, <2>9, StepType
          DEF ItemStart, TypeOK, history
<1>17. ASSUME NEW p \in Requests, ItemStartFails(p) PROVE TypeInv'
  <2> DEFINE l == [loc[p] EXCEPT !.pc = "exec_finish", !.result = "failed"]
  <2>1. loc[p] \in Local
    BY DEF TypeOK
  <2>2. l \in Local
    BY <2>1 DEF Local, PC, ItemStatus
  <2>3. Becomes(p, l) /\ UNCHANGED <<toolDB, ledger, history>>
    BY <1>17 DEF ItemStartFails
  <2>4. /\ loc'[p].pc = "exec_finish" /\ loc'[p].run = loc[p].run
        /\ loc'[p].row = loc[p].row
    BY <2>1, <2>3 DEF Becomes, TypeOK, Local
  <2>5. Holds(p)'
    BY <1>17, <2>3, <2>4 DEF ItemStartFails, toolDB, Holds, At, Deciding,
       BeforeStart, AfterCheck, OnItem
  <2> QED BY <2>2, <2>3, <2>5, LocalStep
<1>18. ASSUME NEW p \in Requests, ApplyItem(p) PROVE TypeInv'
  <2> DEFINE r == loc[p].run
             t == loc[p].cur
             m == runs[r].mig
             row == loc[p].row
             e == [run |-> r, mig |-> m, target |-> t,
                   sql |-> SqlToRun(runs[r], row)]
  <2>1. loc[p] \in Local /\ r \in Runs /\ runs[r] # None /\ row # None
        /\ t \in Targets
    BY <1>18 DEF ApplyItem, At, Holds, AfterCheck, OnItem, TypeOK
  <2>2. row \in MigrationRow /\ m \in Migrations
    BY <2>1 DEF TypeOK, Local, RunRow
  <2>3. PICK o \in Outcome(ledger[t][m], row.sumUp) :
          /\ ledger' = IF o.row THEN [ledger EXCEPT ![t][m] = row.sumUp]
                                ELSE ledger
          /\ effects' = IF o.sql THEN effects \cup {e} ELSE effects
          /\ Becomes(p, [loc[p] EXCEPT !.pc = "exec_record",
                                       !.result = o.result])
    BY <1>18 DEF ApplyItem
  <2> DEFINE l == [loc[p] EXCEPT !.pc = "exec_record", !.result = o.result]
  <2>4. o.result \in ItemStatus
    BY DEF Outcome, AlreadyApplied, ItemStatus
  <2>5. l \in Local
    BY <2>1, <2>4 DEF Local, PC
  <2>6. ledger' \in [Targets -> [Migrations -> UpSums \cup {None}]]
    BY <2>1, <2>2, <2>3 DEF TypeOK, MigrationRow
  <2>7. effects' \subseteq Effect
    <3>1. e \in Effect
      BY <2>1, <2>2 DEF Effect, SqlToRun, MigrationRow
    <3> QED BY <2>3, <3>1 DEF TypeOK
  <2>8. /\ loc'[p].pc = "exec_record" /\ loc'[p].run = r
        /\ loc'[p].row = row /\ loc'[p].cur = t /\ loc'[p].result = o.result
    BY <2>1, <2>3 DEF Becomes, TypeOK, Local
  <2>9. Holds(p)'
    BY <1>18, <2>1, <2>4, <2>8 DEF ApplyItem, toolDB, Holds, At, Deciding,
       BeforeStart, AfterCheck, OnItem
  <2>10. RunsHaveMigrations'
    BY <1>18, MigrationsStay DEF ApplyItem, toolDB
  <2> QED BY <1>18, <2>3, <2>5, <2>6, <2>7, <2>9, <2>10, StepType
          DEF ApplyItem, TypeOK, toolDB
<1>19. ASSUME NEW p \in Requests, ItemRecord(p) PROVE TypeInv'
  <2> DEFINE r == loc[p].run
             t == loc[p].cur
             l == [loc[p] EXCEPT !.pc = AfterItem(loc[p].result), !.cur = None]
  <2>1. /\ loc[p] \in Local /\ r \in Runs /\ runs[r] # None
        /\ loc[p].row # None /\ t \in Targets /\ loc[p].result \in ItemStatus
    BY <1>19 DEF ItemRecord, At, Holds, AfterCheck, OnItem, TypeOK
  <2>2. AfterItem(loc[p].result) \in {"exec_item", "exec_finish"}
    BY DEF AfterItem
  <2>3. l \in Local
    BY <2>1, <2>2 DEF Local, PC
  <2>4. items' \in [Runs -> [Targets -> ItemStatus \cup {None}]]
    <3>1. items' = [items EXCEPT ![r][t] = loc[p].result] \/ items' = items
      BY <1>19 DEF ItemRecord
    <3>2. ASSUME NEW x \in ItemStatus, items' = [items EXCEPT ![r][t] = x]
          PROVE  items' \in [Runs -> [Targets -> ItemStatus \cup {None}]]
      BY <2>1, <3>2 DEF TypeOK
    <3> QED BY <2>1, <3>1, <3>2 DEF TypeOK
  <2>5. Becomes(p, l)
    BY <1>19 DEF ItemRecord
  <2>6. /\ loc'[p].pc \in {"exec_item", "exec_finish"} /\ loc'[p].run = r
        /\ loc'[p].row = loc[p].row
    BY <2>1, <2>2, <2>5 DEF Becomes, TypeOK, Local
  <2>7. Holds(p)'
    BY <1>19, <2>1, <2>6 DEF ItemRecord, Holds, At, Deciding, BeforeStart,
       AfterCheck, OnItem
  <2>8. RunsHaveMigrations'
    BY <1>19, MigrationsStay DEF ItemRecord
  <2> QED BY <1>19, <2>3, <2>4, <2>5, <2>7, <2>8, StepType
          DEF ItemRecord, TypeOK, history
<1>20. ASSUME NEW p \in Requests, ItemsDone(p) PROVE TypeInv'
  <2> DEFINE l == [loc[p] EXCEPT !.pc = "exec_finish"]
  <2>1. loc[p] \in Local
    BY DEF TypeOK
  <2>2. l \in Local
    BY <2>1 DEF Local, PC
  <2>3. Becomes(p, l) /\ UNCHANGED <<toolDB, ledger, history>>
    BY <1>20 DEF ItemsDone
  <2>4. /\ loc'[p].pc = "exec_finish" /\ loc'[p].run = loc[p].run
        /\ loc'[p].row = loc[p].row
    BY <2>1, <2>3 DEF Becomes, TypeOK, Local
  <2>5. Holds(p)'
    BY <1>20, <2>3, <2>4 DEF ItemsDone, toolDB, Holds, At, Deciding,
       BeforeStart, AfterCheck, OnItem
  <2> QED BY <2>2, <2>3, <2>5, LocalStep
<1>21. ASSUME NEW p \in Requests, ExecuteFinish(p) PROVE TypeInv'
  <2> DEFINE r == loc[p].run
  <2>1. r \in Runs /\ runs[r] # None
    BY <1>21 DEF ExecuteFinish, At, Holds, AfterCheck
  <2>2. Done(p) /\ Holds(p)'
    BY <1>21, DoneHolds DEF ExecuteFinish
  <2>3. /\ runs' \in [Runs -> RunRow \cup {None}]
        /\ \A s \in Runs : runs[s] # None => runs'[s] # None
        /\ RunsHaveMigrations'
    <3>1. CASE SetRunStatus(r, FinalStatus(loc[p].result))
      BY <1>21, <2>1, <3>1, StatusWrite
      DEF ExecuteFinish, FinalStatus, RunStatus
    <3>2. CASE runs' = runs
      BY <1>21, <3>2, MigrationsStay DEF ExecuteFinish, TypeOK
    <3> QED BY <1>21, <3>1, <3>2 DEF ExecuteFinish
  <2> QED BY <1>21, <2>2, <2>3, StepType, IdleType
          DEF ExecuteFinish, Done, TypeOK, history
<1>22. ASSUME NEW p \in Requests, GiveUp(p) PROVE TypeInv'
  BY <1>22, DoneHolds, LocalStep, IdleType DEF GiveUp, Done
<1>23. CASE UNCHANGED vars
  BY <1>23 DEF vars, toolDB, history, TypeOK, RunsHaveMigrations, Holds, At
<1> QED
  BY <1>1, <1>2, <1>3, <1>4, <1>5, <1>6, <1>7, <1>8, <1>9, <1>10, <1>11,
     <1>12, <1>13, <1>14, <1>15, <1>16, <1>17, <1>18, <1>19, <1>20, <1>21,
     <1>22, <1>23
  DEF Next, Begin, Continue

\* Every table and every Go value keeps its type in every behaviour.
THEOREM TypeCorrect == Spec => []TypeOK
<1>1. Spec => []TypeInv
  BY TypeInit, TypeNext, PTL DEF Spec
<1>2. TypeInv => TypeOK
  BY DEF TypeInv
<1> QED BY <1>1, <1>2, PTL

-----------------------------------------------------------------------------
(***************************************************************************)
(* Safety.  What makes an executor trustworthy although it acts on copies: *)
(* a run's request columns never change, approvals are never taken back    *)
(* from history, and whoever holds a copy of the migration beyond the      *)
(* checksum test holds SQL with the checksum of the run.                   *)
(***************************************************************************)
RowOK(row) == row.sumUp = Checksum(row.up) /\ row.sumDown = ChecksumOf(row.down)

\* Some approval of run r covered SQL with the checksum requested.
Granted(r) ==
  \E g \in grants : /\ g.run = r /\ g.mig = runs[r].mig /\ g.env = runs[r].env
                    /\ Checksum(g.up) = runs[r].sumUp

Cleared == {"approved", "running", "executed", "failed"}

MigrationsOK == \A m \in Migrations : mig[m] # None => RowOK(mig[m])

RunsOK ==
  \A r \in Runs : runs[r] # None =>
    /\ EnvOf[runs[r].set] = runs[r].env
    /\ runs[r].status \in Cleared => Granted(r)

ItemsOK ==
  \A r \in Runs, t \in Targets : items[r][t] # None =>
    runs[r] # None /\ SetOf[t] = runs[r].set

\* What a request holds agrees with the tables.
Sound(p) ==
  /\ loc[p].row # None => RowOK(loc[p].row)
  /\ At(p, "request_insert") =>
       /\ EnvOf[loc[p].draft.set] = loc[p].draft.env
       /\ loc[p].draft.status = "awaiting_approval"
  /\ loc[p].pc \in AfterCheck \cup {"approve_commit"} =>
       loc[p].row.sumUp = runs[loc[p].run].sumUp
  /\ loc[p].pc \in BeforeStart \cup AfterCheck =>
       /\ Granted(loc[p].run)
       /\ \A t \in loc[p].todo : items[loc[p].run][t] # None
  /\ loc[p].pc \in OnItem => items[loc[p].run][loc[p].cur] # None

Traced(e) ==
  /\ runs[e.run] # None /\ runs[e.run].mig = e.mig
  /\ Checksum(e.sql) = runs[e.run].sumUp
  /\ items[e.run][e.target] # None
  /\ Granted(e.run)

EffectsOK == \A e \in effects : Traced(e)

LedgerOK ==
  \A t \in Targets, m \in Migrations : ledger[t][m] # None =>
    \E e \in effects :
      e.target = t /\ e.mig = m /\ Checksum(e.sql) = ledger[t][m]

SafeInv ==
  /\ MigrationsOK /\ RunsOK /\ ItemsOK /\ EffectsOK /\ LedgerOK
  /\ \A p \in Requests : Sound(p)

IInv == TypeInv /\ SafeInv

\* What no step takes away.
Kept ==
  /\ grants \subseteq grants'
  /\ \A r \in Runs : runs[r] # None =>
       /\ runs'[r] # None /\ runs'[r].mig = runs[r].mig
       /\ runs'[r].set = runs[r].set /\ runs'[r].env = runs[r].env
       /\ runs'[r].sumUp = runs[r].sumUp
  /\ \A r \in Runs, t \in Targets : items[r][t] # None => items'[r][t] # None

\* A status update keeps the request columns.
LEMMA StatusKept ==
  ASSUME TypeInv, NEW r \in Runs, runs[r] # None, NEW status \in RunStatus,
         SetRunStatus(r, status)
  PROVE  /\ \A s \in Runs : runs[s] # None =>
              /\ runs'[s] # None /\ runs'[s].mig = runs[s].mig
              /\ runs'[s].set = runs[s].set /\ runs'[s].env = runs[s].env
              /\ runs'[s].sumUp = runs[s].sumUp
         /\ \A s \in Runs : runs'[s] # None => runs[s] # None
         /\ \A s \in Runs : s # r => runs'[s] = runs[s]
         /\ runs'[r].status = status
<1>1. runs[r] \in RunRow
  BY DEF TypeInv, TypeOK
<1> DEFINE row == [runs[r] EXCEPT !.status = status]
<1>2. /\ row \in RunRow /\ row.mig = runs[r].mig /\ row.set = runs[r].set
      /\ row.env = runs[r].env /\ row.sumUp = runs[r].sumUp
      /\ row.status = status
  BY <1>1 DEF RunRow
<1>3. runs' = [runs EXCEPT ![r] = row]
  BY DEF SetRunStatus
<1> HIDE DEF row
<1> QED BY <1>2, <1>3, NoneAssumption DEF TypeInv, TypeOK

\* An approval stays an approval.
LEMMA GrantedKept ==
  ASSUME Kept, NEW r \in Runs, runs[r] # None, Granted(r)
  PROVE  Granted(r)'
BY DEF Kept, Granted

\* What the others hold stays in agreement with the tables.
LEMMA OthersSound ==
  ASSUME IInv, Kept, NEW p \in Requests, Sound(p)',
         \A q \in Requests \ {p} : loc'[q] = loc[q]
  PROVE  \A q \in Requests : Sound(q)'
<1> SUFFICES ASSUME NEW q \in Requests, q # p PROVE Sound(q)'
  OBVIOUS
<1>1. loc'[q] = loc[q] /\ loc[q] \in Local /\ Sound(q) /\ Holds(q)
  BY DEF IInv, SafeInv, TypeInv, TypeOK
<1>2. loc[q].pc \in AfterCheck \cup BeforeStart \cup Deciding =>
        loc[q].run \in Runs /\ runs[loc[q].run] # None
  BY <1>1 DEF Holds
<1>3. loc[q].row # None => RowOK(loc[q].row)
  BY <1>1 DEF Sound
<1>4. At(q, "request_insert") =>
        /\ EnvOf[loc[q].draft.set] = loc[q].draft.env
        /\ loc[q].draft.status = "awaiting_approval"
  BY <1>1 DEF Sound
<1>5. loc[q].pc \in AfterCheck \cup {"approve_commit"} =>
        loc[q].row.sumUp = runs'[loc[q].run].sumUp
  BY <1>1, <1>2 DEF Sound, Kept, Deciding
<1>6. loc[q].pc \in BeforeStart \cup AfterCheck =>
        /\ Granted(loc[q].run)'
        /\ \A t \in loc[q].todo : items'[loc[q].run][t] # None
  <2> SUFFICES ASSUME loc[q].pc \in BeforeStart \cup AfterCheck
               PROVE  /\ Granted(loc[q].run)'
                      /\ \A t \in loc[q].todo : items'[loc[q].run][t] # None
    OBVIOUS
  <2>1. Granted(loc[q].run)'
    BY <1>1, <1>2, GrantedKept DEF Sound, Granted
  <2>2. \A t \in loc[q].todo : items'[loc[q].run][t] # None
    BY <1>1, <1>2 DEF Sound, Kept, Local
  <2> QED BY <2>1, <2>2
<1>7. loc[q].pc \in OnItem => items'[loc[q].run][loc[q].cur] # None
  BY <1>1, <1>2 DEF Sound, Holds, Kept, OnItem, AfterCheck
<1> QED BY <1>1, <1>3, <1>4, <1>5, <1>6, <1>7 DEF Sound, At, Granted, RowOK

\* Effects and ledgers that a step leaves alone stay traceable.
LEMMA TraceKept ==
  ASSUME IInv, Kept, UNCHANGED <<effects, ledger>>
  PROVE  EffectsOK' /\ LedgerOK'
<1>1. EffectsOK'
  <2> SUFFICES ASSUME NEW e \in effects PROVE Traced(e)'
    BY DEF EffectsOK
  <2>1. Traced(e) /\ e.run \in Runs /\ e.target \in Targets
    BY DEF IInv, SafeInv, EffectsOK, TypeInv, TypeOK, Effect
  <2>2. Granted(e.run)'
    BY <2>1, GrantedKept DEF Traced
  <2> QED BY <2>1, <2>2 DEF Traced, Kept
<1>2. LedgerOK'
  BY DEF IInv, SafeInv, LedgerOK
<1> QED BY <1>1, <1>2

\* Runs that a step leaves alone stay covered by their approvals.
LEMMA RunsKept ==
  ASSUME IInv, Kept, UNCHANGED runs
  PROVE  RunsOK'
<1> SUFFICES ASSUME NEW r \in Runs, runs[r] # None
             PROVE  /\ EnvOf[runs[r].set] = runs[r].env
                    /\ runs[r].status \in Cleared => Granted(r)'
  BY DEF RunsOK, Granted
<1> QED BY GrantedKept DEF IInv, SafeInv, RunsOK

\* A step of p that leaves migrations and targets alone.
LEMMA SafeStep ==
  ASSUME IInv, Kept, NEW p \in Requests, NEW l, Becomes(p, l), Sound(p)',
         UNCHANGED <<mig, effects, ledger>>, RunsOK', ItemsOK'
  PROVE  SafeInv'
<1>1. \A q \in Requests \ {p} : loc'[q] = loc[q]
  BY DEF IInv, TypeInv, TypeOK, Becomes
<1>2. \A q \in Requests : Sound(q)'
  BY <1>1, OthersSound
<1>3. MigrationsOK'
  BY DEF IInv, SafeInv, MigrationsOK, RowOK
<1> QED BY <1>2, <1>3, TraceKept DEF SafeInv

\* A step of p that writes nothing.
LEMMA QuietStep ==
  ASSUME IInv, NEW p \in Requests, NEW l, Becomes(p, l), Sound(p)',
         UNCHANGED <<toolDB, ledger, history>>
  PROVE  SafeInv'
<1>1. Kept
  BY DEF Kept, toolDB, history
<1>2. ItemsOK'
  BY DEF IInv, SafeInv, ItemsOK, toolDB
<1> QED BY <1>1, <1>2, RunsKept, SafeStep DEF toolDB, history

\* An idle request agrees with everything.
LEMMA DoneSound ==
  ASSUME IInv, NEW p \in Requests, Done(p)
  PROVE  Sound(p)'
<1>1. loc'[p] = Idle
  BY DEF IInv, TypeInv, TypeOK, Done, Becomes
<1> QED BY <1>1 DEF Sound, At, Idle, BeforeStart, AfterCheck, OnItem

LEMMA SafeInit == Init => SafeInv
BY DEF Init, SafeInv, MigrationsOK, RunsOK, ItemsOK, EffectsOK, LedgerOK, Sound,
   At, Idle, BeforeStart, AfterCheck, OnItem

\* The row an edit computes carries the checksums of its own SQL.
LEMMA EditedRowOK ==
  ASSUME NEW cur \in MigrationRow, RowOK(cur), NEW up \in Scripts,
         NEW down \in DownScripts \cup {None}
  PROVE  RowOK(EditedRow(cur, up, down))
BY DEF EditedRow, MigrationRowOf, RowOK

LEMMA SafeNext == IInv /\ [Next]_vars => SafeInv'
<1> SUFFICES ASSUME IInv, [Next]_vars PROVE SafeInv'
  OBVIOUS
<1> USE DEF IInv
<1>1. ASSUME NEW m \in Migrations, NEW up \in Scripts,
             NEW down \in DownScripts \cup {None}, CreateMigration(m, up, down)
      PROVE  SafeInv'
  <2>1. MigrationsOK'
    <3>1. RowOK(MigrationRowOf(up, down, 1))
      BY DEF RowOK, MigrationRowOf
    <3>2. mig' = [mig EXCEPT ![m] = MigrationRowOf(up, down, 1)]
      BY <1>1 DEF CreateMigration
    <3> QED BY <3>1, <3>2 DEF SafeInv, MigrationsOK, TypeInv, TypeOK
  <2>2. Kept
    BY <1>1 DEF CreateMigration, Kept, history
  <2>3. ItemsOK' /\ RunsOK' /\ EffectsOK' /\ LedgerOK'
    BY <1>1, <2>2, RunsKept, TraceKept
    DEF CreateMigration, SafeInv, ItemsOK, history
  <2>4. \A p \in Requests : Sound(p)'
    BY <1>1 DEF CreateMigration, SafeInv, Sound, At, Granted, RowOK, history
  <2> QED BY <2>1, <2>3, <2>4 DEF SafeInv
<1>2. ASSUME NEW p \in Requests, NEW m \in Migrations, NEW up \in Scripts,
             NEW down \in DownScripts \cup {None}, UpdateRead(p, m, up, down)
      PROVE  SafeInv'
  <2> DEFINE row == EditedRow(mig[m], up, down)
             l == [Idle EXCEPT !.pc = "update_write", !.mig = m,
                               !.row = row,
                               !.changed = SqlChanged(mig[m], up, down)]
  <2>1. RowOK(row)
    BY <1>2, EditedRowOK DEF UpdateRead, SafeInv, MigrationsOK, TypeInv, TypeOK
  <2> HIDE DEF row
  <2>2. Becomes(p, l) /\ UNCHANGED <<toolDB, ledger, history>>
    BY <1>2 DEF UpdateRead, row
  <2>3. loc'[p].pc = "update_write" /\ loc'[p].row = row
    BY <2>2 DEF Becomes, TypeInv, TypeOK, Idle
  <2>4. Sound(p)'
    BY <2>1, <2>3 DEF Sound, At, BeforeStart, AfterCheck, OnItem, RowOK
  <2> QED BY <2>2, <2>4, QuietStep
<1>3. ASSUME NEW p \in Requests, UpdateWrite(p) PROVE SafeInv'
  <2> DEFINE m == loc[p].mig
             row == loc[p].row
             l == IF loc[p].changed
                  THEN [loc[p] EXCEPT !.pc = "update_purge"] ELSE Idle
  <2>1. m \in Migrations /\ row # None /\ RowOK(row) /\ loc[p] \in Local
    BY <1>3 DEF UpdateWrite, At, Holds, SafeInv, Sound, TypeInv, TypeOK
  <2>2. mig' = [mig EXCEPT ![m] = row] /\ Becomes(p, l)
    BY <1>3 DEF UpdateWrite
  <2>3. MigrationsOK'
    BY <2>1, <2>2 DEF SafeInv, MigrationsOK, TypeInv, TypeOK
  <2>4. Kept
    BY <1>3 DEF UpdateWrite, Kept, history
  <2>5. ItemsOK' /\ RunsOK' /\ EffectsOK' /\ LedgerOK'
    BY <1>3, <2>4, RunsKept, TraceKept
    DEF UpdateWrite, SafeInv, ItemsOK, history
  <2>6. Sound(p)'
    <3>1. loc'[p] = l
      BY <2>2 DEF Becomes, TypeInv, TypeOK
    <3>2. CASE loc[p].changed
      <4>1. loc'[p].pc = "update_purge" /\ loc'[p].row = row
        BY <2>1, <3>1, <3>2 DEF Local
      <4> QED BY <2>1, <4>1
              DEF Sound, At, BeforeStart, AfterCheck, OnItem, RowOK
    <3>3. CASE ~ loc[p].changed
      BY <3>1, <3>3 DEF Sound, At, Idle, BeforeStart, AfterCheck, OnItem
    <3> QED BY <3>2, <3>3
  <2>7. \A q \in Requests \ {p} : loc'[q] = loc[q]
    BY <2>2 DEF Becomes, TypeInv, TypeOK
  <2>8. \A q \in Requests : Sound(q)'
    BY <2>4, <2>6, <2>7, OthersSound
  <2> QED BY <2>3, <2>5, <2>8 DEF SafeInv
<1>4. ASSUME NEW p \in Requests, UpdatePurge(p) PROVE SafeInv'
  <2>1. Kept /\ Done(p)
    BY <1>4 DEF UpdatePurge, Kept, history
  <2>2. ItemsOK'
    BY <1>4 DEF UpdatePurge, SafeInv, ItemsOK
  <2> QED BY <1>4, <2>1, <2>2, DoneSound, RunsKept, SafeStep
          DEF UpdatePurge, Done, history
<1>5. ASSUME NEW p \in Requests, NEW m \in Migrations, NEW type \in RunType,
             NEW env \in Envs, NEW set \in DBSets,
             RequestRead(p, m, type, env, set)
      PROVE  SafeInv'
  <2> DEFINE draft == RequestedRun(m, type, env, set)
  <2>1. PICK r \in Runs :
          Becomes(p, [Idle EXCEPT !.pc = "request_insert", !.run = r,
                                  !.draft = draft])
    BY <1>5 DEF RequestRead
  <2>2. /\ EnvOf[draft.set] = draft.env
        /\ draft.status = "awaiting_approval"
    BY <1>5 DEF RequestRead, RequestedRun
  <2> HIDE DEF draft
  <2>3. /\ loc'[p].pc = "request_insert" /\ loc'[p].draft = draft
        /\ loc'[p].row = None
    BY <2>1 DEF Becomes, TypeInv, TypeOK, Idle
  <2>4. Sound(p)'
    BY <2>2, <2>3 DEF Sound, At, BeforeStart, AfterCheck, OnItem
  <2> QED BY <1>5, <2>1, <2>4, QuietStep DEF RequestRead
<1>6. ASSUME NEW p \in Requests, NEW active \in SUBSET Targets,
             RequestInsert(p, active)
      PROVE  SafeInv'
  <2> DEFINE r == loc[p].run
             draft == loc[p].draft
  <2>1. /\ r \in Runs /\ runs[r] = None /\ draft \in RunRow /\ draft # None
        /\ EnvOf[draft.set] = draft.env
        /\ draft.status = "awaiting_approval"
        /\ Done(p)
    BY <1>6
    DEF RequestInsert, At, Holds, SafeInv, Sound, TypeInv, TypeOK, Local
  <2>2. CASE active = {}
    <3>1. Kept /\ ItemsOK'
      BY <1>6, <2>2 DEF RequestInsert, Kept, SafeInv, ItemsOK, history
    <3> QED BY <1>6, <2>1, <2>2, <3>1, DoneSound, RunsKept, SafeStep
            DEF RequestInsert, Done, history
  <2>3. CASE active # {}
    <3>1. /\ runs' = [runs EXCEPT ![r] = draft]
          /\ items' = [items EXCEPT ![r] =
               [t \in Targets |-> IF t \in active THEN "queued" ELSE None]]
      BY <1>6, <2>3 DEF RequestInsert
    <3>2. \A t \in Targets : items[r][t] = None
      BY <2>1 DEF SafeInv, ItemsOK
    <3>3. Kept
      BY <1>6, <2>1, <3>1, <3>2
      DEF RequestInsert, Kept, TypeInv, TypeOK, history
    <3>4. ItemsOK'
      <4> SUFFICES ASSUME NEW s \in Runs, NEW t \in Targets,
                          items'[s][t] # None
                   PROVE  runs'[s] # None /\ SetOf[t] = runs'[s].set
        BY DEF ItemsOK
      <4>1. CASE s = r
        BY <1>6, <2>1, <3>1, <4>1 DEF RequestInsert, TypeInv, TypeOK
      <4>2. CASE s # r
        BY <3>1, <4>2 DEF SafeInv, ItemsOK, TypeInv, TypeOK
      <4> QED BY <4>1, <4>2
    <3>5. RunsOK'
      <4> SUFFICES ASSUME NEW s \in Runs, runs'[s] # None
                   PROVE  /\ EnvOf[runs'[s].set] = runs'[s].env
                          /\ runs'[s].status \in Cleared => Granted(s)'
        BY DEF RunsOK
      <4>1. CASE s = r
        BY <2>1, <3>1, <4>1 DEF Cleared, TypeInv, TypeOK
      <4>2. CASE s # r
        <5>1. runs'[s] = runs[s]
          BY <3>1, <4>2 DEF TypeInv, TypeOK
        <5> QED BY <3>3, <5>1, GrantedKept DEF SafeInv, RunsOK
      <4> QED BY <4>1, <4>2
    <3> QED BY <1>6, <2>1, <3>3, <3>4, <3>5, DoneSound, SafeStep
            DEF RequestInsert, Done, history
  <2> QED BY <2>2, <2>3
<1>7. ASSUME NEW p \in Requests, NEW r \in Runs, ApproveRead(p, r)
      PROVE  SafeInv'
  <2> DEFINE l == [Idle EXCEPT !.pc = "approve_check", !.run = r]
  <2>1. Becomes(p, l) /\ UNCHANGED <<toolDB, ledger, history>>
    BY <1>7 DEF ApproveRead
  <2>2. /\ loc'[p].pc = "approve_check" /\ loc'[p].run = r
        /\ loc'[p].row = None /\ loc'[p].todo = {}
    BY <2>1 DEF Becomes, TypeInv, TypeOK, Idle
  <2>3. Sound(p)'
    BY <2>2 DEF Sound, At, BeforeStart, AfterCheck, OnItem
  <2> QED BY <2>1, <2>3, QuietStep
<1>8. ASSUME NEW p \in Requests, ApproveCheck(p) PROVE SafeInv'
  <2> DEFINE r == loc[p].run
             row == mig[runs[r].mig]
             l == [loc[p] EXCEPT !.pc = "approve_commit", !.row = row]
  <2>1. r \in Runs /\ runs[r] # None /\ loc[p] \in Local
    BY <1>8 DEF ApproveCheck, At, Holds, Deciding, BeforeStart, TypeInv, TypeOK
  <2>2. row \in MigrationRow /\ RowOK(row)
    BY <2>1 DEF TypeInv, TypeOK, RunRow, RunsHaveMigrations, SafeInv,
       MigrationsOK
  <2>3. CASE Becomes(p, l) /\ ChecksumsAtRequest(row, runs[r])
    <3>1. /\ loc'[p].pc = "approve_commit" /\ loc'[p].run = r
          /\ loc'[p].row = row /\ loc'[p].todo = loc[p].todo
      BY <2>1, <2>3 DEF Becomes, TypeInv, TypeOK, Local
    <3>2. runs' = runs /\ items' = items /\ grants' = grants
      BY <1>8 DEF ApproveCheck, toolDB, history
    <3>3. row.sumUp = runs[r].sumUp
      BY <2>3 DEF ChecksumsAtRequest
    <3>4. Sound(p)'
      BY <2>2, <3>1, <3>2, <3>3
      DEF Sound, At, BeforeStart, AfterCheck, OnItem, RowOK
    <3> QED BY <1>8, <2>3, <3>4, QuietStep DEF ApproveCheck
  <2>4. CASE Done(p)
    BY <1>8, <2>4, DoneSound, QuietStep DEF ApproveCheck, Done
  <2> QED BY <1>8, <2>3, <2>4 DEF ApproveCheck
<1>9. ASSUME NEW p \in Requests, ApproveCommit(p) PROVE SafeInv'
  <2> SUFFICES ASSUME NEW r, r = loc[p].run PROVE SafeInv'
    OBVIOUS
  <2>1. r \in Runs /\ runs[r] # None /\ runs[r] \in RunRow
    BY <1>9 DEF ApproveCommit, At, Holds, Deciding, TypeInv, TypeOK
  <2>2. SetRunStatus(r, "approved") /\ Done(p)
    BY <1>9 DEF ApproveCommit, Decide, SetRunStatus
  <2>3. /\ \A s \in Runs : runs[s] # None =>
             /\ runs'[s] # None /\ runs'[s].mig = runs[s].mig
             /\ runs'[s].set = runs[s].set /\ runs'[s].env = runs[s].env
             /\ runs'[s].sumUp = runs[s].sumUp
        /\ \A s \in Runs : runs'[s] # None => runs[s] # None
        /\ \A s \in Runs : s # r => runs'[s] = runs[s]
        /\ runs'[r].status = "approved"
    BY <2>1, <2>2, StatusKept DEF RunStatus
  <2>4. Kept
    BY <1>9, <2>3 DEF ApproveCommit, Kept, history
  <2>5. ItemsOK'
    BY <1>9, <2>3 DEF ApproveCommit, SafeInv, ItemsOK
  <2>6. "approved" \in Cleared => Granted(r)'
    <3> DEFINE g == [run |-> r, mig |-> runs[r].mig, env |-> runs[r].env,
                     up |-> loc[p].row.up]
    <3>1. g \in grants'
      BY <1>9 DEF ApproveCommit
    <3>2. Checksum(g.up) = runs[r].sumUp
      BY <1>9 DEF ApproveCommit, At, SafeInv, Sound, RowOK, Holds, TypeInv
    <3>3. /\ g.run = r /\ g.mig = runs'[r].mig /\ g.env = runs'[r].env
          /\ Checksum(g.up) = runs'[r].sumUp
      BY <2>1, <2>3, <3>2
    <3> HIDE DEF g
    <3> QED BY <3>1, <3>3 DEF Granted
  <2>7. RunsOK'
    BY <2>3, <2>4, <2>6, GrantedKept DEF SafeInv, RunsOK
  <2> QED BY <1>9, <2>2, <2>4, <2>5, <2>7, DoneSound, SafeStep
          DEF ApproveCommit, Done, history
<1>10. ASSUME NEW p \in Requests, NEW r \in Runs, DenyRead(p, r)
      PROVE  SafeInv'
  <2> DEFINE l == [Idle EXCEPT !.pc = "deny_commit", !.run = r]
  <2>1. Becomes(p, l) /\ UNCHANGED <<toolDB, ledger, history>>
    BY <1>10 DEF DenyRead
  <2>2. /\ loc'[p].pc = "deny_commit" /\ loc'[p].run = r
        /\ loc'[p].row = None /\ loc'[p].todo = {}
    BY <2>1 DEF Becomes, TypeInv, TypeOK, Idle
  <2>3. Sound(p)'
    BY <2>2 DEF Sound, At, BeforeStart, AfterCheck, OnItem
  <2> QED BY <2>1, <2>3, QuietStep
<1>11. ASSUME NEW p \in Requests, DenyCommit(p) PROVE SafeInv'
  <2> SUFFICES ASSUME NEW r, r = loc[p].run PROVE SafeInv'
    OBVIOUS
  <2>1. r \in Runs /\ runs[r] # None /\ runs[r] \in RunRow
    BY <1>11 DEF DenyCommit, At, Holds, Deciding, TypeInv, TypeOK
  <2>2. SetRunStatus(r, "denied") /\ Done(p)
    BY <1>11 DEF DenyCommit, Decide, SetRunStatus
  <2>3. /\ \A s \in Runs : runs[s] # None =>
             /\ runs'[s] # None /\ runs'[s].mig = runs[s].mig
             /\ runs'[s].set = runs[s].set /\ runs'[s].env = runs[s].env
             /\ runs'[s].sumUp = runs[s].sumUp
        /\ \A s \in Runs : runs'[s] # None => runs[s] # None
        /\ \A s \in Runs : s # r => runs'[s] = runs[s]
        /\ runs'[r].status = "denied"
    BY <2>1, <2>2, StatusKept DEF RunStatus
  <2>4. Kept
    BY <1>11, <2>3 DEF DenyCommit, Kept, history
  <2>5. ItemsOK'
    BY <1>11, <2>3 DEF DenyCommit, SafeInv, ItemsOK
  <2>6. "denied" \in Cleared => Granted(r)'
    BY DEF Cleared
  <2>7. RunsOK'
    BY <2>3, <2>4, <2>6, GrantedKept DEF SafeInv, RunsOK
  <2> QED BY <1>11, <2>2, <2>4, <2>5, <2>7, DoneSound, SafeStep
          DEF DenyCommit, Done, history
<1>12. ASSUME NEW p \in Requests, NEW r \in Runs, ExecuteRead(p, r)
      PROVE  SafeInv'
  <2> DEFINE l == [Idle EXCEPT !.pc = "exec_items", !.run = r]
  <2>1. Becomes(p, l) /\ UNCHANGED <<toolDB, ledger, history>>
    BY <1>12 DEF ExecuteRead
  <2>2. /\ loc'[p].pc = "exec_items" /\ loc'[p].run = r
        /\ loc'[p].row = None /\ loc'[p].todo = {}
    BY <2>1 DEF Becomes, TypeInv, TypeOK, Idle
  <2>3. Sound(p)'
    <3>1. Granted(r)
      BY <1>12 DEF ExecuteRead, Executable, HasStatus, SafeInv, RunsOK, Cleared
    <3>2. grants' = grants /\ runs' = runs
      BY <2>1 DEF toolDB, history
    <3> QED BY <2>2, <3>1, <3>2
            DEF Sound, At, BeforeStart, AfterCheck, OnItem, Granted
  <2> QED BY <2>1, <2>3, QuietStep
<1>13. ASSUME NEW p \in Requests, ExecuteListItems(p) PROVE SafeInv'
  <2> DEFINE r == loc[p].run
             queued == {t \in Targets : items[r][t] = "queued"}
             l == [loc[p] EXCEPT !.pc = "exec_check", !.todo = queued]
  <2>1. Becomes(p, l) /\ UNCHANGED <<toolDB, ledger, history>>
    BY <1>13 DEF ExecuteListItems
  <2>2. \A t \in queued : items[r][t] # None
    BY NoneAssumption DEF ItemStatus
  <2> HIDE DEF queued
  <2>3. /\ loc'[p].pc = "exec_check" /\ loc'[p].run = r
        /\ loc'[p].row = loc[p].row /\ loc'[p].todo = queued
    BY <2>1 DEF Becomes, TypeInv, TypeOK, Local
  <2>4. Granted(r) /\ (loc[p].row # None => RowOK(loc[p].row))
    BY <1>13 DEF ExecuteListItems, At, SafeInv, Sound, BeforeStart
  <2>5. runs' = runs /\ items' = items /\ grants' = grants
    BY <2>1 DEF toolDB, history
  <2>6. Sound(p)'
    BY <2>2, <2>3, <2>4, <2>5
    DEF Sound, At, BeforeStart, AfterCheck, OnItem, Granted, RowOK
  <2> QED BY <2>1, <2>6, QuietStep
<1>14. ASSUME NEW p \in Requests, ExecuteCheck(p) PROVE SafeInv'
  <2> DEFINE r == loc[p].run
             row == mig[runs[r].mig]
             l == [loc[p] EXCEPT !.pc = "exec_start", !.row = row]
  <2>1. r \in Runs /\ runs[r] # None /\ loc[p] \in Local
    BY <1>14 DEF ExecuteCheck, At, Holds, Deciding, BeforeStart, TypeInv, TypeOK
  <2>2. row \in MigrationRow /\ RowOK(row)
    BY <2>1 DEF TypeInv, TypeOK, RunRow, RunsHaveMigrations, SafeInv,
       MigrationsOK
  <2>3. CASE Becomes(p, l) /\ ChecksumsAtRequest(row, runs[r])
    <3>1. /\ loc'[p].pc = "exec_start" /\ loc'[p].run = r
          /\ loc'[p].row = row /\ loc'[p].todo = loc[p].todo
      BY <2>1, <2>3 DEF Becomes, TypeInv, TypeOK, Local
    <3>2. runs' = runs /\ items' = items /\ grants' = grants
      BY <1>14 DEF ExecuteCheck, toolDB, history
    <3>3. row.sumUp = runs[r].sumUp
      BY <2>3 DEF ChecksumsAtRequest
    <3>4. Sound(p)'
      <4>1. /\ Granted(r)
            /\ \A t \in loc[p].todo : items[r][t] # None
        BY <1>14 DEF ExecuteCheck, At, SafeInv, Sound, BeforeStart
      <4> QED BY <2>2, <3>1, <3>2, <3>3, <4>1
              DEF Sound, At, BeforeStart, AfterCheck, OnItem, RowOK, Granted
    <3> QED BY <1>14, <2>3, <3>4, QuietStep DEF ExecuteCheck
  <2>4. CASE Done(p)
    BY <1>14, <2>4, DoneSound, QuietStep DEF ExecuteCheck, Done
  <2> QED BY <1>14, <2>3, <2>4 DEF ExecuteCheck
<1>15. ASSUME NEW p \in Requests, ExecuteStart(p) PROVE SafeInv'
  <2> SUFFICES ASSUME NEW r, r = loc[p].run PROVE SafeInv'
    OBVIOUS
  <2> DEFINE l == [loc[p] EXCEPT !.pc = "exec_item"]
  <2>1. /\ loc[p] \in Local /\ r \in Runs /\ runs[r] # None
        /\ loc[p].row # None /\ RowOK(loc[p].row)
        /\ loc[p].row.sumUp = runs[r].sumUp /\ Granted(r)
        /\ \A t \in loc[p].todo : items[r][t] # None
    BY <1>15 DEF ExecuteStart, At, Holds, SafeInv, Sound, AfterCheck, TypeInv, TypeOK
  <2>2. SetRunStatus(r, "running") /\ Becomes(p, l)
    BY <1>15 DEF ExecuteStart
  <2>3. /\ \A s \in Runs : runs[s] # None =>
             /\ runs'[s] # None /\ runs'[s].mig = runs[s].mig
             /\ runs'[s].set = runs[s].set /\ runs'[s].env = runs[s].env
             /\ runs'[s].sumUp = runs[s].sumUp
        /\ \A s \in Runs : runs'[s] # None => runs[s] # None
        /\ \A s \in Runs : s # r => runs'[s] = runs[s]
        /\ runs'[r].status = "running"
    BY <2>1, <2>2, StatusKept DEF RunStatus
  <2>4. Kept
    BY <1>15, <2>3 DEF ExecuteStart, Kept, history
  <2>5. ItemsOK'
    BY <1>15, <2>3 DEF ExecuteStart, SafeInv, ItemsOK
  <2>6. Granted(r)'
    BY <2>1, <2>4, GrantedKept
  <2>7. RunsOK'
    BY <2>3, <2>4, <2>6, GrantedKept DEF SafeInv, RunsOK
  <2>8. /\ loc'[p].pc = "exec_item" /\ loc'[p].run = r
        /\ loc'[p].row = loc[p].row /\ loc'[p].todo = loc[p].todo
    BY <2>1, <2>2 DEF Becomes, TypeInv, TypeOK, Local
  <2>9. Sound(p)'
    <3>1. items' = items
      BY <1>15 DEF ExecuteStart
    <3>2. RowOK(loc'[p].row) /\ loc'[p].row.sumUp = runs'[r].sumUp
      BY <2>1, <2>3, <2>8
    <3>3. \A t \in loc'[p].todo : items'[r][t] # None
      BY <2>1, <2>8, <3>1
    <3> QED BY <2>6, <2>8, <3>2, <3>3
            DEF Sound, At, BeforeStart, AfterCheck, OnItem, RowOK, Granted
  <2> QED BY <1>15, <2>2, <2>4, <2>5, <2>7, <2>9, SafeStep
          DEF ExecuteStart, history
<1>16. ASSUME NEW p \in Requests, ItemStart(p) PROVE SafeInv'
  <2> SUFFICES ASSUME NEW r, r = loc[p].run PROVE SafeInv'
    OBVIOUS
  <2>1. /\ loc[p] \in Local /\ r \in Runs /\ runs[r] # None
        /\ loc[p].row # None /\ RowOK(loc[p].row)
        /\ loc[p].row.sumUp = runs[r].sumUp /\ Granted(r)
        /\ \A t \in loc[p].todo : items[r][t] # None
    BY <1>16 DEF ItemStart, At, Holds, SafeInv, Sound, AfterCheck, TypeInv, TypeOK
  <2>2. PICK t \in NextItem(r, loc[p].todo) :
          /\ items' = [items EXCEPT ![r][t] = "running"]
          /\ Becomes(p, [loc[p] EXCEPT !.pc = "exec_apply", !.cur = t,
                                       !.todo = @ \ {t}])
    BY <1>16 DEF ItemStart
  <2> DEFINE l == [loc[p] EXCEPT !.pc = "exec_apply", !.cur = t,
                                 !.todo = loc[p].todo \ {t}]
  <2>3. t \in loc[p].todo /\ t \in Targets /\ items[r][t] # None
    BY <2>1 DEF NextItem, Local
  <2>4. "running" # None
    BY NoneAssumption DEF ItemStatus
  <2>5. \A s \in Runs, u \in Targets : items'[s][u] # None <=> items[s][u] # None
    BY <2>1, <2>2, <2>3, <2>4 DEF TypeInv, TypeOK
  <2>6. Kept
    BY <1>16, <2>5 DEF ItemStart, Kept, history
  <2>7. ItemsOK'
    BY <1>16, <2>5 DEF ItemStart, SafeInv, ItemsOK
  <2>8. /\ loc'[p].pc = "exec_apply" /\ loc'[p].run = r
        /\ loc'[p].row = loc[p].row /\ loc'[p].cur = t
        /\ loc'[p].todo = loc[p].todo \ {t}
    BY <2>1, <2>2 DEF Becomes, TypeInv, TypeOK, Local
  <2>9. Sound(p)'
    <3>1. runs' = runs /\ grants' = grants /\ Granted(r)'
      BY <1>16, <2>1, <2>6, GrantedKept DEF ItemStart, history
    <3>2. \A u \in loc[p].todo : items'[r][u] # None
      BY <2>1, <2>5 DEF Local
    <3> QED BY <2>1, <2>3, <2>5, <2>8, <3>1, <3>2
            DEF Sound, At, BeforeStart, AfterCheck, OnItem, RowOK
  <2>10. Becomes(p, l)
    BY <2>2
  <2> QED BY <1>16, <2>6, <2>7, <2>9, <2>10, RunsKept, SafeStep
          DEF ItemStart, history
<1>17. ASSUME NEW p \in Requests, ItemStartFails(p) PROVE SafeInv'
  <2> DEFINE r == loc[p].run
             l == [loc[p] EXCEPT !.pc = "exec_finish", !.result = "failed"]
  <2>1. /\ loc[p] \in Local /\ r \in Runs /\ runs[r] # None
        /\ loc[p].row # None /\ RowOK(loc[p].row)
        /\ loc[p].row.sumUp = runs[r].sumUp /\ Granted(r)
        /\ \A t \in loc[p].todo : items[r][t] # None
    BY <1>17 DEF ItemStartFails, At, Holds, SafeInv, Sound, AfterCheck, TypeInv, TypeOK
  <2>2. Becomes(p, l) /\ UNCHANGED <<toolDB, ledger, history>>
    BY <1>17 DEF ItemStartFails
  <2>3. /\ loc'[p].pc = "exec_finish" /\ loc'[p].run = r
        /\ loc'[p].row = loc[p].row /\ loc'[p].todo = loc[p].todo
    BY <2>1, <2>2 DEF Becomes, TypeInv, TypeOK, Local
  <2>4. Sound(p)'
    BY <2>1, <2>2, <2>3 DEF Sound, At, BeforeStart, AfterCheck, OnItem, RowOK,
       Granted, toolDB, history
  <2> QED BY <2>2, <2>4, QuietStep
<1>18. ASSUME NEW p \in Requests, ApplyItem(p) PROVE SafeInv'
  <2> DEFINE r == loc[p].run
             t == loc[p].cur
             m == runs[r].mig
             row == loc[p].row
             e == [run |-> r, mig |-> m, target |-> t,
                   sql |-> SqlToRun(runs[r], row)]
  <2>1. /\ loc[p] \in Local /\ r \in Runs /\ runs[r] # None
        /\ loc[p].row # None /\ RowOK(loc[p].row)
        /\ loc[p].row.sumUp = runs[r].sumUp /\ Granted(r)
        /\ \A u \in loc[p].todo : items[r][u] # None
    BY <1>18 DEF ApplyItem, At, Holds, SafeInv, Sound, AfterCheck, TypeInv, TypeOK
  <2>2. t \in Targets /\ m \in Migrations /\ items[r][t] # None
    BY <1>18, <2>1 DEF ApplyItem, At, Holds, SafeInv, Sound, OnItem, TypeInv,
       TypeOK, RunRow
  <2>3. PICK o \in Outcome(ledger[t][m], row.sumUp) :
          /\ ledger' = IF o.row THEN [ledger EXCEPT ![t][m] = row.sumUp]
                                ELSE ledger
          /\ effects' = IF o.sql THEN effects \cup {e} ELSE effects
          /\ Becomes(p, [loc[p] EXCEPT !.pc = "exec_record",
                                       !.result = o.result])
    BY <1>18 DEF ApplyItem
  <2>4. o.row => o.sql
    BY DEF Outcome, AlreadyApplied
  <2>5. mig' = mig /\ runs' = runs /\ items' = items /\ grants' = grants
    BY <1>18 DEF ApplyItem, toolDB
  <2>6. Kept
    BY <2>5 DEF Kept
  <2>7. /\ loc'[p].pc = "exec_record" /\ loc'[p].run = r
        /\ loc'[p].row = row /\ loc'[p].cur = t /\ loc'[p].todo = loc[p].todo
    BY <2>1, <2>3 DEF Becomes, TypeInv, TypeOK, Local
  <2>8. Sound(p)'
    BY <2>1, <2>2, <2>5, <2>7 DEF Sound, At, BeforeStart, AfterCheck, OnItem,
       RowOK, Granted
  <2>9. \A q \in Requests \ {p} : loc'[q] = loc[q]
    BY <2>3 DEF Becomes, TypeInv, TypeOK
  <2>10. \A q \in Requests : Sound(q)'
    BY <2>6, <2>8, <2>9, OthersSound
  <2>11. /\ e.run = r /\ e.mig = m /\ e.target = t
         /\ Checksum(e.sql) = row.sumUp
    BY <2>1 DEF SqlToRun, RowOK
  <2>12. Traced(e)
    BY <2>1, <2>2, <2>11 DEF Traced
  <2> HIDE DEF e
  <2>13. EffectsOK'
    <3>1. \A x \in effects' : Traced(x)
      BY <2>3, <2>12 DEF SafeInv, EffectsOK
    <3> QED BY <2>5, <3>1 DEF EffectsOK, Traced, Granted
  <2>14. LedgerOK'
    <3> SUFFICES ASSUME NEW u \in Targets, NEW n \in Migrations,
                        ledger'[u][n] # None
                 PROVE  \E x \in effects' :
                          /\ x.target = u /\ x.mig = n
                          /\ Checksum(x.sql) = ledger'[u][n]
      BY DEF LedgerOK
    <3>1. CASE o.row /\ u = t /\ n = m
      <4>1. ledger'[u][n] = row.sumUp /\ e \in effects'
        BY <2>2, <2>3, <2>4, <3>1 DEF TypeInv, TypeOK
      <4> QED BY <2>11, <3>1, <4>1
    <3>2. CASE ~ (o.row /\ u = t /\ n = m)
      <4>1. ledger'[u][n] = ledger[u][n] /\ effects \subseteq effects'
        BY <2>2, <2>3, <3>2 DEF TypeInv, TypeOK
      <4> QED BY <4>1 DEF SafeInv, LedgerOK
    <3> QED BY <3>1, <3>2
  <2>15. MigrationsOK' /\ ItemsOK' /\ RunsOK'
    BY <2>5, <2>6, RunsKept DEF SafeInv, MigrationsOK, ItemsOK, RowOK
  <2> QED BY <2>10, <2>13, <2>14, <2>15 DEF SafeInv
<1>19. ASSUME NEW p \in Requests, ItemRecord(p) PROVE SafeInv'
  <2> SUFFICES ASSUME NEW r, r = loc[p].run PROVE SafeInv'
    OBVIOUS
  <2> DEFINE t == loc[p].cur
             l == [loc[p] EXCEPT !.pc = AfterItem(loc[p].result), !.cur = None]
  <2>1. /\ loc[p] \in Local /\ r \in Runs /\ runs[r] # None
        /\ loc[p].row # None /\ RowOK(loc[p].row)
        /\ loc[p].row.sumUp = runs[r].sumUp /\ Granted(r)
        /\ \A u \in loc[p].todo : items[r][u] # None
    BY <1>19 DEF ItemRecord, At, Holds, SafeInv, Sound, AfterCheck, TypeInv, TypeOK
  <2>2. /\ t \in Targets /\ items[r][t] # None
        /\ loc[p].result \in ItemStatus /\ loc[p].result # None
    BY <1>19, <2>1, NoneAssumption DEF ItemRecord, At, Holds, SafeInv, Sound,
       OnItem, TypeInv
  <2>3. items' = [items EXCEPT ![r][t] = loc[p].result] \/ items' = items
    BY <1>19 DEF ItemRecord
  <2>4. \A s \in Runs, u \in Targets : items'[s][u] # None <=> items[s][u] # None
    BY <2>1, <2>2, <2>3 DEF TypeInv, TypeOK
  <2>5. Kept
    BY <1>19, <2>4 DEF ItemRecord, Kept, history
  <2>6. ItemsOK'
    BY <1>19, <2>4 DEF ItemRecord, SafeInv, ItemsOK
  <2>7. Becomes(p, l)
    BY <1>19 DEF ItemRecord
  <2>8. /\ loc'[p].pc \in {"exec_item", "exec_finish"} /\ loc'[p].run = r
        /\ loc'[p].row = loc[p].row /\ loc'[p].todo = loc[p].todo
    BY <2>1, <2>7 DEF Becomes, TypeInv, TypeOK, Local, AfterItem
  <2>9. Sound(p)'
    <3>1. runs' = runs /\ grants' = grants /\ Granted(r)'
      BY <1>19, <2>1, <2>5, GrantedKept DEF ItemRecord, history
    <3>2. \A u \in loc[p].todo : items'[r][u] # None
      BY <2>1, <2>4 DEF Local
    <3> QED BY <2>1, <2>8, <3>1, <3>2
            DEF Sound, At, BeforeStart, AfterCheck, OnItem, RowOK
  <2> QED BY <1>19, <2>5, <2>6, <2>7, <2>9, RunsKept, SafeStep
          DEF ItemRecord, history
<1>20. ASSUME NEW p \in Requests, ItemsDone(p) PROVE SafeInv'
  <2> DEFINE r == loc[p].run
             l == [loc[p] EXCEPT !.pc = "exec_finish"]
  <2>1. /\ loc[p] \in Local /\ r \in Runs /\ runs[r] # None
        /\ loc[p].row # None /\ RowOK(loc[p].row)
        /\ loc[p].row.sumUp = runs[r].sumUp /\ Granted(r)
        /\ \A t \in loc[p].todo : items[r][t] # None
    BY <1>20 DEF ItemsDone, At, Holds, SafeInv, Sound, AfterCheck, TypeInv, TypeOK
  <2>2. Becomes(p, l) /\ UNCHANGED <<toolDB, ledger, history>>
    BY <1>20 DEF ItemsDone
  <2>3. /\ loc'[p].pc = "exec_finish" /\ loc'[p].run = r
        /\ loc'[p].row = loc[p].row /\ loc'[p].todo = loc[p].todo
    BY <2>1, <2>2 DEF Becomes, TypeInv, TypeOK, Local
  <2>4. Sound(p)'
    BY <2>1, <2>2, <2>3 DEF Sound, At, BeforeStart, AfterCheck, OnItem, RowOK,
       Granted, toolDB, history
  <2> QED BY <2>2, <2>4, QuietStep
<1>21. ASSUME NEW p \in Requests, ExecuteFinish(p) PROVE SafeInv'
  <2> SUFFICES ASSUME NEW r, r = loc[p].run PROVE SafeInv'
    OBVIOUS
  <2> DEFINE status == FinalStatus(loc[p].result)
  <2>1. /\ loc[p] \in Local /\ r \in Runs /\ runs[r] # None
        /\ loc[p].row # None /\ RowOK(loc[p].row)
        /\ loc[p].row.sumUp = runs[r].sumUp /\ Granted(r)
        /\ \A t \in loc[p].todo : items[r][t] # None
    BY <1>21 DEF ExecuteFinish, At, Holds, SafeInv, Sound, AfterCheck, TypeInv, TypeOK
  <2>2. Done(p) /\ (SetRunStatus(r, status) \/ runs' = runs)
    BY <1>21 DEF ExecuteFinish
  <2>3. CASE SetRunStatus(r, status)
    <3>1. status \in RunStatus
      BY DEF FinalStatus, RunStatus
    <3>2. /\ \A s \in Runs : runs[s] # None =>
               /\ runs'[s] # None /\ runs'[s].mig = runs[s].mig
               /\ runs'[s].set = runs[s].set /\ runs'[s].env = runs[s].env
               /\ runs'[s].sumUp = runs[s].sumUp
          /\ \A s \in Runs : runs'[s] # None => runs[s] # None
          /\ \A s \in Runs : s # r => runs'[s] = runs[s]
      BY <2>1, <2>3, <3>1, StatusKept
    <3>3. Kept
      BY <1>21, <3>2 DEF ExecuteFinish, Kept, history
    <3>4. ItemsOK'
      BY <1>21, <3>2 DEF ExecuteFinish, SafeInv, ItemsOK
    <3>5. Granted(r)'
      BY <2>1, <3>3, GrantedKept
    <3>6. RunsOK'
      BY <3>2, <3>3, <3>5, GrantedKept DEF SafeInv, RunsOK
    <3> QED BY <1>21, <2>2, <3>3, <3>4, <3>6, DoneSound, SafeStep
            DEF ExecuteFinish, Done, history
  <2>4. CASE runs' = runs
    BY <1>21, <2>2, <2>4, DoneSound, QuietStep
    DEF ExecuteFinish, Done, toolDB
  <2> QED BY <2>2, <2>3, <2>4
<1>22. ASSUME NEW p \in Requests, GiveUp(p) PROVE SafeInv'
  BY <1>22, DoneSound, QuietStep DEF GiveUp, Done
<1>23. CASE UNCHANGED vars
  <2>1. Kept
    BY <1>23 DEF vars, toolDB, history, Kept
  <2>2. MigrationsOK' /\ ItemsOK' /\ RunsOK' /\ EffectsOK' /\ LedgerOK'
    BY <1>23, <2>1, RunsKept, TraceKept
    DEF vars, toolDB, history, SafeInv, MigrationsOK, ItemsOK, RowOK
  <2>3. \A p \in Requests : Sound(p)'
    BY <1>23 DEF vars, toolDB, history, SafeInv, Sound, At, Granted, RowOK
  <2> QED BY <2>2, <2>3 DEF SafeInv
<1> QED
  BY <1>1, <1>2, <1>3, <1>4, <1>5, <1>6, <1>7, <1>8, <1>9, <1>10, <1>11,
     <1>12, <1>13, <1>14, <1>15, <1>16, <1>17, <1>18, <1>19, <1>20, <1>21,
     <1>22, <1>23
  DEF Next, Begin, Continue

\* The strengthened invariant holds in every behaviour.
THEOREM Invariance == Spec => []IInv
<1>1. Init => IInv
  BY TypeInit, SafeInit DEF IInv
<1>2. IInv /\ [Next]_vars => IInv'
  BY TypeNext, SafeNext DEF IInv
<1> QED BY <1>1, <1>2, PTL DEF Spec

\* No SQL reaches a target that was not approved, as it stands, for the
\* environment of that target: whatever edits, decisions, executions,
\* cancellations and failing statements come in between.
THEOREM ApprovalGate == Spec => []ExecutedSqlWasApproved
<1>1. IInv => ExecutedSqlWasApproved
  <2> SUFFICES ASSUME IInv, NEW e \in effects
               PROVE  \E g \in grants :
                        /\ g.mig = e.mig /\ g.env = EnvOf[SetOf[e.target]]
                        /\ g.up = e.sql
    BY DEF ExecutedSqlWasApproved
  <2>1. Traced(e) /\ e \in Effect
    BY DEF IInv, SafeInv, EffectsOK, TypeInv, TypeOK
  <2>2. PICK g \in grants : /\ g.mig = runs[e.run].mig
                            /\ g.env = runs[e.run].env
                            /\ Checksum(g.up) = runs[e.run].sumUp
    BY <2>1 DEF Traced, Granted
  <2>3. g.up = e.sql
    <3>1. g.up \in Scripts /\ e.sql \in Scripts
      BY <2>1 DEF Effect, IInv, TypeInv, TypeOK, Grant
    <3> QED BY <2>1, <2>2, <3>1, ChecksumAssumption DEF Traced
  <2>4. g.env = EnvOf[SetOf[e.target]]
    <3>1. e.run \in Runs /\ e.target \in Targets
      BY <2>1 DEF Effect
    <3> QED BY <2>1, <2>2, <3>1 DEF Traced, IInv, SafeInv, ItemsOK, RunsOK
  <2> QED BY <2>1, <2>2, <2>3, <2>4 DEF Traced
<1> QED BY <1>1, Invariance, PTL

\* Started runs and ledger rows go back to an approval of their own run.
THEOREM ApprovedActors == Spec => []OnlyApprovedRunsAct
<1>1. IInv => OnlyApprovedRunsAct
  <2> SUFFICES ASSUME IInv PROVE OnlyApprovedRunsAct
    OBVIOUS
  <2>1. ASSUME NEW r \in Runs,
               \E s \in {"running", "executed", "failed"} : HasStatus(r, s)
        PROVE  \E g \in grants : g.run = r
    <3>1. runs[r] # None /\ runs[r].status \in Cleared
      BY <2>1 DEF HasStatus, Cleared
    <3> QED BY <3>1 DEF IInv, SafeInv, RunsOK, Granted
  <2>2. ASSUME NEW t \in Targets, NEW m \in Migrations, ledger[t][m] # None
        PROVE  \E e \in effects : /\ e.target = t /\ e.mig = m
                                  /\ Checksum(e.sql) = ledger[t][m]
                                  /\ items[e.run][t] # None
                                  /\ \E g \in grants : g.run = e.run
    <3>1. PICK e \in effects :
            e.target = t /\ e.mig = m /\ Checksum(e.sql) = ledger[t][m]
      BY <2>2 DEF IInv, SafeInv, LedgerOK
    <3>2. items[e.run][t] # None /\ \E g \in grants : g.run = e.run
      BY <3>1 DEF IInv, SafeInv, EffectsOK, Traced, Granted
    <3> QED BY <3>1, <3>2
  <2> QED BY <2>1, <2>2 DEF OnlyApprovedRunsAct
<1> QED BY <1>1, Invariance, PTL

\* The checksum columns always describe the SQL columns beside them.
THEOREM ChecksumsAgree == Spec => []ChecksumsDescribeSql
<1>1. IInv => ChecksumsDescribeSql
  BY DEF IInv, SafeInv, MigrationsOK, RowOK, ChecksumsDescribeSql
<1> QED BY <1>1, Invariance, PTL

=============================================================================

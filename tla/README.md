# Formal models of migrate-hub

migrate-hub (this repository) stores SQL migrations, lets managers approve
their execution per environment, and executes approved runs on the databases
of a set. These TLA+ modules model the part of it that decides what SQL reaches
which database (the life of a run in the tool's own Postgres database, and the
work of the executor on a target database), what the pages then say of it, who
may sign in, and how the tool brings its own database up to date. Module
`Deployment` puts runs, inventory and target databases together. TLC checks
small instances, TLAPS proves the safety properties for instances of any size.

## Reading order

| Module | What it is |
| --- | --- |
| `ApprovalGate` | abstract: what the approval of runs promises |
| `RunLifecycle` | migrations, runs, run items, approvals; every request a process, every statement a step; implements `ApprovalGate` |
| `RunHistory` | `RunLifecycle` with history variables, for properties of what the tables forget |
| `TargetLedger` | abstract: what a target database promises to a call of `executeItem` |
| `TargetExecutor` | `executeItem`, `execPostgres`, `execMySQL` statement by statement; implements `TargetLedger` |
| `Inventory` | projects, database sets, target databases: create, edit, disable |
| `Deployment` | `RunLifecycle` on the rows of `Inventory`, with the databases of `TargetLedger` in place of a single step; implements `ApprovalGate` |
| `StatusLabels` | the labels of the pages, as functions of rows |
| `StatusView` | the badge of an environment, over the tables of `RunHistory` |
| `Directory` | users: sign-in with Google, provisioning, user management |
| `ToolMigrator` | servers that start on one tool database and apply its SQL files |
| `RunLifecycleProofs`, `ApprovalGateProofs`, `RunHistoryProofs`, `StatusViewProofs`, `DeploymentProofs`, `TargetExecutorProofs`, `DirectoryProofs`, `ToolMigratorProofs` | theorems and their proofs |
| `MCRunLifecycle`, `MCRunHistory`, `MCDeployment`, `MCTargetExecutor`, `MCDirectory`, `MCToolMigrator` | small instances for TLC |

    tlc -workers 2 -config lifecycle_concurrent.cfg MCRunLifecycle
    tlapm RunLifecycleProofs.tla

## The system

| Component | State | Operations | What is hard |
| --- | --- | --- | --- |
| Migrations store (`store/migrations.go`) | table `migrations`: SQL, checksums, version, mode | create, read-modify-write update; the handler deletes the approvals afterwards | lost updates; checksums and version computed from a stale row; edit and deletion are two statements |
| Runs and decisions (`store/runs.go`) | tables `runs`, `run_items`, `approvals` | request, approve, deny | check and write are apart, and the `UPDATE` does not test the status again |
| Executor (`executor/executor.go`) | `runs`, `run_items`, and `migrate_hub_migrations` on every target | execute a run item by item: lock, ledger, script, ledger row | overlapping executions, errors dropped, cancellation, lost answers, implicit commits, locks bound to a session |
| HTTP API and UI (`internal/http`) | none of their own | one call of a store or executor function per request, context cancelled after 60 s | everything is concurrent: there is no mutex and no queue |
| Inventory (`store/project.go`, `dbset.go`, `dbtarget.go`) | `projects`, `db_sets`, `db_targets` | create, disable, edit, test connection | targets edited or disabled between approval and execution; lost updates |
| Users, login, sessions, roles (`store/user.go`, `auth`, `rbac`, middleware) | `users`, a session cookie | Google or dev login, project selection, user management | first logins that overlap, a cookie written back whole, the last admin |
| Views (`store/ui_queries.go`, `ui_handlers.go`) | none | latest run per environment, comparison of sets | derived statuses must agree with the run tables |
| Tool migrator (`migrate/migrate.go`) | `schema_migrations` | apply files at start-up | two servers starting together |
| Audit log | `audit_events` | append, error ignored | none: nothing reads it to decide |

Handlers and components share nothing but the tool's database. A request
reads rows into Go variables and writes later; the executor also talks to the
target database, where its session may outlive the request. What makes each
component correct:

- a migration's checksums describe its SQL and a version names one SQL text;
- a run is decided once, its decision is on record, and its status only goes on
  (one decision, one execution, a last status that stays);
- SQL reaches a target only when that SQL was approved for its environment;
- a run reported executed is on all of its targets, and a failure stops the
  items behind it;
- a script is applied once per database and recorded with it, whatever
  answers are lost, and a call reports what is true;
- a run stays in one project and one environment, and no call starts for a
  disabled target;
- runs and calls end;
- a badge says of an environment or a target what is true of its databases, as long
  as targets keep naming them;
- a person whose addresses are nobody else's keeps one account, and does not get in
  again when it is disabled;
- a file of the tool's own schema takes effect once, in order, before anybody
  is served.

## The models and the code

### ApprovalGate

The promise without the machinery: `Ask` (a run fixes its migration, environment,
SQL text and targets, all of one environment, and never changes them), `Grant` (an
approver lets the text of a run pass) and `Act` (the text takes effect on one of
the run's targets, after a grant for that very text). Statuses, checksums,
requests, edits and databases do not exist here. `AskedRuns` in `RunLifecycle` is the
refinement mapping: it reads a row of `runs` with its items, and turns the
checksum at request time back into the text it was made from. `granted` and `acted`
are the histories `grants` and `effects`.

### RunLifecycle

A member of `Requests` is a request in flight, and `loc[p]` its Go variables:
the row it read, the run it means to insert, the items still to do. A step is
one statement or one transaction at the tool's database.

| Code | Actions |
| --- | --- |
| `CreateMigration` | `CreateMigration`: a single INSERT |
| `UpdateMigration` and the handler after it | `UpdateRead`, `UpdateWrite`, `UpdatePurge` |
| `RequestRun` | `RequestRead`, `RequestInsert` (run and items in one transaction) |
| `ApproveRun` | `ApproveRead`, `ApproveCheck`, `ApproveCommit` |
| `DenyRun` | `DenyRead`, `DenyCommit` |
| `ExecuteRun` | `ExecuteRead`, `ExecuteListItems`, `ExecuteCheck`, `ExecuteStart`, then per item `ItemStart`, `ApplyItem`, `ItemRecord`, and `ItemsDone`, `ExecuteFinish` |
| `middleware.Timeout`, disconnect, crash, an error returned | `GiveUp` between any two statements |

The JSON API and the UI call the same functions, so that one set of actions
stands for both. `Cancellations` switches `GiveUp` on, `StatementFaults` the
status updates whose error the executor drops (and the one it does not,
`ItemStartFails`).

Abstractions. SQL texts are model values; `Checksum` is any operator without
collisions on them. `Trimmed` is `strings.TrimSpace` on `sql_down`, and gives
`None` for a blank script. Reads that do not affect each other's outcome are
one step: in `RequestRead` the migration, the set and the targets (a later read of
the targets is the choice of `active` in `RequestInsert`). Which targets are
active is an admin's free choice. Roles are left out: every request is let
through, which only adds behaviours. `ApplyItem` is one step, whose outcomes are
those of `executeItem`; statements a target carries out after the call has
returned are not visible in this module (they are in `TargetExecutor` and
`Deployment`).

`grants` and `effects` are history: the SQL each approval covered, and the SQL
executed. No action reads them.

### RunHistory

`decided`, `published`, `stale` and `requested` remember how many decisions on a run
were committed (two approvals are two),
the SQL of each version, runs whose migration was edited since their approval,
and the order of the requests for runs (`requested_at`). The module conjoins
`Observe` to every step of `RunLifecycle` and restricts none.

### StatusLabels and StatusView

State functions, no actions. `RunBadge` is the label of `deriveEnvStatuses` for a
migration and a run, `ItemBadge` that of `compareStatusFromLatest` for an item of a
run. What they mean for the databases is stated over `Deployment`, where targets are
edited and share databases: the label of a page comes from the tool's tables alone, so
a target that has been pointed at another database (`UpdateDBTarget`) keeps its
badge. `AppliedBadgeIsTrue` and `ExecutedBadgeIsTrue` are therefore about targets
that still name the database the run was executed on (`StillNames`), and say nothing
of the others. There is no property of `missing`: it says that no run went through
this row of `db_targets`, while another row, or this one before an edit, may have
brought the migration to the same database.

`StatusView` chooses the run that counts: `EnvLabel` is the badge over
`LatestRunsByMigrationEnv`, which orders by `requested_at`, the order of `requested`
as long as requests do not overlap; the run that checks the badge is serial, and the
proofs use of the order no more than that every run has a place of its own in it. Its
property is about the executor: `StartsFromApprovedBadge`. The handlers drop an error
of that query and then show `draft` everywhere; that is left out. Two badges may
disagree: a rollback run on a target that has the migration is skipped
(`rollback_runs_up` shows why), its environment then says `rollbacked` and its
target `applied`. The properties say nothing of `rollbacked`.

### TargetLedger and TargetExecutor

A member of `Attempts` is one call of `executeItem`. It has the target row's
database at the time (`Addresses`: a target may be edited, and two targets may
name one database) and a copy of the migration row (`Copies`: the same key
with another checksum, or the same checksum with another `transaction_mode`).

`TargetLedger` knows the job of a call, its result, the ledger rows and the
calls whose script has taken effect. An atomic script takes effect together
with its row. A script is not atomic in mode `no_transaction` and where
`Escapes` says so: MySQL DDL commits implicitly, and a script may hold a
COMMIT. Such a script may land alone (`Leak`), its row may follow
(`RecordLeaked`), and the answer after it (`ConfirmLeaked`). `SucceedUnheard` is a
COMMIT whose answer was lost.

`TargetExecutor` has the statements: `Connect`, `AcquireLock`, `EnsureTable`,
`CheckLedger`, `BeginTx`, `RunScript`, `InsertRow`, `CommitTx`, and the deferred `Release`.
`execPostgres` and `execMySQL` send the same ones in the same order; the engine
matters in `LockTimeout` (`GET_LOCK` gives up after 10 s, `pg_advisory_lock`
never) and `ReplaceConnection` (`execMySQL` works through a `database/sql` pool that
replaces a dead or expired connection, and with it loses the lock). The
target server is modelled from what the code relies on: one session per lock,
an INSERT that waits for an uncommitted one of the same key and fails on a
committed one, rollback when a session ends. `Abandon` is a cancelled context
or a broken connection: the call returns at once, the session lives until
`SessionEnds`, and the statement it was given may still be carried out
(`LateScript`, `LateInsert`, `LateCommit`).

Abstractions. The ledger key and checksum are model values. A Postgres script
outside a transaction is all or nothing (several statements sent in one simple
query form an implicit transaction), and MySQL takes one statement per call
because `multiStatements` is off; a script that does more on its own is one of
`Escapes`. MySQL locks are per database here and per server in fact; two databases
on one server under one target id cannot run at once there, which the model
allows. Concurrent `CREATE TABLE IF NOT EXISTS` may fail on Postgres: that is
`StatementFails`.

A session that is abandoned while it waits for a lock may get the lock for a
moment before its server notices; it runs nothing then, and the model ends it
without.

### Inventory

| Code | Actions |
| --- | --- |
| `CreateProject`, `CreateDBSet`, `CreateDBTarget` | the actions of the same names: one INSERT each |
| `DisableDBSet`, `DisableDBTarget` | the actions of the same names: one UPDATE each |
| `UpdateDBTarget`, called by the UI's `EditTarget` | `EditRead` (read the row, merge the form), `EditWrite` (write the columns back), `EditGivenUp` between them |

A handler checks the project of a set before it acts (`InProject`); what that check
reads never changes, so it is one step with the write. The API finds a set to
disable in the selected project only, the UI in every project; the model has the
latter. The session's project is a parameter of each action: a session is a
cookie, and two requests of one browser may overwrite each other's choice, so
that any request may carry any project. Host and port are one value, and engine,
user, password and options are left out: an edit that changes them leads to
another database or to none, which the calls may fail on anyway. The connection
test writes nothing.

### Deployment

The steps of a request are those of `RunLifecycle`, with these changes:

- `RequestInProject` adds to `RequestRead` that the migration and the set are
  found in the session's project; `ListTargets` and `InsertListed` split
  `RequestInsert` where the code does: targets are listed and filtered first, and
  what is inserted is that list.
- In place of `ApplyItem`, `executeItem` reads the target when the item's turn
  comes (`TargetDisabled`, `CallTarget`), the database works on the call
  (`DatabaseStep`: any step of `TargetLedger`), and the executor hears the answer
  (`HearAnswer`).
- `Abandon` is `GiveUp` for a request that may be waiting for a call: the call is
  answered with an error nobody reads, and the database may still carry it out
  (`SucceedUnheard`, or `Leak` and `RecordLeaked`), while the run is stuck and a new
  one is requested.

A database is what host and name lead to. Calls carry a copy of the migration
row, in whatever transaction mode it has by then (`RunLifecycle` leaves the mode
out, so any mode in use). The key of a migration is unique in its project only
(`KeyOf`), and targets of several projects may lead to one database. `effects` is
now what the databases let take effect. The ledger variable of `RunLifecycle` is
not used.

`TargetLedger` stands for `execPostgres` and `execMySQL` here, by the refinement proved
in `TargetExecutorProofs`. `retired` is history: the targets that have been
disabled.

### Directory

A member of `Requests` is a request in flight, a step one statement.

| Code | Actions |
| --- | --- |
| `GoogleCallback`, `FindOrCreateGoogleUser` | `FindBySub`, `FindByEmail`, then `LinkSub` or `AutoProvisionUser`, then `IssueSession` |
| `SessionAuthenticator`, the role tests | `Authenticate` |
| UI `CreateUser`, `UpdateUser`, `DisableUser` and their store functions | the actions of the same names |
| an error returned, a context cancelled | `GiveUp` |

A person is a Google identity and its own `sub`, and may come with several
addresses. `AddressesOf` says which; two people may present one address, since the
callback decodes `email_verified` and never tests it. `FindByEmail` signs in to the
account of the address whatever `google_sub` it has, and `LinkSub` stores a sub
without looking whether there is one by now, both as in the code: people who share an
address share its account, and one of them may lose his link. `OneAccountPerPerson`
and `DisabledStayOut` are about people who share none (`OwnAddresses`);
`SessionsFitAddress` is what holds of everybody. `signIns`
is history: who got a session for which account. The first administrator is a
row made by hand. Names, providers and `last_login_at` are left out; a role the
form invents is refused by `ValidRole` before the column type would. There is
no way to enable an account again, to change its address or to delete it, in the
code as in the model.

### ToolMigrator

A member of `Servers` is a process with its binary. `Start` is `main` up to
`Up`; `EnsureTable`, `AppliedVersions`, and per file `BeginFile`, `RunBody`,
`Record`, `Commit` are the statements of `Up` and `apply`; `Serve` is `main`
going on to listen. `EnsureCollides`, `BodyCollides` and `RecordCollides` are the
failures another server causes (that they are its work is part of the model, not a
result); `Stop` is every other one, SQL that fails for its own reasons and a crash
included, and
leaves an uncommitted row (`orphans`) to `OrphanEnds`, which commits it or not.
A file is its place in the sorted list, and its version what `parseVersion`
reads. `bodies` is history. What a file does is left out: it takes effect with
its row or not at all.

## What is checked

Passing runs:

| Run | Instance | Shows |
| --- | --- | --- |
| `lifecycle_concurrent` | 2 requests, 1 migration, 2 runs, 1 target, 2 scripts, version at most 2, cancellation and failing updates; 1.8 million states | the approval gate: `ExecutedSqlWasApproved`, `OnlyApprovedRunsAct`; `ChecksumsDescribeSql` |
| `lifecycle_serial` | 1 request at a time with cancellation, 2 runs, 2 targets, 2 scripts, rollback scripts of which one is blank; 1.2 million states | the protocol of runs without overlap: `DecidedOnce`, `ApprovalOnRecord`, `StatusFollowsLifecycle`, `VersionNamesOneSql`, `NothingAfterFirstFailure`, `ExecutedRunIsOnEveryTarget`, `StartsFromApprovedBadge` |
| `lifecycle_liveness` | 2 requests, 1 run, 2 targets, no cancellation; 150 thousand states | `StartedRunsFinish`; that the requests implement `ApprovalGate` |
| `deployment` | 1 request at a time with cancellation, 2 runs, 2 calls that may outlive them, 2 projects with a migration each, 1 set, 1 target, a MySQL and a Postgres database, 1 edit in flight, 2 transaction modes; 570 thousand states | `DisabledIsNotCalled`, `ItemsTellTheTruth`, `RunsInScope`, `AppliedBadgeIsTrue`, `ExecutedBadgeIsTrue`, and that the whole implements `ApprovalGate` |
| `target_calls` | 2 calls, 2 targets, a Postgres and a shared MySQL database, 3 copies of a migration; 64 thousand states | `AtomicAppliedOnce`, `AnswersAreTrue`, `OneAtATime`, `CallsReturn`, and that the calls implement `TargetLedger` |
| `tool_startup` | 3 servers of 3 releases (files 1-2, 1-2-3, and 1 and 3), which die and start again; 64 thousand states | `AppliedExactly`, `LandsInOrder`, `ServingIsMigrated`, `StartsEnd`, `CollisionsCease` |
| `directory` | 3 requests, 3 accounts, 3 people of whom one has 2 addresses and two share one, auto-provisioning; 1.3 million states | `OneAccountPerPerson`, `SessionsFitAddress`, `DisabledStayOut` |

Runs that are violated, each a disagreement between the code and what its
documents or error texts say:

| Run | Property | What happens |
| --- | --- | --- |
| `rollback_runs_up` | `RollbackRunsSqlDown` | `run_type` is never read: a rollback executes `sql_up` |
| `decided_twice` | `DecidedOnce` | two decisions both see `awaiting_approval` and both commit |
| `executed_not_applied` | `ExecutedRunIsOnEveryTarget` | a second execution finds no queued item and reports executed while the first is still at work |
| `edit_keeps_approval` | `EditsForceReapproval` | after an edit and its reversal an approved run starts without a new approval |
| `version_reuse` | `VersionNamesOneSql` | two overlapping edits give one version number to two SQL texts |

The properties of `lifecycle_serial` that also appear among the violated ones are
the point of that pair: the code keeps the protocol for one request at a time
and loses it for two. What survives any overlap is the approval gate, and that an
`applied` target has what it was called for; which overlaps lose the rest is what
the theorems of `RunHistoryProofs` say.

`CollisionsCease` says of the tool's start-up that failing on the work of another
server is not for ever: a server that is started again and again does it finitely often,
because each time the table is there, or there is one file less for it to do.

Two more disagreements with the documents have no run, since the model
shows them at a glance:

- `API.md:75` ("transitions approved -> queued -> running") and `Architecture.md:47`
  ("run status `queued` then `running`") put `queued` before `running`. The executor
  goes from `approved` to `running` (`executor.go:59`) and no run is ever `queued`.
  `StatusSuccessor` is the code's order.
- `Requirements.md:45` has the Google `sub` "as stable identity key".
  `FindOrCreateGoogleUser` signs a person in to the account of his address although
  the account has another `google_sub` (`user.go:79-86`), and `linkGoogleSub`
  (`user.go:132`) overwrites one that was stored since it was read. In the instance
  of `directory` the first administrator and his twin get sessions for one account this
  way.

### Bounds

`MaxVersion` bounds the edits of a migration; it is the only bound in a guard.
Version 2 lets an approval go stale and two edits collide; `edit_keeps_approval`
needs 3 for an edit and its reversal. Two requests are enough for the races:
each is a stale read of one request against one write of another.
`lifecycle_serial` uses two targets so that a failure has an item behind it, and
two runs so that a second run meets the ledger of the first. Two calls are enough for
`TargetExecutor` in that each of its safety properties relates at most two
calls; the theorems cover any number. Symmetry is declared on runs, scripts and
requests in the runs without liveness: no definition tells two of them apart
(`ItemId` ranks targets and is the same function for every run). `SetOf` and `EnvOf`
are trivial in the instances, with one set and one environment; the theorems
hold for all.

`deployment` has one request in the tool's database at a time; what overlaps with
it are inventory steps, an edit in flight, and the calls of requests that were cut
off. Two calls make a late one meet a new one, and two hosts let an edit move the
target between approval and execution. The second project has a migration and no
set: it is there to be asked for from the wrong project. That a run meets the ledger
row of another checksum under its key (an edited migration, or one of another
project) is in `target_calls`, whose copies share a key, and in the theorem
`ItemsAreTrue`. One target cannot share its database with another one there; that the badge
`applied` is true of shared databases too is the theorem `AppliedBadge`. `MaxVersion`
is 1: no SQL is edited, and that an edit takes the badge `executed` away is by the
definition of the label. The races of two requests are in `lifecycle_concurrent`, and
the theorems about `Deployment` cover any number.

In `tool_startup` three servers are the fewest where two compete for a key while a
third dies with it, and the release that skipped file 2 leaves a gap for the
others to fill. In `directory` one more request than the two that race leaves
room for an administrator between them; the forms give the roles `user` and
`admin`, none, and one that is not valid (`manager` is like `user` for the
properties). Accounts and people are few because
each property relates two accounts, or a person and an account; the theorems
cover any number. Auto-provisioning is on, which includes the behaviours of
off except that an unknown address is refused, a step that changes nothing.

`target_calls`, `deployment` and `directory` do not check deadlock: every call ends, and
an instance has only so many of them; and once every account is disabled nobody gets in. The
other runs do; a request, or a server, can always come.

### Fairness

`FairSpec`: weak fairness of `Continue(p)`. A request in flight goes on: Go
schedules its goroutine and the database answers. Arrival of requests is not
fair, nor are cancellations. With cancellation, or with a failing last update, a
run can stay running for ever; the Runbook knows it ("Run stuck in running"), so
`StartedRunsFinish` is checked without them and says that nothing else leaves a run
behind, a second executor of the same run included.

`EFairSpec`: weak fairness of `Proceed(a)`: the statements of a call are answered,
and a server ends the session of a client that is gone (TCP keep-alive). Errors
and time-outs are not fair. Weak fairness is enough for the lock: whoever holds
it ends, and a call for ever behind others would need infinitely many of them.

`FairSpec` of `ToolMigrator`: strong fairness of `Step(s)`, a server that starts goes
on, and weak fairness of `OrphanEnds`. Strong, because a waiting INSERT is enabled
and disabled again each time another server takes the key and dies; Postgres
serves waiters in their order, so that this cannot go on for ever. Starts and
stops are not fair.

## What is proved

`RunLifecycleProofs`, for any constants that meet the assumptions of
`RunLifecycle` (no checksum collisions, a set per target, distinct item ids,
`None` is no row, no status and no checksum of a script):

- `TypeCorrect`: `Spec => []TypeOK`.
- `ApprovalGate`: `Spec => []ExecutedSqlWasApproved`. 
- `ApprovedActors`: `Spec => []OnlyApprovedRunsAct`.
- `ChecksumsAgree`: `Spec => []ChecksumsDescribeSql`.

`ExecutedSqlWasApproved` is not inductive: it says nothing of requests that are
about to act. `IInv` adds what a request in flight may rely on (`Sound`): the row
held by an executor past its check has the checksums of the run and the run has a
grant; the row held by an approver has the checksums of the run it is going to
approve; a row to be written has checksums of its own SQL. With it goes that a
run that is approved or further has a grant, that each effect traces back to a granted
run with an item on its target, and that a run's migration and its checksums
never change. The absence of checksum collisions turns equal checksums into
equal SQL, which is where the gate closes.

`ApprovalGateProofs` proves `GateKept`: `Spec => ImplementsApprovalGate`. The initial
state maps to the abstract one, and every step of `RunLifecycle` from a state with `IInv` maps
to `Ask` (the INSERT of a run), `Grant` (the commit of an approval), `Act` (a script
that took effect) or a stutter. The proof goes action by action; `IInv` gives what
the abstract guards ask for, and that no checksum collides makes `TextOf` give back
the text.

`RunHistoryProofs` proves the protocol of runs, approvals and versions for any number of requests
in flight, under conditions on which of them overlap. The server does not
enforce these conditions, so a theorem says what overlap an operator has to
avoid to rely on its property:

| Theorem | Property | Holds while |
| --- | --- | --- |
| `DecidedOnceApart` | `DecidedOnce` | no two decisions on one run are in flight (`DecisionsApart`) |
| `VersionNamesOneSqlApart` | `VersionNamesOneSql` | no two edits of one migration are in flight (`EditsApart`) |
| `ApprovalOnRecordApart` | `ApprovalOnRecord` | no approval is committed while an edit of its migration is in flight (`ApprovalsApart`) |
| `NothingAfterFirstFailureApart` | `NothingAfterFirstFailure` | `DecisionsApart`, and no two executions of one run are in flight (`ExecutionsApart`) |
| `StatusFollowsLifecycleApart` | `StatusFollowsLifecycle` | the same |
| `ExecutedRunsApart` | `ExecutedRunIsOnEveryTarget` | the same, and no status update is lost (`~ StatementFaults`) |
| `OneRequestAtATime` | the first five | there is one request at a time, which meets all the conditions |

In each of them everything else may overlap, and a request may be cut off at any
statement. None of the conditions can be left out: TLC then finds a violation with two
requests. Two overlapping decisions or edits are the runs `decided_twice` and
`version_reuse`, two executions the run `executed_not_applied`. An approval that is
committed between the write and the purge of an edit is deleted by the purge, though it
was given to the new SQL. Two approvals that overlap make a run that has failed
approved again, and its next execution starts the items behind the failure; that is
why a property of executions needs `DecisionsApart`. An item whose last update is lost
stays `running` in a run that is then reported executed, which is why `ExecutedRunsApart`
needs `~ StatementFaults`; the other theorems hold with updates lost.

The argument has two parts. `StepCases` and `EditCases` say once, from `IInv`, what a step
does to runs, items and ledgers, or to migrations: it is one of a dozen kinds (`NewRun`, `TakesUp`,
`Commits`, `Starts`, `StartsItem`, `Applies`, `Records`, ...), each stated by what it changes and
for whom. Every further invariant is then proved over kinds of steps rather than
actions. These invariants are layered: `ToldInv` (an item that says executed or
skipped has its checksum in the ledger; no condition), `DecisionInv` (who decides
finds his run undecided, who executes finds it decided), `OnceInv`, `LoopInv` (an
executor has its run to itself: its list is what is queued, what is started precedes what
is not in the order of the ids, nothing has failed yet), `CompleteInv` (what is no longer on
the list is done), `RevisionInv` (the write an edit is about to make is one version ahead
of the row) and `RecordInv` (while an edit that changes the SQL is in flight, the approvals of its migration
are outdated, or its write will outdate them).

`StatusViewProofs` builds on it. `StartsFromApproved` proves `StartsFromApprovedBadge`
under `DecisionsApart`, `ExecutionsApart`, and while no edit of the migration of a run
that is being executed is in flight (`EditsApartFromExecutions`);
`StartsFromApprovedAlone` draws the conclusion for one request at a time. `OrderInv`
says that every run has one place in the order of the requests, so that two latest
runs are one; it is kept by the step that inserts a run. `FreshInv` says that an
executor about to start its run has compared it with the migration as it is.

`DeploymentProofs`, for any inventory, databases, calls and requests:
`DeploymentTypes` (`DTypeOK`), `DeploymentGate` (`DSpec => ImplementsApprovalGate`),
`DisabledIsLeftAlone` (`DisabledIsNotCalled`), `ItemsAreTrue` (`ItemsTellTheTruth`),
`AppliedBadge` (`AppliedBadgeIsTrue`), `RunsStayInScope` (`RunsInScope`). All steps but `HearAnswer` and `DatabaseStep` are steps of
`RunLifecycle` or leave its variables alone, so that `IInv` and the refinement carry
over from there; the two others are proved here. `DInv` adds to `IInv` that an edit in
flight is of a row that exists and a retired target is inactive (`StockOK`), that a
run is in one project (`Scoped`), that a call carries its run's text and checksum to a target of the run
after a grant (`CallsOK`), that an answer `executed` or `skipped` has its row at the database
(`AnswersOK`), that items repeat answers (`ItemsTold`), and what a request in flight
holds: the list of targets of the set it found, the call it waits for (`Linked`).
That a call keeps its database and its text from the moment it starts, and rows of
the ledger are never changed, is what makes items true for good.

`TargetExecutorProofs`, for any number of calls, targets and databases:

- `CallTypes`, `LockProtects` (`OneAtATime`), `AppliedOnce` (`AtomicAppliedOnce`), `TrueAnswers`
  (`AnswersAreTrue`);
- `Implementation`: `ESpec => ImplementsTargetLedger`. Every step of `TargetExecutor`
  is a step of `TargetLedger` or leaves its variables alone; the refinement
  mapping is the identity on the variables they share.

`EInv` is a conjunction of `CallOK` (what the position of a call says of its result),
`SessionOK` (which sessions are open, abandoned, past the lock), `EffectOK` (a
script that landed, its row, its answer), `PairOK` (two calls for one key on one
database: transactions that wait to commit exclude each other, locks are held
by one) and `RowsOK` (every ledger row is some landed script's). A call between its
ledger check and its INSERT knows nothing for certain on a shared database; that
the INSERT, and not the check, is what protects is visible in the proof.

`DirectoryProofs`, for any number of requests, accounts, people and addresses,
with auto-provisioning on or off: `DirectoryTypes`, `PeopleKeepTheirAccount`
(`OneAccountPerPerson`), `SessionsByAddress` (`SessionsFitAddress`),
`TheDisabledStayOut` (`DisabledStayOut`). Nothing is assumed about who presents
which address. `DInv` says that addresses and subs are unique and a sub is stored
only at an address its person may present (`TableOK`), and what a request that has
found its account may rely on: the account has the address, and is linked to him if
he shares no address (`Enters`). `LinkSub` does not look at the sub again; that does
a person who shares no address no harm because whatever another request stored
meanwhile is the same sub (`OneOwner`).

`ToolMigratorProofs`, for any servers, files and releases with one file per
version: `StartTypes`, `FilesApplyOnce` (`AppliedExactly`), `ServersFindTheirSchema`
(`ServingIsMigrated`), `FilesLandInOrder`
(`LandsInOrder`). `MInv` adds to `AppliedExactly` that what a server has behind it
in its loop is applied (`LoopOK`), that a version belongs to the table, to one
open transaction or to one abandoned session (`KeysOK`), and that an abandoned
session's file has its predecessors applied in some release (`OrphansOK`).

Only model-checked: liveness (`StartedRunsFinish`, `CallsReturn`, `StartsEnd`,
`CollisionsCease`), which is beyond the proof system, and `ExecutedBadgeIsTrue`, which
needs what `RunHistoryProofs` shows of executions carried over to `Deployment`. Every
other safety and action property of the passing runs is a theorem, with the conditions
given above. `EditsForceReapproval` and
`RollbackRunsSqlDown` have none: the code violates them with one request at a time.

## What is not modelled

What a session cookie carries besides its account and its project: the flash
message and the CSRF token. Roles other than the administrator's: the run and
inventory models let every request through, which only adds behaviours. A
disabled set refuses nothing in the code, so no property is about it. The
composition puts `TargetLedger` below the executor, not the statements of
`TargetExecutor`; that these implement it is checked and proved separately, for
databases that targets keep naming or come to share. Liveness is checked of runs
and of calls, not of the composition. Audit events are appended after the fact,
their errors are ignored and nothing reads them. Configuration, secrets, logging, lists,
templates and JSON hold no state that changes.

## Plan

Done: `ApprovalGate`, `RunLifecycle`, `RunHistory`, `StatusLabels`, `StatusView`, `TargetLedger`,
`TargetExecutor`, `Inventory`, `Deployment`, `Directory`, `ToolMigrator`, and the proofs
above.

1. What carries over from `RunHistoryProofs` to `Deployment`, where the calls of a request
   that was cut off may still be carried out; `ExecutedBadgeIsTrue` with it.
2. The session cookie in `Directory`: project choice, flash message and logout as
   reads and writes of one value.
3. Liveness of `Deployment`: with fair databases a run that is not cut off gets its
   final status.

---------------------------- MODULE RunLifecycle ----------------------------
(***************************************************************************)
(* The life of a run in migrate-hub's own database: migrations are edited, *)
(* runs are requested, approved or denied, and executed item by item.      *)
(*                                                                         *)
(* Every HTTP handler (JSON API and UI alike) calls one function of        *)
(* internal/store or internal/executor with the request's context.  A      *)
(* request is therefore a process; it holds what it read in Go variables   *)
(* (loc[p]) and its steps are the statements, or the transactions, it      *)
(* sends to the tool database.  Nothing but these statements orders two    *)
(* requests: there is no mutex in the server and no status in the WHERE    *)
(* clauses.                                                                *)
(*                                                                         *)
(* The work on a target database is one step here, ApplyItem, with every   *)
(* outcome the tool can see; module TargetExecutor opens that step up.     *)
(***************************************************************************)
EXTENDS Integers, FiniteSets

CONSTANTS
  Requests,        \* requests that may be in flight at the same time
  Migrations,      \* migrations, each with its own (project, migration_key)
  Runs,            \* run ids, uuid.New() takes an unused one
  Targets,         \* target databases, a physical database each
  DBSets, Envs,    \* database sets, and daily/stg/prd
  SetOf, EnvOf,    \* the set of a target, the environment of a set
  ItemId,          \* ItemId[r][t]: rank of the item's random uuid in run r
  Scripts,         \* the contents sql_up may have
  DownScripts,     \* the contents sql_down may have
  Trimmed,         \* strings.TrimSpace on them, None for a blank one
  Checksum(_),     \* hex(sha256(.))
  None,            \* Go's nil, and "no row"
  MaxVersion,      \* bound on the versions a migration goes through
  Cancellations,   \* TRUE: contexts are cancelled and the server may crash
  StatementFaults  \* TRUE: a status update of an item or a run may fail

\* A set belongs to one environment and a target to one set
\* (schema: db_sets.env, db_targets.db_set_id).
ASSUME InventoryAssumption ==
  /\ SetOf \in [Targets -> DBSets]
  /\ EnvOf \in [DBSets -> Envs]

\* sha256 has no collision among the scripts in use.
ASSUME ChecksumAssumption ==
  \A s, t \in Scripts \cup DownScripts : Checksum(s) = Checksum(t) => s = t

ASSUME TrimAssumption == Trimmed \in [DownScripts -> DownScripts \cup {None}]

ASSUME BoundAssumption == MaxVersion \in Nat \ {0}

\* Items are listed ORDER BY id, and ids are distinct.
ASSUME ItemIdAssumption ==
  \A r \in Runs : /\ ItemId[r] \in [Targets -> Nat]
                  /\ \A t, u \in Targets : ItemId[r][t] = ItemId[r][u] => t = u

VARIABLES
  mig,        \* table migrations
  runs,       \* table runs
  items,      \* table run_items: items[r][t] is the status of t's item
  approvals,  \* table approvals
  ledger,     \* migrate_hub_migrations of every target: recorded checksum_up
  loc,        \* what each request in flight has read, and where it stands
  grants,     \* history: what the approvals have covered, for whom
  effects     \* history: the SQL executed on targets

toolDB  == <<mig, runs, items, approvals>>
history == <<grants, effects>>
vars    == <<toolDB, ledger, loc, history>>

-----------------------------------------------------------------------------
(***************************************************************************)
(* Rows.                                                                   *)
(***************************************************************************)
UpSums   == {Checksum(s) : s \in Scripts}
DownSums == {Checksum(s) : s \in DownScripts} \cup {None}

MigrationRow ==
  [up : Scripts, down : DownScripts \cup {None},
   sumUp : UpSums, sumDown : DownSums, version : 1 .. MaxVersion]

RunType   == {"apply", "rollback"}
RunStatus ==
  {"awaiting_approval", "approved", "denied", "running", "executed", "failed"}
RunRow ==
  [mig : Migrations, type : RunType, set : DBSets, env : Envs,
   status : RunStatus, sumUp : UpSums, sumDown : DownSums]

ItemStatus == {"queued", "running", "executed", "skipped", "failed"}

Decision == {"approved", "denied"}
ApprovalRow ==
  [mig : Migrations, env : Envs, decision : Decision,
   sumUp : UpSums, sumDown : DownSums]

\* nil is neither a row, nor a status, nor the checksum of a script.
ASSUME NoneAssumption ==
  None \notin MigrationRow \cup RunRow \cup ItemStatus \cup UpSums

Grant  == [run : Runs, mig : Migrations, env : Envs, up : Scripts]
Effect == [run : Runs, mig : Migrations, target : Targets, sql : Scripts]

PC == {"idle", "request_insert", "approve_check", "approve_commit",
       "deny_commit", "update_write", "update_purge", "exec_items",
       "exec_check", "exec_start", "exec_item", "exec_apply", "exec_record",
       "exec_finish"}

\* row is the migration read (execute, approve) or to be written (update),
\* draft the run to be inserted, todo the items still to be looked at, cur
\* the item in hand and result the outcome of the last one.
Local ==
  [pc : PC, run : Runs \cup {None}, mig : Migrations \cup {None},
   row : MigrationRow \cup {None}, changed : BOOLEAN,
   draft : RunRow \cup {None}, todo : SUBSET Targets,
   cur : Targets \cup {None}, result : ItemStatus \cup {None}]

Idle ==
  [pc |-> "idle", run |-> None, mig |-> None, row |-> None, changed |-> FALSE,
   draft |-> None, todo |-> {}, cur |-> None, result |-> None]

HasStatus(r, status) == runs[r] # None /\ runs[r].status = status

At(p, label)  == loc[p].pc = label

\* p goes on with local state l.
Becomes(p, l) == loc' = [loc EXCEPT ![p] = l]
Done(p)       == Becomes(p, Idle)

\* Nullable checksums: nil stays nil.
ChecksumOf(script) == IF script = None THEN None ELSE Checksum(script)

MigrationRowOf(up, down, version) ==
  [up |-> up, down |-> down, sumUp |-> Checksum(up),
   sumDown |-> ChecksumOf(down), version |-> version]

\* Mutant of ChecksumsAtRequest: the first half of the test is forgotten.
DownAtRequest(row, run) == row.sumDown = run.sumDown

\* The staleness test of ApproveRun and of ExecuteRun.
ChecksumsAtRequest(row, run) ==
  row.sumUp = run.sumUp /\ row.sumDown = run.sumDown

Init ==
  /\ mig = [m \in Migrations |-> None]
  /\ runs = [r \in Runs |-> None]
  /\ items = [r \in Runs |-> [t \in Targets |-> None]]
  /\ approvals = {}
  /\ ledger = [t \in Targets |-> [m \in Migrations |-> None]]
  /\ loc = [p \in Requests |-> Idle]
  /\ grants = {}
  /\ effects = {}

-----------------------------------------------------------------------------
(***************************************************************************)
(* Migrations: create, and edit in three statements.                       *)
(***************************************************************************)

\* One INSERT; the UNIQUE (project_id, migration_key) constraint refuses a
\* second row.
CreateMigration(m, up, down) ==
  /\ mig[m] = None
  /\ mig' = [mig EXCEPT ![m] = MigrationRowOf(up, down, 1)]
  /\ UNCHANGED <<runs, items, approvals, ledger, loc, history>>

SqlChanged(cur, up, down) == up # cur.up \/ down # cur.down

\* An edit without sql_down keeps the current one as it is; a given one is
\* trimmed, and dropped when blank.  CreateMigration does not trim.
EditedDown(cur) ==
  {cur.down, None} \cup {Trimmed[d] : d \in DownScripts}

\* Mutants of EditedRow: the checksums, or the version, are not renewed.
EditedRowOldSums(cur, up, down) ==
  IF SqlChanged(cur, up, down)
  THEN [cur EXCEPT !.up = up, !.down = down, !.version = cur.version + 1]
  ELSE cur

EditedRowOldVersion(cur, up, down) == MigrationRowOf(up, down, cur.version)

\* The row UpdateMigration computes from the one it read.
EditedRow(cur, up, down) ==
  IF SqlChanged(cur, up, down)
  THEN MigrationRowOf(up, down, cur.version + 1)
  ELSE cur

UpdateRead(p, m, up, down) ==
  /\ At(p, "idle")
  /\ mig[m] # None
  /\ down \in EditedDown(mig[m])
  /\ SqlChanged(mig[m], up, down) => mig[m].version < MaxVersion
  /\ Becomes(p, [Idle EXCEPT !.pc = "update_write", !.mig = m,
                             !.row = EditedRow(mig[m], up, down),
                             !.changed = SqlChanged(mig[m], up, down)])
  /\ UNCHANGED <<toolDB, ledger, history>>

\* UPDATE migrations SET <every column> WHERE id: whatever another request
\* wrote since UpdateRead is overwritten.
UpdateWrite(p) ==
  LET m == loc[p].mig
      row == loc[p].row
  IN
  /\ At(p, "update_write")
  /\ mig' = [mig EXCEPT ![m] = row]
  /\ Becomes(p, IF loc[p].changed
                THEN [loc[p] EXCEPT !.pc = "update_purge"] ELSE Idle)
  /\ UNCHANGED <<runs, items, approvals, ledger, history>>

\* The handler then deletes the migration's approvals; the runs keep their
\* status.
UpdatePurge(p) ==
  /\ At(p, "update_purge")
  /\ approvals' = {a \in approvals : a.mig # loc[p].mig}
  /\ Done(p)
  /\ UNCHANGED <<mig, runs, items, ledger, history>>

-----------------------------------------------------------------------------
(***************************************************************************)
(* Requesting a run.                                                       *)
(***************************************************************************)

\* The run GetMigration's row becomes: checksums are copied into it.
RequestedRun(m, type, env, set) ==
  [mig |-> m, type |-> type, set |-> set, env |-> env,
   status |-> "awaiting_approval",
   sumUp |-> mig[m].sumUp, sumDown |-> mig[m].sumDown]

HasDown(row) == row.down # None /\ Trimmed[row.down] # None

\* A random uuid is nobody else's.
UnusedRunId(r) == runs[r] = None /\ \A p \in Requests : loc[p].run # r

RequestRead(p, m, type, env, set) ==
  /\ At(p, "idle")
  /\ mig[m] # None
  /\ type = "rollback" => HasDown(mig[m])        \* ErrRollbackMissingSQL
  /\ EnvOf[set] = env
  /\ \E r \in Runs :
       /\ UnusedRunId(r)
       /\ Becomes(p, [Idle EXCEPT !.pc = "request_insert", !.run = r,
                                  !.draft = RequestedRun(m, type, env, set)])
  /\ UNCHANGED <<toolDB, ledger, history>>

\* One transaction inserts the run and an item per active target of the set:
\* an admin decides which are active, and with none the request is refused.
RequestInsert(p, active) ==
  LET r == loc[p].run
      draft == loc[p].draft
  IN
  /\ At(p, "request_insert")
  /\ runs[r] = None                                \* PRIMARY KEY
  /\ \A t \in active : SetOf[t] = draft.set
  /\ IF active = {}
     THEN UNCHANGED <<runs, items>>                \* ErrRunNoTargets
     ELSE /\ runs' = [runs EXCEPT ![r] = draft]
          /\ items' = [items EXCEPT ![r] =
               [t \in Targets |-> IF t \in active THEN "queued" ELSE None]]
  /\ Done(p)
  /\ UNCHANGED <<mig, approvals, ledger, history>>

-----------------------------------------------------------------------------
(***************************************************************************)
(* Decisions.  Both read the run first and write it in a later             *)
(* transaction whose WHERE clause names the id only.                       *)
(***************************************************************************)
\* Mutant of AwaitingApproval: only what has started is refused.
NotStarted(r) == \E s \in {"awaiting_approval", "approved", "denied"} : HasStatus(r, s)

AwaitingApproval(r) == HasStatus(r, "awaiting_approval")

\* Mutant of Decide: the second statement is left out.
DecideUnrecorded(r, decision) ==
  /\ runs' = [runs EXCEPT ![r].status = decision]
  /\ UNCHANGED approvals

\* The transaction: the run's status and a row of approvals.
Decide(r, decision) ==
  /\ runs' = [runs EXCEPT ![r].status = decision]
  /\ approvals' = approvals \cup
       {[mig |-> runs[r].mig, env |-> runs[r].env, decision |-> decision,
         sumUp |-> runs[r].sumUp, sumDown |-> runs[r].sumDown]}

ApproveRead(p, r) ==
  /\ At(p, "idle")
  /\ AwaitingApproval(r)
  /\ Becomes(p, [Idle EXCEPT !.pc = "approve_check", !.run = r])
  /\ UNCHANGED <<toolDB, ledger, history>>

ApproveCheck(p) ==
  LET r == loc[p].run
      row == mig[runs[r].mig]
  IN
  /\ At(p, "approve_check")
  /\ IF ChecksumsAtRequest(row, runs[r])
     THEN Becomes(p, [loc[p] EXCEPT !.pc = "approve_commit", !.row = row])
     ELSE Done(p)                                  \* ErrChecksumMismatch
  /\ UNCHANGED <<toolDB, ledger, history>>

ApproveCommit(p) ==
  LET r == loc[p].run IN
  /\ At(p, "approve_commit")
  /\ Decide(r, "approved")
  /\ grants' = grants \cup
       {[run |-> r, mig |-> runs[r].mig, env |-> runs[r].env,
         up |-> loc[p].row.up]}
  /\ Done(p)
  /\ UNCHANGED <<mig, items, ledger, effects>>

DenyRead(p, r) ==
  /\ At(p, "idle")
  /\ AwaitingApproval(r)
  /\ Becomes(p, [Idle EXCEPT !.pc = "deny_commit", !.run = r])
  /\ UNCHANGED <<toolDB, ledger, history>>

DenyCommit(p) ==
  /\ At(p, "deny_commit")
  /\ Decide(loc[p].run, "denied")
  /\ Done(p)
  /\ UNCHANGED <<mig, items, ledger, history>>

-----------------------------------------------------------------------------
(***************************************************************************)
(* Executing a run.                                                        *)
(***************************************************************************)

\* Mutants of Executable: a denial is all that stops a run; a failed run may
\* be tried again.
NotDenied(r) == runs[r] # None /\ runs[r].status # "denied"
Retriable(r) == HasStatus(r, "approved") \/ HasStatus(r, "failed")

Executable(r) == HasStatus(r, "approved")

\* getRun and the check of the status it returned.
ExecuteRead(p, r) ==
  /\ At(p, "idle")
  /\ Executable(r)
  /\ Becomes(p, [Idle EXCEPT !.pc = "exec_items", !.run = r])
  /\ UNCHANGED <<toolDB, ledger, history>>

\* listRunItems is a second query; the loop skips what is not queued in it.
ExecuteListItems(p) ==
  /\ At(p, "exec_items")
  /\ Becomes(p, [loc[p] EXCEPT
                   !.pc = "exec_check",
                   !.todo = {t \in Targets : items[loc[p].run][t] = "queued"}])
  /\ UNCHANGED <<toolDB, ledger, history>>

\* The executor keeps this row: all items get its SQL, whatever happens to
\* the migration meanwhile.
ExecuteCheck(p) ==
  LET r == loc[p].run
      row == mig[runs[r].mig]
  IN
  /\ At(p, "exec_check")
  /\ IF ChecksumsAtRequest(row, runs[r])
     THEN Becomes(p, [loc[p] EXCEPT !.pc = "exec_start", !.row = row])
     ELSE Done(p)                                  \* ErrChecksumMismatch
  /\ UNCHANGED <<toolDB, ledger, history>>

SetRunStatus(r, status) == runs' = [runs EXCEPT ![r].status = status]

ExecuteStart(p) ==
  /\ At(p, "exec_start")
  /\ SetRunStatus(loc[p].run, "running")
  /\ Becomes(p, [loc[p] EXCEPT !.pc = "exec_item"])
  /\ UNCHANGED <<mig, items, approvals, ledger, history>>

\* Mutant of NextItem: the loop goes over the targets of the set.
NextOfSet(r, todo) == {t \in Targets : SetOf[t] = runs[r].set}

\* The items come in the order of their ids.
NextItem(r, todo) ==
  {t \in todo : \A u \in todo : ItemId[r][t] <= ItemId[r][u]}

ItemStart(p) ==
  LET r == loc[p].run IN
  /\ At(p, "exec_item")
  /\ \E t \in NextItem(r, loc[p].todo) :
       /\ items' = [items EXCEPT ![r][t] = "running"]
       /\ Becomes(p, [loc[p] EXCEPT !.pc = "exec_apply", !.cur = t,
                                    !.todo = @ \ {t}])
  /\ UNCHANGED <<mig, runs, approvals, ledger, history>>

\* The update to running fails: firstErr is set and the loop left.
ItemStartFails(p) ==
  /\ StatementFaults
  /\ At(p, "exec_item")
  /\ loc[p].todo # {}
  /\ Becomes(p, [loc[p] EXCEPT !.pc = "exec_finish", !.result = "failed"])
  /\ UNCHANGED <<toolDB, ledger, history>>

\* The ledger lists the migration with this very checksum.
AlreadyApplied(recorded, sum) == recorded = sum

\* What executeItem may do to the target, and what it returns.  The script
\* executed is sql_up for both run types.  A failure may leave the SQL and
\* its ledger row (the answer to COMMIT was lost) or the SQL alone (a mode or
\* an engine that does not roll back).
Outcome(recorded, sum) ==
  {o \in [sql : BOOLEAN, row : BOOLEAN,
          result : {"executed", "skipped", "failed"}] :
     \/ o.result = "executed" /\ recorded = None /\ o.sql /\ o.row
     \/ o.result = "skipped"  /\ AlreadyApplied(recorded, sum) /\ ~ o.sql /\ ~ o.row
     \/ o.result = "failed"   /\ (o.row => o.sql) /\ (o.sql => recorded = None)}

SqlToRun(run, row) == row.up

ApplyItem(p) ==
  LET r == loc[p].run
      t == loc[p].cur
      m == runs[r].mig
      row == loc[p].row
  IN
  /\ At(p, "exec_apply")
  /\ \E o \in Outcome(ledger[t][m], row.sumUp) :
       /\ ledger' = IF o.row THEN [ledger EXCEPT ![t][m] = row.sumUp]
                             ELSE ledger
       /\ effects' = IF o.sql
                     THEN effects \cup
                          {[run |-> r, mig |-> m, target |-> t,
                            sql |-> SqlToRun(runs[r], row)]}
                     ELSE effects
       /\ Becomes(p, [loc[p] EXCEPT !.pc = "exec_record",
                                    !.result = o.result])
  /\ UNCHANGED <<toolDB, grants>>

\* Mutants of AfterItem: the loop goes on; the handler returns at once.
GoOn(result) == "exec_item"
ReturnAtOnce(result) == IF result = "failed" THEN "idle" ELSE "exec_item"

\* A failed item ends the loop, anything else goes on with the next one.
AfterItem(result) == IF result = "failed" THEN "exec_finish" ELSE "exec_item"

\* An error of this update is dropped, and the item stays running.
ItemRecord(p) ==
  LET r == loc[p].run
      t == loc[p].cur
  IN
  /\ At(p, "exec_record")
  /\ \/ items' = [items EXCEPT ![r][t] = loc[p].result]
     \/ StatementFaults /\ items' = items
  /\ Becomes(p, [loc[p] EXCEPT !.pc = AfterItem(loc[p].result), !.cur = None])
  /\ UNCHANGED <<mig, runs, approvals, ledger, history>>

ItemsDone(p) ==
  /\ At(p, "exec_item")
  /\ loc[p].todo = {}
  /\ Becomes(p, [loc[p] EXCEPT !.pc = "exec_finish"])
  /\ UNCHANGED <<toolDB, ledger, history>>

\* Mutants of FinalStatus: the last item's status; no look at the result.
LastItemStatus(result) == result
AlwaysExecuted(result) == "executed"

FinalStatus(result) == IF result = "failed" THEN "failed" ELSE "executed"

\* The last update of the run; its error is dropped too.
ExecuteFinish(p) ==
  /\ At(p, "exec_finish")
  /\ \/ SetRunStatus(loc[p].run, FinalStatus(loc[p].result))
     \/ StatementFaults /\ runs' = runs
  /\ Done(p)
  /\ UNCHANGED <<mig, items, approvals, ledger, history>>

-----------------------------------------------------------------------------
(***************************************************************************)
(* The request ends early: middleware.Timeout cancels its context, the     *)
(* client disconnects, the server stops, or a statement fails whose error  *)
(* the handler returns.  With the context gone no later statement of the   *)
(* request succeeds, so nothing is undone and nothing is finished.         *)
(***************************************************************************)
GiveUp(p) ==
  /\ Cancellations
  /\ ~ At(p, "idle")
  /\ Done(p)
  /\ UNCHANGED <<toolDB, ledger, history>>

\* A new request arrives.
Begin(p) ==
  \/ \E m \in Migrations, up \in Scripts, down \in DownScripts \cup {None} :
       UpdateRead(p, m, up, down)
  \/ \E m \in Migrations, type \in RunType, env \in Envs, set \in DBSets :
       RequestRead(p, m, type, env, set)
  \/ \E r \in Runs : ApproveRead(p, r) \/ DenyRead(p, r) \/ ExecuteRead(p, r)

\* A request in flight takes its next step.
Continue(p) ==
  \/ UpdateWrite(p) \/ UpdatePurge(p)
  \/ \E active \in SUBSET Targets : RequestInsert(p, active)
  \/ ApproveCheck(p) \/ ApproveCommit(p)
  \/ DenyCommit(p)
  \/ ExecuteListItems(p) \/ ExecuteCheck(p) \/ ExecuteStart(p)
  \/ ItemStart(p) \/ ItemStartFails(p) \/ ApplyItem(p) \/ ItemRecord(p)
  \/ ItemsDone(p) \/ ExecuteFinish(p)

Next ==
  \/ \E m \in Migrations, up \in Scripts, down \in DownScripts \cup {None} :
       CreateMigration(m, up, down)
  \/ \E p \in Requests : Begin(p) \/ Continue(p) \/ GiveUp(p)

Spec == Init /\ [][Next]_vars

\* The Go scheduler runs every handler's goroutine and the databases answer:
\* a request in flight goes on until it ends.  Nobody has to send a request.
FairSpec == Spec /\ \A p \in Requests : WF_vars(Continue(p))

-----------------------------------------------------------------------------
(***************************************************************************)
(* The refinement of ApprovalGate.                                         *)
(***************************************************************************)

\* The text a checksum was made from.
TextOf(sum) == CHOOSE s \in Scripts : Checksum(s) = sum

\* What a row of runs asks for, with its items.
AskedRuns ==
  [r \in Runs |->
     IF runs[r] = None THEN None
     ELSE [mig |-> runs[r].mig, env |-> runs[r].env,
           up |-> TextOf(runs[r].sumUp),
           targets |-> {t \in Targets : items[r][t] # None}]]

Gate == INSTANCE ApprovalGate
          WITH EnvOfTarget <- [t \in Targets |-> EnvOf[SetOf[t]]],
               asked <- AskedRuns, granted <- grants, acted <- effects

\* nil asks for nothing.
ASSUME NoRequestAssumption == None \notin Gate!Request

-----------------------------------------------------------------------------
(***************************************************************************)
(* Properties.                                                             *)
(***************************************************************************)

\* Every variable keeps the type of the table, or of the Go value, it models.
TypeOK ==
  /\ mig \in [Migrations -> MigrationRow \cup {None}]
  /\ runs \in [Runs -> RunRow \cup {None}]
  /\ items \in [Runs -> [Targets -> ItemStatus \cup {None}]]
  /\ approvals \subseteq ApprovalRow
  /\ ledger \in [Targets -> [Migrations -> UpSums \cup {None}]]
  /\ loc \in [Requests -> Local]
  /\ grants \subseteq Grant
  /\ effects \subseteq Effect

\* Whatever SQL reaches a target, an approver has approved that very SQL of
\* that migration for the environment of the target: edits, approvals,
\* denials and executions may interleave as they like (the checksum tests of
\* ApproveRun and ExecuteRun, and the executor's own copy of the row).
ExecutedSqlWasApproved ==
  \A e \in effects :
    \E g \in grants :
      g.mig = e.mig /\ g.env = EnvOf[SetOf[e.target]] /\ g.up = e.sql

\* A run that was never approved has not started, and a target's row of
\* applied migrations is the trace of an approved run that covered it: no
\* interleaving of a denial with an execution gets round the approval.
OnlyApprovedRunsAct ==
  /\ \A r \in Runs :
       (\E s \in {"running", "executed", "failed"} : HasStatus(r, s)) =>
         \E g \in grants : g.run = r
  /\ \A t \in Targets, m \in Migrations :
       ledger[t][m] # None =>
         \E e \in effects : /\ e.target = t /\ e.mig = m
                            /\ Checksum(e.sql) = ledger[t][m]
                            /\ items[e.run][t] # None
                            /\ \E g \in grants : g.run = e.run

\* The checksum columns describe the SQL columns, also after two edits have
\* overwritten each other (UpdateMigration recomputes them only when the SQL
\* differs from the row it read, which may be gone by then).
ChecksumsDescribeSql ==
  \A m \in Migrations :
    mig[m] # None => /\ mig[m].sumUp = Checksum(mig[m].up)
                     /\ mig[m].sumDown = ChecksumOf(mig[m].down)

\* An apply run in status executed has put the SQL it was approved for on each of its
\* targets: the items are executed or skipped and the ledgers say so.
ExecutedRunIsOnEveryTarget ==
  \A r \in Runs :
    HasStatus(r, "executed") /\ runs[r].type = "apply" =>
      \A t \in Targets :
        items[r][t] # None =>
          /\ items[r][t] \in {"executed", "skipped"}
          /\ ledger[t][runs[r].mig] = runs[r].sumUp

\* After the first item that fails, the items behind it stay queued.
NothingAfterFirstFailure ==
  \A r \in Runs, t, u \in Targets :
    items[r][t] = "failed" /\ ItemId[r][t] < ItemId[r][u]
      => items[r][u] \in {"queued", None}

\* A rollback run that reports executed has run sql_down, not sql_up.
RollbackRunsSqlDown ==
  \A e \in effects :
    runs[e.run].type = "rollback" => Checksum(e.sql) = runs[e.run].sumDown

\* A run that has started is finished: whoever set it running, some executor
\* still in flight will give it its final status.
StartedRunsFinish ==
  \A r \in Runs :
    HasStatus(r, "running") ~> HasStatus(r, "executed") \/ HasStatus(r, "failed")

\* A run acts with the text it was requested for and nobody else's: the request
\* keeps its text and its targets, an approver approves that very text, and
\* only after that does it reach one of these targets.  Whatever requests
\* interleave, are cancelled or overwrite each other's edits, the tables and
\* the targets keep the promise of ApprovalGate.
ImplementsApprovalGate == Gate!Spec

=============================================================================

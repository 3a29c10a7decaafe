----------------------------- MODULE Deployment -----------------------------
(***************************************************************************)
(* The tool as a whole: the requests of RunLifecycle, on the inventory of  *)
(* module Inventory, with the target databases of module TargetLedger in   *)
(* place of the single step ApplyItem.                                     *)
(*                                                                         *)
(* A run is requested for the targets that are active when they are        *)
(* listed, and its items are executed on the databases that the targets    *)
(* name when their turn comes.  In between, targets are edited, disabled   *)
(* and shared.  A call of executeItem goes on at the database when its     *)
(* request has been cancelled: what it does then, nobody hears.            *)
(*                                                                         *)
(* RunLifecycle's own ledger is not used (the databases keep theirs in     *)
(* rows); its history of effects is what the databases let take effect.    *)
(***************************************************************************)
EXTENDS RunLifecycle, StatusLabels

CONSTANTS
  Editors, Projects, ProjectOf, Hosts, Names,   \* see Inventory
  HomeOf,    \* the project of a migration
  KeyOf,     \* its migration_key, unique in a project only
  Calls,     \* calls of executeItem
  Modes,     \* the transaction modes in use
  EngineOf,  \* the engine of a database
  Escapes    \* see TargetLedger

VARIABLES
  projects, sets, targets, edits,   \* the tables of Inventory
  job, result, rows, landed,        \* the databases of TargetLedger
  listed,    \* the active targets a request for a run has listed
  awaited,   \* the call an executor waits for
  runOf,     \* the run each call is for
  retired    \* history: the targets that have been disabled

-----------------------------------------------------------------------------
(***************************************************************************)
(* The parts.                                                              *)
(***************************************************************************)

\* A database is what host, port and name lead to.
Databases == Hosts \X Names
Database(row) == <<row.host, row.name>>

\* What an executor takes along from the migration.
Copies == [mig : Migrations, up : Scripts, sum : UpSums, mode : Modes]

AnyAddress == [t \in Targets |-> Databases]
CopyKey    == [c \in Copies |-> KeyOf[c.mig]]
CopySum    == [c \in Copies |-> c.sum]
CopyMode   == [c \in Copies |-> c.mode]

Stock == INSTANCE Inventory

Ledgers == INSTANCE TargetLedger
             WITH Attempts <- Calls, Addresses <- AnyAddress,
                  KeyOf <- CopyKey, SumOf <- CopySum, ModeOf <- CopyMode

\* nil is no row, no call and no checksum.
ASSUME NoRowAssumption ==
  None \notin Stock!TargetRow \cup Ledgers!Job \cup UpSums

inventory == <<projects, sets, targets, edits>>
databases == <<job, result, rows, landed>>
links     == <<listed, awaited, runOf>>
dvars == <<vars, inventory, databases, links, retired>>

DInit ==
  /\ Init
  /\ Stock!Init
  /\ Ledgers!Init
  /\ listed = [p \in Requests |-> None]
  /\ awaited = [p \in Requests |-> None]
  /\ runOf = [c \in Calls |-> None]
  /\ retired = {}

-----------------------------------------------------------------------------
(***************************************************************************)
(* The inventory changes under the runs.                                   *)
(***************************************************************************)
InventoryStep ==
  /\ Stock!Next
  /\ retired' = retired \cup
       {t \in Targets : targets'[t] # None /\ ~ targets'[t].active}
  /\ UNCHANGED <<vars, databases, links>>

-----------------------------------------------------------------------------
(***************************************************************************)
(* A run is requested.                                                     *)
(***************************************************************************)

NewMigration(m, up, down) ==
  /\ UNCHANGED <<inventory, databases, links, retired>>
  /\ HomeOf[m] \in projects                        \* REFERENCES projects
  /\ CreateMigration(m, up, down)

\* Mutant of InScope: the migration is looked up in all projects.
SetInScope(project, m, set) == ProjectOf[set] = project

\* GetMigration looks in the selected project, and GetDBSet's row has to be
\* of that project too.
InScope(project, m, set) == HomeOf[m] = project /\ ProjectOf[set] = project

\* The set's is_active is not looked at.
RequestInProject(p, project, m, type, env, set) ==
  /\ UNCHANGED <<inventory, databases, links, retired>>
  /\ InScope(project, m, set)
  /\ sets[set] # None
  /\ RequestRead(p, m, type, env, set)

ListTargets(p) ==
  /\ At(p, "request_insert")
  /\ listed[p] = None
  /\ listed' = [listed EXCEPT ![p] = Stock!ActiveTargets(loc[p].draft.set)]
  /\ UNCHANGED <<vars, inventory, databases, awaited, runOf, retired>>

InsertListed(p) ==
  /\ listed[p] # None
  /\ listed' = [listed EXCEPT ![p] = None]
  /\ UNCHANGED <<inventory, databases, awaited, runOf, retired>>
  /\ RequestInsert(p, listed[p])

-----------------------------------------------------------------------------
(***************************************************************************)
(* An item is executed.                                                    *)
(***************************************************************************)
Executes(p) == At(p, "exec_apply") /\ awaited[p] = None

\* executeItem reads the target now.
TargetDisabled(p) ==
  /\ Executes(p)
  /\ ~ targets[loc[p].cur].active
  /\ Becomes(p, [loc[p] EXCEPT !.pc = "exec_record", !.result = "failed"])
  /\ UNCHANGED <<toolDB, ledger, history, inventory, databases, links, retired>>

\* What the call of p is about.
CopyFor(p, mode) ==
  [mig |-> runs[loc[p].run].mig, up |-> SqlToRun(runs[loc[p].run], loc[p].row),
   sum |-> loc[p].row.sumUp, mode |-> mode]

\* RunLifecycle leaves transaction_mode out: any edit may have changed it.
CallTarget(p, c) ==
  LET t == loc[p].cur IN
  /\ Executes(p)
  /\ targets[t].active
  /\ \E mode \in Modes :
       Ledgers!Call(c, [target |-> t, db |-> Database(targets[t]),
                        copy |-> CopyFor(p, mode)])
  /\ runOf' = [runOf EXCEPT ![c] = loc[p].run]
  /\ awaited' = [awaited EXCEPT ![p] = c]
  /\ UNCHANGED <<vars, inventory, listed, retired>>

EffectOf(c) ==
  [run |-> runOf[c], mig |-> job[c].copy.mig, target |-> job[c].target,
   sql |-> job[c].copy.up]

\* The database goes on with a call, also when its request is gone.
DatabaseStep(c) ==
  /\ \/ Ledgers!Succeed(c) \/ Ledgers!Skip(c) \/ Ledgers!Fail(c)
     \/ Ledgers!Leak(c) \/ Ledgers!RecordLeaked(c) \/ Ledgers!ConfirmLeaked(c)
     \/ Ledgers!SucceedUnheard(c)
  /\ effects' = effects \cup {EffectOf(x) : x \in landed' \ landed}
  /\ UNCHANGED <<toolDB, ledger, loc, grants, inventory, links, retired>>

\* Mutant of ItemResult: a statement that failed is no reason to fail.
Optimistic(answer) == IF answer = "failed" THEN "skipped" ELSE answer

\* An error of executeItem is a failed item.
ItemResult(answer) == answer

HearAnswer(p) ==
  LET c == awaited[p] IN
  /\ c # None
  /\ result[c] # None
  /\ Becomes(p, [loc[p] EXCEPT !.pc = "exec_record",
                               !.result = ItemResult(result[c])])
  /\ awaited' = [awaited EXCEPT ![p] = None]
  /\ UNCHANGED <<toolDB, ledger, history, inventory, databases, listed, runOf,
                 retired>>

\* With the request's context ends the wait for its call; the database may
\* still finish that (TargetLedger's Leak and SucceedUnheard).
Abandon(p) ==
  LET c == awaited[p] IN
  /\ IF c # None /\ result[c] = None
     THEN UNCHANGED landed /\ Ledgers!Fail(c)
     ELSE UNCHANGED databases
  /\ listed' = [listed EXCEPT ![p] = None]
  /\ awaited' = [awaited EXCEPT ![p] = None]
  /\ UNCHANGED <<inventory, runOf, retired>>
  /\ GiveUp(p)

\* The steps of a request that RunLifecycle describes in full.
LifecycleStep(p) ==
  /\ UNCHANGED <<inventory, databases, links, retired>>
  /\ \/ \E m \in Migrations, up \in Scripts, down \in DownScripts \cup {None} :
          UpdateRead(p, m, up, down)
     \/ \E r \in Runs : ApproveRead(p, r) \/ DenyRead(p, r) \/ ExecuteRead(p, r)
     \/ UpdateWrite(p) \/ UpdatePurge(p)
     \/ ApproveCheck(p) \/ ApproveCommit(p) \/ DenyCommit(p)
     \/ ExecuteListItems(p) \/ ExecuteCheck(p) \/ ExecuteStart(p)
     \/ ItemStart(p) \/ ItemStartFails(p) \/ ItemRecord(p)
     \/ ItemsDone(p) \/ ExecuteFinish(p)

DNext ==
  \/ InventoryStep
  \/ \E m \in Migrations, up \in Scripts, down \in DownScripts \cup {None} :
       NewMigration(m, up, down)
  \/ \E p \in Requests :
       \/ \E project \in Projects, m \in Migrations, type \in RunType,
             env \in Envs, set \in DBSets :
            RequestInProject(p, project, m, type, env, set)
       \/ LifecycleStep(p)
       \/ ListTargets(p) \/ InsertListed(p)
       \/ TargetDisabled(p) \/ HearAnswer(p) \/ Abandon(p)
       \/ \E c \in Calls : CallTarget(p, c)
  \/ \E c \in Calls : DatabaseStep(c)

DSpec == DInit /\ [][DNext]_dvars

-----------------------------------------------------------------------------
(***************************************************************************)
(* Properties.                                                             *)
(***************************************************************************)

\* Tables, databases and what links them keep their types.
DTypeOK ==
  /\ TypeOK
  /\ projects \subseteq Projects
  /\ sets \in [DBSets -> Stock!SetRow \cup {None}]
  /\ targets \in [Targets -> Stock!TargetRow \cup {None}]
  /\ edits \in [Editors -> Stock!Edit \cup {None}]
  /\ job \in [Calls -> Ledgers!Job \cup {None}]
  /\ result \in [Calls -> Ledgers!Result \cup {None}]
  /\ rows \in [Databases -> [Ledgers!Keys -> Ledgers!Sums \cup {None}]]
  /\ landed \subseteq Calls
  /\ listed \in [Requests -> (SUBSET Targets) \cup {None}]
  /\ awaited \in [Requests -> Calls \cup {None}]
  /\ runOf \in [Calls -> Runs \cup {None}]
  /\ retired \subseteq Targets

\* No call is started for a target that has been disabled: not for a run that
\* listed it before, not for one approved before, and not because an edit
\* that was in flight wrote its row back.  (A call that has read the row before
\* goes on.)
DisabledIsNotCalled ==
  [][\A c \in Calls :
       job[c] = None /\ job'[c] # None => job'[c].target \notin retired]_dvars

\* An item that the tool reports as executed or skipped was a call of its run
\* to a database that the target named, and that database has the run's
\* checksum on record for the migration, whatever the target names by now and
\* however often requests were cut off.
ItemsTellTheTruth ==
  \A r \in Runs, t \in Targets :
    items[r][t] \in {"executed", "skipped"} =>
      \E c \in Calls :
        /\ runOf[c] = r /\ job[c].target = t /\ result[c] = items[r][t]
        /\ rows[job[c].db][KeyOf[runs[r].mig]] = runs[r].sumUp

\* A run stays in one project and one environment: its migration, its set and
\* every target it has items for, whatever project the sessions of its
\* requests had selected when.
RunsInScope ==
  \A r \in Runs : runs[r] # None =>
    /\ ProjectOf[runs[r].set] = HomeOf[runs[r].mig]
    /\ \A t \in Targets : items[r][t] # None =>
         /\ targets[t] # None
         /\ ProjectOf[SetOf[t]] = HomeOf[runs[r].mig]
         /\ EnvOf[SetOf[t]] = runs[r].env

\* The target names the database that run r was executed on.
StillNames(t, r) ==
  \A c \in Calls :
    runOf[c] = r /\ job[c].target = t => job[c].db = Database(targets[t])

\* "applied" next to a target: the database the target names has recorded the
\* SQL of the run the page links to, unless the target has been edited to name
\* another one since it was called.  Targets may share databases.
AppliedBadgeIsTrue ==
  \A r \in Runs, t \in Targets :
    /\ items[r][t] # None
    /\ ItemBadge(runs[r], items[r][t]) = "applied"
    /\ StillNames(t, r)
    => rows[Database(targets[t])][KeyOf[runs[r].mig]] = runs[r].sumUp

\* "executed" in an environment, while requests come one at a time (module
\* RunLifecycle has the run that two of them execute): the databases of all
\* targets of the run have recorded the SQL that the migration has now, but for
\* targets that have been edited to name another one.
ExecutedBadgeIsTrue ==
  \A r \in Runs, t \in Targets :
    /\ items[r][t] # None
    /\ RunBadge(mig[runs[r].mig], runs[r]) = "executed"
    /\ StillNames(t, r)
    => LET m == runs[r].mig IN
       rows[Database(targets[t])][KeyOf[m]] = mig[m].sumUp

=============================================================================

-------------------------- MODULE RunHistoryProofs --------------------------
(***************************************************************************)
(* Theorems about RunHistory: the protocol of runs, approvals and versions *)
(* is kept by any number of requests in flight, as long as those about the *)
(* same run, or the same migration, do not overlap in the way each theorem *)
(* names.                                                                  *)
(***************************************************************************)
EXTENDS RunHistory, RunLifecycleProofs

-----------------------------------------------------------------------------
(***************************************************************************)
(* Overlapping requests.  The server serialises nothing; these conditions  *)
(* on a state say which requests in flight leave each other alone.         *)
(***************************************************************************)
Editing   == {"update_write", "update_purge"}
Executing == BeforeStart \cup AfterCheck

\* No two edits of one migration are in flight.
EditsApart ==
  \A p, q \in Requests :
    loc[p].pc \in Editing /\ loc[q].pc \in Editing /\ loc[p].mig = loc[q].mig
      => p = q

\* No two decisions on one run are in flight.
DecisionsApart ==
  \A p, q \in Requests :
    loc[p].pc \in Deciding /\ loc[q].pc \in Deciding /\ loc[p].run = loc[q].run
      => p = q

\* No two executions of one run are in flight.
ExecutionsApart ==
  \A p, q \in Requests :
    loc[p].pc \in Executing /\ loc[q].pc \in Executing /\ loc[p].run = loc[q].run
      => p = q

\* No approval is committed while an edit of its migration is in flight.
ApprovalsApart ==
  \A p, q \in Requests :
    loc[p].pc \in Editing /\ At(q, "approve_commit")
      => runs[loc[q].run].mig # loc[p].mig

\* No edit of the migration of a run that is being executed is in flight.
EditsApartFromExecutions ==
  \A p, q \in Requests :
    loc[p].pc \in Editing /\ loc[q].pc \in Executing
      => runs[loc[q].run].mig # loc[p].mig

-----------------------------------------------------------------------------
(***************************************************************************)
(* What a step does to the runs, their items and the ledgers.              *)
(***************************************************************************)
InLoop == {"exec_item", "exec_apply", "exec_record"}
Ended  == {"executed", "skipped", "failed"}

StepOf(p) == \A q \in Requests : q # p => loc'[q] = loc[q]

\* No run comes or goes, and what it asks for stays.
RunsStay ==
  \A r \in Runs :
    /\ runs[r] = None <=> runs'[r] = None
    /\ runs[r] # None =>
         /\ runs'[r].mig = runs[r].mig /\ runs'[r].type = runs[r].type
         /\ runs'[r].set = runs[r].set /\ runs'[r].env = runs[r].env
         /\ runs'[r].sumUp = runs[r].sumUp
         /\ runs'[r].sumDown = runs[r].sumDown

StatusWritten(r, status) ==
  /\ RunsStay
  /\ runs'[r].status = status
  /\ \A s \in Runs : s # r => runs'[s] = runs[s]

ItemWritten(r, t, status) ==
  /\ items'[r][t] = status
  /\ \A s \in Runs, u \in Targets :
       s # r \/ u # t => items'[s][u] = items[s][u]

\* Nobody gets a run in hand.
Away ==
  /\ UNCHANGED <<runs, items, ledger>>
  /\ \A q \in Requests :
       loc'[q] = loc[q] \/ loc'[q].pc \notin Deciding \cup Executing

NewRun(p, r) ==
  /\ StepOf(p) /\ loc'[p].pc = "idle"
  /\ runs[r] = None /\ runs'[r] # None
  /\ runs'[r].status = "awaiting_approval"
  /\ \A s \in Runs : s # r => runs'[s] = runs[s] /\ items'[s] = items[s]
  /\ \A t \in Targets : items'[r][t] \in {"queued", None}
  /\ UNCHANGED ledger

\* p keeps its run and goes from one label to another.
Goes(p, from, to) ==
  /\ StepOf(p)
  /\ loc[p].pc = from /\ loc'[p].pc = to
  /\ loc'[p].run = loc[p].run /\ loc[p].run \in Runs
  /\ runs[loc[p].run] # None

TakesUp(p, r) ==
  /\ StepOf(p)
  /\ loc'[p].pc \in {"approve_check", "deny_commit"} /\ loc'[p].run = r
  /\ HasStatus(r, "awaiting_approval")
  /\ UNCHANGED <<runs, items, ledger>>

Ready(p) ==
  Goes(p, "approve_check", "approve_commit") /\ UNCHANGED <<runs, items, ledger>>

Commits(p, label, status) ==
  /\ StepOf(p) /\ loc'[p].pc = "idle"
  /\ loc[p].pc = label
  /\ loc[p].run \in Runs /\ runs[loc[p].run] # None
  /\ StatusWritten(loc[p].run, status)
  /\ UNCHANGED <<items, ledger>>

Opens(p, r) ==
  /\ StepOf(p)
  /\ loc'[p].pc = "exec_items" /\ loc'[p].run = r
  /\ loc'[p].result = None
  /\ HasStatus(r, "approved")
  /\ UNCHANGED <<runs, items, ledger>>

Lists(p) ==
  /\ Goes(p, "exec_items", "exec_check")
  /\ loc'[p].todo = {t \in Targets : items[loc[p].run][t] = "queued"}
  /\ loc'[p].result = loc[p].result
  /\ UNCHANGED <<runs, items, ledger>>

Checks(p) ==
  /\ Goes(p, "exec_check", "exec_start")
  /\ loc'[p].todo = loc[p].todo /\ loc'[p].result = loc[p].result
  /\ ChecksumsAtRequest(mig[runs[loc[p].run].mig], runs[loc[p].run])
  /\ UNCHANGED <<mig, runs, items, ledger>>

Starts(p) ==
  /\ Goes(p, "exec_start", "exec_item")
  /\ loc'[p].todo = loc[p].todo /\ loc'[p].result = loc[p].result
  /\ StatusWritten(loc[p].run, "running")
  /\ UNCHANGED <<mig, items, ledger>>

StartsItem(p, t) ==
  /\ Goes(p, "exec_item", "exec_apply")
  /\ t \in NextItem(loc[p].run, loc[p].todo) /\ t \in Targets
  /\ loc'[p].cur = t /\ loc'[p].todo = loc[p].todo \ {t}
  /\ loc'[p].result = loc[p].result
  /\ ItemWritten(loc[p].run, t, "running")
  /\ UNCHANGED <<runs, ledger>>

LeavesLoop(p) ==
  /\ Goes(p, "exec_item", "exec_finish")
  /\ \/ StatementFaults /\ loc'[p].result = "failed"
     \/ loc[p].todo = {} /\ loc'[p].result = loc[p].result
  /\ UNCHANGED <<runs, items, ledger>>

\* The ledger takes the checksum of the run, or stays.
Applies(p) ==
  /\ Goes(p, "exec_apply", "exec_record")
  /\ loc[p].cur \in Targets
  /\ loc'[p].cur = loc[p].cur /\ loc'[p].todo = loc[p].todo
  /\ loc'[p].result \in Ended
  /\ UNCHANGED <<runs, items>>
  /\ loc'[p].result \in {"executed", "skipped"} =>
       ledger'[loc[p].cur][runs[loc[p].run].mig] = runs[loc[p].run].sumUp
  /\ \A t \in Targets, m \in Migrations :
       ledger[t][m] # None => ledger'[t][m] = ledger[t][m]

Records(p) ==
  /\ Goes(p, "exec_record", AfterItem(loc[p].result))
  /\ loc[p].cur \in Targets
  /\ loc'[p].todo = loc[p].todo /\ loc'[p].result = loc[p].result
  /\ \/ ItemWritten(loc[p].run, loc[p].cur, loc[p].result)
     \/ StatementFaults /\ UNCHANGED items
  /\ UNCHANGED <<runs, ledger>>

Finishes(p) ==
  /\ StepOf(p) /\ loc'[p].pc = "idle"
  /\ loc[p].pc = "exec_finish"
  /\ loc[p].run \in Runs /\ runs[loc[p].run] # None
  /\ \/ StatusWritten(loc[p].run, FinalStatus(loc[p].result))
     \/ StatementFaults /\ UNCHANGED runs
  /\ UNCHANGED <<items, ledger>>

\* A status update writes nothing but the status.
LEMMA StatusOnly ==
  ASSUME TypeInv, NEW r \in Runs, runs[r] # None, NEW status \in RunStatus,
         SetRunStatus(r, status)
  PROVE  StatusWritten(r, status)
<1>1. runs[r] \in RunRow
  BY DEF TypeInv, TypeOK
<1> DEFINE row == [runs[r] EXCEPT !.status = status]
<1>2. /\ row \in RunRow /\ row.mig = runs[r].mig /\ row.type = runs[r].type
      /\ row.set = runs[r].set /\ row.env = runs[r].env
      /\ row.sumUp = runs[r].sumUp /\ row.sumDown = runs[r].sumDown
      /\ row.status = status
  BY <1>1 DEF RunRow
<1>3. runs' = [runs EXCEPT ![r] = row]
  BY DEF SetRunStatus
<1> HIDE DEF row
<1> QED BY <1>2, <1>3, NoneAssumption DEF TypeInv, TypeOK, StatusWritten, RunsStay

\* A request that goes to the local state l.
LEMMA Moves ==
  ASSUME TypeInv, NEW p \in Requests, NEW l, Becomes(p, l)
  PROVE  loc'[p] = l /\ StepOf(p)
BY DEF TypeInv, TypeOK, Becomes, StepOf

\* A step that ends the request, or takes it where no run is in hand.
LEMMA GoesAway ==
  ASSUME TypeInv, NEW p \in Requests, NEW l, Becomes(p, l),
         l.pc \notin Deciding \cup Executing, UNCHANGED <<runs, items, ledger>>
  PROVE  Away
BY Moves DEF Away, StepOf

\* A request that ends has nothing in hand.
LEMMA IdleAway == Idle.pc = "idle" /\ "idle" \notin Deciding \cup Executing
BY DEF Idle, Deciding, Executing, BeforeStart, AfterCheck

\* The edits, and what ends a request without a write, touch no run.
LEMMA AwayCases ==
  ASSUME TypeInv
  PROVE  /\ \A m \in Migrations, up \in Scripts, down \in DownScripts \cup {None} :
              CreateMigration(m, up, down) => Away
         /\ \A p \in Requests, m \in Migrations, up \in Scripts,
               down \in DownScripts \cup {None} :
              UpdateRead(p, m, up, down) => Away
         /\ \A p \in Requests : UpdateWrite(p) \/ UpdatePurge(p) \/ GiveUp(p) => Away
         /\ \A p \in Requests, m \in Migrations, type \in RunType, env \in Envs,
               set \in DBSets :
              RequestRead(p, m, type, env, set) => Away
         /\ UNCHANGED vars => Away
<1>1. ASSUME NEW m \in Migrations, NEW up \in Scripts,
             NEW down \in DownScripts \cup {None}, CreateMigration(m, up, down)
      PROVE  Away
  BY <1>1 DEF CreateMigration, Away
<1>2. ASSUME NEW p \in Requests, NEW m \in Migrations, NEW up \in Scripts,
             NEW down \in DownScripts \cup {None}, UpdateRead(p, m, up, down)
      PROVE  Away
  <2> DEFINE row == EditedRow(mig[m], up, down)
             changed == SqlChanged(mig[m], up, down)
             l == [Idle EXCEPT !.pc = "update_write", !.mig = m, !.row = row,
                               !.changed = changed]
  <2>1. Becomes(p, l) /\ UNCHANGED <<runs, items, ledger>>
    BY <1>2 DEF UpdateRead, toolDB
  <2> HIDE DEF row, changed
  <2>2. l.pc = "update_write"
    BY DEF Idle
  <2> QED BY <2>1, <2>2, GoesAway DEF Deciding, Executing, BeforeStart, AfterCheck
<1>3. ASSUME NEW p \in Requests, UpdateWrite(p) \/ UpdatePurge(p) \/ GiveUp(p)
      PROVE  Away
  <2>1. CASE UpdateWrite(p)
    <3> DEFINE l == IF loc[p].changed
                    THEN [loc[p] EXCEPT !.pc = "update_purge"] ELSE Idle
    <3>1. Becomes(p, l) /\ UNCHANGED <<runs, items, ledger>>
      BY <2>1 DEF UpdateWrite
    <3>2. l.pc \in {"update_purge", "idle"}
      BY IdleAway DEF TypeInv, TypeOK, Local
    <3> QED BY <3>1, <3>2, GoesAway
            DEF Deciding, Executing, BeforeStart, AfterCheck
  <2>2. CASE UpdatePurge(p) \/ GiveUp(p)
    BY <2>2, GoesAway, IdleAway DEF UpdatePurge, GiveUp, Done, toolDB
  <2> QED BY <1>3, <2>1, <2>2
<1>4. ASSUME NEW p \in Requests, NEW m \in Migrations, NEW type \in RunType,
             NEW env \in Envs, NEW set \in DBSets,
             RequestRead(p, m, type, env, set)
      PROVE  Away
  <2> DEFINE draft == RequestedRun(m, type, env, set)
  <2> HIDE DEF draft
  <2>1. PICK r \in Runs :
          Becomes(p, [Idle EXCEPT !.pc = "request_insert", !.run = r,
                                  !.draft = draft])
    BY <1>4 DEF RequestRead, draft
  <2>2. UNCHANGED <<runs, items, ledger>>
    BY <1>4 DEF RequestRead, toolDB
  <2> DEFINE l == [Idle EXCEPT !.pc = "request_insert", !.run = r,
                               !.draft = draft]
  <2>3. l.pc = "request_insert"
    BY DEF Idle
  <2> QED BY <2>1, <2>2, <2>3, GoesAway
          DEF Deciding, Executing, BeforeStart, AfterCheck
<1>5. ASSUME UNCHANGED vars PROVE Away
  BY <1>5 DEF vars, toolDB, Away
<1> QED BY <1>1, <1>2, <1>3, <1>4, <1>5

\* An insert of a run: its items wait, and it waits for a decision.
LEMMA InsertCase ==
  ASSUME IInv, NEW p \in Requests, NEW active \in SUBSET Targets,
         RequestInsert(p, active)
  PROVE  Away \/ \E r \in Runs : NewRun(p, r)
<1> SUFFICES ASSUME NEW r, r = loc[p].run, NEW draft, draft = loc[p].draft
             PROVE  Away \/ (r \in Runs /\ NewRun(p, r))
  OBVIOUS
<1>1. /\ r \in Runs /\ draft \in RunRow /\ draft # None /\ runs[r] = None
      /\ draft.status = "awaiting_approval"
  BY DEF RequestInsert, At, Holds, Sound, IInv, SafeInv, TypeInv, TypeOK, Local
<1>2. loc'[p] = Idle /\ StepOf(p)
  BY Moves DEF IInv, RequestInsert, Done
<1>3. CASE active = {}
  BY <1>3, GoesAway, IdleAway DEF IInv, RequestInsert, Done
<1>4. CASE active # {}
  <2>1. /\ runs' = [runs EXCEPT ![r] = draft]
        /\ items' = [items EXCEPT ![r] =
             [t \in Targets |-> IF t \in active THEN "queued" ELSE None]]
        /\ UNCHANGED ledger
    BY <1>4 DEF RequestInsert
  <2> QED BY <1>1, <1>2, <2>1, IdleAway DEF NewRun, IInv, TypeInv, TypeOK
<1> QED BY <1>3, <1>4

\* The decisions.
LEMMA DecisionCases ==
  ASSUME IInv, NEW p \in Requests
  PROVE  /\ \A r \in Runs : ApproveRead(p, r) \/ DenyRead(p, r) => TakesUp(p, r)
         /\ ApproveCheck(p) => Ready(p) \/ Away
         /\ ApproveCommit(p) => Commits(p, "approve_commit", "approved")
         /\ DenyCommit(p) => Commits(p, "deny_commit", "denied")
<1> USE DEF IInv
<1>1. ASSUME NEW r \in Runs, ApproveRead(p, r) \/ DenyRead(p, r)
      PROVE  TakesUp(p, r)
  <2>1. PICK label \in {"approve_check", "deny_commit"} :
          Becomes(p, [Idle EXCEPT !.pc = label, !.run = r])
    BY <1>1 DEF ApproveRead, DenyRead
  <2>2. loc'[p] = [Idle EXCEPT !.pc = label, !.run = r] /\ StepOf(p)
    BY <2>1, Moves
  <2>3. loc'[p].pc = label /\ loc'[p].run = r
    BY <2>2 DEF Idle
  <2> QED BY <1>1, <2>2, <2>3 DEF ApproveRead, DenyRead, AwaitingApproval, TakesUp, toolDB
<1>2. ASSUME ApproveCheck(p) PROVE Ready(p) \/ Away
  <2> DEFINE row == mig[runs[loc[p].run].mig]
             l == [loc[p] EXCEPT !.pc = "approve_commit", !.row = row]
  <2>1. loc[p] \in Local /\ loc[p].run \in Runs /\ runs[loc[p].run] # None
    BY <1>2 DEF ApproveCheck, At, Holds, Deciding, TypeInv, TypeOK
  <2>2. UNCHANGED <<runs, items, ledger>>
    BY <1>2 DEF ApproveCheck, toolDB
  <2>3. CASE Becomes(p, l)
    <3> HIDE DEF row
    <3>1. loc'[p] = l /\ StepOf(p)
      BY <2>3, Moves
    <3>2. loc'[p].pc = "approve_commit" /\ loc'[p].run = loc[p].run
      BY <2>1, <3>1 DEF Local
    <3> QED BY <1>2, <2>1, <2>2, <3>1, <3>2 DEF ApproveCheck, At, Ready, Goes
  <2>4. CASE Done(p)
    BY <2>2, <2>4, GoesAway, IdleAway DEF Done
  <2> QED BY <1>2, <2>3, <2>4 DEF ApproveCheck
<1>3. ASSUME ApproveCommit(p) PROVE Commits(p, "approve_commit", "approved")
  <2> SUFFICES ASSUME NEW r, r = loc[p].run
               PROVE  Commits(p, "approve_commit", "approved")
    OBVIOUS
  <2>1. r \in Runs /\ runs[r] # None
    BY <1>3 DEF ApproveCommit, At, Holds, Deciding, TypeInv, TypeOK
  <2>2. SetRunStatus(r, "approved")
    BY <1>3 DEF ApproveCommit, Decide, SetRunStatus
  <2>3. StatusWritten(r, "approved")
    BY <2>1, <2>2, StatusOnly DEF RunStatus
  <2>4. loc'[p] = Idle /\ StepOf(p)
    BY <1>3, Moves DEF ApproveCommit, Done
  <2> QED BY <1>3, <2>1, <2>3, <2>4, IdleAway DEF ApproveCommit, At, Commits
<1>4. ASSUME DenyCommit(p) PROVE Commits(p, "deny_commit", "denied")
  <2> SUFFICES ASSUME NEW r, r = loc[p].run
               PROVE  Commits(p, "deny_commit", "denied")
    OBVIOUS
  <2>1. r \in Runs /\ runs[r] # None
    BY <1>4 DEF DenyCommit, At, Holds, Deciding, TypeInv, TypeOK
  <2>2. SetRunStatus(r, "denied")
    BY <1>4 DEF DenyCommit, Decide, SetRunStatus
  <2>3. StatusWritten(r, "denied")
    BY <2>1, <2>2, StatusOnly DEF RunStatus
  <2>4. loc'[p] = Idle /\ StepOf(p)
    BY <1>4, Moves DEF DenyCommit, Done
  <2> QED BY <1>4, <2>1, <2>3, <2>4, IdleAway DEF DenyCommit, At, Commits
<1> QED BY <1>1, <1>2, <1>3, <1>4

\* An execution up to its first item.
LEMMA OpeningCases ==
  ASSUME IInv, NEW p \in Requests
  PROVE  /\ \A r \in Runs : ExecuteRead(p, r) => Opens(p, r)
         /\ ExecuteListItems(p) => Lists(p)
         /\ ExecuteCheck(p) => Checks(p) \/ Away
         /\ ExecuteStart(p) => Starts(p)
<1> USE DEF IInv
<1>1. ASSUME NEW r \in Runs, ExecuteRead(p, r) PROVE Opens(p, r)
  <2>1. Becomes(p, [Idle EXCEPT !.pc = "exec_items", !.run = r])
    BY <1>1 DEF ExecuteRead
  <2>2. loc'[p] = [Idle EXCEPT !.pc = "exec_items", !.run = r] /\ StepOf(p)
    BY <2>1, Moves
  <2>3. /\ loc'[p].pc = "exec_items" /\ loc'[p].run = r
        /\ loc'[p].result = None
    BY <2>2 DEF Idle
  <2> QED BY <1>1, <2>2, <2>3 DEF ExecuteRead, Executable, Opens, toolDB
<1>2. ASSUME ExecuteListItems(p) PROVE Lists(p)
  <2> DEFINE queued == {t \in Targets : items[loc[p].run][t] = "queued"}
             l == [loc[p] EXCEPT !.pc = "exec_check", !.todo = queued]
  <2>1. loc[p] \in Local /\ loc[p].run \in Runs /\ runs[loc[p].run] # None
    BY <1>2 DEF ExecuteListItems, At, Holds, BeforeStart, TypeInv, TypeOK
  <2>2. loc'[p] = l /\ StepOf(p)
    BY <1>2, Moves DEF ExecuteListItems
  <2> HIDE DEF queued
  <2>3. /\ loc'[p].pc = "exec_check" /\ loc'[p].run = loc[p].run
        /\ loc'[p].todo = queued /\ loc'[p].result = loc[p].result
    BY <2>1, <2>2 DEF Local
  <2> QED BY <1>2, <2>1, <2>2, <2>3
          DEF ExecuteListItems, At, Lists, Goes, toolDB, queued
<1>3. ASSUME ExecuteCheck(p) PROVE Checks(p) \/ Away
  <2> DEFINE r == loc[p].run
             row == mig[runs[r].mig]
             l == [loc[p] EXCEPT !.pc = "exec_start", !.row = row]
  <2>1. loc[p] \in Local /\ r \in Runs /\ runs[r] # None
    BY <1>3 DEF ExecuteCheck, At, Holds, BeforeStart, TypeInv, TypeOK
  <2>2. UNCHANGED <<mig, runs, items, ledger>>
    BY <1>3 DEF ExecuteCheck, toolDB
  <2>3. CASE Becomes(p, l) /\ ChecksumsAtRequest(row, runs[r])
    <3>1. loc'[p] = l /\ StepOf(p)
      BY <2>3, Moves
    <3>2. /\ loc'[p].pc = "exec_start" /\ loc'[p].run = r
          /\ loc'[p].todo = loc[p].todo /\ loc'[p].result = loc[p].result
      BY <2>1, <3>1 DEF Local
    <3> QED BY <1>3, <2>1, <2>2, <2>3, <3>1, <3>2
            DEF ExecuteCheck, At, Checks, Goes
  <2>4. CASE Done(p)
    BY <2>2, <2>4, GoesAway, IdleAway DEF Done
  <2> QED BY <1>3, <2>3, <2>4 DEF ExecuteCheck
<1>4. ASSUME ExecuteStart(p) PROVE Starts(p)
  <2> SUFFICES ASSUME NEW r, r = loc[p].run PROVE Starts(p)
    OBVIOUS
  <2> DEFINE l == [loc[p] EXCEPT !.pc = "exec_item"]
  <2>1. loc[p] \in Local /\ r \in Runs /\ runs[r] # None
    BY <1>4 DEF ExecuteStart, At, Holds, AfterCheck, TypeInv, TypeOK
  <2>2. StatusWritten(r, "running")
    BY <1>4, <2>1, StatusOnly DEF ExecuteStart, RunStatus
  <2>3. loc'[p] = l /\ StepOf(p)
    BY <1>4, Moves DEF ExecuteStart
  <2>4. /\ loc'[p].pc = "exec_item" /\ loc'[p].run = r
        /\ loc'[p].todo = loc[p].todo /\ loc'[p].result = loc[p].result
    BY <2>1, <2>3 DEF Local
  <2> QED BY <1>4, <2>1, <2>2, <2>3, <2>4 DEF ExecuteStart, At, Starts, Goes
<1> QED BY <1>1, <1>2, <1>3, <1>4

\* The loop over the items, and its end.
LEMMA ItemCases ==
  ASSUME IInv, NEW p \in Requests
  PROVE  /\ ItemStart(p) => \E t \in Targets : StartsItem(p, t)
         /\ ItemStartFails(p) \/ ItemsDone(p) => LeavesLoop(p)
         /\ ItemRecord(p) => Records(p)
         /\ ExecuteFinish(p) => Finishes(p)
<1> USE DEF IInv
<1> SUFFICES ASSUME NEW r, r = loc[p].run
             PROVE  /\ ItemStart(p) => \E t \in Targets : StartsItem(p, t)
                    /\ ItemStartFails(p) \/ ItemsDone(p) => LeavesLoop(p)
                    /\ ItemRecord(p) => Records(p)
                    /\ ExecuteFinish(p) => Finishes(p)
  OBVIOUS
<1>0. loc[p] \in Local /\ (loc[p].pc \in AfterCheck => r \in Runs /\ runs[r] # None)
  BY DEF Holds, TypeInv, TypeOK
<1>1. ASSUME ItemStart(p) PROVE \E t \in Targets : StartsItem(p, t)
  <2>1. PICK t \in NextItem(r, loc[p].todo) :
          /\ items' = [items EXCEPT ![r][t] = "running"]
          /\ Becomes(p, [loc[p] EXCEPT !.pc = "exec_apply", !.cur = t,
                                       !.todo = @ \ {t}])
    BY <1>1 DEF ItemStart
  <2> DEFINE l == [loc[p] EXCEPT !.pc = "exec_apply", !.cur = t,
                                 !.todo = loc[p].todo \ {t}]
  <2>2. t \in Targets /\ r \in Runs /\ runs[r] # None
    BY <1>0, <1>1 DEF NextItem, Local, ItemStart, At, AfterCheck
  <2>3. loc'[p] = l /\ StepOf(p)
    BY <2>1, Moves
  <2>4. /\ loc'[p].pc = "exec_apply" /\ loc'[p].run = r /\ loc'[p].cur = t
        /\ loc'[p].todo = loc[p].todo \ {t} /\ loc'[p].result = loc[p].result
    BY <1>0, <2>3 DEF Local
  <2>5. ItemWritten(r, t, "running")
    BY <2>1, <2>2 DEF ItemWritten, TypeInv, TypeOK
  <2>6. StartsItem(p, t)
    BY <1>1, <2>1, <2>2, <2>3, <2>4, <2>5 DEF ItemStart, At, StartsItem, Goes
  <2> QED BY <2>2, <2>6
<1>2. ASSUME ItemStartFails(p) PROVE LeavesLoop(p)
  <2> DEFINE l == [loc[p] EXCEPT !.pc = "exec_finish", !.result = "failed"]
  <2>1. loc'[p] = l /\ StepOf(p)
    BY <1>2, Moves DEF ItemStartFails
  <2>2. /\ loc'[p].pc = "exec_finish" /\ loc'[p].run = r
        /\ loc'[p].result = "failed"
    BY <1>0, <2>1 DEF Local
  <2> QED BY <1>0, <1>2, <2>1, <2>2
          DEF ItemStartFails, At, AfterCheck, LeavesLoop, Goes, toolDB
<1>3. ASSUME ItemsDone(p) PROVE LeavesLoop(p)
  <2> DEFINE l == [loc[p] EXCEPT !.pc = "exec_finish"]
  <2>1. loc'[p] = l /\ StepOf(p)
    BY <1>3, Moves DEF ItemsDone
  <2>2. /\ loc'[p].pc = "exec_finish" /\ loc'[p].run = r
        /\ loc'[p].result = loc[p].result
    BY <1>0, <2>1 DEF Local
  <2> QED BY <1>0, <1>3, <2>1, <2>2
          DEF ItemsDone, At, AfterCheck, LeavesLoop, Goes, toolDB
<1>4. ASSUME ItemRecord(p) PROVE Records(p)
  <2> DEFINE t == loc[p].cur
             l == [loc[p] EXCEPT !.pc = AfterItem(loc[p].result), !.cur = None]
  <2>1. t \in Targets /\ r \in Runs /\ runs[r] # None
    BY <1>0, <1>4 DEF ItemRecord, At, Holds, TypeInv, AfterCheck, OnItem
  <2>2. loc'[p] = l /\ StepOf(p)
    BY <1>4, Moves DEF ItemRecord
  <2>3. /\ loc'[p].pc = AfterItem(loc[p].result) /\ loc'[p].run = r
        /\ loc'[p].todo = loc[p].todo /\ loc'[p].result = loc[p].result
    BY <1>0, <2>2 DEF Local
  <2>4. ItemWritten(r, t, loc[p].result) \/ (StatementFaults /\ UNCHANGED items)
    <3>1. CASE items' = [items EXCEPT ![r][t] = loc[p].result]
      BY <2>1, <3>1 DEF ItemWritten, TypeInv, TypeOK
    <3> QED BY <1>4, <3>1 DEF ItemRecord
  <2> QED BY <1>4, <2>1, <2>2, <2>3, <2>4 DEF ItemRecord, At, Records, Goes
<1>5. ASSUME ExecuteFinish(p) PROVE Finishes(p)
  <2>1. r \in Runs /\ runs[r] # None
    BY <1>0, <1>5 DEF ExecuteFinish, At, AfterCheck
  <2>2. \/ StatusWritten(r, FinalStatus(loc[p].result))
        \/ StatementFaults /\ UNCHANGED runs
    BY <1>5, <2>1, StatusOnly DEF ExecuteFinish, FinalStatus, RunStatus
  <2>3. loc'[p] = Idle /\ StepOf(p)
    BY <1>5, Moves DEF ExecuteFinish, Done
  <2> QED BY <1>5, <2>1, <2>2, <2>3, IdleAway DEF ExecuteFinish, At, Finishes
<1> QED BY <1>1, <1>2, <1>3, <1>4, <1>5

\* Work on a target.  The executor's copy has the checksum of the run, and no
\* outcome writes over a recorded checksum.
LEMMA ApplyCase ==
  ASSUME IInv, NEW p \in Requests, ApplyItem(p)
  PROVE  Applies(p)
<1> USE DEF IInv
<1> SUFFICES ASSUME NEW r, r = loc[p].run, NEW t, t = loc[p].cur,
                    NEW m, m = runs[r].mig, NEW row, row = loc[p].row
             PROVE  Applies(p)
  OBVIOUS
<1>1. /\ loc[p] \in Local /\ r \in Runs /\ runs[r] # None /\ t \in Targets
      /\ m \in Migrations /\ row.sumUp = runs[r].sumUp
  BY DEF ApplyItem, At, Holds, AfterCheck, OnItem, SafeInv, Sound, TypeInv,
     TypeOK, RunRow
<1>2. PICK o \in Outcome(ledger[t][m], row.sumUp) :
        /\ ledger' = IF o.row THEN [ledger EXCEPT ![t][m] = row.sumUp]
                              ELSE ledger
        /\ Becomes(p, [loc[p] EXCEPT !.pc = "exec_record",
                                     !.result = o.result])
  BY DEF ApplyItem
<1>3. /\ o.result \in Ended
      /\ o.row => ledger[t][m] = None
      /\ o.result = "executed" => o.row
      /\ o.result = "skipped" => ~ o.row /\ ledger[t][m] = row.sumUp
  BY DEF Outcome, AlreadyApplied, Ended
<1> DEFINE l == [loc[p] EXCEPT !.pc = "exec_record", !.result = o.result]
<1>4. loc'[p] = l /\ StepOf(p)
  BY <1>2, Moves
<1>5. /\ loc'[p].pc = "exec_record" /\ loc'[p].run = r /\ loc'[p].cur = t
      /\ loc'[p].todo = loc[p].todo /\ loc'[p].result = o.result
  BY <1>1, <1>4 DEF Local
<1>6. o.result \in {"executed", "skipped"} => ledger'[t][m] = runs[r].sumUp
  BY <1>1, <1>2, <1>3 DEF TypeInv, TypeOK
<1>7. \A u \in Targets, n \in Migrations :
        ledger[u][n] # None => ledger'[u][n] = ledger[u][n]
  BY <1>1, <1>2, <1>3 DEF TypeInv, TypeOK
<1>8. UNCHANGED <<runs, items>> /\ loc[p].pc = "exec_apply"
  BY DEF ApplyItem, At, toolDB
<1> QED BY <1>1, <1>3, <1>4, <1>5, <1>6, <1>7, <1>8 DEF Applies, Goes

\* Every step is one of these.
RunStep(p) ==
  \/ \E r \in Runs : NewRun(p, r) \/ TakesUp(p, r) \/ Opens(p, r)
  \/ Ready(p)
  \/ ApproveCommit(p) /\ Commits(p, "approve_commit", "approved")
  \/ DenyCommit(p) /\ Commits(p, "deny_commit", "denied")
  \/ Lists(p) \/ Checks(p) \/ Starts(p)
  \/ \E t \in Targets : StartsItem(p, t)
  \/ LeavesLoop(p) \/ Applies(p) \/ Records(p) \/ Finishes(p)

\* Every step is of one of these kinds.
LEMMA StepCases ==
  IInv /\ [Next]_vars => Away \/ \E p \in Requests : RunStep(p)
<1> SUFFICES ASSUME IInv, [Next]_vars PROVE Away \/ \E p \in Requests : RunStep(p)
  OBVIOUS
<1>1. ASSUME NEW p \in Requests, Begin(p) PROVE Away \/ RunStep(p)
  BY <1>1, AwayCases, DecisionCases, OpeningCases DEF Begin, RunStep, IInv
<1>2. ASSUME NEW p \in Requests, Continue(p) PROVE Away \/ RunStep(p)
  BY <1>2, AwayCases, InsertCase, DecisionCases, OpeningCases, ItemCases, ApplyCase
  DEF Continue, RunStep, IInv
<1> QED BY <1>1, <1>2, AwayCases DEF Next, IInv

\* A step that is observed is a step of RunLifecycle.
LEMMA HistoryOnly == [HNext]_hvars => [Next]_vars
BY DEF HNext, hvars

\* The steps that write the status of a run.
WritesStatus(p) ==
  \/ Commits(p, "approve_commit", "approved")
  \/ Commits(p, "deny_commit", "denied") \/ Starts(p) \/ Finishes(p)

\* What becomes of table runs.
LEMMA RunCases ==
  IInv /\ [Next]_vars =>
    \/ UNCHANGED runs
    \/ \E p \in Requests, r \in Runs : NewRun(p, r)
    \/ \E p \in Requests : WritesStatus(p)
<1> SUFFICES ASSUME NEW p \in Requests, RunStep(p), runs' # runs
             PROVE  (\E r \in Runs : NewRun(p, r)) \/ WritesStatus(p)
  BY StepCases DEF Away
<1>1. \A r \in Runs : ~ TakesUp(p, r) /\ ~ Opens(p, r)
  BY DEF TakesUp, Opens
<1>2. ~ Ready(p) /\ ~ Lists(p) /\ ~ Checks(p)
  BY DEF Ready, Lists, Checks
<1>3. \A t \in Targets : ~ StartsItem(p, t)
  BY DEF StartsItem
<1>4. ~ LeavesLoop(p) /\ ~ Applies(p) /\ ~ Records(p)
  BY DEF LeavesLoop, Applies, Records
<1> QED BY <1>1, <1>2, <1>3, <1>4 DEF RunStep, WritesStatus

-----------------------------------------------------------------------------
(***************************************************************************)
(* The invariants.  Each layer rests on those before it.                   *)
(***************************************************************************)

\* An item that says executed or skipped has its checksum in the ledger, and
\* so has one that is about to say it.
Told(p) ==
  At(p, "exec_record") /\ loc[p].result \in {"executed", "skipped"} =>
    ledger[loc[p].cur][runs[loc[p].run].mig] = runs[loc[p].run].sumUp

ItemsTold ==
  \A r \in Runs, t \in Targets :
    items[r][t] \in {"executed", "skipped"} =>
      ledger[t][runs[r].mig] = runs[r].sumUp

ToldInv == ItemsTold /\ \A p \in Requests : Told(p)

\* Who decides on a run finds it undecided when he commits, and who executes
\* one has found it decided.
DecisionOpen(p) ==
  /\ loc[p].pc \in Deciding => HasStatus(loc[p].run, "awaiting_approval")
  /\ loc[p].pc \in Executing => ~ HasStatus(loc[p].run, "awaiting_approval")

DecisionInv == \A p \in Requests : DecisionOpen(p)

\* The decisions committed so far.
OnceInv ==
  \A r \in Runs :
    /\ runs[r] = None \/ HasStatus(r, "awaiting_approval") => decided[r] = 0
    /\ decided[r] \in {0, 1}

\* An executor has its run to itself: the status tells how far it is, its list
\* is what is queued, and what it has started comes first in the order of the
\* ids.
NotStartedItem(r, t) == items[r][t] \in {"queued", None}

ExecutorOK(p) ==
  LET r == loc[p].run IN
  /\ loc[p].pc \in BeforeStart \cup {"exec_start"} => HasStatus(r, "approved")
  /\ loc[p].pc \in InLoop \cup {"exec_finish"} => HasStatus(r, "running")
  /\ loc[p].pc \in InLoop \cup {"exec_check", "exec_start"} =>
       loc[p].todo = {t \in Targets : items[r][t] = "queued"}
  /\ loc[p].pc \in InLoop => \A t \in Targets : items[r][t] # "failed"
  /\ loc[p].pc \in OnItem =>
       /\ items[r][loc[p].cur] = "running"
       /\ \A t \in Targets :
            NotStartedItem(r, t) \/ ItemId[r][t] <= ItemId[r][loc[p].cur]
  /\ At(p, "exec_record") => loc[p].result \in Ended

\* The items of a run nobody has started are as they were inserted, and items
\* are started in the order of their ids, up to the first that fails.
RunItemsOK(r) ==
  /\ (\E s \in {"awaiting_approval", "approved", "denied"} : HasStatus(r, s)) =>
       \A t \in Targets : NotStartedItem(r, t)
  /\ \A t, u \in Targets :
       ~ NotStartedItem(r, t) /\ items[r][u] = "queued" =>
         ItemId[r][t] < ItemId[r][u]
  /\ \A t, u \in Targets :
       items[r][t] = "failed" /\ ItemId[r][t] < ItemId[r][u] =>
         NotStartedItem(r, u)

LoopInv ==
  /\ \A p \in Requests : ExecutorOK(p)
  /\ \A r \in Runs : RunItemsOK(r)

\* When no status update is lost: nothing started is left undone.
ItemDone(r, t) == items[r][t] \in {"executed", "skipped", None}

ResultsOK(p) ==
  LET r == loc[p].run IN
  /\ loc[p].pc \in BeforeStart \cup {"exec_start"} => loc[p].result = None
  /\ At(p, "exec_item") => loc[p].result \in {"executed", "skipped", None}
  /\ At(p, "exec_item") =>
       \A t \in Targets \ loc[p].todo : ItemDone(r, t)
  /\ loc[p].pc \in OnItem =>
       \A t \in Targets \ loc[p].todo : t # loc[p].cur => ItemDone(r, t)
  /\ At(p, "exec_finish") /\ loc[p].result # "failed" =>
       \A t \in Targets : ItemDone(r, t)

CompleteInv ==
  /\ \A p \in Requests : ResultsOK(p)
  /\ \A r \in Runs : HasStatus(r, "executed") => \A t \in Targets : ItemDone(r, t)

\* The revisions published, and what an edit in flight will make of the last.
Pending(p) ==
  At(p, "update_write") =>
    LET cur == mig[loc[p].mig] IN
    /\ cur # None
    /\ IF loc[p].changed
       THEN /\ loc[p].row.version = cur.version + 1
            /\ SqlChanged(cur, loc[p].row.up, loc[p].row.down)
       ELSE loc[p].row = cur

Revised(a) ==
  /\ a.mig \in Migrations /\ mig[a.mig] # None
  /\ a.version \in Nat /\ a.version <= mig[a.mig].version
  /\ a.version = mig[a.mig].version =>
       a.up = mig[a.mig].up /\ a.down = mig[a.mig].down

RevisionInv ==
  /\ \A p \in Requests : Pending(p)
  /\ \A a \in published : Revised(a)
  /\ VersionNamesOneSql

\* Between the write and the purge of an edit that changes the SQL, every
\* approval of the migration is outdated; before, this is so or the write
\* will outdate it.
AllStale(m) ==
  \A r \in Runs : HasStatus(r, "approved") /\ runs[r].mig = m => r \in stale

Outdating(p) ==
  LET m == loc[p].mig IN
  /\ At(p, "update_purge") => AllStale(m)
  /\ At(p, "update_write") /\ loc[p].changed =>
       AllStale(m) \/ SqlChanged(mig[m], loc[p].row.up, loc[p].row.down)

RecordInv == ApprovalOnRecord /\ \A p \in Requests : Outdating(p)

-----------------------------------------------------------------------------
(***************************************************************************)
(* Items and ledgers: no hypothesis on the requests.                       *)
(***************************************************************************)

\* What is in the ledger stays, and so does what it was compared with.
LEMMA ToldKept ==
  ASSUME IInv, NEW q \in Requests, Told(q), loc'[q] = loc[q], RunsStay,
         \A t \in Targets, m \in Migrations :
           ledger[t][m] # None => ledger'[t][m] = ledger[t][m]
  PROVE  Told(q)'
<1> SUFFICES ASSUME loc[q].pc = "exec_record",
                    loc[q].result \in {"executed", "skipped"},
                    NEW r, r = loc[q].run, NEW t, t = loc[q].cur
             PROVE  ledger'[t][runs'[r].mig] = runs'[r].sumUp
  BY DEF Told, At
<1>1. r \in Runs /\ runs[r] # None /\ t \in Targets /\ runs[r] \in RunRow
  BY DEF IInv, TypeInv, TypeOK, Holds, AfterCheck, OnItem
<1>2. runs[r].mig \in Migrations /\ runs[r].sumUp # None
  BY <1>1, NoneAssumption DEF RunRow
<1>3. ledger[t][runs[r].mig] = runs[r].sumUp
  BY DEF Told, At
<1>4. ledger'[t][runs[r].mig] = ledger[t][runs[r].mig]
  BY <1>1, <1>2, <1>3
<1>5. runs'[r].mig = runs[r].mig /\ runs'[r].sumUp = runs[r].sumUp
  BY <1>1 DEF RunsStay
<1> QED BY <1>3, <1>4, <1>5

\* What the items say stays true while ledger rows are only added.
LEMMA ItemsToldKept ==
  ASSUME IInv, ItemsTold, RunsStay, UNCHANGED items,
         \A t \in Targets, m \in Migrations :
           ledger[t][m] # None => ledger'[t][m] = ledger[t][m]
  PROVE  ItemsTold'
<1> SUFFICES ASSUME NEW r \in Runs, NEW t \in Targets,
                    items[r][t] \in {"executed", "skipped"}
             PROVE  ledger'[t][runs'[r].mig] = runs'[r].sumUp
  BY DEF ItemsTold
<1>1. runs[r] # None /\ runs[r] \in RunRow
  BY NoneAssumption DEF ItemStatus, IInv, SafeInv, ItemsOK, TypeInv, TypeOK
<1>2. runs[r].mig \in Migrations /\ runs[r].sumUp # None
  BY <1>1, NoneAssumption DEF RunRow
<1> QED BY <1>1, <1>2 DEF ItemsTold, RunsStay

\* A step that leaves items and ledgers as they are.
LEMMA ToldStep ==
  ASSUME IInv, ToldInv, NEW p \in Requests, StepOf(p), RunsStay,
         UNCHANGED <<items, ledger>>, loc'[p].pc # "exec_record"
  PROVE  ToldInv'
<1>1. ItemsTold'
  BY ItemsToldKept DEF ToldInv
<1>2. ASSUME NEW q \in Requests PROVE Told(q)'
  <2>1. CASE q = p
    BY <2>1 DEF Told, At
  <2>2. CASE q # p
    BY <2>2, ToldKept DEF ToldInv, StepOf
  <2> QED BY <2>1, <2>2
<1> QED BY <1>1, <1>2 DEF ToldInv

\* A step that leaves the runs alone keeps what they ask for.
LEMMA RunsSame == ASSUME UNCHANGED runs PROVE RunsStay
BY DEF RunsStay

\* Before the first step no item says anything.
LEMMA ToldInit == Init => ToldInv
BY NoneAssumption
DEF Init, ToldInv, ItemsTold, Told, At, Idle, ItemStatus

\* Every step keeps what items say true, whoever else is at work.
LEMMA ToldNext == IInv /\ ToldInv /\ [Next]_vars => ToldInv'
<1> SUFFICES ASSUME IInv, ToldInv, [Next]_vars PROVE ToldInv'
  OBVIOUS
<1>1. CASE Away
  <2>1. ItemsTold'
    BY <1>1, ItemsToldKept, RunsSame DEF Away, ToldInv
  <2>2. ASSUME NEW q \in Requests PROVE Told(q)'
    <3>1. CASE loc'[q] = loc[q]
      BY <1>1, <3>1, ToldKept, RunsSame DEF Away, ToldInv
    <3>2. CASE loc'[q].pc \notin Deciding \cup Executing
      BY <3>2 DEF Told, At, Executing, AfterCheck
    <3> QED BY <1>1, <3>1, <3>2 DEF Away
  <2> QED BY <2>1, <2>2 DEF ToldInv
<1>2. ASSUME NEW p \in Requests, RunStep(p) PROVE ToldInv'
  <2>1. ASSUME NEW r \in Runs, NewRun(p, r) PROVE ToldInv'
    <3>1. \A s \in Runs : runs[s] # None => s # r /\ runs'[s] = runs[s]
      BY <2>1 DEF NewRun
    <3>2. ItemsTold'
      BY <2>1, <3>1, NoneAssumption
      DEF NewRun, ToldInv, ItemsTold, IInv, SafeInv, ItemsOK, ItemStatus
    <3>3. ASSUME NEW q \in Requests PROVE Told(q)'
      <4>1. CASE q = p
        BY <2>1, <4>1 DEF NewRun, Told, At
      <4>2. CASE q # p
        <5>1. loc'[q] = loc[q] /\ ledger' = ledger
          BY <2>1, <4>2 DEF NewRun, StepOf
        <5>2. loc[q].pc = "exec_record" => runs'[loc[q].run] = runs[loc[q].run]
          BY <3>1 DEF IInv, TypeInv, Holds, AfterCheck
        <5> QED BY <5>1, <5>2 DEF ToldInv, Told, At
      <4> QED BY <4>1, <4>2
    <3> QED BY <3>2, <3>3 DEF ToldInv
  <2>2. ASSUME NEW r \in Runs, TakesUp(p, r) \/ Opens(p, r) PROVE ToldInv'
    BY <2>2, ToldStep, RunsSame DEF TakesUp, Opens
  <2>3. CASE Ready(p) \/ Lists(p) \/ Checks(p) \/ LeavesLoop(p)
    BY <2>3, ToldStep, RunsSame DEF Ready, Lists, Checks, LeavesLoop, Goes
  <2>4. CASE \/ Commits(p, "approve_commit", "approved")
             \/ Commits(p, "deny_commit", "denied")
    BY <2>4, ToldStep DEF Commits, StatusWritten
  <2>5. CASE Starts(p)
    BY <2>5, ToldStep DEF Starts, Goes, StatusWritten
  <2>6. CASE Finishes(p)
    BY <2>6, ToldStep, RunsSame DEF Finishes, StatusWritten
  <2>7. ASSUME NEW t \in Targets, StartsItem(p, t) PROVE ToldInv'
    <3>1. ItemsTold'
      BY <2>7 DEF StartsItem, Goes, ItemWritten, ToldInv, ItemsTold
    <3>2. ASSUME NEW q \in Requests PROVE Told(q)'
      <4>1. CASE q = p
        BY <2>7, <4>1 DEF StartsItem, Goes, Told, At
      <4>2. CASE q # p
        BY <2>7, <4>2, ToldKept, RunsSame DEF StartsItem, Goes, StepOf, ToldInv
      <4> QED BY <4>1, <4>2
    <3> QED BY <3>1, <3>2 DEF ToldInv
  <2>8. CASE Applies(p)
    <3>1. ItemsTold'
      BY <2>8, ItemsToldKept, RunsSame DEF Applies, ToldInv
    <3>2. ASSUME NEW q \in Requests PROVE Told(q)'
      <4>1. CASE q = p
        BY <2>8, <4>1 DEF Applies, Goes, Told, At
      <4>2. CASE q # p
        BY <2>8, <4>2, ToldKept, RunsSame DEF Applies, Goes, StepOf, ToldInv
      <4> QED BY <4>1, <4>2
    <3> QED BY <3>1, <3>2 DEF ToldInv
  <2>9. CASE Records(p)
    <3>1. ItemsTold'
      <4>1. CASE UNCHANGED items
        BY <2>9, <4>1, ItemsToldKept, RunsSame DEF Records, ToldInv
      <4>2. CASE ItemWritten(loc[p].run, loc[p].cur, loc[p].result)
        <5>1. loc[p].result \in {"executed", "skipped"} =>
                ledger[loc[p].cur][runs[loc[p].run].mig] = runs[loc[p].run].sumUp
          BY <2>9 DEF Records, Goes, ToldInv, Told, At
        <5> QED BY <2>9, <4>2, <5>1 DEF Records, ItemWritten, ToldInv, ItemsTold
      <4> QED BY <2>9, <4>1, <4>2 DEF Records
    <3>2. ASSUME NEW q \in Requests PROVE Told(q)'
      <4>1. CASE q = p
        BY <2>9, <4>1 DEF Records, Goes, Told, At, AfterItem
      <4>2. CASE q # p
        BY <2>9, <4>2, ToldKept, RunsSame DEF Records, Goes, StepOf, ToldInv
      <4> QED BY <4>1, <4>2
    <3> QED BY <3>1, <3>2 DEF ToldInv
  <2> QED BY <1>2, <2>1, <2>2, <2>3, <2>4, <2>5, <2>6, <2>7, <2>8, <2>9
          DEF RunStep
<1> QED BY <1>1, <1>2, StepCases

-----------------------------------------------------------------------------
(***************************************************************************)
(* Decisions: no two on one run in flight.                                 *)
(***************************************************************************)

\* Before the first step nobody decides and nobody executes.
LEMMA DecisionInit == Init => DecisionInv
BY DEF Init, DecisionInv, DecisionOpen, Idle, Deciding, Executing, BeforeStart,
   AfterCheck

\* What another step leaves of it.
LEMMA DecisionKept ==
  ASSUME NEW q \in Requests, DecisionOpen(q), loc'[q] = loc[q],
         loc[q].pc \in Deciding \cup Executing =>
           runs'[loc[q].run] = runs[loc[q].run]
  PROVE  DecisionOpen(q)'
BY DEF DecisionOpen, HasStatus

\* A step of p that writes the status of its run, if any.
LEMMA DecisionStep ==
  ASSUME IInv, DecisionInv, NEW p \in Requests, StepOf(p), DecisionOpen(p)',
         NEW r \in Runs, \A s \in Runs : s # r => runs'[s] = runs[s],
         \A q \in Requests :
           q # p /\ loc[q].pc \in Deciding \cup Executing /\ loc[q].run = r =>
             runs'[r] = runs[r] \/ DecisionOpen(q)'
  PROVE  DecisionInv'
<1> SUFFICES ASSUME NEW q \in Requests, q # p PROVE DecisionOpen(q)'
  BY DEF DecisionInv
<1>1. loc'[q] = loc[q] /\ DecisionOpen(q)
  BY DEF StepOf, DecisionInv
<1>2. loc[q].pc \in Deciding \cup Executing => loc[q].run \in Runs
  BY DEF IInv, TypeInv, Holds, Executing
<1> QED BY <1>1, <1>2, DecisionKept

\* A decision is the only way out of awaiting_approval, so that decisions
\* that do not overlap find their runs undecided.
LEMMA DecisionNext ==
  IInv /\ DecisionInv /\ DecisionsApart /\ [Next]_vars => DecisionInv'
<1> SUFFICES ASSUME IInv, DecisionInv, DecisionsApart, [Next]_vars
             PROVE  DecisionInv'
  OBVIOUS
<1> USE DEF Deciding, Executing, BeforeStart, AfterCheck
<1>1. CASE Away
  <2> SUFFICES ASSUME NEW q \in Requests PROVE DecisionOpen(q)'
    BY DEF DecisionInv
  <2>1. CASE loc'[q] = loc[q]
    BY <1>1, <2>1, DecisionKept DEF Away, DecisionInv
  <2>2. CASE loc'[q].pc \notin Deciding \cup Executing
    BY <2>2 DEF DecisionOpen
  <2> QED BY <1>1, <2>1, <2>2 DEF Away
<1>2. ASSUME NEW p \in Requests, RunStep(p) PROVE DecisionInv'
  <2>1. ASSUME NEW r \in Runs, NewRun(p, r) PROVE DecisionInv'
    <3>1. DecisionOpen(p)'
      BY <2>1 DEF NewRun, DecisionOpen
    <3>2. \A q \in Requests : loc[q].pc \in Deciding \cup Executing => loc[q].run # r
      BY <2>1 DEF NewRun, IInv, TypeInv, Holds
    <3> QED BY <2>1, <3>1, <3>2, DecisionStep DEF NewRun
  <2>2. ASSUME NEW r \in Runs, TakesUp(p, r) \/ Opens(p, r) PROVE DecisionInv'
    <3>1. DecisionOpen(p)'
      BY <2>2 DEF TakesUp, Opens, DecisionOpen, HasStatus
    <3> QED BY <2>2, <3>1, DecisionStep DEF TakesUp, Opens
  <2>3. CASE \/ Ready(p) \/ Lists(p) \/ Checks(p) \/ LeavesLoop(p) \/ Applies(p)
             \/ Records(p) \/ \E t \in Targets : StartsItem(p, t)
    <3>1. /\ StepOf(p) /\ UNCHANGED runs /\ loc[p].run \in Runs
          /\ loc'[p].run = loc[p].run
          /\ \/ loc[p].pc \in Deciding /\ loc'[p].pc \in Deciding
             \/ loc[p].pc \in Executing /\ loc'[p].pc \in Executing
      BY <2>3 DEF Ready, Lists, Checks, LeavesLoop, Applies, Records, StartsItem,
         Goes, AfterItem
    <3>2. DecisionOpen(p)'
      BY <3>1 DEF DecisionInv, DecisionOpen, HasStatus
    <3> QED BY <3>1, <3>2, DecisionStep
  <2>4. CASE \/ Commits(p, "approve_commit", "approved")
             \/ Commits(p, "deny_commit", "denied")
    <3>1. DecisionOpen(p)'
      BY <2>4 DEF Commits, DecisionOpen
    <3>2. \A q \in Requests :
            q # p /\ loc[q].pc \in Deciding => loc[q].run # loc[p].run
      BY <2>4 DEF Commits, DecisionsApart
    <3>3. \A q \in Requests :
            q # p /\ loc[q].pc \in Executing => loc[q].run # loc[p].run
      BY <2>4 DEF Commits, DecisionInv, DecisionOpen
    <3> QED BY <2>4, <3>1, <3>2, <3>3, DecisionStep DEF Commits, StatusWritten
  <2>5. CASE Starts(p) \/ Finishes(p)
    <3> SUFFICES ASSUME NEW r, r = loc[p].run PROVE DecisionInv'
      OBVIOUS
    <3>1. /\ StepOf(p) /\ r \in Runs /\ loc[p].pc \in Executing
          /\ loc'[p].pc \notin Deciding
          /\ loc'[p].pc \in Executing => loc'[p].run = r
      BY <2>5 DEF Starts, Finishes, Goes
    <3>2. ~ HasStatus(r, "awaiting_approval")
      BY <3>1 DEF DecisionInv, DecisionOpen
    <3>3. /\ \A s \in Runs : s # r => runs'[s] = runs[s]
          /\ ~ HasStatus(r, "awaiting_approval")'
      BY <2>5, <3>2
      DEF Starts, Finishes, StatusWritten, FinalStatus, HasStatus
    <3>4. \A q \in Requests : loc[q].pc \in Deciding => loc[q].run # r
      BY <3>2 DEF DecisionInv, DecisionOpen
    <3>5. DecisionOpen(p)'
      BY <3>1, <3>3 DEF DecisionOpen, HasStatus
    <3>6. ASSUME NEW q \in Requests, q # p, loc[q].pc \in Executing, loc[q].run = r
          PROVE  DecisionOpen(q)'
      <4>1. loc'[q] = loc[q]
        BY <3>1, <3>6 DEF StepOf
      <4> QED BY <3>3, <3>6, <4>1 DEF DecisionOpen, HasStatus
    <3> QED BY <3>1, <3>3, <3>4, <3>5, <3>6, DecisionStep
  <2> QED BY <1>2, <2>1, <2>2, <2>3, <2>4, <2>5 DEF RunStep
<1> QED BY <1>1, <1>2, StepCases

\* Which decisions a step commits.
LEMMA CommitsOnly ==
  ASSUME IInv, NEW r \in Runs
  PROVE  /\ Approves(r) => \E p \in Requests :
              loc[p].run = r /\ Commits(p, "approve_commit", "approved")
         /\ Denies(r) => \E p \in Requests :
              loc[p].run = r /\ Commits(p, "deny_commit", "denied")
BY DecisionCases DEF Approves, Denies

\* No step of another kind makes a run wait for a decision again.
LEMMA OnceNext ==
  IInv /\ DecisionInv /\ OnceInv /\ [HNext]_hvars => OnceInv'
<1> SUFFICES ASSUME IInv, DecisionInv, OnceInv, [HNext]_hvars PROVE OnceInv'
  OBVIOUS
<1> SUFFICES ASSUME NEW r \in Runs
             PROVE  /\ runs'[r] = None \/ HasStatus(r, "awaiting_approval")'
                         => decided'[r] = 0
                    /\ decided'[r] \in {0, 1}
  BY DEF OnceInv
<1>1. CASE UNCHANGED hvars
  BY <1>1 DEF hvars, vars, toolDB, OnceInv, HasStatus
<1>2. CASE HNext
  <2>1. decided'[r] = IF Approves(r) \/ Denies(r) THEN decided[r] + 1
                      ELSE decided[r]
    BY <1>2 DEF HNext, Observe
  <2>2. CASE Approves(r) \/ Denies(r)
    <3>1. PICK p \in Requests :
            /\ loc[p].run = r
            /\ \/ Commits(p, "approve_commit", "approved")
               \/ Commits(p, "deny_commit", "denied")
      BY <2>2, CommitsOnly
    <3>2. decided[r] = 0
      BY <3>1 DEF Commits, Deciding, DecisionInv, DecisionOpen, OnceInv
    <3>3. runs'[r] # None /\ runs'[r].status \in Decision
      BY <3>1 DEF Commits, StatusWritten, RunsStay, Decision
    <3>4. decided'[r] = 1
      BY <2>1, <2>2, <3>2
    <3> QED BY <3>3, <3>4 DEF Decision, HasStatus
  <2>3. CASE ~ (Approves(r) \/ Denies(r))
    <3>1. decided'[r] = decided[r]
      BY <2>1, <2>3
    <3>2. ASSUME runs'[r] # runs[r]
          PROVE  /\ runs'[r] # None
                 /\ runs[r] = None \/ ~ HasStatus(r, "awaiting_approval")'
      <4>1. ASSUME NEW p \in Requests, NEW s \in Runs, NewRun(p, s)
            PROVE  runs[r] = None /\ runs'[r] # None
        BY <3>2, <4>1 DEF NewRun
      <4>2. ASSUME NEW p \in Requests, WritesStatus(p)
            PROVE  runs'[r] # None /\ ~ HasStatus(r, "awaiting_approval")'
        BY <3>2, <4>2 DEF WritesStatus, Commits, Starts, Goes, Finishes,
           StatusWritten, RunsStay, FinalStatus, HasStatus
      <4> QED BY <3>2, <4>1, <4>2, HistoryOnly, RunCases
    <3> QED BY <3>1, <3>2 DEF OnceInv, HasStatus
  <2> QED BY <2>2, <2>3
<1> QED BY <1>1, <1>2

\* A run is decided once, whatever edits, executions and cancellations come in
\* between, when no two decisions on one run are in flight at a time.
THEOREM DecidedOnceApart == HSpec /\ []DecisionsApart => []DecidedOnce
<1>1. HInit => IInv /\ DecisionInv /\ OnceInv
  BY TypeInit, SafeInit, DecisionInit DEF HInit, IInv, OnceInv
<1>2. IInv /\ DecisionInv /\ OnceInv /\ DecisionsApart /\ [HNext]_hvars =>
        (IInv /\ DecisionInv /\ OnceInv)'
  BY HistoryOnly, TypeNext, SafeNext, DecisionNext, OnceNext DEF IInv
<1>3. OnceInv => DecidedOnce
  BY DEF OnceInv, DecidedOnce
<1> QED BY <1>1, <1>2, <1>3, PTL DEF HSpec

-----------------------------------------------------------------------------
(***************************************************************************)
(* Executions: no two on one run in flight, and no two decisions on it.    *)
(***************************************************************************)

\* What the steps of others leave of an executor and of a run.
LEMMA ExecutorKept ==
  ASSUME NEW q \in Requests, ExecutorOK(q), loc'[q] = loc[q],
         loc[q].pc \in Executing =>
           /\ runs'[loc[q].run] = runs[loc[q].run]
           /\ \A t \in Targets : items'[loc[q].run][t] = items[loc[q].run][t],
         loc[q].pc \in OnItem => loc[q].cur \in Targets
  PROVE  ExecutorOK(q)'
<1> SUFFICES ASSUME loc[q].pc \in Executing PROVE ExecutorOK(q)'
  BY DEF ExecutorOK, InLoop, OnItem, Executing, BeforeStart, AfterCheck, At
<1> SUFFICES ASSUME NEW r, r = loc[q].run PROVE ExecutorOK(q)'
  OBVIOUS
<1>1. {t \in Targets : items'[r][t] = "queued"} = {t \in Targets : items[r][t] = "queued"}
  OBVIOUS
<1> QED BY <1>1 DEF ExecutorOK, HasStatus, NotStartedItem, At

\* A run whose items stay, and that does not go back to waiting, is in order.
LEMMA RunItemsKept ==
  ASSUME NEW r \in Runs, RunItemsOK(r),
         \A t \in Targets : items'[r][t] = items[r][t],
         \A s \in {"awaiting_approval", "approved", "denied"} :
           HasStatus(r, s)' =>
             \E u \in {"awaiting_approval", "approved", "denied"} : HasStatus(r, u)
  PROVE  RunItemsOK(r)'
BY DEF RunItemsOK, NotStartedItem

\* A step of p that touches one run, whose executor nobody but p is.
LEMMA LoopStep ==
  ASSUME IInv, LoopInv, NEW p \in Requests, StepOf(p), ExecutorOK(p)',
         NEW r \in Runs, RunItemsOK(r)',
         \A s \in Runs : s # r =>
           /\ runs'[s] = runs[s]
           /\ \A t \in Targets : items'[s][t] = items[s][t],
         \A q \in Requests :
           q # p /\ loc[q].pc \in Executing => loc[q].run # r
  PROVE  LoopInv'
<1>1. ASSUME NEW q \in Requests, q # p PROVE ExecutorOK(q)'
  <2>1. loc[q].pc \in Executing => loc[q].run \in Runs /\ loc[q].run # r
    BY <1>1 DEF IInv, TypeInv, Holds, Executing
  <2>2. loc[q].pc \in OnItem => loc[q].cur \in Targets
    BY DEF IInv, TypeInv, Holds
  <2>3. loc'[q] = loc[q] /\ ExecutorOK(q)
    BY <1>1 DEF StepOf, LoopInv
  <2> QED BY <2>1, <2>2, <2>3, ExecutorKept
<1>2. ASSUME NEW s \in Runs, s # r PROVE RunItemsOK(s)'
  BY <1>2, RunItemsKept DEF LoopInv, HasStatus
<1> QED BY <1>1, <1>2 DEF LoopInv

\* A step of p that touches no run.
LEMMA LoopQuiet ==
  ASSUME IInv, LoopInv, NEW p \in Requests, StepOf(p), ExecutorOK(p)',
         UNCHANGED <<runs, items>>
  PROVE  LoopInv'
<1>1. ASSUME NEW q \in Requests, q # p PROVE ExecutorOK(q)'
  <2>1. loc[q].pc \in OnItem => loc[q].cur \in Targets
    BY DEF IInv, TypeInv, Holds
  <2> QED BY <1>1, <2>1, ExecutorKept DEF StepOf, LoopInv
<1>2. ASSUME NEW s \in Runs PROVE RunItemsOK(s)'
  BY RunItemsKept DEF LoopInv, HasStatus
<1> QED BY <1>1, <1>2 DEF LoopInv

\* A request that executes nothing is a good executor.
LEMMA NoExecutor ==
  ASSUME NEW p \in Requests, loc[p].pc \notin Executing
  PROVE  ExecutorOK(p)
BY DEF ExecutorOK, At, InLoop, OnItem, Executing, BeforeStart, AfterCheck

\* The same in the next state.
LEMMA NoExecutorNext ==
  ASSUME NEW p \in Requests, loc'[p].pc \notin Executing
  PROVE  ExecutorOK(p)'
BY DEF ExecutorOK, At, InLoop, OnItem, Executing, BeforeStart, AfterCheck

\* Before the first step nothing is executed.
LEMMA LoopInit == Init => LoopInv
<1> SUFFICES ASSUME Init PROVE LoopInv
  OBVIOUS
<1>1. \A p \in Requests : ExecutorOK(p)
  BY NoExecutor, IdleAway DEF Init
<1>2. \A r \in Runs : RunItemsOK(r)
  BY NoneAssumption DEF Init, RunItemsOK, HasStatus, NotStartedItem, ItemStatus
<1> QED BY <1>1, <1>2 DEF LoopInv

\* The ids order the items.
LEMMA IdsOrder ==
  ASSUME NEW r \in Runs, NEW t \in Targets, NEW u \in Targets
  PROVE  /\ ItemId[r][t] \in Nat /\ ItemId[r][u] \in Nat
         /\ ItemId[r][t] = ItemId[r][u] => t = u
BY ItemIdAssumption

\* The start of an item.
LEMMA LoopStartsItem ==
  ASSUME IInv, LoopInv, ExecutionsApart, NEW p \in Requests, NEW t \in Targets,
         StartsItem(p, t)
  PROVE  LoopInv'
<1> SUFFICES ASSUME NEW r, r = loc[p].run PROVE LoopInv'
  OBVIOUS
<1>1. /\ StepOf(p) /\ r \in Runs /\ loc[p].pc = "exec_item" /\ loc'[p].run = r
      /\ loc'[p].pc = "exec_apply" /\ loc'[p].cur = t
      /\ loc'[p].todo = loc[p].todo \ {t} /\ runs' = runs
      /\ ItemWritten(r, t, "running") /\ t \in NextItem(r, loc[p].todo)
  BY DEF StartsItem, Goes
<1>2. /\ HasStatus(r, "running")
      /\ loc[p].todo = {u \in Targets : items[r][u] = "queued"}
      /\ \A u \in Targets : items[r][u] # "failed"
  BY <1>1 DEF LoopInv, ExecutorOK, InLoop
<1>3. items'[r][t] = "running" /\ items[r][t] = "queued"
  BY <1>1, <1>2 DEF ItemWritten, NextItem
<1>4. \A u \in Targets : u # t => items'[r][u] = items[r][u]
  BY <1>1 DEF ItemWritten
<1>5. "running" # None
  BY NoneAssumption DEF ItemStatus
<1>6. \A u \in Targets : NotStartedItem(r, u) \/ ItemId[r][u] < ItemId[r][t]
  BY <1>1, <1>3 DEF LoopInv, RunItemsOK
<1>7. \A u \in Targets : items'[r][u] = "queued" => ItemId[r][t] < ItemId[r][u]
  <2> SUFFICES ASSUME NEW u \in Targets, items'[r][u] = "queued"
               PROVE  ItemId[r][t] < ItemId[r][u]
    OBVIOUS
  <2>1. u # t /\ u \in loc[p].todo
    BY <1>2, <1>3, <1>4
  <2>2. ItemId[r][t] <= ItemId[r][u]
    BY <1>1, <2>1 DEF NextItem
  <2> QED BY <1>1, <2>1, <2>2, IdsOrder
<1>8. ExecutorOK(p)'
  <2>1. HasStatus(r, "running")'
    BY <1>1, <1>2 DEF HasStatus
  <2>2. loc'[p].todo = {u \in Targets : items'[r][u] = "queued"}
    BY <1>1, <1>2, <1>3, <1>4
  <2>3. \A u \in Targets : items'[r][u] # "failed"
    BY <1>2, <1>3, <1>4
  <2>4. \A u \in Targets : NotStartedItem(r, u)' \/ ItemId[r][u] <= ItemId[r][t]
    <3> SUFFICES ASSUME NEW u \in Targets
                 PROVE  NotStartedItem(r, u)' \/ ItemId[r][u] <= ItemId[r][t]
      OBVIOUS
    <3>1. CASE u = t
      BY <1>1, <3>1, IdsOrder
    <3>2. CASE u # t
      BY <1>1, <1>4, <1>6, <3>2, IdsOrder DEF NotStartedItem
    <3> QED BY <3>1, <3>2
  <2> QED BY <1>1, <1>3, <2>1, <2>2, <2>3, <2>4
          DEF ExecutorOK, At, HasStatus, NotStartedItem, InLoop, OnItem,
              BeforeStart
<1>9. RunItemsOK(r)'
  <2>1. \A s \in {"awaiting_approval", "approved", "denied"} : ~ HasStatus(r, s)'
    BY <1>1, <1>2 DEF HasStatus
  <2>2. ASSUME NEW u \in Targets, NEW v \in Targets,
               ~ NotStartedItem(r, u)', items'[r][v] = "queued"
        PROVE  ItemId[r][u] < ItemId[r][v]
    <3>1. CASE u = t
      BY <1>7, <2>2, <3>1
    <3>2. CASE u # t
      <4>1. ItemId[r][u] < ItemId[r][t]
        BY <1>4, <1>6, <2>2, <3>2 DEF NotStartedItem
      <4>2. ItemId[r][t] < ItemId[r][v]
        BY <1>7, <2>2
      <4> QED BY <1>1, <4>1, <4>2, IdsOrder
    <3> QED BY <3>1, <3>2
  <2>3. \A u \in Targets : items'[r][u] # "failed"
    BY <1>2, <1>3, <1>4
  <2> QED BY <2>1, <2>2, <2>3 DEF RunItemsOK
<1>10. \A s \in Runs : s # r =>
         runs'[s] = runs[s] /\ \A u \in Targets : items'[s][u] = items[s][u]
  BY <1>1 DEF ItemWritten
<1>11. \A q \in Requests : q # p /\ loc[q].pc \in Executing => loc[q].run # r
  BY <1>1 DEF ExecutionsApart, Executing, AfterCheck
<1> QED BY <1>1, <1>8, <1>9, <1>10, <1>11, LoopStep

\* The status noted for an item: the loop ends with the first that failed.
LEMMA LoopRecords ==
  ASSUME IInv, LoopInv, ExecutionsApart, NEW p \in Requests, Records(p)
  PROVE  LoopInv'
<1> SUFFICES ASSUME NEW r, r = loc[p].run, NEW t, t = loc[p].cur,
                    NEW result, result = loc[p].result
             PROVE  LoopInv'
  OBVIOUS
<1>1. /\ StepOf(p) /\ r \in Runs /\ loc[p].pc = "exec_record" /\ loc'[p].run = r
      /\ loc'[p].pc = AfterItem(result) /\ t \in Targets
      /\ loc'[p].todo = loc[p].todo /\ runs' = runs
      /\ ItemWritten(r, t, result) \/ UNCHANGED items
  BY DEF Records, Goes
<1>2. /\ HasStatus(r, "running") /\ result \in Ended
      /\ loc[p].todo = {u \in Targets : items[r][u] = "queued"}
      /\ \A u \in Targets : items[r][u] # "failed"
      /\ items[r][t] = "running"
      /\ \A u \in Targets : NotStartedItem(r, u) \/ ItemId[r][u] <= ItemId[r][t]
  BY <1>1 DEF LoopInv, ExecutorOK, InLoop, OnItem, At
<1>3. items'[r][t] \in Ended \cup {"running"}
  BY <1>1, <1>2 DEF ItemWritten
<1>4. \A u \in Targets : u # t => items'[r][u] = items[r][u]
  BY <1>1 DEF ItemWritten
<1>5. items'[r][t] = "failed" => result = "failed"
  BY <1>1, <1>2 DEF ItemWritten
<1>6. \A u \in Targets : NotStartedItem(r, u)' <=> NotStartedItem(r, u)
  BY <1>2, <1>3, <1>4, NoneAssumption DEF NotStartedItem, Ended, ItemStatus
<1>7. \A u \in Targets : items'[r][u] = "queued" <=> items[r][u] = "queued"
  BY <1>2, <1>3, <1>4 DEF Ended
<1>8. ExecutorOK(p)'
  <2>1. HasStatus(r, "running")'
    BY <1>1, <1>2 DEF HasStatus
  <2>2. loc'[p].todo = {u \in Targets : items'[r][u] = "queued"}
    BY <1>1, <1>2, <1>7
  <2>3. result # "failed" => \A u \in Targets : items'[r][u] # "failed"
    BY <1>2, <1>4, <1>5
  <2>4. \/ loc'[p].pc = "exec_item" /\ result # "failed"
        \/ loc'[p].pc = "exec_finish"
    BY <1>1 DEF AfterItem
  <2> QED BY <1>1, <2>1, <2>2, <2>3, <2>4
          DEF ExecutorOK, At, HasStatus, InLoop, OnItem, BeforeStart
<1>9. RunItemsOK(r)'
  <2>1. \A s \in {"awaiting_approval", "approved", "denied"} : ~ HasStatus(r, s)'
    BY <1>1, <1>2 DEF HasStatus
  <2>2. \A u, v \in Targets :
          ~ NotStartedItem(r, u)' /\ items'[r][v] = "queued" =>
            ItemId[r][u] < ItemId[r][v]
    BY <1>1, <1>6, <1>7 DEF LoopInv, RunItemsOK
  <2>3. ASSUME NEW u \in Targets, NEW v \in Targets,
               items'[r][u] = "failed", ItemId[r][u] < ItemId[r][v]
        PROVE  NotStartedItem(r, v)'
    <3>1. u = t
      BY <1>2, <1>4, <2>3
    <3>2. ~ (ItemId[r][v] <= ItemId[r][t])
      BY <1>1, <2>3, <3>1, IdsOrder
    <3> QED BY <1>2, <1>6, <3>2
  <2> QED BY <2>1, <2>2, <2>3 DEF RunItemsOK
<1>10. \A s \in Runs : s # r =>
         runs'[s] = runs[s] /\ \A u \in Targets : items'[s][u] = items[s][u]
  BY <1>1 DEF ItemWritten
<1>11. \A q \in Requests : q # p /\ loc[q].pc \in Executing => loc[q].run # r
  BY <1>1 DEF ExecutionsApart, Executing, AfterCheck
<1> QED BY <1>1, <1>8, <1>9, <1>10, <1>11, LoopStep

\* Every step leaves each executor alone with its run.
LEMMA LoopNext ==
  IInv /\ DecisionInv /\ LoopInv /\ ExecutionsApart /\ [Next]_vars => LoopInv'
<1> SUFFICES ASSUME IInv, DecisionInv, LoopInv, ExecutionsApart, [Next]_vars
             PROVE  LoopInv'
  OBVIOUS
<1>1. CASE Away
  <2>1. ASSUME NEW q \in Requests PROVE ExecutorOK(q)'
    <3>1. loc[q].pc \in OnItem => loc[q].cur \in Targets
      BY DEF IInv, TypeInv, Holds
    <3>2. CASE loc'[q] = loc[q]
      BY <1>1, <3>1, <3>2, ExecutorKept DEF Away, LoopInv
    <3>3. CASE loc'[q].pc \notin Deciding \cup Executing
      BY <3>3, NoExecutorNext
    <3> QED BY <1>1, <3>2, <3>3 DEF Away
  <2>2. ASSUME NEW r \in Runs PROVE RunItemsOK(r)'
    BY <1>1, RunItemsKept DEF Away, LoopInv, HasStatus
  <2> QED BY <2>1, <2>2 DEF LoopInv
<1>2. ASSUME NEW p \in Requests, RunStep(p) PROVE LoopInv'
  <2>1. ASSUME NEW r \in Runs, NewRun(p, r) PROVE LoopInv'
    <3>1. StepOf(p) /\ loc'[p].pc = "idle" /\ runs[r] = None
      BY <2>1 DEF NewRun
    <3>2. RunItemsOK(r)'
      BY <2>1, NoneAssumption
      DEF NewRun, RunItemsOK, NotStartedItem, ItemStatus
    <3>3. \A q \in Requests : loc[q].pc \in Executing => loc[q].run # r
      BY <3>1 DEF IInv, TypeInv, Holds, Executing
    <3> QED BY <2>1, <3>1, <3>2, <3>3, NoExecutorNext, IdleAway, LoopStep
            DEF NewRun
  <2>2. ASSUME NEW r \in Runs, TakesUp(p, r) PROVE LoopInv'
    BY <2>2, NoExecutorNext, LoopQuiet
    DEF TakesUp, Executing, BeforeStart, AfterCheck
  <2>3. ASSUME NEW r \in Runs, Opens(p, r) PROVE LoopInv'
    <3>1. ExecutorOK(p)'
      BY <2>3 DEF Opens, ExecutorOK, At, HasStatus, InLoop, OnItem
    <3> QED BY <2>3, <3>1, LoopQuiet DEF Opens
  <2>4. CASE Ready(p)
    BY <2>4, NoExecutorNext, LoopQuiet
    DEF Ready, Goes, Executing, BeforeStart, AfterCheck
  <2>5. CASE \/ Commits(p, "approve_commit", "approved")
             \/ Commits(p, "deny_commit", "denied")
    <3> SUFFICES ASSUME NEW r, r = loc[p].run PROVE LoopInv'
      OBVIOUS
    <3>1. /\ StepOf(p) /\ loc'[p].pc = "idle" /\ r \in Runs
          /\ UNCHANGED items
          /\ \A s \in Runs : s # r => runs'[s] = runs[s]
      BY <2>5 DEF Commits, StatusWritten
    <3>2. HasStatus(r, "awaiting_approval")
      BY <2>5 DEF Commits, Deciding, DecisionInv, DecisionOpen
    <3>3. \A q \in Requests : loc[q].pc \in Executing => loc[q].run # r
      BY <3>2 DEF DecisionInv, DecisionOpen
    <3>4. RunItemsOK(r)'
      BY <3>1, <3>2, RunItemsKept DEF LoopInv
    <3> QED BY <3>1, <3>3, <3>4, NoExecutorNext, IdleAway, LoopStep
  <2>6. CASE Lists(p)
    <3>1. ExecutorOK(p)'
      BY <2>6 DEF Lists, Goes, LoopInv, ExecutorOK, At, HasStatus, BeforeStart,
         InLoop, OnItem
    <3> QED BY <2>6, <3>1, LoopQuiet DEF Lists, Goes
  <2>7. CASE Checks(p)
    <3>1. /\ StepOf(p) /\ loc[p].pc = "exec_check" /\ loc'[p].pc = "exec_start"
          /\ loc'[p].run = loc[p].run /\ loc'[p].todo = loc[p].todo
          /\ UNCHANGED <<runs, items>>
      BY <2>7 DEF Checks, Goes
    <3>2. /\ HasStatus(loc[p].run, "approved")
          /\ loc[p].todo = {t \in Targets : items[loc[p].run][t] = "queued"}
      BY <3>1 DEF LoopInv, ExecutorOK, BeforeStart
    <3>3. ExecutorOK(p)'
      BY <3>1, <3>2 DEF ExecutorOK, At, HasStatus, BeforeStart, InLoop, OnItem
    <3> QED BY <3>1, <3>3, LoopQuiet
  <2>8. CASE Starts(p)
    <3> SUFFICES ASSUME NEW r, r = loc[p].run PROVE LoopInv'
      OBVIOUS
    <3>1. /\ StepOf(p) /\ r \in Runs /\ loc[p].pc = "exec_start"
          /\ loc'[p].pc = "exec_item" /\ loc'[p].run = r
          /\ loc'[p].todo = loc[p].todo /\ UNCHANGED items
          /\ runs'[r] # None /\ runs'[r].status = "running"
          /\ \A s \in Runs : s # r => runs'[s] = runs[s]
      BY <2>8 DEF Starts, Goes, StatusWritten, RunsStay
    <3>2. /\ HasStatus(r, "approved")
          /\ loc[p].todo = {t \in Targets : items[r][t] = "queued"}
      BY <3>1 DEF LoopInv, ExecutorOK
    <3>3. \A t \in Targets : items[r][t] # "failed"
      BY <3>1, <3>2, NoneAssumption
      DEF LoopInv, RunItemsOK, NotStartedItem, ItemStatus
    <3>4. ExecutorOK(p)'
      BY <3>1, <3>2, <3>3
      DEF ExecutorOK, At, HasStatus, InLoop, OnItem, BeforeStart
    <3>5. RunItemsOK(r)'
      BY <3>1, RunItemsKept DEF LoopInv, HasStatus
    <3>6. \A q \in Requests : q # p /\ loc[q].pc \in Executing => loc[q].run # r
      BY <3>1 DEF ExecutionsApart, Executing, AfterCheck
    <3> QED BY <3>1, <3>4, <3>5, <3>6, LoopStep
  <2>9. ASSUME NEW t \in Targets, StartsItem(p, t) PROVE LoopInv'
    BY <2>9, LoopStartsItem
  <2>10. CASE LeavesLoop(p)
    <3>1. ExecutorOK(p)'
      BY <2>10 DEF LeavesLoop, Goes, LoopInv, ExecutorOK, At, HasStatus,
         BeforeStart, InLoop, OnItem
    <3> QED BY <2>10, <3>1, LoopQuiet DEF LeavesLoop, Goes
  <2>11. CASE Applies(p)
    <3>1. ExecutorOK(p)'
      <4>1. /\ loc[p].pc = "exec_apply" /\ loc'[p].pc = "exec_record"
            /\ loc'[p].run = loc[p].run /\ loc'[p].cur = loc[p].cur
            /\ loc'[p].todo = loc[p].todo /\ loc'[p].result \in Ended
            /\ UNCHANGED <<runs, items>>
        BY <2>11 DEF Applies, Goes
      <4>2. ExecutorOK(p)
        BY DEF LoopInv
      <4> QED BY <4>1, <4>2 DEF ExecutorOK, At, HasStatus, NotStartedItem,
              BeforeStart, InLoop, OnItem
    <3> QED BY <2>11, <3>1, LoopQuiet DEF Applies, Goes
  <2>12. CASE Records(p)
    BY <2>12, LoopRecords
  <2>13. CASE Finishes(p)
    <3> SUFFICES ASSUME NEW r, r = loc[p].run PROVE LoopInv'
      OBVIOUS
    <3>1. /\ StepOf(p) /\ r \in Runs /\ loc[p].pc = "exec_finish"
          /\ loc'[p].pc = "idle" /\ UNCHANGED items
          /\ \A s \in Runs : s # r => runs'[s] = runs[s]
      BY <2>13 DEF Finishes, StatusWritten
    <3>2. HasStatus(r, "running")
      BY <3>1 DEF LoopInv, ExecutorOK
    <3>3. \A s \in {"awaiting_approval", "approved", "denied"} : ~ HasStatus(r, s)'
      BY <2>13, <3>2 DEF Finishes, StatusWritten, FinalStatus, HasStatus
    <3>4. RunItemsOK(r)'
      BY <3>1, <3>3, RunItemsKept DEF LoopInv
    <3>5. \A q \in Requests : q # p /\ loc[q].pc \in Executing => loc[q].run # r
      BY <3>1 DEF ExecutionsApart, Executing, AfterCheck
    <3> QED BY <3>1, <3>4, <3>5, NoExecutorNext, IdleAway, LoopStep
  <2> QED BY <1>2, <2>1, <2>2, <2>3, <2>4, <2>5, <2>6, <2>7, <2>8, <2>9, <2>10,
             <2>11, <2>12, <2>13 DEF RunStep
<1> QED BY <1>1, <1>2, StepCases

\* In every behaviour without overlapping decisions and executions.
LEMMA LoopInvariance ==
  HSpec /\ []DecisionsApart /\ []ExecutionsApart => [](IInv /\ DecisionInv /\ LoopInv)
<1>1. HInit => IInv /\ DecisionInv /\ LoopInv
  BY TypeInit, SafeInit, DecisionInit, LoopInit DEF HInit, IInv
<1>2. IInv /\ DecisionInv /\ LoopInv /\ DecisionsApart /\ ExecutionsApart
        /\ [HNext]_hvars => (IInv /\ DecisionInv /\ LoopInv)'
  BY HistoryOnly, TypeNext, SafeNext, DecisionNext, LoopNext DEF IInv
<1> QED BY <1>1, <1>2, PTL DEF HSpec

\* Behind the first item that fails nothing is started, also when statements
\* fail and requests are cut off.
THEOREM NothingAfterFirstFailureApart ==
  HSpec /\ []DecisionsApart /\ []ExecutionsApart => []NothingAfterFirstFailure
<1>1. LoopInv => NothingAfterFirstFailure
  BY DEF LoopInv, RunItemsOK, NotStartedItem, NothingAfterFirstFailure
<1> QED BY <1>1, LoopInvariance, PTL

\* A run's status only goes on, in the code's order: a decision finds it waiting,
\* an execution approved, and the end of one running.
THEOREM StatusFollowsLifecycleApart ==
  HSpec /\ []DecisionsApart /\ []ExecutionsApart => StatusFollowsLifecycle
<1> DEFINE Step ==
      \A r \in Runs : runs[r] # None /\ runs'[r] # runs[r] =>
        <<runs[r].status, runs'[r].status>> \in StatusSuccessor
<1>1. IInv /\ DecisionInv /\ LoopInv /\ [HNext]_hvars => [Step]_vars
  <2> SUFFICES ASSUME IInv, DecisionInv, LoopInv, [HNext]_hvars,
                      NEW r \in Runs, runs[r] # None, runs'[r] # runs[r]
               PROVE  <<runs[r].status, runs'[r].status>> \in StatusSuccessor
    OBVIOUS
  <2>1. \A p \in Requests, s \in Runs : ~ NewRun(p, s)
    BY DEF NewRun
  <2>2. PICK p \in Requests : WritesStatus(p)
    BY <2>1, HistoryOnly, RunCases
  <2>3. loc[p].run = r
    BY <2>2 DEF WritesStatus, Commits, Starts, Goes, Finishes, StatusWritten
  <2>4. CASE \/ Commits(p, "approve_commit", "approved")
             \/ Commits(p, "deny_commit", "denied")
    BY <2>3, <2>4 DEF Commits, StatusWritten, Deciding, DecisionInv, DecisionOpen,
       HasStatus, StatusSuccessor
  <2>5. CASE Starts(p)
    BY <2>3, <2>5 DEF Starts, Goes, StatusWritten, LoopInv, ExecutorOK,
       HasStatus, StatusSuccessor
  <2>6. CASE Finishes(p)
    BY <2>3, <2>6 DEF Finishes, StatusWritten, FinalStatus, LoopInv, ExecutorOK,
       HasStatus, StatusSuccessor
  <2> QED BY <2>2, <2>4, <2>5, <2>6 DEF WritesStatus
<1> QED BY <1>1, LoopInvariance, PTL DEF HSpec, StatusFollowsLifecycle

-----------------------------------------------------------------------------
(***************************************************************************)
(* Executed runs, when no status update is lost.                           *)
(***************************************************************************)

\* What the steps of others leave of an executor's results.
LEMMA ResultsKept ==
  ASSUME NEW q \in Requests, ResultsOK(q), loc'[q] = loc[q],
         loc[q].pc \in Executing =>
           \A t \in Targets : items'[loc[q].run][t] = items[loc[q].run][t]
  PROVE  ResultsOK(q)'
<1> SUFFICES ASSUME loc[q].pc \in Executing PROVE ResultsOK(q)'
  BY DEF ResultsOK, OnItem, Executing, BeforeStart, AfterCheck, At
<1> SUFFICES ASSUME NEW r, r = loc[q].run PROVE ResultsOK(q)'
  OBVIOUS
<1> QED BY DEF ResultsOK, ItemDone, At

\* A request that executes nothing has no results to keep.
LEMMA NoResults ==
  ASSUME NEW p \in Requests, loc'[p].pc \notin Executing
  PROVE  ResultsOK(p)'
BY DEF ResultsOK, At, OnItem, Executing, BeforeStart, AfterCheck

\* A step of p that touches one run, whose executor nobody but p is.
LEMMA CompleteStep ==
  ASSUME IInv, CompleteInv, NEW p \in Requests, StepOf(p), ResultsOK(p)',
         NEW r \in Runs,
         HasStatus(r, "executed")' => \A t \in Targets : ItemDone(r, t)',
         \A s \in Runs : s # r =>
           /\ runs'[s] = runs[s]
           /\ \A t \in Targets : items'[s][t] = items[s][t],
         \A q \in Requests :
           q # p /\ loc[q].pc \in Executing => loc[q].run # r
  PROVE  CompleteInv'
<1>1. ASSUME NEW q \in Requests, q # p PROVE ResultsOK(q)'
  <2>1. loc[q].pc \in Executing => loc[q].run \in Runs /\ loc[q].run # r
    BY <1>1 DEF IInv, TypeInv, Holds, Executing
  <2>2. loc'[q] = loc[q] /\ ResultsOK(q)
    BY <1>1 DEF StepOf, CompleteInv
  <2> QED BY <2>1, <2>2, ResultsKept
<1>2. ASSUME NEW s \in Runs, HasStatus(s, "executed")'
      PROVE  \A t \in Targets : ItemDone(s, t)'
  BY <1>2 DEF CompleteInv, HasStatus, ItemDone
<1> QED BY <1>1, <1>2 DEF CompleteInv

\* A step of p that touches no run.
LEMMA CompleteQuiet ==
  ASSUME CompleteInv, NEW p \in Requests, StepOf(p), ResultsOK(p)',
         UNCHANGED <<runs, items>>
  PROVE  CompleteInv'
<1>1. ASSUME NEW q \in Requests, q # p PROVE ResultsOK(q)'
  BY <1>1, ResultsKept DEF StepOf, CompleteInv
<1> QED BY <1>1 DEF CompleteInv, HasStatus, ItemDone

\* Before the first step nothing is executed.
LEMMA CompleteInit == Init => CompleteInv
<1> SUFFICES ASSUME Init PROVE CompleteInv
  OBVIOUS
<1>1. \A p \in Requests : ResultsOK(p)
  BY DEF Init, Idle, ResultsOK, At, OnItem, BeforeStart
<1>2. \A r \in Runs : ~ HasStatus(r, "executed")
  BY DEF Init, HasStatus
<1> QED BY <1>1, <1>2 DEF CompleteInv

\* Every step leaves nothing undone behind an executor.
LEMMA CompleteNext ==
  ASSUME ~ StatementFaults
  PROVE  IInv /\ DecisionInv /\ LoopInv /\ CompleteInv /\ ExecutionsApart
           /\ [Next]_vars => CompleteInv'
<1> SUFFICES ASSUME IInv, DecisionInv, LoopInv, CompleteInv, ExecutionsApart,
                    [Next]_vars
             PROVE  CompleteInv'
  OBVIOUS
<1>1. CASE Away
  <2>1. ASSUME NEW q \in Requests PROVE ResultsOK(q)'
    <3>1. CASE loc'[q] = loc[q]
      BY <1>1, <3>1, ResultsKept DEF Away, CompleteInv
    <3>2. CASE loc'[q].pc \notin Deciding \cup Executing
      BY <3>2, NoResults
    <3> QED BY <1>1, <3>1, <3>2 DEF Away
  <2> QED BY <1>1, <2>1 DEF Away, CompleteInv, HasStatus, ItemDone
<1>2. ASSUME NEW p \in Requests, RunStep(p) PROVE CompleteInv'
  <2>1. ASSUME NEW r \in Runs, NewRun(p, r) PROVE CompleteInv'
    <3>1. ~ HasStatus(r, "executed")' /\ runs[r] = None
      BY <2>1 DEF NewRun, HasStatus
    <3>2. \A q \in Requests : loc[q].pc \in Executing => loc[q].run # r
      BY <3>1 DEF IInv, TypeInv, Holds, Executing
    <3> QED BY <2>1, <3>1, <3>2, NoResults, IdleAway, CompleteStep DEF NewRun
  <2>2. ASSUME NEW r \in Runs, TakesUp(p, r) PROVE CompleteInv'
    BY <2>2, NoResults, CompleteQuiet
    DEF TakesUp, Executing, BeforeStart, AfterCheck
  <2>3. ASSUME NEW r \in Runs, Opens(p, r) PROVE CompleteInv'
    <3>1. ResultsOK(p)'
      BY <2>3 DEF Opens, ResultsOK, At, OnItem
    <3> QED BY <2>3, <3>1, CompleteQuiet DEF Opens
  <2>4. CASE Ready(p)
    BY <2>4, NoResults, CompleteQuiet
    DEF Ready, Goes, Executing, BeforeStart, AfterCheck
  <2>5. CASE \/ Commits(p, "approve_commit", "approved")
             \/ Commits(p, "deny_commit", "denied")
    <3> SUFFICES ASSUME NEW r, r = loc[p].run PROVE CompleteInv'
      OBVIOUS
    <3>1. /\ StepOf(p) /\ loc'[p].pc = "idle" /\ r \in Runs
          /\ UNCHANGED items /\ ~ HasStatus(r, "executed")'
          /\ \A s \in Runs : s # r => runs'[s] = runs[s]
      BY <2>5 DEF Commits, StatusWritten, HasStatus
    <3>2. \A q \in Requests : loc[q].pc \in Executing => loc[q].run # r
      BY <2>5 DEF Commits, Deciding, DecisionInv, DecisionOpen
    <3> QED BY <3>1, <3>2, NoResults, IdleAway, CompleteStep
  <2>6. CASE Lists(p) \/ Checks(p)
    <3>1. /\ StepOf(p) /\ UNCHANGED <<runs, items>>
          /\ loc[p].pc \in BeforeStart
          /\ loc'[p].pc \in {"exec_check", "exec_start"}
          /\ loc'[p].result = loc[p].result
      BY <2>6 DEF Lists, Checks, Goes, BeforeStart
    <3>2. loc'[p].result = None
      BY <3>1 DEF CompleteInv, ResultsOK
    <3>3. ResultsOK(p)'
      BY <3>1, <3>2 DEF ResultsOK, At, OnItem
    <3> QED BY <3>1, <3>3, CompleteQuiet
  <2>7. CASE Starts(p)
    <3> SUFFICES ASSUME NEW r, r = loc[p].run PROVE CompleteInv'
      OBVIOUS
    <3>1. /\ StepOf(p) /\ r \in Runs /\ loc[p].pc = "exec_start"
          /\ loc'[p].pc = "exec_item" /\ loc'[p].run = r
          /\ loc'[p].todo = loc[p].todo /\ loc'[p].result = loc[p].result
          /\ UNCHANGED items /\ ~ HasStatus(r, "executed")'
          /\ \A s \in Runs : s # r => runs'[s] = runs[s]
      BY <2>7 DEF Starts, Goes, StatusWritten, HasStatus
    <3>2. /\ HasStatus(r, "approved")
          /\ loc[p].todo = {t \in Targets : items[r][t] = "queued"}
      BY <3>1 DEF LoopInv, ExecutorOK, BeforeStart, InLoop
    <3>3. loc[p].result = None
      BY <3>1 DEF CompleteInv, ResultsOK
    <3>4. \A t \in Targets \ loc[p].todo : ItemDone(r, t)'
      BY <3>1, <3>2 DEF LoopInv, RunItemsOK, NotStartedItem, ItemDone
    <3>5. ResultsOK(p)'
      BY <3>1, <3>3, <3>4 DEF ResultsOK, ItemDone, At, OnItem, BeforeStart
    <3>6. \A q \in Requests : q # p /\ loc[q].pc \in Executing => loc[q].run # r
      BY <3>1 DEF ExecutionsApart, Executing, AfterCheck
    <3> QED BY <3>1, <3>5, <3>6, CompleteStep
  <2>8. ASSUME NEW t \in Targets, StartsItem(p, t) PROVE CompleteInv'
    <3> SUFFICES ASSUME NEW r, r = loc[p].run PROVE CompleteInv'
      OBVIOUS
    <3>1. /\ StepOf(p) /\ r \in Runs /\ loc[p].pc = "exec_item"
          /\ loc'[p].pc = "exec_apply" /\ loc'[p].run = r /\ loc'[p].cur = t
          /\ loc'[p].todo = loc[p].todo \ {t}
          /\ ItemWritten(r, t, "running") /\ UNCHANGED runs
      BY <2>8 DEF StartsItem, Goes
    <3>2. \A u \in Targets \ loc[p].todo : ItemDone(r, u)
      BY <3>1 DEF CompleteInv, ResultsOK, At
    <3>3. \A u \in Targets \ loc'[p].todo : u # t => ItemDone(r, u)'
      BY <3>1, <3>2 DEF ItemWritten, ItemDone
    <3>4. ResultsOK(p)'
      BY <3>1, <3>3 DEF ResultsOK, ItemDone, At, BeforeStart
    <3>5. ~ HasStatus(r, "executed")'
      BY <3>1 DEF LoopInv, ExecutorOK, InLoop, HasStatus
    <3>6. \A q \in Requests : q # p /\ loc[q].pc \in Executing => loc[q].run # r
      BY <3>1 DEF ExecutionsApart, Executing, AfterCheck
    <3> QED BY <3>1, <3>4, <3>5, <3>6, CompleteStep DEF ItemWritten
  <2>9. CASE LeavesLoop(p)
    <3>1. /\ StepOf(p) /\ UNCHANGED <<runs, items>> /\ loc[p].pc = "exec_item"
          /\ loc'[p].pc = "exec_finish" /\ loc'[p].run = loc[p].run
          /\ loc[p].todo = {}
      BY <2>9 DEF LeavesLoop, Goes
    <3>2. \A t \in Targets : ItemDone(loc[p].run, t)
      BY <3>1 DEF CompleteInv, ResultsOK, At
    <3>3. ResultsOK(p)'
      BY <3>1, <3>2 DEF ResultsOK, ItemDone, At, OnItem, BeforeStart
    <3> QED BY <3>1, <3>3, CompleteQuiet
  <2>10. CASE Applies(p)
    <3>1. /\ StepOf(p) /\ UNCHANGED <<runs, items>> /\ loc[p].pc = "exec_apply"
          /\ loc'[p].pc = "exec_record" /\ loc'[p].run = loc[p].run
          /\ loc'[p].todo = loc[p].todo /\ loc'[p].cur = loc[p].cur
      BY <2>10 DEF Applies, Goes
    <3>2. ResultsOK(p)
      BY DEF CompleteInv
    <3>3. ResultsOK(p)'
      BY <3>1, <3>2 DEF ResultsOK, ItemDone, At, OnItem, BeforeStart
    <3> QED BY <3>1, <3>3, CompleteQuiet
  <2>11. CASE Records(p)
    <3> SUFFICES ASSUME NEW r, r = loc[p].run, NEW t, t = loc[p].cur,
                        NEW result, result = loc[p].result
                 PROVE  CompleteInv'
      OBVIOUS
    <3>1. /\ StepOf(p) /\ r \in Runs /\ t \in Targets
          /\ loc[p].pc = "exec_record" /\ loc'[p].run = r
          /\ loc'[p].pc = AfterItem(result)
          /\ loc'[p].todo = loc[p].todo /\ loc'[p].result = result
          /\ ItemWritten(r, t, result) /\ UNCHANGED runs
      BY <2>11 DEF Records, Goes
    <3>2. result \in Ended /\ HasStatus(r, "running")
      BY <3>1 DEF LoopInv, ExecutorOK, InLoop, At
    <3>3. \A u \in Targets \ loc[p].todo : u # t => ItemDone(r, u)
      BY <3>1 DEF CompleteInv, ResultsOK, OnItem
    <3>4. CASE result = "failed"
      <4>1. loc'[p].pc = "exec_finish"
        BY <3>1, <3>4 DEF AfterItem
      <4> QED BY <3>1, <3>4, <4>1, <3>2, CompleteStep
              DEF ResultsOK, At, OnItem, BeforeStart, ItemWritten, HasStatus,
                  ExecutionsApart, Executing, AfterCheck
    <3>5. CASE result # "failed"
      <4>1. loc'[p].pc = "exec_item" /\ result \in {"executed", "skipped"}
        BY <3>1, <3>2, <3>5 DEF AfterItem, Ended
      <4>2. \A u \in Targets \ loc'[p].todo : ItemDone(r, u)'
        BY <3>1, <3>3, <4>1 DEF ItemWritten, ItemDone
      <4>3. ResultsOK(p)'
        BY <3>1, <4>1, <4>2 DEF ResultsOK, ItemDone, At, OnItem, BeforeStart
      <4>4. ~ HasStatus(r, "executed")'
        BY <3>1, <3>2 DEF HasStatus
      <4>5. \A q \in Requests : q # p /\ loc[q].pc \in Executing => loc[q].run # r
        BY <3>1 DEF ExecutionsApart, Executing, AfterCheck
      <4> QED BY <3>1, <4>3, <4>4, <4>5, CompleteStep DEF ItemWritten
    <3> QED BY <3>4, <3>5
  <2>12. CASE Finishes(p)
    <3> SUFFICES ASSUME NEW r, r = loc[p].run PROVE CompleteInv'
      OBVIOUS
    <3>1. /\ StepOf(p) /\ r \in Runs /\ loc[p].pc = "exec_finish"
          /\ loc'[p].pc = "idle" /\ UNCHANGED items
          /\ runs'[r].status = FinalStatus(loc[p].result)
          /\ \A s \in Runs : s # r => runs'[s] = runs[s]
      BY <2>12 DEF Finishes, StatusWritten
    <3>2. HasStatus(r, "executed")' => \A t \in Targets : ItemDone(r, t)'
      BY <3>1 DEF HasStatus, FinalStatus, CompleteInv, ResultsOK, At, ItemDone
    <3>3. \A q \in Requests : q # p /\ loc[q].pc \in Executing => loc[q].run # r
      BY <3>1 DEF ExecutionsApart, Executing, AfterCheck
    <3> QED BY <3>1, <3>2, <3>3, NoResults, IdleAway, CompleteStep
  <2> QED BY <1>2, <2>1, <2>2, <2>3, <2>4, <2>5, <2>6, <2>7, <2>8, <2>9, <2>10,
             <2>11, <2>12 DEF RunStep
<1> QED BY <1>1, <1>2, StepCases

\* What the ledgers and the items say, in every behaviour.
LEMMA ToldInvariance == HSpec => [](IInv /\ ToldInv)
<1>1. HInit => IInv /\ ToldInv
  BY TypeInit, SafeInit, ToldInit DEF HInit, IInv
<1>2. IInv /\ ToldInv /\ [HNext]_hvars => (IInv /\ ToldInv)'
  BY HistoryOnly, TypeNext, SafeNext, ToldNext DEF IInv
<1> QED BY <1>1, <1>2, PTL DEF HSpec

\* In every such behaviour without lost updates.
LEMMA CompleteInvariance ==
  ASSUME ~ StatementFaults
  PROVE  HSpec /\ []DecisionsApart /\ []ExecutionsApart => []CompleteInv
<1>1. HInit => CompleteInv
  BY CompleteInit DEF HInit
<1>2. IInv /\ DecisionInv /\ LoopInv /\ CompleteInv /\ ExecutionsApart
        /\ [HNext]_hvars => CompleteInv'
  BY HistoryOnly, CompleteNext
<1> QED BY <1>1, <1>2, LoopInvariance, PTL DEF HSpec

\* A run in status executed is on each of its targets: all its items are
\* executed or skipped, and the ledgers have its checksum.  A status update
\* that is lost leaves an item behind, which is why none may be.
THEOREM ExecutedRunsApart ==
  ASSUME ~ StatementFaults
  PROVE  HSpec /\ []DecisionsApart /\ []ExecutionsApart
           => []ExecutedRunIsOnEveryTarget
<1>1. CompleteInv /\ ToldInv => ExecutedRunIsOnEveryTarget
  BY DEF CompleteInv, ToldInv, ItemsTold, ItemDone, ExecutedRunIsOnEveryTarget
<1> QED BY <1>1, CompleteInvariance, ToldInvariance, PTL

-----------------------------------------------------------------------------
(***************************************************************************)
(* Edits: no two of one migration in flight.                               *)
(***************************************************************************)

\* What a step does to the migrations: nothing,
NoEdit ==
  /\ UNCHANGED mig
  /\ \A q \in Requests :
       loc'[q] = loc[q] \/ loc'[q].pc \notin Editing

\* insert one,
Creates(m) ==
  /\ mig[m] = None /\ mig'[m] # None /\ mig'[m].version \in Nat
  /\ \A n \in Migrations : n # m => mig'[n] = mig[n]
  /\ UNCHANGED <<loc, runs>>

\* read one to edit it,
ReadsToEdit(p) ==
  /\ StepOf(p) /\ UNCHANGED <<mig, runs>>
  /\ loc'[p].pc = "update_write" /\ Pending(p)'

\* or write the row computed from the one that was read.
Writes(p, m) ==
  /\ StepOf(p) /\ UNCHANGED runs
  /\ loc[p].pc = "update_write" /\ m = loc[p].mig
  /\ mig'[m] = loc[p].row /\ loc[p].row # None /\ loc[p].row.version \in Nat
  /\ \A n \in Migrations : n # m => mig'[n] = mig[n]
  /\ IF loc[p].changed THEN loc'[p].pc = "update_purge" /\ loc'[p].mig = m
                       ELSE loc'[p].pc = "idle"

\* A request that goes where no edit is in hand.
LEMMA NoEditStep ==
  ASSUME TypeInv, NEW p \in Requests, NEW l, Becomes(p, l),
         l.pc \notin Editing, UNCHANGED mig
  PROVE  NoEdit
BY Moves DEF NoEdit, StepOf

\* A run step is no edit, and neither is a purge or the end of a request.
LEMMA NoEditCases ==
  ASSUME IInv, NEW p \in Requests
  PROVE  /\ UpdatePurge(p) \/ GiveUp(p) => NoEdit
         /\ \A active \in SUBSET Targets : RequestInsert(p, active) => NoEdit
         /\ \A m \in Migrations, type \in RunType, env \in Envs, set \in DBSets :
              RequestRead(p, m, type, env, set) => NoEdit
         /\ ApproveCheck(p) \/ ApproveCommit(p) \/ DenyCommit(p) => NoEdit
         /\ \A r \in Runs :
              ApproveRead(p, r) \/ DenyRead(p, r) \/ ExecuteRead(p, r) => NoEdit
         /\ ExecuteListItems(p) \/ ExecuteCheck(p) \/ ExecuteStart(p) => NoEdit
         /\ ItemStart(p) \/ ItemStartFails(p) => NoEdit
         /\ ApplyItem(p) \/ ItemRecord(p) => NoEdit
         /\ ItemsDone(p) \/ ExecuteFinish(p) => NoEdit
<1> USE DEF IInv, Editing
<1>1. loc[p] \in Local /\ Idle.pc = "idle"
  BY IdleAway DEF TypeInv, TypeOK
<1>2. ASSUME Done(p), UNCHANGED mig PROVE NoEdit
  BY <1>1, <1>2, NoEditStep DEF Done
<1>3. UpdatePurge(p) \/ GiveUp(p) => NoEdit
  BY <1>2 DEF UpdatePurge, GiveUp, toolDB
<1>4. \A active \in SUBSET Targets : RequestInsert(p, active) => NoEdit
  BY <1>2 DEF RequestInsert
<1>5. ASSUME NEW m \in Migrations, NEW type \in RunType, NEW env \in Envs,
             NEW set \in DBSets, RequestRead(p, m, type, env, set)
      PROVE  NoEdit
  <2> DEFINE draft == RequestedRun(m, type, env, set)
  <2> HIDE DEF draft
  <2>1. PICK r \in Runs :
          Becomes(p, [Idle EXCEPT !.pc = "request_insert", !.run = r,
                                  !.draft = draft])
    BY <1>5 DEF RequestRead, draft
  <2> DEFINE l == [Idle EXCEPT !.pc = "request_insert", !.run = r,
                               !.draft = draft]
  <2>2. l.pc = "request_insert"
    BY DEF Idle
  <2> QED BY <1>5, <2>1, <2>2, NoEditStep DEF RequestRead, toolDB
<1>6. ASSUME ApproveCheck(p) \/ ExecuteCheck(p) PROVE NoEdit
  <2> DEFINE row == mig[runs[loc[p].run].mig]
             a == [loc[p] EXCEPT !.pc = "approve_commit", !.row = row]
             e == [loc[p] EXCEPT !.pc = "exec_start", !.row = row]
  <2>1. UNCHANGED mig /\ (Becomes(p, a) \/ Becomes(p, e) \/ Done(p))
    BY <1>6 DEF ApproveCheck, ExecuteCheck, toolDB
  <2> HIDE DEF row
  <2>2. a.pc = "approve_commit" /\ e.pc = "exec_start"
    BY <1>1 DEF Local
  <2> QED BY <1>2, <2>1, <2>2, NoEditStep
<1>7. ApproveCommit(p) \/ DenyCommit(p) \/ ExecuteFinish(p) => NoEdit
  BY <1>2 DEF ApproveCommit, DenyCommit, ExecuteFinish
<1>8. ASSUME NEW r \in Runs, ApproveRead(p, r) \/ DenyRead(p, r) \/ ExecuteRead(p, r)
      PROVE  NoEdit
  <2>1. PICK label \in {"approve_check", "deny_commit", "exec_items"} :
          Becomes(p, [Idle EXCEPT !.pc = label, !.run = r])
    BY <1>8 DEF ApproveRead, DenyRead, ExecuteRead
  <2> DEFINE l == [Idle EXCEPT !.pc = label, !.run = r]
  <2>2. l.pc = label
    BY DEF Idle
  <2> QED BY <1>8, <2>1, <2>2, NoEditStep
          DEF ApproveRead, DenyRead, ExecuteRead, toolDB
<1>9. ASSUME ExecuteListItems(p) \/ ExecuteStart(p) \/ ItemStartFails(p)
               \/ ItemsDone(p) \/ ItemStart(p) \/ ApplyItem(p) \/ ItemRecord(p)
      PROVE  NoEdit
  <2>1. UNCHANGED mig
    BY <1>9 DEF ExecuteListItems, ExecuteStart, ItemStartFails, ItemsDone,
       ItemStart, ApplyItem, ItemRecord, toolDB
  <2>2. StepOf(p)
    BY <1>9, Moves DEF ExecuteListItems, ExecuteStart, ItemStartFails, ItemsDone,
       ItemStart, ApplyItem, ItemRecord
  <2>3. loc'[p].pc \in Executing
    BY <1>9, OpeningCases, ItemCases, ApplyCase
    DEF Lists, Starts, LeavesLoop, StartsItem, Applies, Records, Goes, AfterItem,
        Executing, BeforeStart, AfterCheck
  <2> QED BY <2>1, <2>2, <2>3
          DEF NoEdit, StepOf, Executing, BeforeStart, AfterCheck
<1> QED BY <1>3, <1>4, <1>5, <1>6, <1>7, <1>8, <1>9

\* Every step is no edit, or one of these three.
LEMMA EditCases ==
  IInv /\ [Next]_vars =>
    \/ NoEdit
    \/ \E m \in Migrations : Creates(m)
    \/ \E p \in Requests :
         ReadsToEdit(p) \/ \E m \in Migrations : UpdateWrite(p) /\ Writes(p, m)
<1> SUFFICES ASSUME IInv, [Next]_vars
             PROVE  \/ NoEdit
                    \/ \E m \in Migrations : Creates(m)
                    \/ \E p \in Requests :
                         \/ ReadsToEdit(p)
                         \/ \E m \in Migrations : UpdateWrite(p) /\ Writes(p, m)
  OBVIOUS
<1> USE DEF IInv
<1>1. ASSUME NEW m \in Migrations, NEW up \in Scripts,
             NEW down \in DownScripts \cup {None}, CreateMigration(m, up, down)
      PROVE  Creates(m)
  <2> DEFINE row == MigrationRowOf(up, down, 1)
  <2>1. row \in MigrationRow /\ row # None
    BY MigrationRowOfType, BoundAssumption, NoneAssumption
  <2>2. mig' = [mig EXCEPT ![m] = row] /\ mig[m] = None /\ UNCHANGED <<loc, runs>>
    BY <1>1 DEF CreateMigration
  <2> HIDE DEF row
  <2> QED BY <2>1, <2>2 DEF Creates, MigrationRow, TypeInv, TypeOK
<1>2. ASSUME NEW p \in Requests, NEW m \in Migrations, NEW up \in Scripts,
             NEW down \in DownScripts \cup {None}, UpdateRead(p, m, up, down)
      PROVE  ReadsToEdit(p)
  <2> DEFINE row == EditedRow(mig[m], up, down)
             changed == SqlChanged(mig[m], up, down)
             l == [Idle EXCEPT !.pc = "update_write", !.mig = m, !.row = row,
                               !.changed = changed]
  <2>1. Becomes(p, l) /\ UNCHANGED <<mig, runs>> /\ mig[m] # None
    BY <1>2 DEF UpdateRead, toolDB
  <2>2. IF changed THEN /\ row.version = mig[m].version + 1
                        /\ SqlChanged(mig[m], row.up, row.down)
                   ELSE row = mig[m]
    BY DEF EditedRow, MigrationRowOf, SqlChanged
  <2>3. changed \in BOOLEAN
    BY DEF SqlChanged
  <2> HIDE DEF row, changed
  <2>4. loc'[p] = l /\ StepOf(p)
    BY <2>1, Moves
  <2>5. /\ loc'[p].pc = "update_write" /\ loc'[p].mig = m /\ loc'[p].row = row
        /\ loc'[p].changed = changed
    BY <2>4 DEF Idle
  <2>6. Pending(p)'
    BY <2>1, <2>2, <2>3, <2>5 DEF Pending, At, SqlChanged
  <2> QED BY <2>1, <2>4, <2>5, <2>6 DEF ReadsToEdit
<1>3. ASSUME NEW p \in Requests, UpdateWrite(p)
      PROVE  \E m \in Migrations : UpdateWrite(p) /\ Writes(p, m)
  <2> DEFINE row == loc[p].row
  <2> SUFFICES ASSUME NEW m, m = loc[p].mig PROVE m \in Migrations /\ Writes(p, m)
    BY <1>3
  <2>1. /\ m \in Migrations /\ row \in MigrationRow /\ row # None
        /\ loc[p] \in Local /\ loc[p].pc = "update_write"
    BY <1>3 DEF UpdateWrite, At, Holds, TypeInv, TypeOK, Local
  <2>2. mig' = [mig EXCEPT ![m] = row] /\ UNCHANGED runs
    BY <1>3 DEF UpdateWrite
  <2>3. /\ StepOf(p)
        /\ loc'[p] = IF loc[p].changed
                     THEN [loc[p] EXCEPT !.pc = "update_purge"] ELSE Idle
    BY <1>3, Moves DEF UpdateWrite
  <2>4. IF loc[p].changed THEN loc'[p].pc = "update_purge" /\ loc'[p].mig = m
                          ELSE loc'[p].pc = "idle"
    BY <2>1, <2>3, IdleAway DEF Local
  <2> QED BY <2>1, <2>2, <2>3, <2>4 DEF Writes, MigrationRow, TypeInv, TypeOK
<1>4. ASSUME UNCHANGED vars PROVE NoEdit
  BY <1>4 DEF vars, toolDB, NoEdit
<1>5. ASSUME NEW p \in Requests, Begin(p) PROVE NoEdit \/ ReadsToEdit(p)
  BY <1>2, <1>5, NoEditCases DEF Begin
<1>6. ASSUME NEW p \in Requests, Continue(p)
      PROVE  NoEdit \/ \E m \in Migrations : UpdateWrite(p) /\ Writes(p, m)
  <2>1. CASE UpdateWrite(p)
    BY <1>3, <2>1
  <2>2. CASE \E active \in SUBSET Targets : RequestInsert(p, active)
    BY <2>2, NoEditCases
  <2>3. CASE UpdatePurge(p) \/ ApproveCheck(p) \/ ApproveCommit(p) \/ DenyCommit(p)
    BY <2>3, NoEditCases
  <2>4. CASE \/ ExecuteListItems(p) \/ ExecuteCheck(p) \/ ExecuteStart(p)
             \/ ItemStart(p) \/ ItemStartFails(p) \/ ApplyItem(p) \/ ItemRecord(p)
             \/ ItemsDone(p) \/ ExecuteFinish(p)
    BY <2>4, NoEditCases
  <2> QED BY <1>6, <2>1, <2>2, <2>3, <2>4 DEF Continue
<1>7. ASSUME NEW p \in Requests, GiveUp(p) PROVE NoEdit
  BY <1>7, NoEditCases
<1>8. CASE Next
  BY <1>1, <1>5, <1>6, <1>7, <1>8 DEF Next
<1> QED BY <1>4, <1>8

\* Rows of migrations advance by one version, or stay.
Advances ==
  \A m \in Migrations : mig[m] # None =>
    mig'[m] # None /\ (mig'[m] = mig[m] \/ mig'[m].version = mig[m].version + 1)

\* As versions advance by one, none is given to two texts.
LEMMA PublishedNext ==
  ASSUME IInv, IInv', Advances, \A a \in published : Revised(a), VersionNamesOneSql,
         published' = published \cup
           {Revision(m, mig'[m]) : m \in {n \in Migrations : mig'[n] # None}}
  PROVE  (\A a \in published' : Revised(a)') /\ VersionNamesOneSql'
<1>0. \A m \in Migrations :
        /\ mig[m] # None => mig[m].version \in Nat
        /\ mig'[m] # None => mig'[m].version \in Nat
  BY DEF IInv, TypeInv, TypeOK, MigrationRow
<1>1. ASSUME NEW a \in published
      PROVE  /\ Revised(a)'
             /\ mig'[a.mig] # None
             /\ a.version = mig'[a.mig].version =>
                  a.up = mig'[a.mig].up /\ a.down = mig'[a.mig].down
  BY <1>0, <1>1 DEF Revised, Advances
<1>2. ASSUME NEW m \in Migrations, mig'[m] # None, NEW a, a = Revision(m, mig'[m])
      PROVE  /\ a.mig = m /\ a.version = mig'[m].version /\ a.up = mig'[m].up
             /\ a.down = mig'[m].down /\ Revised(a)'
  <2>1. /\ a.mig = m /\ a.version = mig'[m].version /\ a.up = mig'[m].up
        /\ a.down = mig'[m].down
    BY <1>2 DEF Revision
  <2> QED BY <1>0, <1>2, <2>1 DEF Revised
<1>3. ASSUME NEW a \in published'
      PROVE  a \in published \/ \E m \in Migrations :
               mig'[m] # None /\ a = Revision(m, mig'[m])
  BY <1>3
<1>4. \A a \in published' : Revised(a)'
  BY <1>1, <1>2, <1>3
<1>5. ASSUME NEW a \in published', NEW b \in published',
             a.mig = b.mig, a.version = b.version
      PROVE  a.up = b.up /\ a.down = b.down
  <2>1. CASE a \in published /\ b \in published
    BY <1>5, <2>1 DEF VersionNamesOneSql
  <2>2. CASE a \in published /\ b \notin published
    BY <1>1, <1>2, <1>3, <1>5, <2>2
  <2>3. CASE a \notin published /\ b \in published
    BY <1>1, <1>2, <1>3, <1>5, <2>3
  <2>4. CASE a \notin published /\ b \notin published
    BY <1>2, <1>3, <1>5, <2>4
  <2> QED BY <2>1, <2>2, <2>3, <2>4
<1> QED BY <1>4, <1>5 DEF VersionNamesOneSql

\* The edits in flight stay pending, and rows advance.
LEMMA PendingNext ==
  ASSUME IInv, \A p \in Requests : Pending(p), EditsApart, [Next]_vars
  PROVE  (\A p \in Requests : Pending(p)') /\ Advances
<1>0. \A q \in Requests : loc[q].pc \in Editing => loc[q].mig \in Migrations
  BY DEF IInv, TypeInv, Holds, Editing
<1>1. CASE NoEdit
  <2>1. ASSUME NEW q \in Requests PROVE Pending(q)'
    BY <1>1 DEF NoEdit, Pending, At, Editing, SqlChanged
  <2> QED BY <1>1, <2>1 DEF NoEdit, Advances
<1>2. ASSUME NEW m \in Migrations, Creates(m)
      PROVE  (\A p \in Requests : Pending(p)') /\ Advances
  <2>1. ASSUME NEW q \in Requests PROVE Pending(q)'
    BY <1>0, <1>2 DEF Creates, Pending, At, Editing, SqlChanged
  <2> QED BY <1>2, <2>1 DEF Creates, Advances
<1>3. ASSUME NEW p \in Requests, ReadsToEdit(p)
      PROVE  (\A q \in Requests : Pending(q)') /\ Advances
  <2>1. ASSUME NEW q \in Requests PROVE Pending(q)'
    <3>1. CASE q = p
      BY <1>3, <3>1 DEF ReadsToEdit
    <3>2. CASE q # p
      BY <1>3, <3>2 DEF ReadsToEdit, StepOf, Pending, At, SqlChanged
    <3> QED BY <3>1, <3>2
  <2> QED BY <1>3, <2>1 DEF ReadsToEdit, Advances
<1>4. ASSUME NEW p \in Requests, NEW m \in Migrations, Writes(p, m)
      PROVE  (\A q \in Requests : Pending(q)') /\ Advances
  <2>1. ASSUME NEW q \in Requests PROVE Pending(q)'
    <3>1. CASE q = p
      BY <1>4, <3>1 DEF Writes, Pending, At
    <3>2. CASE q # p
      <4>1. loc'[q] = loc[q]
        BY <1>4, <3>2 DEF Writes, StepOf
      <4>2. loc[q].pc = "update_write" =>
              loc[q].mig # m /\ mig'[loc[q].mig] = mig[loc[q].mig]
        BY <1>0, <1>4, <3>2 DEF Writes, EditsApart, Editing
      <4> QED BY <4>1, <4>2 DEF Pending, At, SqlChanged
    <3> QED BY <3>1, <3>2
  <2>2. Advances
    BY <1>4 DEF Writes, Pending, At, Advances
  <2> QED BY <2>1, <2>2
<1> QED BY <1>1, <1>2, <1>3, <1>4, EditCases

\* Every step keeps versions and texts together.
LEMMA RevisionNext ==
  IInv /\ RevisionInv /\ EditsApart /\ [HNext]_hvars => RevisionInv'
<1> SUFFICES ASSUME IInv, RevisionInv, EditsApart, [HNext]_hvars
             PROVE  RevisionInv'
  OBVIOUS
<1>1. CASE UNCHANGED hvars
  BY <1>1 DEF hvars, vars, toolDB, RevisionInv, Pending, At, Revised,
     VersionNamesOneSql, SqlChanged
<1>2. CASE HNext
  <2>1. (\A p \in Requests : Pending(p)') /\ Advances
    BY HistoryOnly, PendingNext DEF RevisionInv
  <2>2. IInv'
    BY HistoryOnly, TypeNext, SafeNext DEF IInv
  <2>3. (\A a \in published' : Revised(a)') /\ VersionNamesOneSql'
    BY <1>2, <2>1, <2>2, PublishedNext DEF HNext, Observe, RevisionInv
  <2> QED BY <2>1, <2>3 DEF RevisionInv
<1> QED BY <1>1, <1>2

\* In every behaviour without overlapping edits.
LEMMA RevisionInvariance == HSpec /\ []EditsApart => [](IInv /\ RevisionInv)
<1>1. HInit => IInv /\ RevisionInv
  <2>1. HInit => IInv
    BY TypeInit, SafeInit DEF HInit, IInv
  <2>2. HInit => RevisionInv
    BY IdleAway DEF HInit, Init, RevisionInv, Pending, At, VersionNamesOneSql
  <2> QED BY <2>1, <2>2
<1>2. IInv /\ RevisionInv /\ EditsApart /\ [HNext]_hvars => (IInv /\ RevisionInv)'
  BY HistoryOnly, TypeNext, SafeNext, RevisionNext DEF IInv
<1> QED BY <1>1, <1>2, PTL DEF HSpec

\* A version names one SQL text as long as no two edits of the migration are
\* in flight: runs, decisions and executions may interleave with the edit.
THEOREM VersionNamesOneSqlApart == HSpec /\ []EditsApart => []VersionNamesOneSql
<1>1. RevisionInv => VersionNamesOneSql
  BY DEF RevisionInv
<1> QED BY <1>1, RevisionInvariance, PTL

-----------------------------------------------------------------------------
(***************************************************************************)
(* Approvals on record: none is committed while its migration is edited.   *)
(* The edits themselves may overlap.                                       *)
(***************************************************************************)

\* Only a purge takes approvals away, those of its own migration.
LEMMA ApprovalsStay ==
  ASSUME [Next]_vars
  PROVE  \/ approvals \subseteq approvals'
         \/ \E p \in Requests : UpdatePurge(p)
<1>1. ASSUME NEW p \in Requests, Begin(p) PROVE UNCHANGED approvals
  BY <1>1 DEF Begin, UpdateRead, RequestRead, ApproveRead, DenyRead, ExecuteRead,
     toolDB
<1>2. ASSUME NEW p \in Requests, Continue(p), ~ UpdatePurge(p)
      PROVE  approvals \subseteq approvals'
  <2>1. CASE \E active \in SUBSET Targets : RequestInsert(p, active)
    BY <2>1 DEF RequestInsert
  <2>2. CASE ApproveCommit(p) \/ DenyCommit(p)
    BY <2>2 DEF ApproveCommit, DenyCommit, Decide
  <2>3. CASE UpdateWrite(p) \/ ApproveCheck(p)
    BY <2>3 DEF UpdateWrite, ApproveCheck, toolDB
  <2>4. CASE \/ ExecuteListItems(p) \/ ExecuteCheck(p) \/ ExecuteStart(p)
             \/ ItemStart(p) \/ ItemStartFails(p) \/ ApplyItem(p) \/ ItemRecord(p)
             \/ ItemsDone(p) \/ ExecuteFinish(p)
    BY <2>4 DEF ExecuteListItems, ExecuteCheck, ExecuteStart, ItemStart,
       ItemStartFails, ApplyItem, ItemRecord, ItemsDone, ExecuteFinish, toolDB
  <2> QED BY <1>2, <2>1, <2>2, <2>3, <2>4 DEF Continue
<1>3. ASSUME NEW p \in Requests, GiveUp(p) PROVE UNCHANGED approvals
  BY <1>3 DEF GiveUp, toolDB
<1>4. ASSUME NEW m \in Migrations, NEW up \in Scripts,
             NEW down \in DownScripts \cup {None}, CreateMigration(m, up, down)
      PROVE  UNCHANGED approvals
  BY <1>4 DEF CreateMigration
<1>5. UNCHANGED vars => UNCHANGED approvals
  BY DEF vars, toolDB
<1> QED BY <1>1, <1>2, <1>3, <1>4, <1>5 DEF Next

\* Only a committed approval makes a run approved.
LEMMA ApprovedBefore ==
  ASSUME IInv, [Next]_vars, NEW r \in Runs, HasStatus(r, "approved")',
         ~ Approves(r)
  PROVE  HasStatus(r, "approved") /\ runs'[r] = runs[r]
<1>1. CASE Away
  BY <1>1 DEF Away, HasStatus
<1>2. ASSUME NEW p \in Requests, RunStep(p)
      PROVE  HasStatus(r, "approved") /\ runs'[r] = runs[r]
  <2>1. ASSUME NEW s \in Runs, NewRun(p, s) PROVE runs'[r] = runs[r]
    BY <2>1 DEF NewRun, HasStatus
  <2>2. CASE ApproveCommit(p) /\ Commits(p, "approve_commit", "approved")
    BY <2>2 DEF Approves, Commits, StatusWritten, HasStatus
  <2>3. CASE \/ Commits(p, "deny_commit", "denied") \/ Starts(p) \/ Finishes(p)
    BY <2>3 DEF Commits, Starts, Finishes, StatusWritten, FinalStatus, HasStatus
  <2>4. CASE \/ \E s \in Runs : TakesUp(p, s) \/ Opens(p, s)
             \/ Ready(p) \/ Lists(p) \/ Checks(p) \/ LeavesLoop(p) \/ Applies(p)
             \/ Records(p) \/ \E t \in Targets : StartsItem(p, t)
    BY <2>4 DEF TakesUp, Opens, Ready, Lists, Checks, LeavesLoop, Applies,
       Records, StartsItem, HasStatus
  <2> QED BY <1>2, <2>1, <2>2, <2>3, <2>4 DEF RunStep, HasStatus
<1> QED BY <1>1, <1>2, StepCases

\* What an approval leaves on record is what the run asked for.
LEMMA ApprovalRecorded ==
  ASSUME IInv, NEW r \in Runs, Approves(r)
  PROVE  [mig |-> runs'[r].mig, env |-> runs'[r].env, decision |-> "approved",
          sumUp |-> runs'[r].sumUp, sumDown |-> runs'[r].sumDown] \in approvals'
<1>1. PICK p \in Requests : loc[p].run = r /\ ApproveCommit(p)
  BY DEF Approves
<1>2. StatusWritten(r, "approved") /\ runs[r] # None
  BY <1>1, DecisionCases DEF Commits
<1>3. /\ runs'[r].mig = runs[r].mig /\ runs'[r].env = runs[r].env
      /\ runs'[r].sumUp = runs[r].sumUp /\ runs'[r].sumDown = runs[r].sumDown
  BY <1>2 DEF StatusWritten, RunsStay
<1>4. [mig |-> runs[r].mig, env |-> runs[r].env, decision |-> "approved",
       sumUp |-> runs[r].sumUp, sumDown |-> runs[r].sumDown] \in approvals'
  BY <1>1 DEF ApproveCommit, Decide
<1> QED BY <1>3, <1>4

\* While an edit is in flight, its approvals that are outdated stay so, and
\* whoever writes other SQL outdates them all.
LEMMA StaleStays ==
  ASSUME IInv, ApprovalsApart, [Next]_vars,
         stale' = {r \in Runs : Outdates(r) \/ (r \in stale /\ ~ Approves(r))},
         NEW q \in Requests, loc[q].pc \in Editing, NEW m, m = loc[q].mig,
         AllStale(m) \/ SqlChanged(mig[m], mig'[m].up, mig'[m].down)
  PROVE  AllStale(m)'
<1> SUFFICES ASSUME NEW r \in Runs, HasStatus(r, "approved")', runs'[r].mig = m
             PROVE  r \in stale'
  BY DEF AllStale
<1>1. ~ Approves(r)
  <2> SUFFICES ASSUME Approves(r) PROVE FALSE
    OBVIOUS
  <2>1. PICK p \in Requests :
          loc[p].run = r /\ Commits(p, "approve_commit", "approved")
    BY CommitsOnly
  <2>2. runs[r].mig # m
    BY <2>1 DEF Commits, At, ApprovalsApart
  <2>3. runs'[r].mig = runs[r].mig
    BY <2>1 DEF Commits, StatusWritten, RunsStay
  <2> QED BY <2>2, <2>3
<1>2. HasStatus(r, "approved") /\ runs'[r] = runs[r]
  BY <1>1, ApprovedBefore
<1>3. r \in stale \/ SqlChanged(mig[m], mig'[m].up, mig'[m].down)
  BY <1>2 DEF AllStale
<1> QED BY <1>1, <1>2, <1>3 DEF Outdates, HasStatus

\* A purge finds only approvals that are outdated.
LEMMA RecordNext ==
  IInv /\ RecordInv /\ ApprovalsApart /\ [HNext]_hvars => RecordInv'
<1> SUFFICES ASSUME IInv, RecordInv, ApprovalsApart, [HNext]_hvars
             PROVE  RecordInv'
  OBVIOUS
<1>1. CASE UNCHANGED hvars
  BY <1>1 DEF hvars, vars, toolDB, RecordInv, ApprovalOnRecord, Outdating,
     AllStale, SqlChanged, HasStatus, At
<1>2. CASE HNext
  <2>0. /\ [Next]_vars
        /\ stale' = {r \in Runs : Outdates(r) \/ (r \in stale /\ ~ Approves(r))}
    BY <1>2 DEF HNext, Observe
  <2>1. ApprovalOnRecord'
    <3> SUFFICES ASSUME NEW r \in Runs, HasStatus(r, "approved")', r \notin stale'
                 PROVE  [mig |-> runs'[r].mig, env |-> runs'[r].env,
                         decision |-> "approved", sumUp |-> runs'[r].sumUp,
                         sumDown |-> runs'[r].sumDown] \in approvals'
      BY DEF ApprovalOnRecord
    <3>1. CASE Approves(r)
      BY <3>1, ApprovalRecorded
    <3>2. CASE ~ Approves(r)
      <4>1. HasStatus(r, "approved") /\ runs'[r] = runs[r] /\ r \notin stale
        BY <2>0, <3>2, ApprovedBefore
      <4> DEFINE row == [mig |-> runs[r].mig, env |-> runs[r].env,
                         decision |-> "approved", sumUp |-> runs[r].sumUp,
                         sumDown |-> runs[r].sumDown]
      <4>2. row \in approvals /\ row.mig = runs[r].mig
        BY <4>1 DEF RecordInv, ApprovalOnRecord
      <4> HIDE DEF row
      <4>3. row \in approvals'
        <5>1. ASSUME NEW p \in Requests, UpdatePurge(p) PROVE row \in approvals'
          <6>1. runs[r].mig # loc[p].mig
            BY <4>1, <5>1 DEF UpdatePurge, RecordInv, Outdating, AllStale
          <6> QED BY <4>2, <5>1, <6>1 DEF UpdatePurge
        <5> QED BY <2>0, <4>2, <5>1, ApprovalsStay
      <4> QED BY <4>1, <4>3 DEF row
    <3> QED BY <3>1, <3>2
  <2>2. ASSUME NEW q \in Requests PROVE Outdating(q)'
    <3> SUFFICES ASSUME NEW m, m = loc[q].mig PROVE Outdating(q)'
      OBVIOUS
    <3> DEFINE Other == SqlChanged(mig[m], mig'[m].up, mig'[m].down)
    <3>1. loc[q].pc \in Editing /\ (AllStale(m) \/ Other) => AllStale(m)'
      BY <2>0, StaleStays
    <3>2. CASE loc'[q] = loc[q]
      <4>1. Outdating(q)
        BY DEF RecordInv
      <4>2. CASE At(q, "update_purge")
        <5>1. AllStale(m)'
          BY <3>1, <4>1, <4>2 DEF Outdating, At, Editing
        <5> QED BY <3>2, <4>2, <5>1 DEF Outdating, At, AllStale
      <4>3. CASE At(q, "update_write") /\ loc[q].changed
        <5> DEFINE Differs == SqlChanged(mig[m], loc[q].row.up, loc[q].row.down)
        <5>1. AllStale(m) \/ Differs
          BY <4>1, <4>3 DEF Outdating
        <5>2. Differs => Other \/ SqlChanged(mig'[m], loc[q].row.up, loc[q].row.down)
          BY DEF SqlChanged
        <5>3. \/ AllStale(m)'
              \/ SqlChanged(mig'[m], loc[q].row.up, loc[q].row.down)
          BY <3>1, <4>3, <5>1, <5>2 DEF At, Editing
        <5> QED BY <3>2, <4>3, <5>3 DEF Outdating, At, AllStale, SqlChanged
      <4> QED BY <3>2, <4>2, <4>3 DEF Outdating, At
    <3>3. CASE loc'[q] # loc[q]
      <4>1. CASE NoEdit
        BY <3>3, <4>1 DEF NoEdit, Editing, Outdating, At
      <4>2. ASSUME NEW n \in Migrations, Creates(n) PROVE FALSE
        BY <3>3, <4>2 DEF Creates
      <4>3. ASSUME NEW p \in Requests, ReadsToEdit(p) PROVE Outdating(q)'
        <5>1. q = p
          BY <3>3, <4>3 DEF ReadsToEdit, StepOf
        <5> QED BY <4>3, <5>1 DEF ReadsToEdit, Pending, Outdating, At
      <4>4. ASSUME NEW p \in Requests, NEW n \in Migrations, Writes(p, n)
            PROVE  Outdating(q)'
        <5>1. q = p /\ n = m
          BY <3>3, <4>4 DEF Writes, StepOf
        <5>2. loc[q].changed => AllStale(m)'
          BY <3>1, <4>4, <5>1 DEF Writes, RecordInv, Outdating, At, Editing
        <5>3. /\ loc[q].changed => loc'[q].pc = "update_purge" /\ loc'[q].mig = m
              /\ ~ loc[q].changed => loc'[q].pc = "idle"
          BY <4>4, <5>1 DEF Writes
        <5> QED BY <5>2, <5>3 DEF Outdating, At, AllStale
      <4> QED BY <2>0, <4>1, <4>2, <4>3, <4>4, EditCases
    <3> QED BY <3>2, <3>3
  <2> QED BY <2>1, <2>2 DEF RecordInv
<1> QED BY <1>1, <1>2

\* An approved run whose migration has kept its SQL has its approval in the
\* table: purges take only approvals that an edit has outdated.
THEOREM ApprovalOnRecordApart == HSpec /\ []ApprovalsApart => []ApprovalOnRecord
<1>1. HInit => IInv /\ RecordInv
  BY TypeInit, SafeInit, IdleAway
  DEF HInit, IInv, Init, RecordInv, ApprovalOnRecord, HasStatus, Outdating, At
<1>2. IInv /\ RecordInv /\ ApprovalsApart /\ [HNext]_hvars => (IInv /\ RecordInv)'
  BY HistoryOnly, TypeNext, SafeNext, RecordNext DEF IInv
<1>3. RecordInv => ApprovalOnRecord
  BY DEF RecordInv
<1> QED BY <1>1, <1>2, <1>3, PTL DEF HSpec

-----------------------------------------------------------------------------
(***************************************************************************)
(* One request at a time: nothing overlaps.                                *)
(***************************************************************************)

\* A request does not overlap with itself.
LEMMA Alone ==
  ASSUME \A p, q \in Requests : p = q
  PROVE  /\ EditsApart /\ DecisionsApart /\ ExecutionsApart
         /\ ApprovalsApart /\ EditsApartFromExecutions
<1>1. EditsApart /\ DecisionsApart /\ ExecutionsApart
  BY DEF EditsApart, DecisionsApart, ExecutionsApart
<1>2. \A p \in Requests :
        loc[p].pc \in Editing =>
          ~ At(p, "approve_commit") /\ loc[p].pc \notin Executing
  BY DEF Editing, At, Executing, BeforeStart, AfterCheck
<1> QED BY <1>1, <1>2 DEF ApprovalsApart, EditsApartFromExecutions

\* All of it, for a server that handles its requests one after the other:
\* whatever they are, and wherever each of them is cut off.
THEOREM OneRequestAtATime ==
  ASSUME \A p, q \in Requests : p = q
  PROVE  HSpec =>
           /\ [](VersionNamesOneSql /\ ApprovalOnRecord /\ DecidedOnce)
           /\ []NothingAfterFirstFailure
           /\ StatusFollowsLifecycle
<1>1. EditsApart /\ DecisionsApart /\ ExecutionsApart /\ ApprovalsApart
  BY Alone
<1> QED BY <1>1, VersionNamesOneSqlApart, ApprovalOnRecordApart, DecidedOnceApart,
           NothingAfterFirstFailureApart, StatusFollowsLifecycleApart, PTL
=============================================================================

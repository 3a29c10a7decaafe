------------------------- MODULE ApprovalGateProofs -------------------------
(***************************************************************************)
(* RunLifecycle implements ApprovalGate: an insert of a run asks, a commit *)
(* of an approval grants, an item that leaves SQL on its target acts, and  *)
(* every other step leaves what ApprovalGate sees as it is.                *)
(***************************************************************************)
EXTENDS RunLifecycleProofs

\* The checksum of a script leads back to it.
LEMMA TextOfChecksum ==
  ASSUME NEW s \in Scripts
  PROVE  TextOf(Checksum(s)) = s
<1> DEFINE P(u) == u \in Scripts /\ Checksum(u) = Checksum(s)
<1>1. \A u : P(u) <=> u = s
  BY ChecksumAssumption
<1>2. TextOf(Checksum(s)) = CHOOSE u \in Scripts : Checksum(u) = Checksum(s)
  BY DEF TextOf
<1>3. (CHOOSE u \in Scripts : Checksum(u) = Checksum(s)) \in Scripts
  BY <1>1
<1>4. Checksum(CHOOSE u \in Scripts : Checksum(u) = Checksum(s)) = Checksum(s)
  BY <1>1
<1> QED BY <1>1, <1>2, <1>3, <1>4

\* What an existing run asks for.
LEMMA AskedRun ==
  ASSUME TypeInv, NEW r \in Runs, runs[r] # None
  PROVE  /\ AskedRuns[r].mig = runs[r].mig
         /\ AskedRuns[r].env = runs[r].env
         /\ AskedRuns[r].up = TextOf(runs[r].sumUp)
         /\ AskedRuns[r].targets = {t \in Targets : items[r][t] # None}
         /\ AskedRuns[r] \in Gate!Request
         /\ AskedRuns[r] # None
<1> DEFINE text == TextOf(runs[r].sumUp)
           covered == {t \in Targets : items[r][t] # None}
           row == [mig |-> runs[r].mig, env |-> runs[r].env, up |-> text,
                   targets |-> covered]
<1>1. runs[r] \in RunRow
  BY DEF TypeInv, TypeOK
<1>2. PICK s \in Scripts : runs[r].sumUp = Checksum(s)
  BY <1>1 DEF RunRow, UpSums
<1>3. text \in Scripts
  BY <1>2, TextOfChecksum
<1>4. AskedRuns[r] = row
  BY DEF AskedRuns
<1> HIDE DEF text, covered
<1>5. covered \in SUBSET Targets
  BY DEF covered
<1>6. row \in Gate!Request
  BY <1>1, <1>3, <1>5 DEF Gate!Request, RunRow
<1>7. /\ row.mig = runs[r].mig /\ row.env = runs[r].env
      /\ row.up = text /\ row.targets = covered
  OBVIOUS
<1> QED BY <1>4, <1>6, <1>7, NoRequestAssumption DEF text, covered

\* A step that takes nothing away, and creates no run and no item.
SameRequests ==
  /\ Kept
  /\ \A r \in Runs : runs'[r] # None => runs[r] # None
  /\ \A r \in Runs, t \in Targets : items'[r][t] # None => items[r][t] # None

\* It leaves all requests as they are.
LEMMA AskedKept ==
  ASSUME SameRequests
  PROVE  AskedRuns' = AskedRuns
<1> SUFFICES ASSUME NEW r \in Runs
             PROVE  (IF runs[r] = None THEN None
                     ELSE [mig |-> runs[r].mig, env |-> runs[r].env,
                           up |-> TextOf(runs[r].sumUp),
                           targets |-> {t \in Targets : items[r][t] # None}])'
                    = IF runs[r] = None THEN None
                      ELSE [mig |-> runs[r].mig, env |-> runs[r].env,
                            up |-> TextOf(runs[r].sumUp),
                            targets |-> {t \in Targets : items[r][t] # None}]
  BY DEF AskedRuns
<1>1. CASE runs[r] = None
  BY <1>1 DEF SameRequests
<1>2. CASE runs[r] # None
  <2>1. /\ runs'[r] # None /\ runs'[r].mig = runs[r].mig
        /\ runs'[r].env = runs[r].env /\ runs'[r].sumUp = runs[r].sumUp
    BY <1>2 DEF SameRequests, Kept
  <2>2. \A t \in Targets : items'[r][t] # None <=> items[r][t] # None
    BY DEF SameRequests, Kept
  <2>3. TextOf(runs[r].sumUp)' = TextOf(runs[r].sumUp)
    BY <2>1 DEF TextOf
  <2> QED BY <1>2, <2>1, <2>2, <2>3
<1> QED BY <1>1, <1>2

\* The text of a granted run is granted, as ApprovalGate writes it.
LEMMA GrantedPasses ==
  ASSUME TypeInv, NEW r \in Runs, runs[r] # None, Granted(r)
  PROVE  Gate!Pass(r) \in grants
<1>1. PICK g \in grants : /\ g.run = r /\ g.mig = runs[r].mig
                          /\ g.env = runs[r].env
                          /\ Checksum(g.up) = runs[r].sumUp
  BY DEF Granted
<1>2. g \in Grant
  BY DEF TypeInv, TypeOK
<1>3. TextOf(runs[r].sumUp) = g.up
  BY <1>1, <1>2, TextOfChecksum DEF Grant
<1>4. Gate!Pass(r) =
        [run |-> r, mig |-> runs[r].mig, env |-> runs[r].env, up |-> g.up]
  <2>1. /\ AskedRuns[r].mig = runs[r].mig /\ AskedRuns[r].env = runs[r].env
        /\ AskedRuns[r].up = TextOf(runs[r].sumUp)
    BY AskedRun
  <2> QED BY <1>3, <2>1 DEF Gate!Pass
<1>5. g = [run |-> g.run, mig |-> g.mig, env |-> g.env, up |-> g.up]
  BY <1>2 DEF Grant
<1> QED BY <1>1, <1>4, <1>5

\* A run's text takes effect on a target it has an item for.
LEMMA RunActs ==
  ASSUME TypeInv, NEW e \in Effect, Traced(e), UNCHANGED <<runs, items, grants>>,
         effects' = effects \cup {e}
  PROVE  Gate!Act(e.run, e.target)
<1>1. /\ e.run \in Runs /\ e.target \in Targets /\ runs[e.run] # None
      /\ e.sql \in Scripts
  BY DEF Traced, Effect
<1>2. AskedRuns' = AskedRuns
  BY DEF AskedRuns
<1>3. TextOf(runs[e.run].sumUp) = e.sql
  BY <1>1, TextOfChecksum DEF Traced
<1>4. /\ AskedRuns[e.run] # None /\ AskedRuns[e.run].mig = e.mig
      /\ AskedRuns[e.run].up = e.sql
      /\ AskedRuns[e.run].targets = {t \in Targets : items[e.run][t] # None}
  BY <1>1, <1>3, AskedRun DEF Traced
<1>5. e.target \in AskedRuns[e.run].targets
  BY <1>1, <1>4 DEF Traced
<1>6. Gate!Pass(e.run) \in grants
  BY <1>1, GrantedPasses DEF Traced
<1>7. e = [run |-> e.run, mig |-> e.mig, target |-> e.target, sql |-> e.sql]
  BY DEF Effect
<1> QED BY <1>2, <1>4, <1>5, <1>6, <1>7 DEF Gate!Act

LEMMA GateInit == Init => Gate!Init
BY DEF Init, Gate!Init, AskedRuns

\* Every step but the insert of a run leaves the requests as they are.
LEMMA TablesStay ==
  ASSUME UNCHANGED <<runs, items>>, grants \subseteq grants'
  PROVE  SameRequests
BY DEF SameRequests, Kept

LEMMA StatusStays ==
  ASSUME TypeInv, NEW r \in Runs, runs[r] # None, NEW status \in RunStatus,
         SetRunStatus(r, status), UNCHANGED items, grants \subseteq grants'
  PROVE  SameRequests
<1>1. /\ \A s \in Runs : runs[s] # None =>
           /\ runs'[s] # None /\ runs'[s].mig = runs[s].mig
           /\ runs'[s].set = runs[s].set /\ runs'[s].env = runs[s].env
           /\ runs'[s].sumUp = runs[s].sumUp
      /\ \A s \in Runs : runs'[s] # None => runs[s] # None
  BY StatusKept
<1> QED BY <1>1 DEF SameRequests, Kept

LEMMA ItemStays ==
  ASSUME TypeInv, NEW r \in Runs, NEW t \in Targets, items[r][t] # None,
         NEW status \in ItemStatus, items' = [items EXCEPT ![r][t] = status],
         UNCHANGED <<runs, grants>>
  PROVE  SameRequests
<1>1. status # None
  BY NoneAssumption
<1>2. \A s \in Runs, u \in Targets : items'[s][u] # None <=> items[s][u] # None
  BY <1>1 DEF TypeInv, TypeOK
<1> QED BY <1>2 DEF SameRequests, Kept

\* A request for a run that finds targets inserts it.
Inserts(p, active) == RequestInsert(p, active) /\ active # {}

LEMMA RequestsStay ==
  ASSUME IInv, [Next]_vars,
         \A p \in Requests, active \in SUBSET Targets : ~ Inserts(p, active)
  PROVE  SameRequests
<1> USE DEF IInv
<1>1. ASSUME NEW m \in Migrations, NEW up \in Scripts,
             NEW down \in DownScripts \cup {None}, CreateMigration(m, up, down)
      PROVE  SameRequests
  BY <1>1, TablesStay DEF CreateMigration, history
<1>2. ASSUME NEW p \in Requests, Begin(p) PROVE SameRequests
  BY <1>2, TablesStay DEF Begin, UpdateRead, RequestRead, ApproveRead,
     DenyRead, ExecuteRead, toolDB, history
<1>3. ASSUME NEW p \in Requests,
             \/ UpdateWrite(p) \/ UpdatePurge(p) \/ ApproveCheck(p)
             \/ ExecuteListItems(p) \/ ExecuteCheck(p)
             \/ ItemStartFails(p) \/ ItemsDone(p) \/ GiveUp(p)
      PROVE  SameRequests
  BY <1>3, TablesStay DEF UpdateWrite, UpdatePurge, ApproveCheck,
     ExecuteListItems, ExecuteCheck, ItemStartFails, ItemsDone, GiveUp,
     toolDB, history
<1>4. ASSUME NEW p \in Requests, NEW active \in SUBSET Targets,
             RequestInsert(p, active)
      PROVE  SameRequests
  BY <1>4, TablesStay DEF Inserts, RequestInsert, history
<1>5. ASSUME NEW p \in Requests,
             \/ ApproveCommit(p) \/ DenyCommit(p)
             \/ ExecuteStart(p) \/ ExecuteFinish(p)
      PROVE  SameRequests
  <2>1. loc[p].run \in Runs /\ runs[loc[p].run] # None
    BY <1>5 DEF ApproveCommit, DenyCommit, ExecuteStart, ExecuteFinish, At,
       Holds, Deciding, AfterCheck, TypeInv
  <2>2. UNCHANGED items /\ grants \subseteq grants'
    BY <1>5 DEF ApproveCommit, DenyCommit, ExecuteStart, ExecuteFinish, history
  <2>3. \/ \E status \in RunStatus : SetRunStatus(loc[p].run, status)
        \/ runs' = runs
    <3>1. /\ FinalStatus(loc[p].result) \in RunStatus
          /\ {"approved", "denied", "running"} \subseteq RunStatus
      BY DEF FinalStatus, RunStatus
    <3> QED BY <1>5, <3>1 DEF ApproveCommit, DenyCommit, Decide, ExecuteStart,
            ExecuteFinish, SetRunStatus
  <2> QED BY <2>1, <2>2, <2>3, StatusStays, TablesStay
<1>6. ASSUME NEW p \in Requests, ItemStart(p) \/ ItemRecord(p)
      PROVE  SameRequests
  <2>1. loc[p].run \in Runs /\ loc[p] \in Local
    BY <1>6 DEF ItemStart, ItemRecord, At, Holds, AfterCheck, TypeInv, TypeOK
  <2>2. UNCHANGED <<runs, grants>>
    BY <1>6 DEF ItemStart, ItemRecord, history
  <2>3. CASE items' = items
    BY <2>2, <2>3, TablesStay
  <2>4. CASE \E t \in Targets, status \in ItemStatus :
               /\ items[loc[p].run][t] # None
               /\ items' = [items EXCEPT ![loc[p].run][t] = status]
    BY <2>1, <2>2, <2>4, ItemStays
  <2>5. CASE ItemStart(p)
    <3>1. PICK t \in NextItem(loc[p].run, loc[p].todo) :
            items' = [items EXCEPT ![loc[p].run][t] = "running"]
      BY <2>5 DEF ItemStart
    <3>2. t \in Targets /\ items[loc[p].run][t] # None
      BY <2>1, <2>5 DEF NextItem, Local, ItemStart, At, SafeInv, Sound, AfterCheck
    <3> QED BY <2>4, <3>1, <3>2 DEF ItemStatus
  <2>6. CASE ItemRecord(p)
    <3>1. /\ loc[p].cur \in Targets /\ items[loc[p].run][loc[p].cur] # None
          /\ loc[p].result \in ItemStatus
      BY <2>6 DEF ItemRecord, At, Holds, SafeInv, Sound, OnItem, TypeInv
    <3> QED BY <2>3, <2>4, <2>6, <3>1 DEF ItemRecord
  <2> QED BY <1>6, <2>5, <2>6
<1>7. ASSUME NEW p \in Requests, ApplyItem(p) PROVE SameRequests
  BY <1>7, TablesStay DEF ApplyItem, toolDB
<1>8. CASE UNCHANGED vars
  BY <1>8, TablesStay DEF vars, toolDB, history
<1> QED
  BY <1>1, <1>2, <1>3, <1>4, <1>5, <1>6, <1>7, <1>8 DEF Next, Continue

\* The same of all runs, to be read of the next state too.
AskedAsStored ==
  \A r \in Runs : runs[r] # None =>
    /\ AskedRuns[r].env = runs[r].env
    /\ AskedRuns[r].targets = {t \in Targets : items[r][t] # None}
    /\ AskedRuns[r] \in Gate!Request

LEMMA AllAsked == TypeInv => AskedAsStored
BY AskedRun DEF AskedAsStored

\* The insert of a run asks.
LEMMA InsertAsks ==
  ASSUME IInv, NEW p \in Requests, NEW active \in SUBSET Targets,
         Inserts(p, active)
  PROVE  Gate!Ask(loc[p].run)
<1> SUFFICES ASSUME NEW r, NEW draft, r = loc[p].run, draft = loc[p].draft
             PROVE  Gate!Ask(r)
  OBVIOUS
<1>1. /\ r \in Runs /\ runs[r] = None /\ draft \in RunRow /\ draft # None
      /\ EnvOf[draft.set] = draft.env
  BY DEF Inserts, RequestInsert, At, Holds, IInv, SafeInv, Sound, TypeInv,
     TypeOK, Local
<1>2. /\ runs' = [runs EXCEPT ![r] = draft]
      /\ items' = [items EXCEPT ![r] =
           [t \in Targets |-> IF t \in active THEN "queued" ELSE None]]
      /\ \A t \in active : SetOf[t] = draft.set
      /\ UNCHANGED <<grants, effects>>
  BY DEF Inserts, RequestInsert, history
<1>3. TypeInv'
  BY TypeNext DEF Inserts, IInv, Next, Continue
<1>4. runs'[r] = draft /\ \A s \in Runs \ {r} : runs'[s] = runs[s]
  BY <1>1, <1>2 DEF IInv, TypeInv, TypeOK
<1>5. /\ \A t \in Targets : items'[r][t] # None => t \in active
      /\ \A s \in Runs \ {r} : items'[s] = items[s]
  BY <1>1, <1>2 DEF IInv, TypeInv, TypeOK
<1>6. /\ AskedRuns'[r].env = draft.env
      /\ AskedRuns'[r].targets = {t \in Targets : items'[r][t] # None}
      /\ AskedRuns'[r] \in Gate!Request
  <2>1. TypeInv' => AskedAsStored'
    BY AllAsked, PTL
  <2> QED BY <1>1, <1>3, <1>4, <2>1 DEF AskedAsStored
<1>7. AskedRuns[r] = None
  BY <1>1 DEF AskedRuns
<1>8. \A t \in AskedRuns'[r].targets : EnvOf[SetOf[t]] = AskedRuns'[r].env
  BY <1>1, <1>2, <1>5, <1>6
<1>9. AskedRuns' = [AskedRuns EXCEPT ![r] = AskedRuns'[r]]
  <2>1. ASSUME NEW s \in Runs \ {r} PROVE AskedRuns'[s] = AskedRuns[s]
    <3>1. runs'[s] = runs[s] /\ items'[s] = items[s]
      BY <1>4, <1>5
    <3>2. TextOf(runs[s].sumUp)' = TextOf(runs[s].sumUp)
      BY <3>1 DEF TextOf
    <3> QED BY <3>1, <3>2 DEF AskedRuns
  <2>2. /\ AskedRuns = [s \in Runs |-> AskedRuns[s]]
        /\ AskedRuns' = [s \in Runs |-> AskedRuns'[s]]
    BY DEF AskedRuns
  <2> QED BY <1>1, <2>1, <2>2
<1> QED BY <1>2, <1>6, <1>7, <1>8, <1>9 DEF Gate!Ask

LEMMA GateNext == IInv /\ [Next]_vars => [Gate!Next]_(Gate!gvars)
<1> SUFFICES ASSUME IInv, [Next]_vars PROVE Gate!Next \/ UNCHANGED Gate!gvars
  OBVIOUS
<1> USE DEF IInv
<1>1. ASSUME NEW p \in Requests, NEW active \in SUBSET Targets, Inserts(p, active)
      PROVE  Gate!Next
  <2>1. loc[p].run \in Runs
    BY <1>1 DEF Inserts, RequestInsert, Holds, At, TypeInv
  <2> QED BY <1>1, <2>1, InsertAsks DEF Gate!Next
<1>2. ASSUME NEW p \in Requests, ApproveCommit(p), SameRequests PROVE Gate!Next
  <2> SUFFICES ASSUME NEW r, r = loc[p].run PROVE Gate!Next
    OBVIOUS
  <2>1. /\ r \in Runs /\ runs[r] # None
        /\ loc[p].row \in MigrationRow /\ RowOK(loc[p].row)
        /\ loc[p].row.sumUp = runs[r].sumUp
    BY <1>2 DEF ApproveCommit, At, Holds, Deciding, SafeInv, Sound, TypeInv,
       TypeOK, Local
  <2>2. /\ UNCHANGED effects
        /\ grants' = grants \cup
             {[run |-> r, mig |-> runs[r].mig, env |-> runs[r].env,
               up |-> loc[p].row.up]}
    BY <1>2 DEF ApproveCommit
  <2>3. AskedRuns' = AskedRuns
    BY <1>2, AskedKept
  <2>4. Gate!Pass(r) = [run |-> r, mig |-> runs[r].mig, env |-> runs[r].env,
                        up |-> loc[p].row.up]
    <3>1. TextOf(runs[r].sumUp) = loc[p].row.up
      BY <2>1, TextOfChecksum DEF RowOK, MigrationRow
    <3>2. /\ AskedRuns[r].mig = runs[r].mig /\ AskedRuns[r].env = runs[r].env
          /\ AskedRuns[r].up = TextOf(runs[r].sumUp)
      BY <2>1, AskedRun
    <3> QED BY <3>1, <3>2 DEF Gate!Pass
  <2>5. AskedRuns[r] # None
    BY <2>1, AskedRun
  <2> QED BY <2>1, <2>2, <2>3, <2>4, <2>5 DEF Gate!Grant, Gate!Next
<1>3. ASSUME NEW p \in Requests, ApplyItem(p)
      PROVE  Gate!Next \/ UNCHANGED Gate!gvars
  <2> SUFFICES ASSUME NEW r, r = loc[p].run, NEW t, t = loc[p].cur,
                      NEW m, m = runs[r].mig, NEW row, row = loc[p].row
               PROVE  Gate!Next \/ UNCHANGED Gate!gvars
    OBVIOUS
  <2>1. /\ r \in Runs /\ runs[r] # None /\ t \in Targets /\ m \in Migrations
        /\ row \in MigrationRow /\ RowOK(row) /\ row.sumUp = runs[r].sumUp
        /\ Granted(r) /\ items[r][t] # None
    <3>1. loc[p] \in Local /\ Holds(p) /\ Sound(p) /\ loc[p].pc = "exec_apply"
      BY <1>3 DEF ApplyItem, At, SafeInv, TypeInv, TypeOK
    <3>2. r \in Runs /\ runs[r] # None /\ t \in Targets /\ row # None
      BY <3>1 DEF Holds, AfterCheck, OnItem
    <3>3. m \in Migrations /\ row \in MigrationRow
      BY <3>1, <3>2 DEF TypeInv, TypeOK, Local, RunRow
    <3>4. /\ RowOK(row) /\ row.sumUp = runs[r].sumUp
          /\ Granted(r) /\ items[r][t] # None
      BY <3>1, <3>2 DEF Sound, AfterCheck, OnItem
    <3> QED BY <3>2, <3>3, <3>4
  <2> DEFINE e == [run |-> r, mig |-> m, target |-> t, sql |-> row.up]
  <2>2. effects' = effects \cup {e} \/ effects' = effects
    BY <1>3 DEF ApplyItem, SqlToRun
  <2>3. UNCHANGED <<runs, items, grants>>
    BY <1>3 DEF ApplyItem, toolDB
  <2>4. CASE effects' = effects
    BY <2>3, <2>4, AskedKept, TablesStay DEF Gate!gvars
  <2>5. CASE effects' = effects \cup {e}
    <3>1. e \in Effect /\ e.run = r /\ e.target = t
      BY <2>1 DEF Effect, MigrationRow
    <3>2. Traced(e)
      BY <2>1 DEF Traced, RowOK
    <3> HIDE DEF e
    <3>3. Gate!Act(e.run, e.target)
      BY <2>3, <2>5, <3>1, <3>2, RunActs
    <3> QED BY <2>1, <3>1, <3>3 DEF Gate!Next
  <2> QED BY <2>2, <2>4, <2>5
<1>4. ASSUME SameRequests, UNCHANGED <<grants, effects>>
      PROVE  UNCHANGED Gate!gvars
  BY <1>4, AskedKept DEF Gate!gvars
<1>5. CASE \E p \in Requests, active \in SUBSET Targets : Inserts(p, active)
  BY <1>1, <1>5
<1>6. CASE \A p \in Requests, active \in SUBSET Targets : ~ Inserts(p, active)
  <2>1. SameRequests
    BY <1>6, RequestsStay
  <2>2. ASSUME NEW m \in Migrations, NEW up \in Scripts,
               NEW down \in DownScripts \cup {None}, CreateMigration(m, up, down)
        PROVE  UNCHANGED <<grants, effects>>
    BY <2>2 DEF CreateMigration, history
  <2>3. ASSUME NEW p \in Requests, Begin(p)
        PROVE  UNCHANGED <<grants, effects>>
    BY <2>3 DEF Begin, UpdateRead, RequestRead, ApproveRead, DenyRead,
       ExecuteRead, history
  <2>4. ASSUME NEW p \in Requests, Continue(p), ~ ApproveCommit(p), ~ ApplyItem(p)
        PROVE  UNCHANGED <<grants, effects>>
    BY <2>4 DEF Continue, UpdateWrite, UpdatePurge, RequestInsert, ApproveCheck,
       DenyCommit, ExecuteListItems, ExecuteCheck, ExecuteStart, ItemStart,
       ItemStartFails, ItemRecord, ItemsDone, ExecuteFinish, history
  <2>5. ASSUME NEW p \in Requests, GiveUp(p)
        PROVE  UNCHANGED <<grants, effects>>
    BY <2>5 DEF GiveUp, history
  <2>6. CASE UNCHANGED vars
    BY <1>4, <2>1, <2>6 DEF vars, history
  <2> QED BY <1>2, <1>3, <1>4, <2>1, <2>2, <2>3, <2>4, <2>5, <2>6 DEF Next
<1> QED BY <1>5, <1>6

\* A run acts with the text and on the targets it was requested for, after
\* that text was approved: RunLifecycle implements ApprovalGate, for every
\* number of requests, runs, migrations and targets.
THEOREM GateKept == Spec => ImplementsApprovalGate
<1>1. Init => Gate!Init
  BY GateInit
<1>2. IInv /\ [Next]_vars => [Gate!Next]_(Gate!gvars)
  BY GateNext
<1> QED BY <1>1, <1>2, Invariance, PTL DEF Spec, ImplementsApprovalGate, Gate!Spec

=============================================================================

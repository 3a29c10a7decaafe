-------------------------- MODULE DeploymentProofs --------------------------
(***************************************************************************)
(* Theorems about Deployment, for every inventory, every number of         *)
(* requests, calls and databases, and every order of their steps.          *)
(*                                                                         *)
(* All steps but two are steps of RunLifecycle, or leave its variables     *)
(* alone, so its invariant and its refinement carry over.  The two are     *)
(* HearAnswer, whose request gets a result that RunLifecycle's own ledger  *)
(* does not explain, and DatabaseStep, which acts for a request that may   *)
(* be gone.                                                                *)
(***************************************************************************)
EXTENDS Deployment, ApprovalGateProofs

DTypes ==
  /\ projects \subseteq Projects
  /\ sets \in [DBSets -> Stock!SetRow \cup {None}]
  /\ targets \in [Targets -> Stock!TargetRow \cup {None}]
  /\ edits \in [Editors -> Stock!Edit \cup {None}]
  /\ job \in [Calls -> Ledgers!Job \cup {None}]
  /\ result \in [Calls -> Ledgers!Result \cup {None}]
  /\ rows \in [Databases -> [Ledgers!Keys -> Ledgers!Sums \cup {None}]]
  /\ landed \subseteq Calls
  /\ listed \in [Requests -> (SUBSET Targets) \cup {None}]
  /\ awaited \in [Requests -> Calls \cup {None}]
  /\ runOf \in [Calls -> Runs \cup {None}]
  /\ retired \subseteq Targets

\* Rows are edited and disabled after they have been created.
StockOK ==
  /\ \A e \in Editors : edits[e] # None => targets[edits[e].target] # None
  /\ \A t \in retired : targets[t] # None /\ ~ targets[t].active

\* A call is for a granted run, with its text, on one of its targets.
CallOK(c) ==
  /\ runOf[c] \in Runs /\ runs[runOf[c]] # None
  /\ job[c].copy.mig = runs[runOf[c]].mig
  /\ job[c].copy.sum = runs[runOf[c]].sumUp
  /\ Checksum(job[c].copy.up) = runs[runOf[c]].sumUp
  /\ items[runOf[c]][job[c].target] # None
  /\ Granted(runOf[c])

CallsOK ==
  \A c \in Calls : IF job[c] = None THEN result[c] = None /\ c \notin landed
                                    ELSE CallOK(c)

\* The database has the checksum of call c on record.
OnRecord(c) == rows[job[c].db][KeyOf[job[c].copy.mig]] = job[c].copy.sum

AnswersOK ==
  \A c \in Calls :
    result[c] \in {"executed", "skipped"} => job[c] # None /\ OnRecord(c)

\* Some call of run r to target t has had this answer.
Told(r, t, answer) ==
  \E c \in Calls : /\ job[c] # None /\ runOf[c] = r /\ job[c].target = t
                   /\ result[c] = answer

ItemsTold ==
  \A r \in Runs, t \in Targets :
    items[r][t] \in {"executed", "skipped"} => Told(r, t, items[r][t])

Scoped ==
  \A r \in Runs : runs[r] # None =>
    /\ ProjectOf[runs[r].set] = HomeOf[runs[r].mig]
    /\ \A t \in Targets : items[r][t] # None => targets[t] # None

\* What a request has listed, waits for and has heard.
Linked(p) ==
  /\ awaited[p] # None =>
       /\ At(p, "exec_apply")
       /\ job[awaited[p]] # None
       /\ runOf[awaited[p]] = loc[p].run
       /\ job[awaited[p]].target = loc[p].cur
  /\ listed[p] # None =>
       At(p, "request_insert") /\ \A t \in listed[p] : targets[t] # None
  /\ At(p, "request_insert") =>
       ProjectOf[loc[p].draft.set] = HomeOf[loc[p].draft.mig]
  /\ At(p, "exec_record") /\ loc[p].result \in {"executed", "skipped"} =>
       Told(loc[p].run, loc[p].cur, loc[p].result)

LinkInv ==
  /\ StockOK /\ CallsOK /\ AnswersOK /\ ItemsTold /\ Scoped
  /\ \A p \in Requests : Linked(p)

DInv == IInv /\ DTypes /\ LinkInv

-----------------------------------------------------------------------------
(***************************************************************************)
(* The parts of a step that are RunLifecycle's.                            *)
(***************************************************************************)

\* An inserted run takes nothing from the others.
LEMMA RequestsKept == IInv /\ [Next]_vars => Kept
<1> SUFFICES ASSUME IInv, [Next]_vars PROVE Kept
  OBVIOUS
<1>1. CASE \A p \in Requests, active \in SUBSET Targets : ~ Inserts(p, active)
  BY <1>1, RequestsStay DEF SameRequests
<1>2. ASSUME NEW p \in Requests, NEW active \in SUBSET Targets, Inserts(p, active)
      PROVE  Kept
  <2>1. /\ loc[p].run \in Runs /\ runs[loc[p].run] = None /\ UNCHANGED grants
        /\ runs' = [runs EXCEPT ![loc[p].run] = loc[p].draft]
        /\ items' = [items EXCEPT ![loc[p].run] =
             [t \in Targets |-> IF t \in active THEN "queued" ELSE None]]
    BY <1>2 DEF Inserts, RequestInsert, Holds, At, IInv, TypeInv, history
  <2>2. \A t \in Targets : items[loc[p].run][t] = None
    BY <2>1 DEF IInv, SafeInv, ItemsOK
  <2> QED BY <2>1, <2>2 DEF Kept, IInv, TypeInv, TypeOK
<1> QED BY <1>1, <1>2

\* RunLifecycle's invariant and refinement survive its own steps.
LEMMA LifecycleKept ==
  ASSUME IInv, [Next]_vars
  PROVE  IInv' /\ Kept /\ [Gate!Next]_(Gate!gvars)
BY TypeNext, SafeNext, GateNext, RequestsKept DEF IInv

\* All steps but those at the databases and the answers from there.
OwnStep ==
  \/ InventoryStep
  \/ \E m \in Migrations, up \in Scripts, down \in DownScripts \cup {None} :
       NewMigration(m, up, down)
  \/ \E p \in Requests :
       \/ \E project \in Projects, m \in Migrations, type \in RunType,
             env \in Envs, set \in DBSets :
            RequestInProject(p, project, m, type, env, set)
       \/ LifecycleStep(p) \/ ListTargets(p) \/ InsertListed(p)
       \/ TargetDisabled(p) \/ Abandon(p)
       \/ \E c \in Calls : CallTarget(p, c)
  \/ UNCHANGED dvars

\* A target that is disabled fails its item.
LEMMA DisabledFails ==
  ASSUME NEW p \in Requests, TargetDisabled(p)
  PROVE  ApplyItem(p)
<1> DEFINE o == [sql |-> FALSE, row |-> FALSE, result |-> "failed"]
           recorded == ledger[loc[p].cur][runs[loc[p].run].mig]
<1>1. o \in Outcome(recorded, loc[p].row.sumUp)
  BY DEF Outcome
<1>2. ~ o.row /\ ~ o.sql /\ o.result = "failed"
  OBVIOUS
<1> HIDE DEF o
<1> QED BY <1>1, <1>2 DEF ApplyItem, TargetDisabled, Executes, history

\* They are RunLifecycle's, or none of its business.
LEMMA OwnSteps == DTypes /\ OwnStep => [Next]_vars
<1> SUFFICES ASSUME DTypes, OwnStep PROVE Next \/ UNCHANGED vars
  OBVIOUS
<1>1. CASE InventoryStep \/ UNCHANGED dvars
  BY <1>1 DEF InventoryStep, dvars
<1>2. ASSUME NEW m \in Migrations, NEW up \in Scripts,
             NEW down \in DownScripts \cup {None}, NewMigration(m, up, down)
      PROVE  Next
  BY <1>2 DEF NewMigration, Next
<1>3. ASSUME NEW p \in Requests, NEW project \in Projects,
             NEW m \in Migrations, NEW type \in RunType, NEW env \in Envs,
             NEW set \in DBSets, RequestInProject(p, project, m, type, env, set)
      PROVE  Next
  BY <1>3 DEF RequestInProject, Next, Begin
<1>4. ASSUME NEW p \in Requests, LifecycleStep(p) PROVE Next
  BY <1>4 DEF LifecycleStep, Next, Begin, Continue
<1>5. ASSUME NEW p \in Requests, InsertListed(p) PROVE Next
  <2>1. listed[p] \in SUBSET Targets /\ RequestInsert(p, listed[p])
    BY <1>5 DEF InsertListed, DTypes
  <2> QED BY <2>1 DEF Next, Continue
<1>6. ASSUME NEW p \in Requests, TargetDisabled(p) PROVE Next
  BY <1>6, DisabledFails DEF Next, Continue
<1>7. ASSUME NEW p \in Requests, Abandon(p) PROVE Next
  BY <1>7 DEF Abandon, Next
<1>8. ASSUME NEW p \in Requests, ListTargets(p) \/ \E c \in Calls : CallTarget(p, c)
      PROVE  UNCHANGED vars
  BY <1>8 DEF ListTargets, CallTarget
<1> QED BY <1>1, <1>2, <1>3, <1>4, <1>5, <1>6, <1>7, <1>8 DEF OwnStep

\* An answer moves its request only.
LEMMA AnswerKept ==
  ASSUME DInv, NEW p \in Requests, HearAnswer(p)
  PROVE  IInv' /\ Kept /\ UNCHANGED Gate!gvars
<1> DEFINE l == [loc[p] EXCEPT !.pc = "exec_record",
                               !.result = ItemResult(result[awaited[p]])]
<1>1. /\ loc[p] \in Local /\ Holds(p) /\ Sound(p) /\ At(p, "exec_apply")
      /\ awaited[p] \in Calls /\ result[awaited[p]] \in Ledgers!Result
  BY DEF DInv, IInv, SafeInv, TypeInv, TypeOK, DTypes, LinkInv, Linked, HearAnswer
<1>2. Becomes(p, l) /\ UNCHANGED <<toolDB, ledger, history>>
  BY DEF HearAnswer
<1>3. /\ l \in Local /\ l.pc = "exec_record" /\ l.result \in ItemStatus
      /\ l.run = loc[p].run /\ l.row = loc[p].row /\ l.cur = loc[p].cur
      /\ l.todo = loc[p].todo
  <2> DEFINE answer == ItemResult(result[awaited[p]])
  <2>1. answer \in ItemStatus
    BY <1>1 DEF ItemResult, Ledgers!Result, ItemStatus
  <2>2. "exec_record" \in PC
    BY DEF PC
  <2> HIDE DEF answer
  <2>3. l = [loc[p] EXCEPT !.pc = "exec_record", !.result = answer]
    BY DEF answer
  <2> HIDE DEF l
  <2> QED BY <1>1, <2>1, <2>2, <2>3 DEF Local
<1> HIDE DEF l
<1>4. loc'[p] = l
  BY <1>1, <1>2 DEF Becomes, DInv, IInv, TypeInv, TypeOK
<1>5. UNCHANGED <<mig, runs, items, grants, effects>>
  BY <1>2 DEF toolDB, history
<1>6. Holds(p)'
  BY <1>1, <1>3, <1>4, <1>5 DEF Holds, At, OnItem, AfterCheck, Deciding, BeforeStart
<1>7. Sound(p)'
  BY <1>1, <1>3, <1>4, <1>5 DEF Sound, At, Granted, OnItem, AfterCheck, BeforeStart
<1>8. IInv'
  BY <1>2, <1>3, <1>6, <1>7, LocalStep, QuietStep DEF DInv, IInv
<1>9. UNCHANGED Gate!gvars
  BY <1>5 DEF Gate!gvars, AskedRuns
<1> QED BY <1>5, <1>8, <1>9 DEF Kept

-----------------------------------------------------------------------------
(***************************************************************************)
(* The databases.                                                          *)
(***************************************************************************)

\* A database goes on with call c.
Works(c) ==
  \/ Ledgers!Succeed(c) \/ Ledgers!Skip(c) \/ Ledgers!Fail(c)
  \/ Ledgers!Leak(c) \/ Ledgers!RecordLeaked(c) \/ Ledgers!ConfirmLeaked(c)
  \/ Ledgers!SucceedUnheard(c)

\* What the answers and the records of the databases keep.
DatabasesKept ==
  /\ result' \in [Calls -> Ledgers!Result \cup {None}]
  /\ rows' \in [Databases -> [Ledgers!Keys -> Ledgers!Sums \cup {None}]]
  /\ landed' \subseteq Calls
  /\ \A x \in Calls : job[x] = None => result'[x] = None /\ x \notin landed'
  /\ \A x \in Calls :
       result[x] \in {"executed", "skipped"} => result'[x] = result[x]
  /\ AnswersOK'

\* A call's key and checksum, as TargetLedger reads them.
LEMMA CallKeys ==
  ASSUME DTypes, NEW c \in Calls, job[c] # None
  PROVE  /\ job[c] \in Ledgers!Job /\ job[c].db \in Databases
         /\ job[c].copy \in Copies /\ job[c].target \in Targets
         /\ Ledgers!Key(c) = KeyOf[job[c].copy.mig]
         /\ Ledgers!Sum(c) = job[c].copy.sum
         /\ KeyOf[job[c].copy.mig] \in Ledgers!Keys
         /\ job[c].copy.sum \in Ledgers!Sums
         /\ job[c].copy.sum # None
<1>1. job[c] \in Ledgers!Job
  BY DEF DTypes
<1>2. /\ job[c].db \in Databases /\ job[c].copy \in Copies
      /\ job[c].target \in Targets
  BY <1>1 DEF Ledgers!Job
<1>3. /\ CopyKey[job[c].copy] = KeyOf[job[c].copy.mig]
      /\ CopySum[job[c].copy] = job[c].copy.sum
  BY <1>2 DEF CopyKey, CopySum
<1>4. job[c].copy.sum \in UpSums
  BY <1>2 DEF Copies
<1> QED BY <1>1, <1>2, <1>3, <1>4, NoRowAssumption
        DEF Ledgers!Key, Ledgers!Sum, Ledgers!Copy, Ledgers!Keys, Ledgers!Sums

\* A record of c where there was none spoils no other answer.
LEMMA RecordKept ==
  ASSUME DTypes, AnswersOK, NEW c \in Calls, job[c] # None,
         Ledgers!Recorded(c) = None, Ledgers!Record(c), UNCHANGED job
  PROVE  /\ rows' \in [Databases -> [Ledgers!Keys -> Ledgers!Sums \cup {None}]]
         /\ OnRecord(c)'
         /\ \A x \in Calls :
              result[x] \in {"executed", "skipped"} => job'[x] # None /\ OnRecord(x)'
<1> DEFINE d == job[c].db
           k == KeyOf[job[c].copy.mig]
           s == job[c].copy.sum
<1>1. d \in Databases /\ k \in Ledgers!Keys /\ s \in Ledgers!Sums
  BY CallKeys
<1>2. rows[d][k] = None /\ rows' = [rows EXCEPT ![d][k] = s]
  BY CallKeys DEF Ledgers!Recorded, Ledgers!Record, Ledgers!Db
<1> HIDE DEF d, k, s
<1>3. rows' \in [Databases -> [Ledgers!Keys -> Ledgers!Sums \cup {None}]]
  BY <1>1, <1>2 DEF DTypes
<1>4. rows'[d][k] = s
  BY <1>1, <1>2 DEF DTypes
<1>5. ASSUME NEW x \in Calls, result[x] \in {"executed", "skipped"}
      PROVE  job'[x] # None /\ OnRecord(x)'
  <2>1. job[x] # None /\ OnRecord(x)
    BY <1>5 DEF AnswersOK
  <2> DEFINE dx == job[x].db
             kx == KeyOf[job[x].copy.mig]
  <2>2. /\ dx \in Databases /\ kx \in Ledgers!Keys /\ rows[dx][kx] = job[x].copy.sum
        /\ job[x].copy.sum # None
    BY <2>1, CallKeys DEF OnRecord
  <2> HIDE DEF dx, kx
  <2>3. ~ (dx = d /\ kx = k)
    BY <1>2, <2>2
  <2>4. rows'[dx][kx] = rows[dx][kx]
    BY <1>1, <1>2, <2>2, <2>3 DEF DTypes
  <2> QED BY <2>1, <2>2, <2>4 DEF OnRecord, dx, kx
<1> QED BY <1>3, <1>4, <1>5 DEF OnRecord, d, k, s

\* A database's step keeps what has been answered, and answers truthfully.
LEMMA WorkKept ==
  ASSUME DTypes, CallsOK, AnswersOK, NEW c \in Calls, Works(c)
  PROVE  /\ DatabasesKept /\ UNCHANGED job
         /\ landed' = landed \/ (landed' = landed \cup {c} /\ job[c] # None)
<1> USE DEF Ledgers!Pending, Ledgers!Answer, Ledgers!Land
<1>1. job[c] # None /\ UNCHANGED job
  BY NoneAssumption DEF Works, CallsOK, ItemStatus, Ledgers!Succeed,
     Ledgers!Skip, Ledgers!Fail, Ledgers!Leak, Ledgers!RecordLeaked,
     Ledgers!ConfirmLeaked, Ledgers!SucceedUnheard
<1>2. landed' = landed \/ landed' = landed \cup {c}
  BY DEF Works, Ledgers!Succeed, Ledgers!Skip, Ledgers!Fail, Ledgers!Leak,
     Ledgers!RecordLeaked, Ledgers!ConfirmLeaked, Ledgers!SucceedUnheard
<1>3. rows' = rows \/ (Ledgers!Recorded(c) = None /\ Ledgers!Record(c))
  BY DEF Works, Ledgers!Succeed, Ledgers!Skip, Ledgers!Fail, Ledgers!Leak,
     Ledgers!RecordLeaked, Ledgers!ConfirmLeaked, Ledgers!SucceedUnheard
<1>4. /\ rows' \in [Databases -> [Ledgers!Keys -> Ledgers!Sums \cup {None}]]
      /\ \A x \in Calls :
           result[x] \in {"executed", "skipped"} => job'[x] # None /\ OnRecord(x)'
      /\ rows' # rows => OnRecord(c)'
  <2>1. CASE rows' = rows
    BY <1>1, <2>1 DEF DTypes, AnswersOK, OnRecord
  <2>2. CASE Ledgers!Recorded(c) = None /\ Ledgers!Record(c)
    BY <1>1, <2>2, RecordKept
  <2> QED BY <1>3, <2>1, <2>2
<1>5. \/ result' = result
      \/ /\ result[c] = None
         /\ \E a \in Ledgers!Result : result' = [result EXCEPT ![c] = a]
  BY DEF Works, Ledgers!Succeed, Ledgers!Skip, Ledgers!Fail, Ledgers!Leak,
     Ledgers!RecordLeaked, Ledgers!ConfirmLeaked, Ledgers!SucceedUnheard,
     Ledgers!Result
<1>6. result'[c] \in {"executed", "skipped"} /\ result'[c] # result[c]
        => OnRecord(c)'
  <2> SUFFICES ASSUME result'[c] \in {"executed", "skipped"},
                      result'[c] # result[c]
               PROVE  OnRecord(c)'
    OBVIOUS
  <2>1. \/ Ledgers!Recorded(c) = None /\ Ledgers!Record(c)
        \/ Ledgers!Recorded(c) = Ledgers!Sum(c) /\ rows' = rows
    BY DEF Works, DTypes, Ledgers!Succeed, Ledgers!Skip, Ledgers!Fail,
       Ledgers!Leak, Ledgers!RecordLeaked, Ledgers!ConfirmLeaked,
       Ledgers!SucceedUnheard
  <2>2. CASE Ledgers!Recorded(c) = None /\ Ledgers!Record(c)
    BY <1>1, <2>2, RecordKept
  <2>3. CASE Ledgers!Recorded(c) = Ledgers!Sum(c) /\ rows' = rows
    BY <1>1, <2>3, CallKeys DEF OnRecord, Ledgers!Recorded, Ledgers!Db
  <2> QED BY <2>1, <2>2, <2>3
<1>7. /\ result' \in [Calls -> Ledgers!Result \cup {None}]
      /\ \A x \in Calls \ {c} : result'[x] = result[x]
      /\ result[c] # None => result'[c] = result[c]
  BY <1>5 DEF DTypes
<1>8. AnswersOK'
  BY <1>1, <1>4, <1>6, <1>7 DEF AnswersOK
<1>9. \A x \in Calls : job[x] = None => result'[x] = None /\ x \notin landed'
  BY <1>1, <1>2, <1>7 DEF CallsOK
<1>10. \A x \in Calls :
         result[x] \in {"executed", "skipped"} => result'[x] = result[x]
  BY <1>7, NoneAssumption DEF ItemStatus
<1>11. landed' \subseteq Calls
  BY <1>2 DEF DTypes
<1> QED BY <1>1, <1>2, <1>4, <1>7, <1>8, <1>9, <1>10, <1>11 DEF DatabasesKept

\* Databases that a step leaves alone.
LEMMA DatabasesStay ==
  ASSUME DTypes, CallsOK, AnswersOK, UNCHANGED databases
  PROVE  DatabasesKept /\ UNCHANGED <<job, landed>>
BY DEF DTypes, CallsOK, AnswersOK, OnRecord, DatabasesKept, databases

\* What lands is the text of a granted run, on one of its targets.
LEMMA LandedTraced ==
  ASSUME IInv, DTypes, CallsOK, NEW c \in Calls, job[c] # None
  PROVE  /\ EffectOf(c) \in Effect
         /\ EffectOf(c).run = runOf[c] /\ EffectOf(c).target = job[c].target
         /\ Traced(EffectOf(c))
<1>1. /\ CallOK(c) /\ job[c].copy \in Copies /\ job[c].target \in Targets
  BY CallKeys DEF CallsOK
<1>2. /\ job[c].copy.mig \in Migrations /\ job[c].copy.up \in Scripts
      /\ runOf[c] \in Runs
  BY <1>1 DEF Copies, CallOK
<1>3. /\ EffectOf(c) \in Effect
      /\ EffectOf(c).run = runOf[c] /\ EffectOf(c).target = job[c].target
      /\ EffectOf(c).mig = job[c].copy.mig /\ EffectOf(c).sql = job[c].copy.up
  BY <1>1, <1>2 DEF EffectOf, Effect
<1> QED BY <1>1, <1>3 DEF Traced, CallOK

\* The work of a database is an act of a granted run, or nothing.
LEMMA DatabaseActs ==
  ASSUME DInv, NEW c \in Calls, DatabaseStep(c)
  PROVE  /\ IInv' /\ Kept /\ [Gate!Next]_(Gate!gvars)
         /\ DatabasesKept /\ UNCHANGED job
<1>1. Works(c) /\ UNCHANGED <<toolDB, ledger, loc, grants>>
  BY DEF DatabaseStep, Works
<1>2. /\ DatabasesKept /\ UNCHANGED job
      /\ landed' = landed \/ (landed' = landed \cup {c} /\ job[c] # None)
  BY <1>1, WorkKept DEF DInv, LinkInv
<1>3. \/ effects' = effects
      \/ job[c] # None /\ effects' = effects \cup {EffectOf(c)}
  <2>1. effects' = effects \cup {EffectOf(x) : x \in landed' \ landed}
    BY DEF DatabaseStep
  <2>2. CASE landed' \ landed = {}
    BY <2>1, <2>2
  <2>3. CASE landed' \ landed = {c} /\ job[c] # None
    BY <2>1, <2>3
  <2> QED BY <1>2, <2>2, <2>3
<1>4. UNCHANGED <<mig, runs, items, approvals>>
  BY <1>1 DEF toolDB
<1>5. Kept
  BY <1>1, <1>4 DEF Kept
<1>6. job[c] # None => EffectOf(c) \in Effect /\ Traced(EffectOf(c))
  BY LandedTraced DEF DInv, LinkInv
<1> DEFINE e == EffectOf(c)
<1> HIDE DEF e
<1>7. TypeInv'
  <2>1. effects' \subseteq Effect
    BY <1>3, <1>6 DEF DInv, IInv, TypeInv, TypeOK
  <2>2. TypeOK'
    BY <1>1, <1>4, <2>1 DEF DInv, IInv, TypeInv, TypeOK
  <2>3. \A p \in Requests : Holds(p)'
    BY <1>1, <1>4 DEF DInv, IInv, TypeInv, Holds, At
  <2> QED BY <1>4, <2>2, <2>3 DEF DInv, IInv, TypeInv, RunsHaveMigrations
<1>8. SafeInv'
  <2>1. \A x \in effects' : Traced(x)
    BY <1>3, <1>6 DEF DInv, IInv, SafeInv, EffectsOK
  <2>2. EffectsOK'
    BY <1>1, <1>4, <2>1 DEF EffectsOK, Traced, Granted
  <2>3. LedgerOK'
    BY <1>1, <1>3 DEF DInv, IInv, SafeInv, LedgerOK
  <2>4. MigrationsOK' /\ RunsOK' /\ ItemsOK'
    BY <1>1, <1>4 DEF DInv, IInv, SafeInv, MigrationsOK, RowOK, RunsOK, ItemsOK,
       Granted
  <2>5. \A p \in Requests : Sound(p)'
    BY <1>1, <1>4 DEF DInv, IInv, SafeInv, Sound, At, RowOK, Granted
  <2> QED BY <2>2, <2>3, <2>4, <2>5 DEF SafeInv
<1>9. [Gate!Next]_(Gate!gvars)
  <2>1. CASE effects' = effects
    BY <1>1, <1>4, <2>1 DEF Gate!gvars, AskedRuns
  <2>2. CASE job[c] # None /\ effects' = effects \cup {EffectOf(c)}
    <3>1. EffectOf(c) \in Effect /\ Traced(EffectOf(c))
      BY <1>6, <2>2
    <3>2. EffectOf(c).run \in Runs /\ EffectOf(c).target \in Targets
      BY <3>1 DEF Effect
    <3>3. Gate!Act(EffectOf(c).run, EffectOf(c).target)
      BY <1>1, <1>4, <2>2, <3>1, RunActs DEF DInv, IInv
    <3> QED BY <3>2, <3>3 DEF Gate!Next
  <2> QED BY <1>3, <2>1, <2>2
<1> QED BY <1>2, <1>5, <1>7, <1>8, <1>9 DEF IInv

\* RunLifecycle's part of every step.
LEMMA BaseNext ==
  ASSUME DInv, [DNext]_dvars
  PROVE  IInv' /\ Kept /\ [Gate!Next]_(Gate!gvars)
<1>1. CASE OwnStep
  BY <1>1, OwnSteps, LifecycleKept DEF DInv
<1>2. ASSUME NEW p \in Requests, HearAnswer(p)
      PROVE  IInv' /\ Kept /\ [Gate!Next]_(Gate!gvars)
  BY <1>2, AnswerKept
<1>3. ASSUME NEW c \in Calls, DatabaseStep(c)
      PROVE  IInv' /\ Kept /\ [Gate!Next]_(Gate!gvars)
  BY <1>3, DatabaseActs
<1> QED BY <1>1, <1>2, <1>3 DEF DNext, OwnStep

-----------------------------------------------------------------------------
(***************************************************************************)
(* The links between the parts.                                            *)
(***************************************************************************)

\* What no step takes away from the inventory and the calls.
Stays ==
  /\ Kept
  /\ \A t \in Targets : targets[t] # None => targets'[t] # None
  /\ \A c \in Calls : job[c] # None => job'[c] = job[c] /\ runOf'[c] = runOf[c]
  /\ \A c \in Calls :
       result[c] \in {"executed", "skipped"} => result'[c] = result[c]

\* A call that had its answer keeps it.
LEMMA ToldKept ==
  ASSUME Stays, NEW r, NEW t, NEW answer \in {"executed", "skipped"},
         Told(r, t, answer)
  PROVE  Told(r, t, answer)'
BY DEF Stays, Told

\* A request that does not move stays linked.
Unmoved(p) ==
  loc'[p] = loc[p] /\ awaited'[p] = awaited[p] /\ listed'[p] = listed[p]

LEMMA LinkedStays ==
  ASSUME Stays, IInv, DTypes, NEW q \in Requests, Linked(q), Unmoved(q)
  PROVE  Linked(q)'
<1> USE DEF Unmoved
<1>1. listed[q] # None => listed[q] \subseteq Targets
  BY DEF DTypes
<1>2. awaited[q] # None => awaited[q] \in Calls
  BY DEF DTypes
<1>3. At(q, "exec_record") /\ loc[q].result \in {"executed", "skipped"} =>
        Told(loc[q].run, loc[q].cur, loc[q].result)'
  BY ToldKept DEF Linked
<1> QED BY <1>1, <1>2, <1>3 DEF Linked, Stays, At, Told

\* A call that goes on stays what it was.
LEMMA CallStays ==
  ASSUME Stays, IInv, DTypes, NEW c \in Calls, job[c] # None, CallOK(c)
  PROVE  CallOK(c)'
<1>1. job[c].target \in Targets
  BY CallKeys
<1>2. job'[c] = job[c] /\ runOf'[c] = runOf[c]
  BY DEF Stays
<1>3. runOf[c] \in Runs /\ runs[runOf[c]] # None
  BY DEF CallOK
<1>4. Granted(runOf[c])'
  BY <1>2, <1>3, GrantedKept DEF CallOK, Stays
<1> QED BY <1>1, <1>2, <1>3, <1>4 DEF CallOK, Stays, Kept

\* Calls that were there before stay what they were, and the new
\* ones are as they should be.
LEMMA CallsStay ==
  ASSUME Stays, IInv, DTypes, CallsOK,
         \A c \in Calls :
           job'[c] = None => result'[c] = None /\ c \notin landed',
         \A c \in Calls : job[c] = None /\ job'[c] # None => CallOK(c)'
  PROVE  CallsOK'
<1> SUFFICES ASSUME NEW c \in Calls, job'[c] # None PROVE CallOK(c)'
  BY DEF CallsOK
<1>1. CASE job[c] # None
  BY <1>1, CallStays DEF CallsOK
<1> QED BY <1>1

\* New statuses of items are those that calls have answered.
LEMMA ItemsStay ==
  ASSUME Stays, ItemsTold,
         \A r \in Runs, t \in Targets :
           items'[r][t] \in {"executed", "skipped"} =>
             items'[r][t] = items[r][t] \/ Told(r, t, items'[r][t])
  PROVE  ItemsTold'
<1> SUFFICES ASSUME NEW r \in Runs, NEW t \in Targets, NEW answer,
                    answer = items'[r][t], answer \in {"executed", "skipped"}
             PROVE  Told(r, t, answer)'
  BY DEF ItemsTold, Told
<1>1. Told(r, t, answer)
  BY DEF ItemsTold
<1> QED BY <1>1, ToldKept

\* Runs and items that were there before stay in their project.
LEMMA ScopedStays ==
  ASSUME Stays, SameRequests, TypeInv, Scoped
  PROVE  Scoped'
BY DEF Scoped, Stays, SameRequests, Kept

\* The links survive a step if every request it moves is linked again.
LEMMA Relink ==
  ASSUME DInv, IInv', DTypes', Stays, StockOK', DatabasesKept,
         \A c \in Calls : job[c] = None /\ job'[c] # None => CallOK(c)',
         \A r \in Runs, t \in Targets :
           items'[r][t] \in {"executed", "skipped"} =>
             items'[r][t] = items[r][t] \/ Told(r, t, items'[r][t]),
         Scoped',
         \A p \in Requests : Unmoved(p) \/ Linked(p)'
  PROVE  DInv'
<1>1. CallsOK'
  BY CallsStay DEF DInv, LinkInv, DatabasesKept, Stays
<1>2. ItemsTold'
  BY ItemsStay DEF DInv, LinkInv
<1>3. \A q \in Requests : Linked(q)'
  BY LinkedStays DEF DInv, LinkInv
<1> QED BY <1>1, <1>2, <1>3 DEF DInv, LinkInv, DatabasesKept

\* The same of a step that leaves inventory, databases and calls alone.
LEMMA RelinkAlone ==
  ASSUME DInv, IInv', Kept, UNCHANGED <<inventory, databases, runOf, retired>>,
         listed' \in [Requests -> (SUBSET Targets) \cup {None}],
         awaited' \in [Requests -> Calls \cup {None}],
         \A r \in Runs, t \in Targets :
           items'[r][t] \in {"executed", "skipped"} =>
             items'[r][t] = items[r][t] \/ Told(r, t, items'[r][t]),
         SameRequests \/ Scoped',
         \A p \in Requests : Unmoved(p) \/ Linked(p)'
  PROVE  DInv'
<1>1. DatabasesKept /\ UNCHANGED <<job, landed>>
  BY DatabasesStay DEF DInv, LinkInv
<1>2. DTypes'
  BY DEF DInv, DTypes, inventory, databases
<1>3. Stays
  BY DEF Stays, inventory, databases
<1>4. StockOK'
  BY DEF DInv, LinkInv, StockOK, inventory
<1>5. Scoped'
  BY <1>3, ScopedStays DEF DInv, IInv, LinkInv
<1> QED BY <1>1, <1>2, <1>3, <1>4, <1>5, Relink

\* What the inventory keeps: rows stay, and what is disabled stays disabled.
TargetsKept ==
  /\ targets' \in [Targets -> Stock!TargetRow \cup {None}]
  /\ \A t \in Targets : targets[t] # None =>
       /\ targets'[t] # None
       /\ ~ targets[t].active => ~ targets'[t].active

LEMMA TargetWrite ==
  ASSUME DTypes, NEW t \in Targets, NEW row \in Stock!TargetRow,
         targets[t] # None => (~ targets[t].active => ~ row.active),
         targets' = [targets EXCEPT ![t] = row]
  PROVE  TargetsKept
<1>1. row # None
  BY NoRowAssumption
<1> QED BY <1>1 DEF TargetsKept, DTypes

LEMMA StockTargets ==
  ASSUME DTypes, StockOK, Stock!Next
  PROVE  TargetsKept
<1>1. ASSUME NEW project \in Projects, NEW t \in Targets, NEW host \in Hosts,
             NEW name \in Names, Stock!CreateDBTarget(project, t, host, name)
      PROVE  TargetsKept
  <2> DEFINE row == [host |-> host, name |-> name, active |-> TRUE]
  <2>1. row \in Stock!TargetRow
    BY DEF Stock!TargetRow
  <2>2. targets[t] = None /\ targets' = [targets EXCEPT ![t] = row]
    BY <1>1 DEF Stock!CreateDBTarget
  <2> HIDE DEF row
  <2> QED BY <2>1, <2>2, TargetWrite
<1>2. ASSUME NEW project \in Projects, NEW t \in Targets,
             Stock!DisableDBTarget(project, t)
      PROVE  TargetsKept
  <2> DEFINE row == [targets[t] EXCEPT !.active = FALSE]
  <2>1. targets[t] \in Stock!TargetRow
    BY <1>2 DEF Stock!DisableDBTarget, DTypes
  <2>2. row \in Stock!TargetRow /\ ~ row.active
    BY <2>1 DEF Stock!TargetRow
  <2>3. targets' = [targets EXCEPT ![t] = row]
    BY <1>2 DEF Stock!DisableDBTarget
  <2> HIDE DEF row
  <2> QED BY <2>2, <2>3, TargetWrite
<1>3. ASSUME NEW e \in Editors, Stock!EditWrite(e)
      PROVE  TargetsKept
  <2> SUFFICES ASSUME NEW t, t = edits[e].target PROVE TargetsKept
    OBVIOUS
  <2> DEFINE row == [edits[e].row EXCEPT !.active = targets[t].active]
  <2>1. edits[e] \in Stock!Edit
    BY <1>3 DEF Stock!EditWrite, DTypes
  <2>2. /\ t \in Targets /\ edits[e].row \in Stock!TargetRow
        /\ targets[t] \in Stock!TargetRow
    BY <1>3, <2>1 DEF Stock!EditWrite, Stock!Edit, StockOK, DTypes
  <2>3. row \in Stock!TargetRow /\ row.active = targets[t].active
    BY <2>2 DEF Stock!TargetRow
  <2>4. targets' = [targets EXCEPT ![t] = row]
    BY <1>3 DEF Stock!EditWrite, Stock!Overwritten
  <2> HIDE DEF row
  <2> QED BY <2>2, <2>3, <2>4, TargetWrite
<1>4. CASE UNCHANGED targets
  BY <1>4 DEF TargetsKept, DTypes
<1>5. \/ \E project \in Projects, t \in Targets :
           \/ \E host \in Hosts, name \in Names :
                Stock!CreateDBTarget(project, t, host, name)
           \/ Stock!DisableDBTarget(project, t)
      \/ \E e \in Editors : Stock!EditWrite(e)
      \/ UNCHANGED targets
  BY DEF Stock!Next, Stock!CreateProject, Stock!CreateDBSet, Stock!DisableDBSet,
     Stock!EditRead, Stock!EditGivenUp
<1> QED BY <1>1, <1>2, <1>3, <1>4, <1>5

\* An edit in flight is one of a target that exists, and fits its table.
EditsKept ==
  /\ edits' \in [Editors -> Stock!Edit \cup {None}]
  /\ \A e \in Editors : edits'[e] # None => targets'[edits'[e].target] # None

LEMMA MergedRow ==
  ASSUME NEW row \in Stock!TargetRow, NEW form \in Stock!Form
  PROVE  Stock!Merged(row, form) \in Stock!TargetRow
<1> DEFINE host == Stock!Filled(form.host, row.host)
           name == Stock!Filled(form.name, row.name)
<1>1. host \in Hosts /\ name \in Names
  BY DEF Stock!Filled, Stock!TargetRow, Stock!Form
<1>2. Stock!Merged(row, form) = [row EXCEPT !.host = host, !.name = name]
  BY DEF Stock!Merged
<1> HIDE DEF host, name
<1> QED BY <1>1, <1>2 DEF Stock!TargetRow

LEMMA StockEdits ==
  ASSUME DTypes, StockOK, Stock!Next
  PROVE  EditsKept
<1>1. \A t \in Targets : targets[t] # None => targets'[t] # None
  BY StockTargets DEF TargetsKept
<1>2. ASSUME NEW project \in Projects, NEW t \in Targets, NEW e \in Editors,
             NEW form \in Stock!Form, Stock!EditRead(e, project, t, form)
      PROVE  EditsKept
  <2> DEFINE edit == [target |-> t, row |-> Stock!Merged(targets[t], form)]
  <2>1. targets[t] # None /\ targets[t] \in Stock!TargetRow
    BY <1>2 DEF Stock!EditRead, DTypes
  <2>2. edit \in Stock!Edit /\ edit.target = t
    BY <2>1, MergedRow DEF Stock!Edit
  <2>3. edits' = [edits EXCEPT ![e] = edit]
    BY <1>2 DEF Stock!EditRead
  <2> HIDE DEF edit
  <2> QED BY <1>1, <2>1, <2>2, <2>3 DEF EditsKept, DTypes, StockOK, Stock!Edit
<1>3. CASE \/ UNCHANGED edits
           \/ \E e \in Editors : edits' = [edits EXCEPT ![e] = None]
  BY <1>1, <1>3 DEF EditsKept, DTypes, StockOK, Stock!Edit
<1>4. \/ \E project \in Projects, t \in Targets, e \in Editors,
            form \in Stock!Form : Stock!EditRead(e, project, t, form)
      \/ UNCHANGED edits
      \/ \E e \in Editors : edits' = [edits EXCEPT ![e] = None]
  BY DEF Stock!Next, Stock!CreateProject, Stock!CreateDBSet, Stock!DisableDBSet,
     Stock!CreateDBTarget, Stock!DisableDBTarget, Stock!EditWrite,
     Stock!EditGivenUp
<1> QED BY <1>2, <1>3, <1>4

LEMMA StockTables ==
  ASSUME DTypes, Stock!Next
  PROVE  /\ projects' \subseteq Projects
         /\ sets' \in [DBSets -> Stock!SetRow \cup {None}]
<1>1. \/ UNCHANGED projects
      \/ \E project \in Projects : projects' = projects \cup {project}
  BY DEF Stock!Next, Stock!CreateProject, Stock!CreateDBSet, Stock!DisableDBSet,
     Stock!CreateDBTarget, Stock!DisableDBTarget, Stock!EditRead,
     Stock!EditWrite, Stock!EditGivenUp
<1>2. \/ UNCHANGED sets
      \/ \E project \in Projects, s \in DBSets : Stock!CreateDBSet(project, s)
      \/ \E s \in DBSets : Stock!DisableDBSet(s)
  BY DEF Stock!Next, Stock!CreateProject, Stock!CreateDBTarget,
     Stock!DisableDBTarget, Stock!EditRead, Stock!EditWrite, Stock!EditGivenUp
<1>3. projects' \subseteq Projects
  BY <1>1 DEF DTypes
<1>4. ASSUME NEW s \in DBSets, Stock!DisableDBSet(s)
      PROVE  sets' \in [DBSets -> Stock!SetRow \cup {None}]
  <2> DEFINE row == [sets[s] EXCEPT !.active = FALSE]
  <2>1. sets[s] \in Stock!SetRow
    BY <1>4 DEF Stock!DisableDBSet, DTypes
  <2>2. row \in Stock!SetRow
    BY <2>1 DEF Stock!SetRow
  <2>3. sets' = [sets EXCEPT ![s] = row]
    BY <1>4 DEF Stock!DisableDBSet
  <2> HIDE DEF row
  <2> QED BY <2>2, <2>3 DEF DTypes
<1>5. ASSUME NEW project \in Projects, NEW s \in DBSets,
             Stock!CreateDBSet(project, s)
      PROVE  sets' \in [DBSets -> Stock!SetRow \cup {None}]
  BY <1>5 DEF Stock!CreateDBSet, Stock!SetRow, DTypes
<1> QED BY <1>2, <1>3, <1>4, <1>5 DEF DTypes

\* The inventory under the runs.
LEMMA InventoryLinks ==
  ASSUME DInv, IInv', Kept, InventoryStep
  PROVE  DInv'
<1>1. /\ Stock!Next /\ UNCHANGED <<vars, databases, links>>
      /\ retired' = retired \cup
           {t \in Targets : targets'[t] # None /\ ~ targets'[t].active}
  BY DEF InventoryStep
<1>2. TargetsKept /\ EditsKept
  BY <1>1, StockTargets, StockEdits DEF DInv, LinkInv
<1>3. DTypes'
  BY <1>1, <1>2, StockTables
  DEF DInv, DTypes, TargetsKept, EditsKept, databases, links
<1>4. StockOK'
  BY <1>1, <1>2 DEF DInv, LinkInv, StockOK, TargetsKept, EditsKept, DTypes
<1>5. Stays
  BY <1>1, <1>2 DEF Stays, TargetsKept, databases, links
<1>6. DatabasesKept
  BY <1>1, DatabasesStay DEF DInv, LinkInv
<1>7. UNCHANGED <<runs, items, grants, job, loc, awaited, listed>>
  BY <1>1 DEF vars, toolDB, history, databases, links
<1>8. Scoped'
  BY <1>5, <1>7, TablesStay, ScopedStays DEF DInv, IInv, LinkInv
<1> QED BY <1>3, <1>4, <1>5, <1>6, <1>7, <1>8, Relink DEF Unmoved

\* Listing targets.
LEMMA ListLinks ==
  ASSUME DInv, IInv', Kept, NEW p \in Requests, ListTargets(p)
  PROVE  DInv'
<1> DEFINE active == Stock!ActiveTargets(loc[p].draft.set)
<1>1. active \in SUBSET Targets /\ \A t \in active : targets[t] # None
  BY DEF Stock!ActiveTargets
<1>2. /\ At(p, "request_insert") /\ listed' = [listed EXCEPT ![p] = active]
      /\ UNCHANGED <<vars, inventory, databases, awaited, runOf, retired>>
  BY DEF ListTargets
<1> HIDE DEF active
<1>3. listed' \in [Requests -> (SUBSET Targets) \cup {None}]
  BY <1>1, <1>2 DEF DInv, DTypes
<1>4. UNCHANGED <<runs, items, grants, loc, targets, job>>
  BY <1>2 DEF vars, toolDB, history, inventory, databases
<1>5. listed'[p] = active /\ \A q \in Requests \ {p} : listed'[q] = listed[q]
  BY <1>1, <1>2 DEF DInv, DTypes
<1>6. Linked(p)'
  BY <1>1, <1>2, <1>4, <1>5
  DEF DInv, LinkInv, Linked, At, Told, databases
<1>7. SameRequests
  BY <1>4, TablesStay
<1>8. \A q \in Requests : Unmoved(q) \/ Linked(q)'
  BY <1>2, <1>4, <1>5, <1>6 DEF Unmoved
<1> QED BY <1>2, <1>3, <1>4, <1>7, <1>8, RelinkAlone DEF DInv, DTypes

\* An insert moves its request.
LEMMA NoInsert ==
  ASSUME IInv, [Next]_vars,
         \A q \in Requests : At(q, "request_insert") => loc'[q] = loc[q]
  PROVE  SameRequests
<1>1. ASSUME NEW q \in Requests, NEW active \in SUBSET Targets, Inserts(q, active)
      PROVE  FALSE
  <2>1. At(q, "request_insert") /\ loc'[q] = Idle
    BY <1>1 DEF Inserts, RequestInsert, Done, Becomes, IInv, TypeInv, TypeOK
  <2> QED BY <2>1 DEF At, Idle
<1> QED BY <1>1, RequestsStay

\* A new migration, or nothing at all.
LEMMA NewLinks ==
  ASSUME DInv, IInv', Kept, [Next]_vars,
         \/ UNCHANGED dvars
         \/ \E m \in Migrations, up \in Scripts, down \in DownScripts \cup {None} :
              NewMigration(m, up, down)
  PROVE  DInv'
<1>1. UNCHANGED <<items, loc, inventory, databases, links, retired>>
  BY DEF dvars, vars, toolDB, NewMigration, CreateMigration
<1>2. SameRequests
  BY <1>1, NoInsert DEF DInv
<1> QED BY <1>1, <1>2, RelinkAlone DEF DInv, DTypes, links, Unmoved

\* A request for a run of the selected project.
LEMMA RequestLinks ==
  ASSUME DInv, IInv', Kept, [Next]_vars, NEW p \in Requests,
         NEW project \in Projects, NEW m \in Migrations, NEW type \in RunType,
         NEW env \in Envs, NEW set \in DBSets,
         RequestInProject(p, project, m, type, env, set)
  PROVE  DInv'
<1> DEFINE draft == RequestedRun(m, type, env, set)
<1>1. /\ At(p, "idle") /\ ProjectOf[set] = HomeOf[m]
      /\ UNCHANGED <<inventory, databases, links, retired, items>>
      /\ \E r \in Runs :
           Becomes(p, [Idle EXCEPT !.pc = "request_insert", !.run = r,
                                   !.draft = draft])
  BY DEF RequestInProject, RequestRead, InScope, toolDB
<1>2. draft.set = set /\ draft.mig = m
  BY DEF RequestedRun
<1> HIDE DEF draft
<1>3. /\ loc'[p].pc = "request_insert" /\ loc'[p].draft = draft
      /\ \A q \in Requests \ {p} : loc'[q] = loc[q]
  BY <1>1 DEF Becomes, Idle, DInv, IInv, TypeInv, TypeOK
<1>4. awaited[p] = None /\ listed[p] = None
  BY <1>1 DEF DInv, LinkInv, Linked, At
<1>5. Linked(p)'
  BY <1>1, <1>2, <1>3, <1>4 DEF Linked, At, links
<1>6. SameRequests
  BY <1>1, <1>3, NoInsert DEF DInv, At
<1>7. \A q \in Requests : Unmoved(q) \/ Linked(q)'
  BY <1>1, <1>3, <1>5 DEF Unmoved, links
<1> QED BY <1>1, <1>6, <1>7, RelinkAlone DEF DInv, DTypes, links

\* The insert of the items that were listed.
LEMMA InsertLinks ==
  ASSUME DInv, IInv', Kept, NEW p \in Requests, InsertListed(p)
  PROVE  DInv'
<1> SUFFICES ASSUME NEW r, NEW draft, NEW active,
                    r = loc[p].run, draft = loc[p].draft, active = listed[p]
             PROVE  DInv'
  OBVIOUS
<1>1. /\ active # None /\ active \in SUBSET Targets
      /\ \A t \in active : targets[t] # None
      /\ ProjectOf[draft.set] = HomeOf[draft.mig] /\ awaited[p] = None
      /\ r \in Runs /\ runs[r] = None /\ draft \in RunRow
  BY DEF InsertListed, RequestInsert, DInv, IInv, TypeInv, TypeOK, Local, Holds,
     DTypes, LinkInv, Linked, At
<1>2. /\ \/ UNCHANGED <<runs, items>>
         \/ /\ runs' = [runs EXCEPT ![r] = draft]
            /\ items' = [items EXCEPT ![r] =
                 [t \in Targets |-> IF t \in active THEN "queued" ELSE None]]
      /\ Done(p)
      /\ listed' = [listed EXCEPT ![p] = None]
      /\ UNCHANGED <<inventory, databases, awaited, runOf, retired>>
  BY DEF InsertListed, RequestInsert
<1>3. /\ loc'[p] = Idle /\ \A q \in Requests \ {p} : loc'[q] = loc[q]
      /\ listed'[p] = None /\ \A q \in Requests \ {p} : listed'[q] = listed[q]
      /\ listed' \in [Requests -> (SUBSET Targets) \cup {None}]
  BY <1>2 DEF Done, Becomes, DInv, IInv, TypeInv, TypeOK, DTypes
<1>4. /\ \A s \in Runs \ {r} : runs'[s] = runs[s] /\ items'[s] = items[s]
      /\ \/ runs'[r] = runs[r] /\ items'[r] = items[r]
         \/ /\ runs'[r] = draft
            /\ items'[r] =
                 [t \in Targets |-> IF t \in active THEN "queued" ELSE None]
  BY <1>1, <1>2 DEF DInv, IInv, TypeInv, TypeOK
<1>5. \A s \in Runs, t \in Targets :
        items'[s][t] \in {"executed", "skipped"} => items'[s][t] = items[s][t]
  BY <1>4, NoneAssumption DEF ItemStatus
<1>6. Scoped'
  BY <1>1, <1>2, <1>4 DEF DInv, LinkInv, Scoped, inventory
<1>7. Linked(p)'
  BY <1>1, <1>2, <1>3 DEF Linked, At, Idle
<1>8. \A q \in Requests : Unmoved(q) \/ Linked(q)'
  BY <1>2, <1>3, <1>7 DEF Unmoved
<1> QED BY <1>2, <1>3, <1>5, <1>6, <1>8, RelinkAlone DEF DInv, DTypes

\* An item fails without a call.
LEMMA DisabledLinks ==
  ASSUME DInv, IInv', Kept, NEW p \in Requests, TargetDisabled(p)
  PROVE  DInv'
<1>1. /\ At(p, "exec_apply") /\ awaited[p] = None
      /\ Becomes(p, [loc[p] EXCEPT !.pc = "exec_record", !.result = "failed"])
      /\ UNCHANGED <<toolDB, history, inventory, databases, links, retired>>
  BY DEF TargetDisabled, Executes
<1>2. loc[p] \in Local /\ listed[p] = None
  BY <1>1 DEF DInv, IInv, TypeInv, TypeOK, LinkInv, Linked, At
<1>3. /\ loc'[p].pc = "exec_record" /\ loc'[p].result = "failed"
      /\ \A q \in Requests \ {p} : loc'[q] = loc[q]
  BY <1>1, <1>2 DEF Becomes, DInv, IInv, TypeInv, TypeOK, Local
<1>4. Linked(p)'
  BY <1>1, <1>2, <1>3 DEF Linked, At, links
<1>5. SameRequests
  BY <1>1, TablesStay DEF toolDB, history
<1>6. \A q \in Requests : Unmoved(q) \/ Linked(q)'
  BY <1>1, <1>3, <1>4 DEF Unmoved, links
<1> QED BY <1>1, <1>5, <1>6, RelinkAlone DEF DInv, DTypes, links, toolDB

\* A new call is for the item in hand, on a target that is active.
LEMMA NewCall ==
  ASSUME DInv, NEW p \in Requests, NEW c \in Calls, CallTarget(p, c)
  PROVE  /\ job[c] = None /\ job'[c] # None /\ job' \in [Calls -> Ledgers!Job \cup {None}]
         /\ \A x \in Calls \ {c} : job'[x] = job[x] /\ runOf'[x] = runOf[x]
         /\ runOf' \in [Calls -> Runs \cup {None}]
         /\ runOf'[c] = loc[p].run /\ job'[c].target = loc[p].cur
         /\ job'[c].target \notin retired
         /\ CallOK(c)'
<1> SUFFICES ASSUME NEW r, NEW t, NEW row, r = loc[p].run, t = loc[p].cur,
                    row = loc[p].row
             PROVE  /\ job[c] = None /\ job'[c] # None
                    /\ job' \in [Calls -> Ledgers!Job \cup {None}]
                    /\ \A x \in Calls \ {c} :
                         job'[x] = job[x] /\ runOf'[x] = runOf[x]
                    /\ runOf' \in [Calls -> Runs \cup {None}]
                    /\ runOf'[c] = r /\ job'[c].target = t
                    /\ job'[c].target \notin retired
                    /\ CallOK(c)'
  OBVIOUS
<1>1. /\ loc[p] \in Local /\ Holds(p) /\ Sound(p) /\ At(p, "exec_apply")
  BY DEF CallTarget, Executes, DInv, IInv, SafeInv, TypeInv, TypeOK
<1>2. /\ r \in Runs /\ runs[r] # None /\ t \in Targets /\ row \in MigrationRow
      /\ row.sumUp = runs[r].sumUp /\ row.sumUp = Checksum(row.up)
      /\ items[r][t] # None /\ Granted(r)
  BY <1>1 DEF Holds, Sound, At, RowOK, OnItem, AfterCheck, Local
<1>3. /\ targets[t] \in Stock!TargetRow /\ targets[t].active /\ t \notin retired
  BY <1>2 DEF CallTarget, DInv, DTypes, LinkInv, Scoped, StockOK
<1>4. PICK mode \in Modes :
        Ledgers!Call(c, [target |-> t, db |-> Database(targets[t]),
                         copy |-> CopyFor(p, mode)])
  BY DEF CallTarget
<1> DEFINE copy == [mig |-> runs[r].mig, up |-> row.up, sum |-> row.sumUp,
                    mode |-> mode]
           j == [target |-> t, db |-> Database(targets[t]), copy |-> copy]
<1>5. copy = CopyFor(p, mode)
  BY DEF CopyFor, SqlToRun
<1>6. /\ copy \in Copies /\ copy.mig = runs[r].mig /\ copy.up = row.up
      /\ copy.sum = row.sumUp
  BY <1>2 DEF Copies, DInv, IInv, TypeInv, TypeOK, RunRow, MigrationRow
<1>7. Database(targets[t]) \in Databases
  BY <1>3 DEF Database, Databases, Stock!TargetRow
<1> HIDE DEF copy
<1>8. j \in Ledgers!Job /\ j.target = t /\ j.copy = copy
  BY <1>2, <1>6, <1>7 DEF Ledgers!Job
<1>9. /\ job[c] = None /\ job' = [job EXCEPT ![c] = j]
      /\ runOf' = [runOf EXCEPT ![c] = r]
      /\ UNCHANGED <<runs, items, grants>>
  BY <1>4, <1>5 DEF Ledgers!Call, CallTarget, vars, toolDB, history
<1> HIDE DEF j
<1>10. /\ job'[c] = j /\ j # None
       /\ job' \in [Calls -> Ledgers!Job \cup {None}]
       /\ runOf'[c] = r /\ runOf' \in [Calls -> Runs \cup {None}]
       /\ \A x \in Calls \ {c} : job'[x] = job[x] /\ runOf'[x] = runOf[x]
  BY <1>2, <1>8, <1>9, NoRowAssumption DEF DInv, DTypes
<1>11. Granted(runOf[c])'
  BY <1>2, <1>9, <1>10 DEF Granted
<1>12. CallOK(c)'
  BY <1>2, <1>6, <1>8, <1>9, <1>10, <1>11 DEF CallOK
<1> QED BY <1>3, <1>8, <1>9, <1>10, <1>12

LEMMA CallLinks ==
  ASSUME DInv, IInv', Kept, NEW p \in Requests, NEW c \in Calls, CallTarget(p, c)
  PROVE  DInv'
<1>1. /\ At(p, "exec_apply") /\ awaited[p] = None
      /\ UNCHANGED <<vars, inventory, listed, retired>>
      /\ UNCHANGED <<result, rows, landed>>
      /\ awaited' = [awaited EXCEPT ![p] = c]
  BY DEF CallTarget, Executes, Ledgers!Call
<1>2. UNCHANGED <<loc, runs, items, grants, projects, sets, targets, edits>>
  BY <1>1 DEF vars, toolDB, history, inventory
<1>3. /\ awaited' \in [Requests -> Calls \cup {None}]
      /\ awaited'[p] = c /\ \A q \in Requests \ {p} : awaited'[q] = awaited[q]
  BY <1>1 DEF DInv, DTypes
<1>4. \A x \in Calls : job[x] # None => job'[x] = job[x] /\ runOf'[x] = runOf[x]
  BY NewCall
<1>5. DTypes'
  BY <1>1, <1>2, <1>3, NewCall DEF DInv, DTypes
<1>6. Stays
  BY <1>1, <1>2, <1>4 DEF Stays
<1>7. StockOK'
  BY <1>1, <1>2 DEF DInv, LinkInv, StockOK
<1>8. DatabasesKept
  <2>1. AnswersOK'
    BY <1>1, <1>4 DEF DInv, LinkInv, AnswersOK, OnRecord
  <2>2. \A x \in Calls : job[x] = None => result[x] = None /\ x \notin landed
    BY DEF DInv, LinkInv, CallsOK
  <2> QED BY <1>1, <2>1, <2>2 DEF DInv, DTypes, DatabasesKept
<1>9. \A x \in Calls : job[x] = None /\ job'[x] # None => CallOK(x)'
  BY NewCall
<1>10. Scoped'
  BY <1>2, <1>6, TablesStay, ScopedStays DEF DInv, IInv, LinkInv
<1>11. Linked(p)'
  BY <1>1, <1>2, <1>3, NewCall DEF Linked, At, DInv, LinkInv
<1>12. \A q \in Requests : Unmoved(q) \/ Linked(q)'
  BY <1>1, <1>2, <1>3, <1>11 DEF Unmoved
<1> QED BY <1>2, <1>5, <1>6, <1>7, <1>8, <1>9, <1>10, <1>12, Relink

\* The database answers, or goes on unheard.
LEMMA DatabaseLinks ==
  ASSUME DInv, IInv', Kept, NEW c \in Calls, DatabaseStep(c)
  PROVE  DInv'
<1>1. UNCHANGED <<toolDB, loc, grants, inventory, links, retired>>
  BY DEF DatabaseStep
<1>2. DatabasesKept /\ UNCHANGED job
  BY DatabaseActs
<1>3. UNCHANGED <<runs, items, projects, sets, targets, edits, listed, awaited,
                  runOf>>
  BY <1>1 DEF toolDB, inventory, links
<1>4. DTypes'
  BY <1>1, <1>2, <1>3 DEF DInv, DTypes, DatabasesKept
<1>5. Stays
  BY <1>2, <1>3 DEF Stays, DatabasesKept
<1>6. StockOK'
  BY <1>1, <1>3 DEF DInv, LinkInv, StockOK
<1>7. Scoped'
  BY <1>1, <1>3, <1>5, TablesStay, ScopedStays DEF DInv, IInv, LinkInv
<1> QED BY <1>1, <1>2, <1>3, <1>4, <1>5, <1>6, <1>7, Relink DEF Unmoved

\* The answer is heard.
LEMMA AnswerLinks ==
  ASSUME DInv, IInv', Kept, NEW p \in Requests, HearAnswer(p)
  PROVE  DInv'
<1> SUFFICES ASSUME NEW c, c = awaited[p] PROVE DInv'
  OBVIOUS
<1>1. /\ c # None /\ c \in Calls
      /\ Becomes(p, [loc[p] EXCEPT !.pc = "exec_record", !.result = result[c]])
      /\ awaited' = [awaited EXCEPT ![p] = None]
      /\ UNCHANGED <<toolDB, history, inventory, databases, listed, runOf, retired>>
  BY DEF HearAnswer, ItemResult, DInv, DTypes
<1>2. /\ loc[p] \in Local /\ At(p, "exec_apply") /\ listed[p] = None
      /\ job[c] # None /\ runOf[c] = loc[p].run /\ job[c].target = loc[p].cur
  BY <1>1 DEF DInv, IInv, TypeInv, TypeOK, LinkInv, Linked, At
<1>3. /\ loc'[p].pc = "exec_record" /\ loc'[p].result = result[c]
      /\ loc'[p].run = loc[p].run /\ loc'[p].cur = loc[p].cur
      /\ \A q \in Requests \ {p} : loc'[q] = loc[q]
  BY <1>1, <1>2 DEF Becomes, DInv, IInv, TypeInv, TypeOK, Local
<1>4. /\ awaited' \in [Requests -> Calls \cup {None}]
      /\ awaited'[p] = None /\ \A q \in Requests \ {p} : awaited'[q] = awaited[q]
  BY <1>1 DEF DInv, DTypes
<1>5. UNCHANGED <<runs, items, grants, job, result>>
  BY <1>1 DEF toolDB, history, databases
<1>6. Told(loc[p].run, loc[p].cur, loc[p].result)'
  BY <1>1, <1>2, <1>3, <1>5 DEF Told
<1>7. Linked(p)'
  BY <1>1, <1>2, <1>3, <1>4, <1>6 DEF Linked, At
<1>8. \A q \in Requests : Unmoved(q) \/ Linked(q)'
  BY <1>1, <1>3, <1>4, <1>7 DEF Unmoved
<1>9. SameRequests
  BY <1>5, TablesStay
<1> QED BY <1>1, <1>4, <1>5, <1>8, <1>9, RelinkAlone DEF DInv, DTypes

\* Nobody hears it any more.
LEMMA AbandonLinks ==
  ASSUME DInv, IInv', Kept, NEW p \in Requests, Abandon(p)
  PROVE  DInv'
<1>1. /\ Done(p) /\ UNCHANGED <<toolDB, history, inventory, runOf, retired>>
      /\ listed' = [listed EXCEPT ![p] = None]
      /\ awaited' = [awaited EXCEPT ![p] = None]
  BY DEF Abandon, GiveUp
<1>2. DatabasesKept /\ UNCHANGED job
  <2>1. CASE UNCHANGED databases
    BY <2>1, DatabasesStay DEF DInv, LinkInv
  <2>2. CASE ~ UNCHANGED databases
    <3>1. awaited[p] \in Calls /\ Works(awaited[p])
      BY <2>2 DEF Abandon, Works, DInv, DTypes
    <3> QED BY <3>1, WorkKept DEF DInv, LinkInv
  <2> QED BY <2>1, <2>2
<1>3. /\ loc'[p] = Idle /\ \A q \in Requests \ {p} : loc'[q] = loc[q]
      /\ listed'[p] = None /\ \A q \in Requests \ {p} : listed'[q] = listed[q]
      /\ listed' \in [Requests -> (SUBSET Targets) \cup {None}]
      /\ awaited'[p] = None /\ \A q \in Requests \ {p} : awaited'[q] = awaited[q]
      /\ awaited' \in [Requests -> Calls \cup {None}]
  BY <1>1 DEF Done, Becomes, DInv, IInv, TypeInv, TypeOK, DTypes
<1>4. UNCHANGED <<runs, items, grants, projects, sets, targets, edits>>
  BY <1>1 DEF toolDB, history, inventory
<1>5. DTypes'
  BY <1>1, <1>2, <1>3, <1>4 DEF DInv, DTypes, DatabasesKept
<1>6. Stays
  BY <1>1, <1>2, <1>4 DEF Stays, DatabasesKept
<1>7. StockOK'
  BY <1>1, <1>4 DEF DInv, LinkInv, StockOK
<1>8. Scoped'
  BY <1>4, <1>6, TablesStay, ScopedStays DEF DInv, IInv, LinkInv
<1>9. Linked(p)'
  BY <1>3 DEF Linked, At, Idle
<1>10. \A q \in Requests : Unmoved(q) \/ Linked(q)'
  BY <1>3, <1>9 DEF Unmoved
<1> QED BY <1>2, <1>4, <1>5, <1>6, <1>7, <1>8, <1>10, Relink

\* Where the steps of LifecycleStep start and lead to.
LEMMA LifecycleLabels ==
  ASSUME IInv, NEW p \in Requests, LifecycleStep(p)
  PROVE  /\ loc[p].pc \notin {"request_insert", "exec_apply"}
         /\ loc'[p].pc \notin {"request_insert", "exec_record"}
         /\ \A q \in Requests \ {p} : loc'[q] = loc[q]
<1> DEFINE Moves == /\ loc[p].pc \notin {"request_insert", "exec_apply"}
                    /\ loc'[p].pc \notin {"request_insert", "exec_record"}
                    /\ \A q \in Requests \ {p} : loc'[q] = loc[q]
<1>1. loc[p] \in Local /\ loc \in [Requests -> Local]
  BY DEF IInv, TypeInv, TypeOK
<1>2. ASSUME \/ \E m \in Migrations, up \in Scripts, down \in DownScripts \cup {None} :
                  UpdateRead(p, m, up, down)
             \/ \E r \in Runs : ApproveRead(p, r) \/ DenyRead(p, r) \/ ExecuteRead(p, r)
      PROVE  Moves
  <2>1. ASSUME NEW m \in Migrations, NEW up \in Scripts,
               NEW down \in DownScripts \cup {None}, UpdateRead(p, m, up, down)
        PROVE  Moves
    BY <1>1, <2>1 DEF At, Becomes, Idle, UpdateRead
  <2>2. ASSUME NEW r \in Runs, ApproveRead(p, r) PROVE Moves
    BY <1>1, <2>2 DEF At, Becomes, Idle, ApproveRead
  <2>3. ASSUME NEW r \in Runs, DenyRead(p, r) PROVE Moves
    BY <1>1, <2>3 DEF At, Becomes, Idle, DenyRead
  <2>4. ASSUME NEW r \in Runs, ExecuteRead(p, r) PROVE Moves
    BY <1>1, <2>4 DEF At, Becomes, Idle, ExecuteRead
  <2> HIDE DEF Moves
  <2> QED BY <1>2, <2>1, <2>2, <2>3, <2>4
<1>3. ASSUME \/ UpdateWrite(p) \/ UpdatePurge(p)
             \/ ApproveCommit(p) \/ DenyCommit(p)
      PROVE  Moves
  BY <1>1, <1>3 DEF At, Becomes, Done, Idle, Local, UpdateWrite, UpdatePurge,
     ApproveCommit, DenyCommit
<1>4. ASSUME ApproveCheck(p)
      PROVE  Moves
  <2> DEFINE row == mig[runs[loc[p].run].mig]
  <2>1. /\ At(p, "approve_check")
        /\ Done(p) \/ Becomes(p, [loc[p] EXCEPT !.pc = "approve_commit", !.row = row])
    BY <1>4 DEF ApproveCheck
  <2> HIDE DEF row
  <2>2. CASE Done(p)
    BY <1>1, <2>1, <2>2 DEF At, Becomes, Done, Idle
  <2>3. CASE Becomes(p, [loc[p] EXCEPT !.pc = "approve_commit", !.row = row])
    <3> DEFINE l == [loc[p] EXCEPT !.pc = "approve_commit", !.row = row]
    <3>1. l.pc = "approve_commit"
      BY <1>1 DEF Local
    <3> HIDE DEF l
    <3>2. loc' = [loc EXCEPT ![p] = l]
      BY <2>3 DEF Becomes, l
    <3> QED BY <1>1, <2>1, <3>1, <3>2 DEF At
  <2> QED BY <2>1, <2>2, <2>3
<1>5. ASSUME ExecuteListItems(p)
      PROVE  Moves
  BY <1>1, <1>5 DEF At, Becomes, Local, ExecuteListItems
<1>6. ASSUME ExecuteCheck(p)
      PROVE  Moves
  <2> DEFINE row == mig[runs[loc[p].run].mig]
  <2>1. /\ At(p, "exec_check")
        /\ Done(p) \/ Becomes(p, [loc[p] EXCEPT !.pc = "exec_start", !.row = row])
    BY <1>6 DEF ExecuteCheck
  <2> HIDE DEF row
  <2>2. CASE Done(p)
    BY <1>1, <2>1, <2>2 DEF At, Becomes, Done, Idle
  <2>3. CASE Becomes(p, [loc[p] EXCEPT !.pc = "exec_start", !.row = row])
    <3> DEFINE l == [loc[p] EXCEPT !.pc = "exec_start", !.row = row]
    <3>1. l.pc = "exec_start"
      BY <1>1 DEF Local
    <3> HIDE DEF l
    <3>2. loc' = [loc EXCEPT ![p] = l]
      BY <2>3 DEF Becomes, l
    <3> QED BY <1>1, <2>1, <3>1, <3>2 DEF At
  <2> QED BY <2>1, <2>2, <2>3
<1>7. ASSUME ExecuteStart(p) \/ ItemsDone(p)
      PROVE  Moves
  BY <1>1, <1>7 DEF At, Becomes, Local, ExecuteStart, ItemsDone
<1>8. ASSUME ItemStart(p)
      PROVE  Moves
  BY <1>1, <1>8 DEF At, Becomes, Local, ItemStart
<1>9. ASSUME ItemStartFails(p)
      PROVE  Moves
  BY <1>1, <1>9 DEF At, Becomes, Local, ItemStartFails
<1>10. ASSUME ItemRecord(p)
       PROVE  Moves
  BY <1>1, <1>10 DEF At, Becomes, Local, ItemRecord, AfterItem
<1>11. ASSUME ExecuteFinish(p)
       PROVE  Moves
  BY <1>1, <1>11 DEF At, Becomes, Done, Idle, ExecuteFinish
<1>12. Moves
  BY <1>2, <1>3, <1>4, <1>5, <1>6, <1>7, <1>8, <1>9, <1>10, <1>11
  DEF LifecycleStep
<1> QED BY <1>1, <1>12

\* They record what a call has answered.
LEMMA LifecycleItems ==
  ASSUME DInv, NEW p \in Requests, LifecycleStep(p), NEW r \in Runs,
         NEW t \in Targets, items'[r][t] \in {"executed", "skipped"}
  PROVE  items'[r][t] = items[r][t] \/ Told(r, t, items'[r][t])
<1>1. CASE ItemStart(p)
  BY <1>1 DEF ItemStart, DInv, IInv, TypeInv, TypeOK
<1>2. CASE ItemRecord(p)
  <2>1. items'[r][t] = items[r][t]
          \/ (r = loc[p].run /\ t = loc[p].cur /\ items'[r][t] = loc[p].result)
    BY <1>2 DEF ItemRecord, DInv, IInv, TypeInv, TypeOK
  <2> QED BY <1>2, <2>1 DEF ItemRecord, At, DInv, LinkInv, Linked
<1>3. CASE ~ ItemStart(p) /\ ~ ItemRecord(p)
  <2>1. UNCHANGED items
    BY <1>3 DEF LifecycleStep, UpdateRead, ApproveRead, DenyRead, ExecuteRead,
       UpdateWrite, UpdatePurge, ApproveCheck, ApproveCommit, DenyCommit,
       ExecuteListItems, ExecuteCheck, ExecuteStart, ItemStartFails, ItemsDone,
       ExecuteFinish, toolDB
  <2> QED BY <2>1
<1> QED BY <1>1, <1>2, <1>3

LEMMA LifecycleLinks ==
  ASSUME DInv, IInv', Kept, [Next]_vars, NEW p \in Requests, LifecycleStep(p)
  PROVE  DInv'
<1>1. UNCHANGED <<inventory, databases, links, retired>>
  BY DEF LifecycleStep
<1>2. /\ loc[p].pc \notin {"request_insert", "exec_apply"}
      /\ loc'[p].pc \notin {"request_insert", "exec_record"}
      /\ \A q \in Requests \ {p} : loc'[q] = loc[q]
  BY LifecycleLabels DEF DInv
<1>3. awaited[p] = None /\ listed[p] = None
  BY <1>2 DEF DInv, LinkInv, Linked, At
<1>4. Linked(p)'
  BY <1>1, <1>2, <1>3 DEF Linked, At, links
<1>5. SameRequests
  BY <1>2, NoInsert DEF DInv, At
<1>6. \A q \in Requests : Unmoved(q) \/ Linked(q)'
  BY <1>1, <1>2, <1>4 DEF Unmoved, links
<1>7. \A r \in Runs, t \in Targets :
        items'[r][t] \in {"executed", "skipped"} =>
          items'[r][t] = items[r][t] \/ Told(r, t, items'[r][t])
  BY LifecycleItems
<1> QED BY <1>1, <1>5, <1>6, <1>7, RelinkAlone DEF DInv, DTypes, links

-----------------------------------------------------------------------------
(***************************************************************************)
(* The invariant, and what follows from it.                                *)
(***************************************************************************)
LEMMA DInvInit == DInit => DInv
<1> SUFFICES ASSUME DInit PROVE DInv
  OBVIOUS
<1>1. IInv
  BY TypeInit, SafeInit DEF DInit, IInv
<1>2. DTypes
  BY DEF DInit, DTypes, Stock!Init, Ledgers!Init
<1>3. StockOK /\ CallsOK /\ AnswersOK
  BY NoneAssumption DEF DInit, Stock!Init, Ledgers!Init, StockOK, CallsOK,
     AnswersOK, ItemStatus
<1>4. ItemsTold /\ Scoped
  BY NoneAssumption DEF DInit, Init, ItemsTold, Scoped, ItemStatus
<1>5. \A p \in Requests : Linked(p)
  BY DEF DInit, Init, Linked, At, Idle
<1> QED BY <1>1, <1>2, <1>3, <1>4, <1>5 DEF DInv, LinkInv

LEMMA DInvNext == DInv /\ [DNext]_dvars => DInv'
<1> SUFFICES ASSUME DInv, [DNext]_dvars PROVE DInv'
  OBVIOUS
<1>1. IInv' /\ Kept
  BY BaseNext
<1>2. OwnStep => [Next]_vars
  BY OwnSteps DEF DInv
<1>3. CASE InventoryStep
  BY <1>1, <1>3, InventoryLinks
<1>4. CASE \/ UNCHANGED dvars
           \/ \E m \in Migrations, up \in Scripts,
                 down \in DownScripts \cup {None} : NewMigration(m, up, down)
  BY <1>1, <1>2, <1>4, NewLinks DEF OwnStep
<1>5. ASSUME NEW p \in Requests, NEW project \in Projects,
             NEW m \in Migrations, NEW type \in RunType, NEW env \in Envs,
             NEW set \in DBSets, RequestInProject(p, project, m, type, env, set)
      PROVE  DInv'
  BY <1>1, <1>2, <1>5, RequestLinks DEF OwnStep
<1>6. ASSUME NEW p \in Requests, LifecycleStep(p) PROVE DInv'
  BY <1>1, <1>2, <1>6, LifecycleLinks DEF OwnStep
<1>7. ASSUME NEW p \in Requests,
             \/ ListTargets(p) \/ InsertListed(p) \/ TargetDisabled(p)
             \/ HearAnswer(p) \/ Abandon(p)
             \/ \E c \in Calls : CallTarget(p, c)
      PROVE  DInv'
  BY <1>1, <1>7, ListLinks, InsertLinks, DisabledLinks, AnswerLinks,
     AbandonLinks, CallLinks
<1>8. ASSUME NEW c \in Calls, DatabaseStep(c) PROVE DInv'
  BY <1>1, <1>8, DatabaseLinks
<1> QED BY <1>3, <1>4, <1>5, <1>6, <1>7, <1>8 DEF DNext

LEMMA DInvariance == DSpec => []DInv
<1> QED BY DInvInit, DInvNext, PTL DEF DSpec

\* The whole system keeps its types, for every inventory.
THEOREM DeploymentTypes == DSpec => []DTypeOK
<1>1. DInv => DTypeOK
  BY DEF DInv, IInv, TypeInv, DTypes, DTypeOK
<1> QED BY <1>1, DInvariance, PTL

\* With databases that answer late or never, targets that move and requests
\* that are cut off, a run still acts with its approved text and on its own
\* targets only: the whole system implements ApprovalGate.
THEOREM DeploymentGate == DSpec => ImplementsApprovalGate
<1>1. DInit => Gate!Init
  BY GateInit DEF DInit
<1>2. DInv /\ [DNext]_dvars => [Gate!Next]_(Gate!gvars)
  BY BaseNext
<1> QED BY <1>1, <1>2, DInvariance, PTL DEF DSpec, ImplementsApprovalGate, Gate!Spec

\* A disabled target is called by no run, whatever was in flight.
THEOREM DisabledIsLeftAlone == DSpec => DisabledIsNotCalled
<1>1. ASSUME DInv, [DNext]_dvars, NEW c \in Calls, job[c] = None, job'[c] # None
      PROVE  job'[c].target \notin retired
  <2>1. ASSUME NEW p \in Requests, NEW x \in Calls, CallTarget(p, x)
        PROVE  job'[c].target \notin retired
    BY <1>1, <2>1, NewCall
  <2>2. ASSUME NEW x \in Calls, DatabaseStep(x)
        PROVE  UNCHANGED job
    BY <1>1, <2>2, DatabaseActs
  <2>3. ASSUME NEW p \in Requests, LifecycleStep(p) \/ ListTargets(p)
               \/ InsertListed(p) \/ TargetDisabled(p) \/ HearAnswer(p)
        PROVE  UNCHANGED job
    BY <2>3 DEF LifecycleStep, ListTargets, InsertListed, TargetDisabled,
       HearAnswer, databases
  <2>4. ASSUME NEW p \in Requests, Abandon(p) PROVE UNCHANGED job
    BY <2>4 DEF Abandon, databases, Ledgers!Fail
  <2>5. CASE \/ InventoryStep \/ UNCHANGED dvars
             \/ \E m \in Migrations, up \in Scripts,
                   down \in DownScripts \cup {None} : NewMigration(m, up, down)
             \/ \E p \in Requests, project \in Projects, m \in Migrations,
                   type \in RunType, env \in Envs, set \in DBSets :
                  RequestInProject(p, project, m, type, env, set)
    BY <1>1, <2>5 DEF InventoryStep, NewMigration, RequestInProject, dvars,
       databases
  <2> QED BY <1>1, <2>1, <2>2, <2>3, <2>4, <2>5 DEF DNext
<1>2. DInv /\ [DNext]_dvars =>
        [\A c \in Calls :
           job[c] = None /\ job'[c] # None => job'[c].target \notin retired]_dvars
  BY <1>1
<1> QED BY <1>2, DInvariance, PTL DEF DSpec, DisabledIsNotCalled

\* What the tool reports of an item is on record at the database that was
\* called for it.
THEOREM ItemsAreTrue == DSpec => []ItemsTellTheTruth
<1>1. ASSUME DInv, NEW r \in Runs, NEW t \in Targets,
             items[r][t] \in {"executed", "skipped"}
      PROVE  \E c \in Calls :
               /\ runOf[c] = r /\ job[c].target = t /\ result[c] = items[r][t]
               /\ rows[job[c].db][KeyOf[runs[r].mig]] = runs[r].sumUp
  <2>1. PICK c \in Calls : /\ job[c] # None /\ runOf[c] = r
                           /\ job[c].target = t /\ result[c] = items[r][t]
    BY <1>1 DEF DInv, LinkInv, ItemsTold, Told
  <2>2. CallOK(c) /\ OnRecord(c)
    BY <1>1, <2>1 DEF DInv, LinkInv, CallsOK, AnswersOK
  <2> QED BY <2>1, <2>2 DEF CallOK, OnRecord
<1>2. DInv => ItemsTellTheTruth
  BY <1>1 DEF ItemsTellTheTruth
<1> QED BY <1>2, DInvariance, PTL

\* An "applied" target has the SQL of the run, as long as it names the database
\* it was called at: whichever targets share databases, and whatever requests
\* overlap or are cut off.
THEOREM AppliedBadge == DSpec => []AppliedBadgeIsTrue
<1>1. ASSUME DInv, NEW r \in Runs, NEW t \in Targets, items[r][t] # None,
             ItemBadge(runs[r], items[r][t]) = "applied", StillNames(t, r)
      PROVE  rows[Database(targets[t])][KeyOf[runs[r].mig]] = runs[r].sumUp
  <2>1. runs[r].status # "applied"
    BY <1>1 DEF DInv, IInv, SafeInv, ItemsOK, TypeInv, TypeOK, RunRow, RunStatus
  <2>2. items[r][t] \in {"executed", "skipped"}
    BY <1>1, <2>1 DEF ItemBadge
  <2>3. PICK c \in Calls : /\ job[c] # None /\ runOf[c] = r
                           /\ job[c].target = t /\ result[c] = items[r][t]
    BY <1>1, <2>2 DEF DInv, LinkInv, ItemsTold, Told
  <2>4. CallOK(c) /\ OnRecord(c)
    BY <1>1, <2>2, <2>3 DEF DInv, LinkInv, CallsOK, AnswersOK
  <2>5. job[c].db = Database(targets[t])
    BY <1>1, <2>3 DEF StillNames
  <2> QED BY <2>3, <2>4, <2>5 DEF CallOK, OnRecord
<1>2. DInv => AppliedBadgeIsTrue
  BY <1>1 DEF AppliedBadgeIsTrue
<1> QED BY <1>2, DInvariance, PTL

\* A run stays in one project and one environment.
THEOREM RunsStayInScope == DSpec => []RunsInScope
<1>1. DInv => RunsInScope
  BY DEF DInv, IInv, SafeInv, RunsOK, ItemsOK, LinkInv, Scoped, RunsInScope
<1> QED BY <1>1, DInvariance, PTL

=============================================================================

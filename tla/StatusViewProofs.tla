-------------------------- MODULE StatusViewProofs --------------------------
(***************************************************************************)
(* Theorems about StatusView: when the badge of an environment and the     *)
(* executor agree.  RunHistoryProofs' conditions on overlapping requests   *)
(* are needed.                                                             *)
(***************************************************************************)
EXTENDS StatusView, RunHistoryProofs

-----------------------------------------------------------------------------
(***************************************************************************)
(* The order of the requests.                                              *)
(***************************************************************************)

\* Every run in the table has one place in the order, and nothing else has.
OrderInv ==
  /\ requested \in Seq(Runs)
  /\ \A i \in DOMAIN requested : runs[requested[i]] # None
  /\ \A r \in Runs : runs[r] # None => \E i \in DOMAIN requested : requested[i] = r
  /\ \A i, j \in DOMAIN requested : requested[i] = requested[j] => i = j

\* A step inserts at most one run, the last one requested then.
LEMMA InsertCases ==
  IInv /\ [HNext]_hvars =>
    \/ RunsStay /\ UNCHANGED requested
    \/ \E p \in Requests, r \in Runs :
         NewRun(p, r) /\ requested' = Append(requested, r)
<1> SUFFICES ASSUME IInv, [HNext]_hvars
             PROVE  \/ RunsStay /\ UNCHANGED requested
                    \/ \E p \in Requests, r \in Runs :
                         NewRun(p, r) /\ requested' = Append(requested, r)
  OBVIOUS
<1>1. CASE UNCHANGED hvars
  BY <1>1, RunsSame DEF hvars, vars, toolDB
<1>2. CASE HNext
  <2>1. ASSUME NEW p \in Requests, NEW r \in Runs, NewRun(p, r)
        PROVE  requested' = Append(requested, r)
    <3>1. \A s \in Runs : Inserts(s) <=> s = r
      BY <2>1 DEF NewRun, Inserts
    <3>2. (CHOOSE s \in Runs : Inserts(s)) = r
      BY <3>1
    <3> QED BY <1>2, <3>1, <3>2 DEF HNext, Observe
  <2>2. CASE RunsStay
    <3>1. \A s \in Runs : ~ Inserts(s)
      BY <2>2 DEF RunsStay, Inserts
    <3> QED BY <1>2, <2>2, <3>1 DEF HNext, Observe
  <2>3. ASSUME NEW p \in Requests, WritesStatus(p) PROVE RunsStay
    BY <2>3, RunsSame DEF WritesStatus, Commits, Starts, Finishes, StatusWritten
  <2> QED BY <2>1, <2>2, <2>3, RunsSame, HistoryOnly, RunCases
<1> QED BY <1>1, <1>2

\* The place of a run in the table.
LEMMA Placed ==
  ASSUME OrderInv, NEW r \in Runs, runs[r] # None
  PROVE  /\ RequestedAt(r) \in 1 .. Len(requested)
         /\ requested[RequestedAt(r)] = r
BY DEF OrderInv, RequestedAt

\* No two runs are the latest.
LEMMA LatestUnique ==
  ASSUME OrderInv, NEW S \in SUBSET {r \in Runs : runs[r] # None},
         NEW q \in Latest(S), NEW r \in Latest(S)
  PROVE  q = r
<1>1. /\ q \in Runs /\ runs[q] # None /\ r \in Runs /\ runs[r] # None
      /\ RequestedAt(q) <= RequestedAt(r) /\ RequestedAt(r) <= RequestedAt(q)
  BY DEF Latest
<1>2. RequestedAt(q) = RequestedAt(r)
  <2>1. RequestedAt(q) \in Nat /\ RequestedAt(r) \in Nat
    BY <1>1, Placed DEF OrderInv
  <2> QED BY <1>1, <2>1
<1> QED BY <1>1, <1>2, Placed

\* A run that is inserted comes after the others, which keep their places.
LEMMA Appended ==
  ASSUME OrderInv, NEW p, NEW r \in Runs, NewRun(p, r),
         requested' = Append(requested, r)
  PROVE  /\ OrderInv'
         /\ \A s \in Runs : runs[s] # None =>
              RequestedAt(s)' = RequestedAt(s) /\ RequestedAt(s) <= RequestedAt(r)'
<1>1. /\ requested \in Seq(Runs) /\ runs[r] = None /\ runs'[r] # None
      /\ \A s \in Runs : s # r => runs'[s] = runs[s]
  BY DEF OrderInv, NewRun
<1> DEFINE n == Len(requested)
<1>2. /\ n \in Nat /\ DOMAIN requested = 1 .. n
      /\ requested' \in Seq(Runs) /\ DOMAIN requested' = 1 .. n + 1
      /\ requested'[n + 1] = r
      /\ \A i \in 1 .. n : requested'[i] = requested[i] /\ requested[i] \in Runs
  BY <1>1
<1> HIDE DEF n
<1>3. \A i \in 1 .. n : requested[i] # r
  BY <1>1, <1>2 DEF OrderInv
<1>4. \A i \in 1 .. n + 1 : i = n + 1 \/ i \in 1 .. n
  BY <1>2
<1>5. OrderInv'
  <2>1. \A i \in DOMAIN requested' : runs'[requested'[i]] # None
    BY <1>1, <1>2, <1>3, <1>4 DEF OrderInv
  <2>2. ASSUME NEW s \in Runs, runs'[s] # None
        PROVE  \E i \in DOMAIN requested' : requested'[i] = s
    <3>1. CASE s = r
      BY <1>2, <3>1
    <3>2. CASE s # r
      <4>1. PICK i \in 1 .. n : requested[i] = s
        BY <1>1, <1>2, <2>2, <3>2 DEF OrderInv
      <4> QED BY <1>2, <4>1
    <3> QED BY <3>1, <3>2
  <2>3. ASSUME NEW i \in DOMAIN requested', NEW j \in DOMAIN requested',
               requested'[i] = requested'[j]
        PROVE  i = j
    BY <1>2, <1>3, <1>4, <2>3 DEF OrderInv
  <2> QED BY <1>2, <2>1, <2>2, <2>3 DEF OrderInv
<1>6. RequestedAt(r)' = n + 1
  <2>1. \A i \in DOMAIN requested' : requested'[i] = r <=> i = n + 1
    BY <1>2, <1>3, <1>4
  <2> QED BY <1>2, <2>1 DEF RequestedAt
<1>7. ASSUME NEW s \in Runs, runs[s] # None
      PROVE  RequestedAt(s)' = RequestedAt(s) /\ RequestedAt(s) <= n + 1
  <2>1. RequestedAt(s) \in 1 .. n /\ requested[RequestedAt(s)] = s
    BY <1>2, <1>7, Placed DEF n
  <2> DEFINE k == RequestedAt(s)
  <2> HIDE DEF k
  <2>2. k \in 1 .. n /\ requested'[k] = s
    BY <1>2, <2>1 DEF k
  <2>3. \A i \in DOMAIN requested' : requested'[i] = s <=> i = k
    BY <1>2, <1>5, <2>2 DEF OrderInv
  <2>4. RequestedAt(s)' = k
    BY <1>2, <2>2, <2>3 DEF RequestedAt
  <2> QED BY <1>2, <2>2, <2>4 DEF k
<1> QED BY <1>5, <1>6, <1>7

\* Every step keeps the order of the runs.
LEMMA OrderNext == IInv /\ OrderInv /\ [HNext]_hvars => OrderInv'
<1> SUFFICES ASSUME IInv, OrderInv, [HNext]_hvars PROVE OrderInv'
  OBVIOUS
<1>1. CASE RunsStay /\ UNCHANGED requested
  <2>1. requested' = requested
    BY <1>1
  <2>2. \A r \in Runs : runs[r] = None <=> runs'[r] = None
    BY <1>1 DEF RunsStay
  <2>3. \A i \in DOMAIN requested : requested[i] \in Runs
    BY DEF OrderInv
  <2> QED BY <2>1, <2>2, <2>3 DEF OrderInv
<1> QED BY <1>1, Appended, InsertCases

\* In every behaviour.
LEMMA ViewInvariance == HSpec => [](IInv /\ OrderInv)
<1>1. HInit => IInv /\ OrderInv
  BY TypeInit, SafeInit DEF HInit, Init, IInv, OrderInv
<1>2. IInv /\ OrderInv /\ [HNext]_hvars => (IInv /\ OrderInv)'
  BY HistoryOnly, TypeNext, SafeNext, OrderNext DEF IInv
<1> QED BY <1>1, <1>2, PTL DEF HSpec

-----------------------------------------------------------------------------
(***************************************************************************)
(* The badges of the environments.                                         *)
(***************************************************************************)

\* The badge of an environment is about its latest run.
LEMMA EnvRun ==
  ASSUME OrderInv, NEW m \in Migrations, NEW env \in Envs,
         NEW r \in LatestRun(m, env)
  PROVE  /\ r \in Runs /\ runs[r] # None /\ runs[r].mig = m
         /\ EnvLabel(m, env) = RunBadge(mig[m], runs[r])
<1> DEFINE S == {s \in Runs : runs[s] # None /\ runs[s].mig = m /\ runs[s].env = env}
<1>1. S \in SUBSET {s \in Runs : runs[s] # None} /\ LatestRun(m, env) = Latest(S)
  BY DEF LatestRun
<1> HIDE DEF S
<1>2. (CHOOSE x \in LatestRun(m, env) : TRUE) = r
  BY <1>1, LatestUnique
<1>3. r \in Runs /\ runs[r] # None /\ runs[r].mig = m
  BY DEF LatestRun, Latest
<1> QED BY <1>2, <1>3 DEF EnvLabel

\* An executor that is about to start its run has seen the migration as it is.
FreshInv ==
  \A p \in Requests : At(p, "exec_start") =>
    ChecksumsAtRequest(mig[runs[loc[p].run].mig], runs[loc[p].run])

\* Between the check of an executor and its start the migration stays.
LEMMA FreshNext ==
  IInv /\ FreshInv /\ EditsApartFromExecutions /\ [HNext]_hvars => FreshInv'
<1> SUFFICES ASSUME IInv, FreshInv, EditsApartFromExecutions, [HNext]_hvars,
                    NEW q \in Requests, loc'[q].pc = "exec_start",
                    NEW r, r = loc'[q].run
             PROVE  ChecksumsAtRequest(mig'[runs'[r].mig], runs'[r])
  BY DEF FreshInv, At
<1>1. CASE Checks(q)
  BY <1>1 DEF Checks, Goes
<1>2. CASE ~ Checks(q)
  <2>1. loc'[q] = loc[q]
    <3>1. CASE Away
      BY <3>1 DEF Away, Executing, BeforeStart, AfterCheck
    <3>2. ASSUME NEW p \in Requests, RunStep(p) PROVE loc'[q] = loc[q]
      BY <1>2, <3>2 DEF RunStep, StepOf, Goes, NewRun, TakesUp, Opens, Ready, Commits,
         Lists, Checks, Starts, StartsItem, LeavesLoop, Applies, Records, AfterItem,
         Finishes
    <3> QED BY <3>1, <3>2, HistoryOnly, StepCases
  <2>2. /\ r \in Runs /\ runs[r] # None /\ r = loc[q].run
        /\ loc[q].pc = "exec_start" /\ runs[r].mig \in Migrations
        /\ mig[runs[r].mig] # None
    BY <2>1 DEF IInv, TypeInv, TypeOK, Holds, AfterCheck, BeforeStart, RunRow,
       RunsHaveMigrations
  <2>3. ChecksumsAtRequest(mig[runs[r].mig], runs[r])
    BY <2>2 DEF FreshInv, At
  <2>4. /\ runs'[r].mig = runs[r].mig /\ runs'[r].sumUp = runs[r].sumUp
        /\ runs'[r].sumDown = runs[r].sumDown
    BY <2>2, InsertCases DEF RunsStay, NewRun
  <2>5. mig'[runs[r].mig] = mig[runs[r].mig]
    <3>1. ASSUME NEW m \in Migrations, Creates(m)
          PROVE  mig'[runs[r].mig] = mig[runs[r].mig]
      BY <2>2, <3>1 DEF Creates
    <3>2. ASSUME NEW p \in Requests, NEW m \in Migrations, Writes(p, m)
          PROVE  mig'[runs[r].mig] = mig[runs[r].mig]
      <4>1. runs[r].mig # m
        BY <2>2, <3>2 DEF Writes, EditsApartFromExecutions, Editing, Executing,
           BeforeStart, AfterCheck
      <4> QED BY <2>2, <3>2, <4>1 DEF Writes
    <3> QED BY <3>1, <3>2, HistoryOnly, EditCases DEF NoEdit, ReadsToEdit
  <2> QED BY <2>3, <2>4, <2>5 DEF ChecksumsAtRequest
<1> QED BY <1>1, <1>2

\* The latest run of an environment starts while its badge says "approved",
\* if neither an edit of its migration nor a second decision or execution of
\* it overlaps with its execution.
THEOREM StartsFromApproved ==
  HSpec /\ []DecisionsApart /\ []ExecutionsApart /\ []EditsApartFromExecutions
    => StartsFromApprovedBadge
<1> DEFINE Step ==
      \A m \in Migrations, env \in Envs : \A r \in LatestRun(m, env) :
        ~ HasStatus(r, "running") /\ HasStatus(r, "running")' =>
          EnvLabel(m, env) = "approved"
<1>1. HInit => FreshInv
  BY IdleAway DEF HInit, Init, FreshInv, At
<1>2. IInv /\ FreshInv /\ EditsApartFromExecutions /\ [HNext]_hvars => FreshInv'
  BY FreshNext
<1>3. IInv /\ OrderInv /\ LoopInv /\ FreshInv /\ [HNext]_hvars => [Step]_vars
  <2> SUFFICES ASSUME IInv, OrderInv, LoopInv, FreshInv, [HNext]_hvars,
                      NEW m \in Migrations, NEW env \in Envs,
                      NEW r \in LatestRun(m, env),
                      ~ HasStatus(r, "running"), HasStatus(r, "running")'
               PROVE  EnvLabel(m, env) = "approved"
    OBVIOUS
  <2>1. /\ r \in Runs /\ runs[r] # None /\ runs[r].mig = m
        /\ EnvLabel(m, env) = RunBadge(mig[m], runs[r])
    BY EnvRun
  <2>2. PICK p \in Requests : Starts(p) /\ loc[p].run = r
    <3>1. \A p \in Requests, s \in Runs : ~ NewRun(p, s)
      BY <2>1 DEF NewRun, HasStatus
    <3>2. PICK p \in Requests : WritesStatus(p)
      BY <3>1, HistoryOnly, RunCases DEF HasStatus
    <3> QED BY <2>1, <3>2 DEF WritesStatus, Commits, Starts, Goes, Finishes,
            StatusWritten, FinalStatus, HasStatus
  <2>3. HasStatus(r, "approved") /\ ~ Outdated(mig[m], runs[r])
    BY <2>1, <2>2 DEF ChecksumsAtRequest, Starts, Goes, LoopInv, ExecutorOK, FreshInv, At, Outdated
  <2> QED BY <2>1, <2>3 DEF RunBadge, RunLabel, HasStatus
<1> QED BY <1>1, <1>2, <1>3, ViewInvariance, LoopInvariance, PTL
        DEF HSpec, StartsFromApprovedBadge

\* So they agree when requests come one after the other.
COROLLARY StartsFromApprovedAlone ==
  ASSUME \A p, q \in Requests : p = q
  PROVE  HSpec => StartsFromApprovedBadge
<1>1. DecisionsApart /\ ExecutionsApart /\ EditsApartFromExecutions
  BY Alone
<1> QED BY <1>1, StartsFromApproved, PTL

=============================================================================

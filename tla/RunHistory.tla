----------------------------- MODULE RunHistory -----------------------------
(***************************************************************************)
(* RunLifecycle observed: history variables remember what its tables       *)
(* forget (they overwrite a run's status, delete approvals on an edit and  *)
(* keep one row per migration), so that properties can speak of it.  They  *)
(* are read by no action and forbid no behaviour of RunLifecycle.          *)
(***************************************************************************)
EXTENDS RunLifecycle, Sequences

VARIABLES
  decided,    \* decided[r]: how many decisions on run r have been committed
  published,  \* every (version, SQL) a migration row has had
  stale,      \* runs whose migration got other SQL since their last approval
  requested   \* the runs in the order of their requested_at

hvars == <<vars, decided, published, stale, requested>>

Revision(m, row) ==
  [mig |-> m, version |-> row.version, up |-> row.up, down |-> row.down]

\* The transactions that commit a decision on r in this step.
Approves(r) == \E p \in Requests : loc[p].run = r /\ ApproveCommit(p)
Denies(r)   == \E p \in Requests : loc[p].run = r /\ DenyCommit(p)

\* The step writes other SQL into the migration of run r.
Outdates(r) ==
  LET m == runs[r].mig IN
  runs[r] # None /\ SqlChanged(mig[m], mig'[m].up, mig'[m].down)

\* The step inserts run r.  requested_at is the clock just before, which gives
\* the same order unless two requests for runs overlap.
Inserts(r) == runs[r] = None /\ runs'[r] # None

HInit ==
  /\ Init
  /\ decided = [r \in Runs |-> 0]
  /\ published = {}
  /\ stale = {}
  /\ requested = <<>>

Observe ==
  /\ decided' = [r \in Runs |->
                   IF Approves(r) \/ Denies(r) THEN decided[r] + 1 ELSE decided[r]]
  /\ published' = published \cup
       {Revision(m, mig'[m]) : m \in {n \in Migrations : mig'[n] # None}}
  /\ stale' = {r \in Runs : Outdates(r) \/ (r \in stale /\ ~ Approves(r))}
  /\ requested' = IF \E r \in Runs : Inserts(r)
                  THEN Append(requested, CHOOSE r \in Runs : Inserts(r))
                  ELSE requested

HNext == Next /\ Observe
HSpec == HInit /\ [][HNext]_hvars

-----------------------------------------------------------------------------
(***************************************************************************)
(* Properties of the protocol the documents describe.  They hold as long   *)
(* as requests do not overlap; module RunHistoryProofs says for each which *)
(* requests these are.                                                     *)
(***************************************************************************)

\* A version number names one SQL text of its migration.
VersionNamesOneSql ==
  \A a, b \in published :
    a.mig = b.mig /\ a.version = b.version => a.up = b.up /\ a.down = b.down

\* An approved run whose migration has kept its SQL since has its approval on
\* record in table approvals.
ApprovalOnRecord ==
  \A r \in Runs :
    HasStatus(r, "approved") /\ r \notin stale =>
      [mig |-> runs[r].mig, env |-> runs[r].env, decision |-> "approved",
       sumUp |-> runs[r].sumUp, sumDown |-> runs[r].sumDown] \in approvals

\* A run is decided once: no decision, of the same kind or the other, is
\* committed after the first.
DecidedOnce == \A r \in Runs : decided[r] <= 1

\* The steps the code means a run's status to take: one decision, one
\* execution, and a last status that stays.  (API.md and Architecture.md put
\* queued before running; the executor never writes it.)
StatusSuccessor ==
  {<<"awaiting_approval", "approved">>, <<"awaiting_approval", "denied">>,
   <<"approved", "running">>, <<"running", "executed">>, <<"running", "failed">>}

\* A run's status only goes on: no decision is taken back, and none comes after
\* the execution; no run is executed twice, and a last status is not overwritten.
StatusFollowsLifecycle ==
  [][\A r \in Runs :
       runs[r] # None /\ runs'[r] # runs[r] =>
         <<runs[r].status, runs'[r].status>> \in StatusSuccessor]_vars

\* A run does not start on an approval that an edit of the SQL has outdated.
EditsForceReapproval ==
  [][\A r \in Runs :
       HasStatus(r, "approved") /\ HasStatus(r, "running")' => r \notin stale]_vars

=============================================================================

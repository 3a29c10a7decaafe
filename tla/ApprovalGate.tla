---------------------------- MODULE ApprovalGate ----------------------------
(***************************************************************************)
(* What the approval of runs promises: the abstract specification that     *)
(* RunLifecycle and Deployment implement.  A run asks for one text on some *)
(* targets of one environment, and keeps asking for that.  A grant is for  *)
(* the text the run asks for.  Whatever takes effect on a target is a      *)
(* granted run's own text, on a target it has asked for.                   *)
(*                                                                         *)
(* Edits, denials, statuses, checksums, requests in flight and databases   *)
(* are not part of the promise, and leave it alone.                        *)
(***************************************************************************)
CONSTANTS
  Runs, Migrations, Targets, Envs, Scripts,
  EnvOfTarget,  \* the environment a target belongs to
  None

VARIABLES
  asked,    \* what each run asks for
  granted,  \* the texts that approvers have let pass, for which run
  acted     \* what has taken effect

gvars == <<asked, granted, acted>>

Request == [mig : Migrations, env : Envs, up : Scripts, targets : SUBSET Targets]

Init ==
  /\ asked = [r \in Runs |-> None]
  /\ granted = {}
  /\ acted = {}

\* The text of a request, let pass for its run.
Pass(r) ==
  [run |-> r, mig |-> asked[r].mig, env |-> asked[r].env, up |-> asked[r].up]

\* The run asks for whatever it likes, for good.
Ask(r) ==
  /\ asked[r] = None
  /\ asked'[r] \in Request
  /\ \A t \in asked'[r].targets : EnvOfTarget[t] = asked'[r].env
  /\ asked' = [asked EXCEPT ![r] = asked'[r]]
  /\ UNCHANGED <<granted, acted>>

Grant(r) ==
  /\ asked[r] # None
  /\ granted' = granted \cup {Pass(r)}
  /\ UNCHANGED <<asked, acted>>

Act(r, t) ==
  /\ asked[r] # None
  /\ t \in asked[r].targets
  /\ Pass(r) \in granted
  /\ acted' = acted \cup
       {[run |-> r, mig |-> asked[r].mig, target |-> t, sql |-> asked[r].up]}
  /\ UNCHANGED <<asked, granted>>

Next == \E r \in Runs : Ask(r) \/ Grant(r) \/ \E t \in Targets : Act(r, t)

Spec == Init /\ [][Next]_gvars

=============================================================================

----------------------------- MODULE StatusView -----------------------------
(***************************************************************************)
(* The badge of a migration in an environment (/ui/migrations): that of    *)
(* the run requested last.  Module Deployment says what the badges mean    *)
(* for the databases; here it is what a badge means for the executor.      *)
(***************************************************************************)
EXTENDS RunHistory, StatusLabels

\* The place of a run among the runs requested, 0 if it is not there.
RequestedAt(r) ==
  IF \E i \in DOMAIN requested : requested[i] = r
  THEN CHOOSE i \in DOMAIN requested : requested[i] = r ELSE 0

\* DISTINCT ON (...) ORDER BY requested_at DESC: at most one run remains.
Latest(candidates) ==
  {r \in candidates : \A q \in candidates : RequestedAt(q) <= RequestedAt(r)}

LatestRun(m, env) ==
  Latest({r \in Runs : runs[r] # None /\ runs[r].mig = m /\ runs[r].env = env})

\* The page's label.  When the query for the latest runs fails, the handlers
\* go on without its error and every label is "draft"; that is left out.
EnvLabel(m, env) ==
  IF LatestRun(m, env) = {} THEN "draft"
  ELSE LET r == CHOOSE x \in LatestRun(m, env) : TRUE
       IN RunBadge(mig[m], runs[r])

-----------------------------------------------------------------------------
(***************************************************************************)
(* Properties.                                                             *)
(***************************************************************************)

\* The latest run of an environment starts only while its badge says
\* "approved" and the page offers the Run button: page and executor agree on
\* what an edit makes of an approval.
StartsFromApprovedBadge ==
  [][\A m \in Migrations, env \in Envs : \A r \in LatestRun(m, env) :
       ~ HasStatus(r, "running") /\ HasStatus(r, "running")' =>
         EnvLabel(m, env) = "approved"]_vars

=============================================================================

---------------------------- MODULE MCDeployment ----------------------------
(***************************************************************************)
(* A small instance of Deployment for TLC.                                 *)
(***************************************************************************)
EXTENDS Deployment, TLC

CONSTANTS t1, set1, daily, h1, m1, alpha

\* Every set is daily; set1 belongs to the project alpha.
MCProjectOf == [s \in DBSets |-> IF s = set1 THEN alpha
                                 ELSE CHOOSE q \in Projects : q # alpha]
MCSetOf == [t \in Targets |-> set1]
MCEnvOf == [s \in DBSets |-> daily]
MCHomeOf == [m \in Migrations |-> IF m = m1 THEN alpha ELSE CHOOSE q \in Projects : q # alpha]
MCKeyOf == [m \in Migrations |-> "key"]
MCItemId == [r \in Runs |-> [t \in Targets |-> IF t = t1 THEN 1 ELSE 2]]
MCTrimmed == [s \in DownScripts |-> s]
MCChecksum(s) == <<"sha256", s>>

\* The first host is a MySQL server.
MCEngineOf == [d \in Databases |-> IF d[1] = h1 THEN "mysql" ELSE "postgres"]

Symmetry == Permutations(Runs) \cup Permutations(Scripts)
              \cup Permutations(Calls)

=============================================================================

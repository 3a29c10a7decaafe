--------------------------- MODULE MCRunLifecycle ---------------------------
(***************************************************************************)
(* Small instances of RunLifecycle for TLC.                                *)
(***************************************************************************)
EXTENDS RunLifecycle, TLC

CONSTANTS t1, t2, set1, daily, blank

MCSetOf == [t \in Targets |-> set1]
MCEnvOf == [s \in DBSets |-> daily]

\* t1's item comes before t2's.
MCItemId == [r \in Runs |-> [t \in Targets |-> IF t = t1 THEN 1 ELSE 2]]

\* TrimSpace turns the blank script into no script.
MCTrimmed == [s \in DownScripts |-> IF s = blank THEN None ELSE s]

\* Collision-free, and never equal to a script.
MCChecksum(s) == <<"sha256", s>>

\* No constant tells two runs, two scripts or two requests apart.
Symmetry == Permutations(Runs) \cup Permutations(Scripts)
              \cup Permutations(Requests)

=============================================================================

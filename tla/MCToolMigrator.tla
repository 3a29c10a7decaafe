--------------------------- MODULE MCToolMigrator ---------------------------
(***************************************************************************)
(* Three servers of three releases: the first lacks the newest file, the   *)
(* third skipped the middle one.                                           *)
(***************************************************************************)
EXTENDS ToolMigrator

CONSTANTS old, new, side

MCShipped == [s \in Servers |-> IF s = old THEN {1, 2}
                                ELSE IF s = side THEN {1, 3} ELSE {1, 2, 3}]

MCVersionOf == [f \in Files |-> 10 * f]

=============================================================================

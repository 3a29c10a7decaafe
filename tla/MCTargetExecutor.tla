-------------------------- MODULE MCTargetExecutor --------------------------
(***************************************************************************)
(* A small instance of TargetExecutor: t1 names the Postgres database, and *)
(* after an edit the MySQL one that t2 names too.  Three copies of one     *)
(* migration: as first written, as edited later, and the first again with  *)
(* another transaction_mode (which no checksum covers).                    *)
(***************************************************************************)
EXTENDS TargetExecutor

CONSTANTS pg, my, t1, t2, first, edited, remoded, key, sum1, sum2

MCAddresses == [t \in Targets |-> IF t = t1 THEN {pg, my} ELSE {my}]
MCEngineOf  == [d \in Databases |-> IF d = pg THEN "postgres" ELSE "mysql"]

MCKeyOf  == [c \in Copies |-> key]
MCSumOf  == [c \in Copies |-> IF c = edited THEN sum2 ELSE sum1]
MCModeOf == [c \in Copies |-> CASE c = first   -> "auto"
                                [] c = edited  -> "single_transaction"
                                [] c = remoded -> "no_transaction"]

\* The edited script is a DDL statement on MySQL.
MCEscapes == {<<edited, my>>}

=============================================================================

---------------------------- MODULE StatusLabels ----------------------------
(***************************************************************************)
(* The labels the web pages derive from rows of the tool's tables: the     *)
(* badge of a run for its environment (/ui/migrations) and of an item of a *)
(* run for its target (/ui/targets).  None is stored, and the target       *)
(* databases are not asked.                                                *)
(***************************************************************************)

\* The migration has other SQL now than when the run was requested.
Outdated(row, run) == <<row.sumUp, row.sumDown>> # <<run.sumUp, run.sumDown>>

RunLabel(run) ==
  IF run.status = "awaiting_approval" THEN "awaiting_approve"
  ELSE IF run.status = "executed" /\ run.type = "rollback" THEN "rollbacked"
  ELSE run.status

\* deriveEnvStatuses, for a migration and a run of it.
RunBadge(row, run) ==
  IF Outdated(row, run) THEN "needs_reapproval" ELSE RunLabel(run)

\* compareStatusFromLatest: the item matters once its run is executed.
ItemBadge(run, item) ==
  IF run.status # "executed" THEN run.status
  ELSE IF run.type = "rollback" /\ item = "executed" THEN "rollbacked"
  ELSE IF item \in {"executed", "skipped"} THEN "applied"
  ELSE IF item = "failed" THEN "failed"
  ELSE "executed"

=============================================================================

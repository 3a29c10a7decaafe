SPECIFICATION HSpec
CONSTANTS
  t1 = t1
  t2 = t2
  set1 = set1
  daily = daily
  blank = blank
  None = None
  Requests = {p1}
  Migrations = {m1}
  Runs = {r1, r2}
  Targets = {t1, t2}
  DBSets = {set1}
  Envs = {daily}
  Scripts = {a, b}
  DownScripts = {d, blank}
  MaxVersion = 2
  Cancellations = TRUE
  StatementFaults = FALSE
  SetOf <- MCSetOf
  EnvOf <- MCEnvOf
  ItemId <- MCItemId
  Trimmed <- MCTrimmed
  Checksum <- MCChecksum
SYMMETRY Symmetry
INVARIANTS
  ExecutedRunIsOnEveryTarget
  NothingAfterFirstFailure
  VersionNamesOneSql
  ApprovalOnRecord
  DecidedOnce
PROPERTIES
  StatusFollowsLifecycle
  StartsFromApprovedBadge

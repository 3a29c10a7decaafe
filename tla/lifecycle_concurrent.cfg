SPECIFICATION Spec
CONSTANTS
  t1 = t1
  t2 = t2
  set1 = set1
  daily = daily
  blank = blank
  None = None
  Requests = {p1, p2}
  Migrations = {m1}
  Runs = {r1, r2}
  Targets = {t1}
  DBSets = {set1}
  Envs = {daily}
  Scripts = {a, b}
  DownScripts = {}
  MaxVersion = 2
  Cancellations = TRUE
  StatementFaults = TRUE
  SetOf <- MCSetOf
  EnvOf <- MCEnvOf
  ItemId <- MCItemId
  Trimmed <- MCTrimmed
  Checksum <- MCChecksum
SYMMETRY Symmetry
INVARIANTS
  TypeOK
  ExecutedSqlWasApproved
  OnlyApprovedRunsAct
  ChecksumsDescribeSql

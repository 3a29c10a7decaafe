SPECIFICATION HSpec
CONSTANTS
  t1 = t1
  t2 = t2
  set1 = set1
  daily = daily
  blank = blank
  None = None
  Requests = {p1}
  Migrations = {m1}
  Runs = {r1}
  Targets = {t1}
  DBSets = {set1}
  Envs = {daily}
  Scripts = {a, b}
  DownScripts = {}
  MaxVersion = 3
  Cancellations = FALSE
  StatementFaults = FALSE
  SetOf <- MCSetOf
  EnvOf <- MCEnvOf
  ItemId <- MCItemId
  Trimmed <- MCTrimmed
  Checksum <- MCChecksum
PROPERTIES
  EditsForceReapproval

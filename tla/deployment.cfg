SPECIFICATION DSpec
CONSTANTS
  t1 = t1
  set1 = set1
  daily = daily
  h1 = h1
  m1 = m1
  alpha = alpha
  None = None
  Requests = {p1}
  Migrations = {m1, m2}
  Runs = {r1, r2}
  Targets = {t1}
  DBSets = {set1}
  Envs = {daily}
  Scripts = {a}
  DownScripts = {}
  MaxVersion = 1
  Cancellations = TRUE
  StatementFaults = FALSE
  Editors = {e1}
  Projects = {alpha, beta}
  Hosts = {h1, h2}
  Names = {n1}
  Calls = {c1, c2}
  Modes = {"auto", "no_transaction"}
  Escapes = {}
  SetOf <- MCSetOf
  EnvOf <- MCEnvOf
  ItemId <- MCItemId
  Trimmed <- MCTrimmed
  Checksum <- MCChecksum
  ProjectOf <- MCProjectOf
  HomeOf <- MCHomeOf
  KeyOf <- MCKeyOf
  EngineOf <- MCEngineOf
SYMMETRY Symmetry
CHECK_DEADLOCK FALSE
INVARIANTS
  DTypeOK
  ItemsTellTheTruth
  RunsInScope
  AppliedBadgeIsTrue
  ExecutedBadgeIsTrue
PROPERTIES
  ImplementsApprovalGate
  DisabledIsNotCalled

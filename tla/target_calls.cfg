SPECIFICATION EFairSpec
CONSTANTS
  pg = pg
  my = my
  t1 = t1
  t2 = t2
  first = first
  edited = edited
  remoded = remoded
  key = key
  sum1 = sum1
  sum2 = sum2
  None = None
  Attempts = {a1, a2}
  Targets = {t1, t2}
  Databases = {pg, my}
  Copies = {first, edited, remoded}
  Addresses <- MCAddresses
  EngineOf <- MCEngineOf
  KeyOf <- MCKeyOf
  SumOf <- MCSumOf
  ModeOf <- MCModeOf
  Escapes <- MCEscapes
INVARIANTS
  ETypeOK
  OneAtATime
  AtomicAppliedOnce
  AnswersAreTrue
PROPERTIES
  CallsReturn
  ImplementsTargetLedger
CHECK_DEADLOCK FALSE

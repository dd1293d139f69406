SPECIFICATION Spec
CONSTANTS
  f = f  g = g
  File = {f, g}
  Configs <- SomeConfigs
  Runs <- RunsByAttempt
  UserFiles = {f}
  MaxAttempts = 2
INVARIANTS
  TypeOK ReviewHasOutput BlockedIsNotYes RecoveryFits DiffIsTheWorkers
PROPERTIES YesIsEarned UserEditsAreKept
CHECK_DEADLOCK FALSE

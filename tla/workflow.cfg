SPECIFICATION FairSpec
CONSTANTS
  d = d  s = s  c = c
  NodeCount = 3
  Kind <- JoinKind
  Deps <- JoinDeps
  MaxRetries <- OneRetry
  Partial = {2}
  LongNames = {2}
  MaxParallel = 1
  Tickers = {d}
  DryTickers = {}
  Cancelers = {c}
  Retriers = {}
  Outcomes = {"receipt", "no_receipt", "blocked", "stuck", "abandoned"}
  Events = {"dispatch_error", "no_executor"}
  MaxAttempts = 1
  MaxCrashes = 1
INVARIANTS TypeOK DependenciesFirst WithinLimits ReviewIsComplete
PROPERTIES WorkflowEnds
CHECK_DEADLOCK FALSE

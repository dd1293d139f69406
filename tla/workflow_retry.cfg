SPECIFICATION Spec
CONSTANTS
  d = d  s = s  c = c
  NodeCount = 2
  Kind <- SynthesisKind
  Deps <- OneAfterTheOther
  MaxRetries <- NoRetries
  Partial = {}
  LongNames = {}
  MaxParallel = 1
  Tickers = {d, s}
  DryTickers = {s}
  Cancelers = {}
  Retriers = {c}
  Outcomes = {"receipt", "stuck"}
  Events = {"dispatch_error"}
  MaxAttempts = 1
  MaxCrashes = 1
INVARIANTS OneDispatchPerAttempt
CHECK_DEADLOCK FALSE

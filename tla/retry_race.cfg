SPECIFICATION Spec
CONSTANTS
  a = a  b = b  c1 = c1  c2 = c2
  Task = {a}
  NoTask = NoTask
  Cli = {c1,c2}
  Daemon = daemon
  Commands = {"start","retry","daemon"}
  Deps <- NoDeps
  BudgetTasks = {}
  WithForce = FALSE
  Events = {"dispatch_error"}
  MaxAge = 2
  TicksPerBucket = 0
  MaxSessions = 2
  MaxAttempts = 2
INVARIANTS ReviewHasEvidence
PROPERTIES AttemptsOnlyGrow
SYMMETRY Processes

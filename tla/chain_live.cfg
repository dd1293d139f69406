SPECIFICATION LiveSpec
CONSTANTS
  a = a  b = b  c1 = c1  c2 = c2
  Task = {a,b}
  NoTask = NoTask
  Cli = {c1}
  Daemon = daemon
  Commands = {"start","daemon"}
  Deps <- Chain
  BudgetTasks = {b}
  WithForce = FALSE
  Events = {"dispatch_error","activity"}
  MaxAge = 1
  TicksPerBucket = 2
  MaxSessions = 2
  MaxAttempts = 1
INVARIANTS DependentsRunLater
PROPERTIES DeferredResolved BudgetEnds

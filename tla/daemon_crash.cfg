SPECIFICATION Spec
CONSTANTS
  a = a  b = b  c1 = c1  c2 = c2
  Task = {a}
  NoTask = NoTask
  Cli = {c1}
  Daemon = daemon
  Commands = {"start","wait","abandon","accept","daemon"}
  Deps <- NoDeps
  BudgetTasks = {}
  WithForce = FALSE
  Events = {"commit","crash","activity"}
  MaxAge = 3
  TicksPerBucket = 0
  MaxSessions = 1
  MaxAttempts = 1
INVARIANTS TypeOK SessionsKnown AckedIsPollable

SPECIFICATION FairSpec
CONSTANTS
  a = a
  b = b
  m1 = m1
  m2 = m2
  m3 = m3
  Task <- Tasks
  Message <- Messages
  TaskOf <- TaskOfMessage
  Handler = {1, 2}
  Poller = {1, 2}
  MaxRecoveries = 1
  Scenarios <- AllScenarios
  MaxRows = 2
INVARIANTS
  TypeOK
  AckFirst
  OneDelivery
  DeliveredWasSent
  RecoveryBudget
PROPERTY TaskReturns
CHECK_DEADLOCK FALSE

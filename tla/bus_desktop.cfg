SPECIFICATION Spec
CONSTANTS
  t1 = t1
  t10 = t10
  d1 = d1
  p1 = p1
  w1 = w1
  NoOne = NoOne
  Clients <- DesktopClients
  Daemons = {d1}
  Pullers = {p1}
  Topics <- DesktopTopics
  Filters <- DesktopFilters
  Knows <- DesktopKnows
  Kinds = {"progress", "ack", "terminal"}
  Limit = 1
  Lease = 1
  MaxLag = 2
  Serials = {0, 1}
  MaxMessages = 2
  MaxFaults = 1
  ManualAck = FALSE
INVARIANTS
  TypeOK
  LeasesHold
PROPERTIES
  TerminalsInOrder
  IsAQueue

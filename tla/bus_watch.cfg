SPECIFICATION FairSpec
CONSTANTS
  t1 = t1
  t10 = t10
  d1 = d1
  p1 = p1
  w1 = w1
  NoOne = NoOne
  Clients <- WatchClients
  Daemons = {}
  Pullers = {}
  Topics = {t1, t10}
  Filters <- WatchFilters
  Knows <- WatchKnows
  Kinds = {"progress"}
  Limit = 2
  Lease = 1
  MaxLag = 2
  Serials = {0, 1}
  MaxMessages = 2
  MaxFaults = 2
  ManualAck = TRUE
INVARIANTS
  ReadIsHandled
PROPERTIES
  EveryMessageRead

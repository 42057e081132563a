SPECIFICATION FairSpec
CONSTANTS
  c1 = c1  c2 = c2
  e1 = e1  e2 = e2  e3 = e3  e4 = e4
  Client <- TwoClients
  Event <- FourEvents
  LongEvent <- None
  MaxSize = 2
  MaxTorn = 2
INVARIANTS TypeOK AppendAtEnd HandedOnce TornCostsOne ReadsAllEvents
PROPERTIES AtomicSpec CallsReturn

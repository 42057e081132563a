SPECIFICATION Spec
CONSTANTS
  c1 = c1  c2 = c2
  e1 = e1  e2 = e2  e3 = e3  e4 = e4
  Client <- TwoClients
  Event <- ThreeEvents
  LongEvent <- OneLong
  MaxSize = 2
  MaxTorn = 0
INVARIANT ReadsAllEvents

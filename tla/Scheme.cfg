SPECIFICATION Spec
CONSTANTS
  c1 = c1  c2 = c2
  Caller <- Callers
  Nothing = Nothing
  TTL = 2
  MaxTime = 4
  MaxFaults = 2
INVARIANTS TypeOK FreshUnlessDisturbed FallbackUnlessDisturbed

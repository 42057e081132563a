SPECIFICATION Spec
CONSTANTS
  a = a  b = b  c = c  k = k  s1 = s1  s2 = s2
  NoSalt = NoSalt
  Nothing = Nothing
  Logger <- Loggers
  Shared <- Configs
  Given <- OneLoads
  Salt <- Salts
  Product <- SameSalt
  TTL = 1
  MaxTime = 2
  MaxFaults = 1
INVARIANTS TypeOK FailClosed OneSalt OwnSalt
PROPERTY StartsOffline

\* A refresh cancelled before its loads ran leaves them in the cache.
SPECIFICATION Spec
CONSTANTS
  Callers = {a, b}
  Writers = {}
  KindOrder <- UsersOnly
  Ttl = 0
  RefreshOnMiss = TRUE
  MaxTime = 0
  MaxLoads = 1
  MaxVersion <- OneChange
INVARIANTS EndedLoadsEvict

\* Lookups, refreshes of both kinds, a status write, clears, a clock that passes the TTL, failure and
\* cancellation at every point.
SPECIFICATION Spec
CONSTANTS
  Callers = {a, b}
  Writers = {w}
  KindOrder <- BothKinds
  Ttl = 0
  RefreshOnMiss = TRUE
  MaxTime = 1
  MaxLoads = 2
  MaxVersion <- UsersChange
INVARIANTS TypeOK StalenessIsBounded ClearIsFinal CacheHoldsNewestLoad OnlyRefreshSpreadsCancellation
PROPERTIES CallsEnd

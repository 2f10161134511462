\* Three runs over two keys, a breaker that opens at two failures, two connection attempts.
CONSTANTS
  x1 = x1
  x2 = x2
  y1 = y1
  x = x
  y = y
  Runs <- TheRuns
  Keys <- TheKeys
  KeyOf <- TheKeyOf
  NoRun = NoRun
  Threshold = 2
  Cooldown = 0
  Retries = 2
  MaxFailures = 2
SPECIFICATION Spec
INVARIANTS BreakerCounts OrphanHasACause RunHasItsEntry
PROPERTY HalfOpenSettles

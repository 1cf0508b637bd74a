SPECIFICATION FairSpec
CONSTANTS
  NoKey = NoKey
  Goroutines = {g1, g2}
  Clearers = {g2}
  Keys = {k1, k2}
  NBuckets = 2
  BucketOf <- FirstBucket
  Cap1 = 1
  Cap2 = 1
  TTLs = {1, 2}
  MaxClock = 1
  MaxSets = 3
INVARIANTS OlderBelow CalledGone StaleOnlyAfterLoss NoResurrection ClearComplete
PROPERTIES ExpiredAreRemoved

SPECIFICATION FairSpec
CONSTANTS
  Goroutines = {g1, g2, g3}
  Keys = {k1}
  Calls = {c1, c2, c3, c4}
  NoCall = NoCall
  NoKey = NoKey
  MayPanic = TRUE
INVARIANTS TypeOK EntryOwned NoOrphanWaiter ResultBeforeDone
PROPERTIES EveryDoReturns
CHECK_DEADLOCK FALSE

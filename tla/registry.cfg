SPECIFICATION FairSpec
CONSTANTS
  Goroutines = {g1, g2, g3}
  Names = {n1, n2}
  NoOne = NoOne
  NoName = NoName
  MaxGroups = 3
CHECK_DEADLOCK FALSE
INVARIANTS ClosedIsLeaving NewestStaysRegistered
PROPERTIES EveryOperationReturns

SPECIFICATION Spec
CONSTANTS
  Goroutines = {g1, g2, g3}
  Keys = {k1}
  Calls = {c1, c2, c3}
  NoCall = NoCall
  NoKey = NoKey
  MaxWrites = 2
CHECK_DEADLOCK FALSE
SYMMETRY Symmetry
INVARIANTS StaleOnlyByOverlap
PROPERTIES ImplementsSingleFlight

SPECIFICATION Spec
CONSTANTS
  a = a
  b = b
  c = c
  Callers = {g1, g2}
  Nodes = {a, b, c}
  NoNode = NoNode
  Positions = {1, 2, 3, 4, 5}
  KeyPositions = {1, 3}
  PositionOf <- PlacedHere
  DefaultReplicas = 2
  MinReplicas = 1
  MaxReplicas = 2
  Threshold = 25
  MinSamples = 2
  MaxTotal = 2
  MaxAdds = 3
CHECK_DEADLOCK FALSE
INVARIANTS OthersIntact CountsWithinTotal
PROPERTIES RingReturns OnlyTheirKeysMove

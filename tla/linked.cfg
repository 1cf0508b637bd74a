SPECIFICATION LinkedSpec
CONSTANTS
  Keys = {k1, k2, k3, k4}
  Values = {v1, v2}
  Exps = {0, 1}
  Cap = 3
  NoNode = NoNode
SYMMETRY Symmetry
INVARIANTS WellLinked
PROPERTIES ImplementsRecency

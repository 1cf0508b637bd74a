SPECIFICATION FairSpec
CONSTANTS
  Goroutines = {g1, g2, g3}
  NoOne = NoOne
CHECK_DEADLOCK FALSE
INVARIANTS TypeOK OpenIsCurrent NoUseAfterRelease AtMostOneRevival OnceWhileOpen NoPanicWhileOpen
PROPERTIES OperationsReturn

SPECIFICATION FairLruSpec
CONSTANTS
  Getters = {g1}
  Keys = {k1, k2}
  NoKey = NoKey
  Elems = {e1, e2, e3, e4}
  Nil = Nil
  Sizes = {1, 2, 4}
  TTLs = {0, 1}
  MaxBytes = 4
  MaxClock = 2
INVARIANTS ListMatchesItems Accounting
PROPERTIES BudgetRestored InsertionsFit

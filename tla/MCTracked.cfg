SPECIFICATION TrackedSpec
CONSTANTS
  Values = {v1, v2}
  Wrappers = {w1, w2}
  Sites = {s}
  Usages = {u}
  Hints = {1}
  MaxCap = 2
  MaxCreations = 2
  MaxInspects = 1
  Nothing = Nothing
  Elsewhere = Elsewhere
  NoWhere = NoWhere
SYMMETRY Symmetry
INVARIANTS TypeOK SoleOwner Accounting PeakReported
PROPERTY ImplementsBare
CHECK_DEADLOCK FALSE

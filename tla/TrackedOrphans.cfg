SPECIFICATION TrackedSpec
CONSTANTS
  Values = {v1}
  Wrappers = {w1}
  Sites = {s}
  Usages = {u}
  Hints = {1}
  MaxCap = 1
  MaxCreations = 1
  MaxInspects = 1
  Nothing = Nothing
  Elsewhere = Elsewhere
  NoWhere = NoWhere
INVARIANT InspectionsCounted
CHECK_DEADLOCK FALSE

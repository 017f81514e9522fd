SPECIFICATION Spec
CONSTANTS
  Threads = {t1, t2, t3}
  Scanners = {}
  Sites = {s1}
  Names = {n1, n2}
  Samples = {v1, v2, v3, v4}
  Cap = 2
  MaxCreations = 2
  NoThread = NoThread
  Unregistered = Unregistered
  NoSample = NoSample
SYMMETRY Symmetry
INVARIANTS TypeOK CreationExactlyOnce ObservationExactlyOnce InitialIsKept FullWhenReplacing
PROPERTIES EntryNeverReset
CHECK_DEADLOCK FALSE

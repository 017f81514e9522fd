SPECIFICATION FairSpec
CONSTANTS
  Threads = {t1, t2}
  Scanners = {d}
  Sites = {s1, s2}
  Names = {n1}
  Samples = {v1, v2}
  Cap = 1
  MaxCreations = 1
  NoThread = NoThread
  Unregistered = Unregistered
  NoSample = NoSample
INVARIANTS DumpedEntriesAreCuts
PROPERTIES CallsReturn ImplementsSiteStats
CHECK_DEADLOCK FALSE

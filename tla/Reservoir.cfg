SPECIFICATION FairSpec
CONSTANTS
  Threads = {t1, t2, t3}
  Readers = {r}
  Samples = {v1, v2, v3}
  Cap = 2
  NoThread = NoThread
  NoSample = NoSample
INVARIANTS TypeOK PushAccounting VerbatimBelowCap TotalCoversSamples
PROPERTIES RecordEnds

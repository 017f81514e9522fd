SPECIFICATION FairSpec
CONSTANTS
  Blocks = 2
  MaxData = 2
  MaxErrors = 2
  NoFile = NoFile
INVARIANTS TypeOK SnapshotSurvivesKill FinalSnapshotKeptAlone
PROPERTIES ObservationsReachDisk
CHECK_DEADLOCK FALSE

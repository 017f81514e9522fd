SPECIFICATION Spec
CONSTANTS
  Blocks = 2
  MaxData = 2
  MaxErrors = 0
  NoFile = NoFile
INVARIANTS DestinationWhole
CHECK_DEADLOCK FALSE

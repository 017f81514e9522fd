SPECIFICATION FairMeasureSpec
CONSTANTS
  f = f
  b = b
  b_hash = b_hash
  Sources <- OneSource
  MaxEdits = 1
  MaxStops = 1
  Torn = Torn
  NoManifest = NoManifest
  Benches <- OneBench
  Names <- OneBench
  DumpName <- UnderItsOwn
  NoBench = NoBench
  RootIsMember = FALSE
INVARIANTS MeasureTypeOK MeasureRestores PairedIsReverted
PROPERTIES MeasureReturns OwnersTextKept

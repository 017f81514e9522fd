SPECIFICATION MeasureSpec
CONSTANTS
  f = f
  b = b
  b_hash = b_hash
  Sources <- OneSource
  MaxEdits = 0
  MaxStops = 0
  Torn = Torn
  NoManifest = NoManifest
  Benches <- OneBench
  Names <- BothNames
  DumpName <- UnderItsFile
  NoBench = NoBench
  RootIsMember = FALSE
INVARIANT DumpsAreFound

SPECIFICATION Spec
CONSTANTS
  Sources = {f}
  MaxEdits = 0
  MaxStops = 0
  Torn = Torn
  NoManifest = NoManifest
INVARIANT StaleMeansEdited

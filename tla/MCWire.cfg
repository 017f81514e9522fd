SPECIFICATION Spec
CONSTANTS
  a = a
  b = b
  Root = Root
  Members <- RootAndTwo
  MaxWires = 2
  MaxEdits = 2
  MaxStops = 1
  Torn = Torn
  NoManifest = NoManifest
INVARIANTS TypeOK WiredOnceIsClean RefusalMeansEdit
PROPERTIES OwnersTextKept WireKeepsInherited

SPECIFICATION Spec
CONSTANTS
  Sites = {"a", "b"}
  Absolute = {"b"}
  Programs <- MCPrograms
  Benches = {"x", "y"}
  Runs <- MCRuns
  Caps = {0, 62}
  ByHand <- MCByHand
  Options <- MCOptions
  MaxRounds = 1
  Sizes = {0, 1, 3, 5, 40, 44, 64}
  MaxCount = 45
  Dynamic = Dynamic
  NoPolicy = NoPolicy
  NoChange = NoChange
  NoName = NoName
  NoProfile = NoProfile
INVARIANTS PipelineTypeOK LoadedIsWhole AdviceFits
PROPERTIES GrowthCovered PatchedWithinPeak HashersKept FixIsStable
CHECK_DEADLOCK FALSE

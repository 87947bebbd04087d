SPECIFICATION Spec
CONSTANTS
  Missing = Missing
  NoBuild = NoBuild
  MaxBuilds = 2
  DesiredForks = {"homestead", "london", "londonFix"}
  FallbackForks = {"homestead", "london"}
CONSTANT Asks <- AllAsks
CONSTANT Inputs <- Variations
INVARIANTS ChainNamesItsGenesis OutputsValidate EngineIsTheOverlays PremineIsReported
CHECK_DEADLOCK FALSE

SPECIFICATION Spec
CONSTANTS
  Missing = Missing
  NoBuild = NoBuild
  MaxBuilds = 1
  DesiredForks = {"homestead", "london", "londonFix"}
  FallbackForks = {"homestead", "london"}
CONSTANT Asks <- DefaultAsks
CONSTANT Inputs <- OnlyShipped
INVARIANT BaseFeeAsAsked
CHECK_DEADLOCK FALSE

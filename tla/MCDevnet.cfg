SPECIFICATION FairSpec
CONSTANTS
  N = 2
  Pids = {1, 2, 3}
  Params = {p1, p2}
  Commands = {"up", "up-RESET=1", "start-RESET=1", "reset", "down", "clean", "clean-data"}
  None = None
  MaxFaults = 2
  MaxCommands = 3
INVARIANTS NodeOnItsChain FingerprintsTrue OneChain
PROPERTIES ValidatorsInGenesis DownStopsAll UpEnds
CHECK_DEADLOCK FALSE

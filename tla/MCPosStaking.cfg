SPECIFICATION FairSpec
CONSTANTS
  v1 = v1
  v2 = v2
  Operator = {v1, v2}
  Manager = Manager
  NodeIds = {"n1"}
  MinStake = 2
  UnbondingBlocks = 1
  EpochLength = 2
  Amounts = {1, 2}
  Approvals = {1, 2}
  MaxSupply = 2
  MaxBlock = 2
  MaxPending = 2
CONSTANT Listed <- OneList
INVARIANTS PosSolvent TotalStakedIsSum
PROPERTIES PaidOnce PastEpochsFrozen ExitCompletes

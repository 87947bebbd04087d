SPECIFICATION Spec
CONSTANTS
  NAddr = 2
  Contracts = {2}
  Keys = {k1}
  NoKey = NoKey
  MaxUint = 3
  MinStakes = {0}
  Limits = {0, 1}
  Periods = {0, 2}
  MaxTime = 2
  MaxQueue = 2
  Registrants = {1}
  Stakers = {1, 2}
  Payouts = {1}
  Admins = {2}
CONSTANT Funds <- SpreadFunds
INVARIANTS Solvent TotalStakeIsSum IInv
PROPERTIES ImplementsLedger PaysExactlyDue FailsOnlyWithReason

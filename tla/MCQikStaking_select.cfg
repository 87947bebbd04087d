SPECIFICATION Spec
CONSTANTS
  NAddr = 3
  Contracts = {}
  Keys = {k1}
  NoKey = NoKey
  MaxUint = 3
  MinStakes = {0, 2}
  Limits = {0, 1, 2}
  Periods = {0}
  MaxTime = 0
  MaxQueue = 1
  Registrants = {1, 2, 3}
  Stakers = {1}
  Payouts = {1}
  Admins = {1}
CONSTANT Funds <- OneHand
INVARIANTS ActiveSetIsTopRanked

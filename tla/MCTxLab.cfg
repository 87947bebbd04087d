SPECIFICATION FairSpec
CONSTANTS
  alice = alice
  ghost = ghost
  Runs = {1, 2}
  Accounts = {alice}
  Unknown = {ghost}
  MaxTx = 2
  MaxDelayed = 1
  NoRun = NoRun
CONSTANT Scenarios <- Mixed
INVARIANTS CountersAgree CompletedIsComplete SequentialNonces
PROPERTIES RunEnds
CHECK_DEADLOCK FALSE

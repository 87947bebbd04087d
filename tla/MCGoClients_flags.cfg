SPECIFICATION ClientsSpec
CONSTANTS
  Launches <- MCLaunches
  OddReplies <- MCOddReplies
  Base = 2
  WordDigits = 4
  Junk = 9
  MaxChain = 2
  MaxHead = 2
  MaxOdd = 1
  Jobs <- MCJobs
  NumSenders = 2
  MaxRestarts = 1
  Binaries <- MCBinaries
  ServerFlagNames <- MCServerFlagNames
  GenesisFlagNames <- MCGenesisFlagNames
  MaxReplaced = 1
  NoReport = NoReport
  None = None
  Unset = Unset
INVARIANT DaemonTakesFlags
CHECK_DEADLOCK FALSE

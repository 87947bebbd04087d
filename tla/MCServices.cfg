SPECIFICATION ServicesSpec
SYMMETRY Alike
CONSTANTS
  NumRequests = 3
  Nodes = {n1, n2}
  Ips = {ip1, ip2}
  CacheMs = 2
  RpcTimeout = 1
  RateWindow = 2
  RateLimit = 1
  DivergenceWarn = 1
  MaxTime = 3
  MaxHead = 3
  None = None
  NumPosts = 3
  Clients = {ip1, ip2}
  Tos = {to1, to2}
  IpLimit = 1
  ToLimit = 2
  CacheTime = 1
  MaxClock = 3
  Nil = Nil
INVARIANTS AnswersAreCurrent DivergenceIsReal RateIsExact LimitsHold RefusedForCause NonceClashNeedsOverlap
CHECK_DEADLOCK FALSE

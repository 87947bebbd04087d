SPECIFICATION ComposeFairSpec
CONSTANTS
  node1 = node1
  node2 = node2
  node3 = node3
  Nodes = {node1, node2, node3}
  First = node1
  NoFile = NoFile
  Torn = Torn
  MaxUps = 3
  MaxKills = 2
  MaxWipes = 1
INVARIANT RunningAgree
PROPERTIES GenesisStays StartsEnd
CHECK_DEADLOCK FALSE

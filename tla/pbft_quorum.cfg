SPECIFICATION FairSpec
CONSTANTS
  n0 = n0
  n1 = n1
  n2 = n2
  n3 = n3
  Nodes = {n0, n1, n2, n3}
  Leader = n0
  MaxHeight = 1
  MaxLoss = 0
PROPERTIES FirstRoundCompletes
CHECK_DEADLOCK FALSE

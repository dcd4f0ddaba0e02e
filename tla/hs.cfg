CONSTANTS
  n1 = n1
  n2 = n2
  n3 = n3
  Nodes = {n1, n2, n3}
  Links <- Couple
  Bundles = {1, 2}
  Source <- FromN1
  Dest <- ToBoth
  MaxLosses = 1
  MaxTicks = 1
  MaxTasks = 1
SPECIFICATION FairSpec
  
PROPERTY QueryIsAnswered
CHECK_DEADLOCK FALSE

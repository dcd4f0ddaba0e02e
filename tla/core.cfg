CONSTANTS
  n1 = n1
  n2 = n2
  n3 = n3
  None = None
  Null = Null
  NoEid = NoEid
  Padded = {n1}
  Nodes = {n1, n2, n3}
  Links <- Line
  Multicast <- Pair
  Workloads <- MCWorkloads
  Forwarding = {n1, n2, n3}
  Limits = {"big"}
  Capacity = 4
  Numbers = 3
  Reference = {n1}
  Announces = {n1}
  Versionings <- MCVersionings
  Error <- MCError
  Second = 20
  Worst = 3
  QotTick = 1
  SyncGap = 1
  Waits = {2}
  Delays = {1, 3}
  Blacklist = 2
  MaxSeconds = 2
  MaxCoreFaults = 2
SPECIFICATION FairCoreSpec
INVARIANTS DeliveredOnce
PROPERTIES  ReferenceIsFollowed DeliveredIsReported
CHECK_DEADLOCK FALSE

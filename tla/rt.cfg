CONSTANTS
  p1 = p1
  p2 = p2
  far = far
  Peers = {p1}
  Bundles = {1, 2}
  Dest <- OneOfEach
  Singleton = {1, 2}
  Local = {1}
  Remote = {2}
  TransitMax = 1
  RetryMax = 1
  SearchLimit = 2
  Flooding = TRUE
  Security = TRUE
  Faults = {"undefined", "requeue", "expired", "vanish", "twice", "silent", "refused", "up"}
  MaxFaults = 1
SPECIFICATION FairSpec
INVARIANTS SlotHasOneHolder
PROPERTIES SlotIsReleased WaitingIsSent
CHECK_DEADLOCK FALSE

CONSTANTS
  j1 = j1
  j2 = j2
  Jobs = {j1, j2}
  SegCount <- ThreeAndTwo
  Exact = {}
  Invalid = {j2}
  MaxSeq = 3
  Retries = 2
  StopNWait = TRUE
  MayStop = TRUE
  Timely = FALSE
  MaxLoss = 2
  None = None
SPECIFICATION FairSpec
INVARIANT AssembledIntact
PROPERTIES EveryJobSettles CloseTerminates
CHECK_DEADLOCK FALSE

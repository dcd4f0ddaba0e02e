CONSTANTS
  b1 = b1
  b2 = b2
  b3 = b3
  Bundles = {b1, b2, b3}
  SegCount <- MCSegCount
  Exact = {}
  AckSupport = TRUE
  NackSupport = TRUE
  MayReject = TRUE
  None = None
SPECIFICATION FairSpec
INVARIANTS  NothingForgotten AnswersMeetSegments CompletedIsReceived
PROPERTY EveryBundleSettles
CHECK_DEADLOCK FALSE

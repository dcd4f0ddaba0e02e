CONSTANTS
  b1 = b1
  b2 = b2
  b3 = b3
  Bundles = {b1, b2, b3}
  Rowed = {b1, b2}
  Size <- MCSize
  Blocks <- MCBlocks
  TTL <- MCTTL
  Fragments = {b2}
  Custody = {b1}
  MaxSize = 3
  Buffer = 1
  Modulus = 8
  MaxStores = 3
  MaxTime = 1
  MaxCrashes = 1
  Again = FALSE
  Overlap = FALSE
  MayFail = TRUE
  MayClear = TRUE
  Default = Default
  None = None
SPECIFICATION FairSpec
INVARIANTS SizeIsExact 
PROPERTIES ContentIsAccounted CallsComplete ImplementsBundleStorage
CHECK_DEADLOCK FALSE

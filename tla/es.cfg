CONSTANTS
  e1 = e1
  e2 = e2
  e3 = e3
  r1 = r1
  r2 = r2
  n1 = n1
  n2 = n2
  Events = {e2, e3}
  Components <- OnlyR1
  Clients = {r2}
  Names = {n1, n2}
  NameOf <- OneName
  Prio <- Overtaking
  Blocking = {e2}
  Shutdown = {e3}
  Interest <- OneOrBoth
  Workers = {w1}
  Main = Main
  None = None
SPECIFICATION FairSpec
INVARIANTS BindingIsRespected
PROPERTIES BlockedReturns ShutdownEnds
CHECK_DEADLOCK FALSE

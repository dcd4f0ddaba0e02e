CONSTANTS
  p1 = p1
  p2 = p2
  None = None
  Peers = {p1}
  Inbound = {i1}
  Services <- WithAttr
  Static <- StaticAddress
  Immediate = {p1}
  Dead = {}
  Layers <- OnlyTCP
  Timeout = 2
  Interval = 1
  Idle = TRUE
  Punctual = TRUE
  MaxEvents = 2
SPECIFICATION FairManagerSpec
INVARIANTS NodesMatchConnections
PROPERTIES AbsentIsDropped PresentIsConnected

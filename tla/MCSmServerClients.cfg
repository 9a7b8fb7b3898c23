CONSTANTS
  s1 = s1
  s2 = s2
  s3 = s3
  s4 = s4
  server = server
  other = other
  a = a
  ab = ab
  p1 = p1
  p2 = p2
  None = None
  NoPid = NoPid
  NoPort = NoPort
  Garbled = Garbled
  Sessions <- MCSessions3
  FreeOrder <- MCFreeOrder3
  Pids = {server}
  Names = {a, ab}
  Prefixes <- MCPrefixes
  Ports = {p1, p2}
  Requests <- MCClientRequests
  MaxServices = 2
  MaxSrv = 3
  MaxSrvPm = 0
  PRE_7X = FALSE
SPECIFICATION Spec
INVARIANTS
  LoopConsistent
  NoLostWakeup
PROPERTY PortWaitersInOrder
VIEW MCView
SYMMETRY PortSymmetry
CHECK_DEADLOCK FALSE

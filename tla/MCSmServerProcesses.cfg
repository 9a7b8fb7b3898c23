CONSTANTS
  s1 = s1
  s2 = s2
  s3 = s3
  s4 = s4
  server = server
  other = other
  a = a
  ab = ab
  p1 = p1
  p2 = p2
  None = None
  NoPid = NoPid
  NoPort = NoPort
  Garbled = Garbled
  Sessions <- MCSessions2
  FreeOrder <- MCFreeOrder2
  Pids = {server, other}
  Names = {a, ab}
  Prefixes <- MCPrefixes
  Ports = {p1, p2}
  Requests <- MCProcessRequests
  MaxServices = 2
  MaxSrv = 1
  MaxSrvPm = 2
  PRE_7X = TRUE
SPECIFICATION Spec
INVARIANTS
  TableMatchesPorts
VIEW MCView
SYMMETRY PortSymmetry
CHECK_DEADLOCK FALSE

CONSTANTS
  s1 = s1
  s2 = s2
  s3 = s3
  s4 = s4
  server = server
  other = other
  a = a
  ab = ab
  p1 = p1
  p2 = p2
  None = None
  NoPid = NoPid
  NoPort = NoPort
  Garbled = Garbled
  Sessions <- MCSessions2
  FreeOrder <- MCFreeOrder2
  Pids = {server}
  Names = {a}
  Prefixes <- MCPrefixes1
  Ports = {p1, p2}
  Requests <- MCPortRequests
  MaxServices = 2
  MaxSrv = 2
  MaxSrvPm = 0
  PRE_7X = FALSE
SPECIFICATION Spec
INVARIANT ReceiveNeverFails
VIEW MCView
SYMMETRY PortSymmetry
CHECK_DEADLOCK FALSE

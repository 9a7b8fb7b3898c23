CONSTANTS
  PoolSize = 4
  ListNames = {free, inUse, waiting}
  PoolList = free
  Null = Null
  None = None
  NoPid = NoPid
  NoNotif = NoNotif
  NoPort = NoPort
  Garbled = Garbled
  node1 = node1
  node2 = node2
  pid1 = pid1
  pid2 = pid2
  s1 = s1
  s2 = s2
  s3 = s3
  s4 = s4
  server = server
  other = other
  ab = ab
  a = a
  p1 = p1
  p2 = p2
SPECIFICATION PartsSpec
PROPERTIES
  ListsAreSequences
  PendingIsReceived
  WokenIsReplayed
VIEW PartsView
CHECK_DEADLOCK FALSE

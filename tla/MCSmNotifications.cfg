CONSTANTS
  node1 = node1
  node2 = node2
  pid1 = pid1
  pid2 = pid2
  Nodes <- MCNodes
  FreeOrder <- MCFreeOrder
  Pids <- MCPids
  Section0 <- MCSection0
  NotifIds = {n1, n2}
  NoPid = NoPid
  NoNotif = NoNotif
  RingSize = 2
  MaxSubscribed = 2
SPECIFICATION Spec
VIEW MCView
INVARIANTS
  TableConsistent
  SemaphoreMatchesRing
  RingIndicesAgree
  SemaphoreNeverOverflows
PROPERTY ImplementsMailbox
CHECK_DEADLOCK FALSE

CONSTANTS
  Services = {"one", "two"}
  MaxSessions <- MCMaxSessions
  Clients = {"a", "b", "c"}
  Notifications = {"exit", "wake"}
  Exit = "exit"
  Allocator = TRUE
  MayFail = TRUE
  Null = Null
  m1 = m1
  m2 = m2
  e1 = e1
  e2 = e2
  c1 = c1
  c2 = c2
SPECIFICATION TablesSpec
INVARIANTS
  ContextsConsistent
  TableExact
  ProgramsConsistent
  SessionsServed
  LimitsFit
  
  
PROPERTY BootsAsExpected
VIEW TablesView
CHECK_DEADLOCK FALSE

CONSTANTS
  Services <- MCServices
  StaticBuffersOf <- MCStaticBuffersOf
  StaticBufferCount = 2
  Provided = 1
  Word = 16
  McCommands = {"cmd", "disable", "enable"}
  Orderly = TRUE
  None = None
SPECIFICATION FairSpec

  
PROPERTIES
  ImplementsCalls
  TakenIsAnswered
  ShutdownCompletes
CHECK_DEADLOCK FALSE
VIEW View

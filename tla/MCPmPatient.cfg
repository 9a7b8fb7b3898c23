CONSTANTS
  n1 = n1
  n2 = n2
  n3 = n3
  n4 = n4
  n5 = n5
  game = game
  menu = menu
  module = module
  pxi = pxi
  Null = Null
  Nodes = {n1, n2, n3, n4, n5}
  FreeOrder <- MCFreeOrder5
  MaxPid = 5
  Titles = {pxi, game, menu, module}
  Kips <- MCKips
  Deps <- MCDeps
  Listens = {pxi, game, menu, module}
  MayExit = {game, menu}
  Commands <- MCPatientCommands
  Failures <- MCFailures
  Patient = TRUE
SPECIFICATION FairSpec
PROPERTIES
  QuietAgain
  RebootSparesDependencies
  
INVARIANTS
  RefcountsExact
  
  ProcessesKnown
CHECK_DEADLOCK FALSE
VIEW LiveView

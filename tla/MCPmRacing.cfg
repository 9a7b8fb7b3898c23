CONSTANTS
  n1 = n1
  n2 = n2
  n3 = n3
  n4 = n4
  n5 = n5
  game = game
  menu = menu
  module = module
  pxi = pxi
  Null = Null
  Nodes = {n1, n2, n3}
  FreeOrder <- MCFreeOrder3
  MaxPid = 3
  Titles = {pxi, game, menu, module}
  Kips <- MCRacingKips
  Deps <- MCDeps
  Listens = {game, module}
  MayExit = {game}
  Commands <- MCRacingCommands
  Failures <- MCRacingFailures
  Patient = FALSE
SPECIFICATION Spec
INVARIANTS
  ListConsistent
  EveryProcessIsWatched
CHECK_DEADLOCK FALSE
VIEW LiveView

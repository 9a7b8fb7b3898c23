CONSTANTS
  Clients = {c1, c2}
  Tasks = {x1, x2}
  NoOp = NoOp
  None = None
SPECIFICATION PartsSpec
INVARIANTS
  TaskHasItsArguments
  DialogsConsistent
  PluginConsistent
PROPERTIES
  ImplementsQueue
  SubmittedBegins
  TerminationCompletes
  ServerAnswers
  SignalsReturn
CHECK_DEADLOCK FALSE

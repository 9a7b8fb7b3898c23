CONSTANTS
  Ctxs = {1}
  BasePorts = {1}
  NextPort = 3
  Procs = {"p"}
  NextApp = "app"
  Prompt = TRUE
SPECIFICATION FairSpec
PROPERTY UnselectCompletes
CHECK_DEADLOCK FALSE

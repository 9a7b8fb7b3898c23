CONSTANTS
  srv = srv
  task = task
  Null = Null
  Size = 6
  Threads = {srv, task}
  Depth <- MCDepth
SPECIFICATION Spec
INVARIANTS NewAlwaysFindsABuffer

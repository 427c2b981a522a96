SPECIFICATION SpecParts
CONSTANTS
  NULL = NULL
  Threads = {"t1", "t2"}
  Protocols = {"p", "q"}
  Methods = {"h1", "h2"}
  Modules <- TwoModules
  MaxConnections = 4
  OneAtATime = TRUE
INVARIANT EndIsReported
CHECK_DEADLOCK FALSE

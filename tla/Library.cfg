SPECIFICATION FairParts
CONSTANTS
  NULL = NULL
  Threads = {"t1", "t2"}
  Protocols = {"p", "q"}
  Methods = {"h1", "h2"}
  Modules <- TwoModules
  MaxConnections = 4
  OneAtATime = TRUE
INVARIANTS
  ValuesCross
  PairsMatch
  ProgramsMean
  WrittenIsRead
PROPERTY RunEndsWhenDone
CHECK_DEADLOCK FALSE

SPECIFICATION SpecParts
CONSTANTS
  NULL = NULL
  Timers = {"t1"}
  Watches = {"w1", "w2"}
  Fds = {1}
  Modes = {{}, {"C", "E", "H"}}
  Interval = 1
  Msec = 2
  MaxClock = 5
  MaxAdded = 3
  Editors = {"editor"}
  MaxNonce = 2
  MaxForeign = 2
  Targets = 2
  FocusMoves = FALSE
  ClaimsRace = FALSE
INVARIANT EndIsReported
CHECK_DEADLOCK FALSE

SPECIFICATION Spec
CONSTANTS
  Server = srv
  Producer = {srv}
  Message = {r1, e1}
  Results = {r1}
  Events = {e1}
  NoMsg = NoMsg
INVARIANTS
  NoLostWakeup
CHECK_DEADLOCK FALSE

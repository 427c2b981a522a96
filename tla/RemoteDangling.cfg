SPECIFICATION Spec
CONSTANTS
  Object = {o1, o2}
  Origin = o1
  Handler = {h1}
  Emission = {e1}
  EmitsCarry = {o2}
  FreeLength = 1
  MaxQueue = 1
  NoObject = NoObject
  NoHandler = NoHandler
  NoEmission = NoEmission
INVARIANTS
  HandlesResolve
CHECK_DEADLOCK FALSE

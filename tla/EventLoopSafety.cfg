SPECIFICATION Spec
CONSTANTS
  Source = {a, b}
  Loop = {m, s1}
  Main = m
  NoSource = NoSource
  NoLoop = NoLoop
  Prio <- AscendingPriorities
  Ascent = 2
  MayRecurse = {a}
  AlwaysReady = {}
  OuterKinds = {"run", "pending"}
  NestedKinds = {"iterateBlock", "iteratePending"}
  AddToDying = FALSE
  MaxAdds = 2
  MaxDepth = 2
  MaxOwing = 1
INVARIANTS
  TypeOK
  Ownership
  RecursionIsAllowed
  CursorsValid
  NothingIsMissed
PROPERTIES
  DispatchOrder

SPECIFICATION Spec
CONSTANTS
  Source = {a}
  Loop = {m, s1}
  Main = m
  NoSource = NoSource
  NoLoop = NoLoop
  Prio <- EqualPriorities
  Ascent = 2
  MayRecurse = {}
  AlwaysReady = {}
  OuterKinds = {"run"}
  NestedKinds = {}
  AddToDying = FALSE
  MaxAdds = 1
  MaxDepth = 1
  MaxOwing = 0
PROPERTIES
  ClaimsAreKept

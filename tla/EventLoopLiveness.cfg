SPECIFICATION FairSpec
CONSTANTS
  Source = {a, b}
  Loop = {m, s1}
  Main = m
  NoSource = NoSource
  NoLoop = NoLoop
  Prio <- EqualPriorities
  Ascent = 2
  MayRecurse = {}
  AlwaysReady = {a, b}
  OuterKinds = {"run"}
  NestedKinds = {"iterate"}
  AddToDying = FALSE
  MaxAdds = 2
  MaxDepth = 2
  MaxOwing = 0
PROPERTIES
  RoundRobin
  QuitEndsRun

SPECIFICATION FairParts
CONSTANTS
  Producer = {p1, p2}
  Message = {m1, m2, m3}
  NoMsg = NoMsg
  Server = srv
  Results = {r1}
  Events = {e1, e2}
  Address = {a1, a2, a3, a4}
  MaxConnects = 2
  MaxDepth = 2
  NULL = NULL
  NoEmission = NoEmission
  WindowLinks = {1, 2, 3}
  WindowConnects = 3
  MaxSize = 2
  MaxChanges = 3
  NoSurface = NoSurface
  Windows = {w1, w2}
  MaxCalls = 3
  Capacity = 2
  MaxLength = 3
  MaxWritten = 6
INVARIANTS
  NoLostWakeup
  HandlersAreKept
  NothingIsLost
PROPERTIES
  ImplementsChannel
  EveryMessageArrives
  CallsAreAnswered
  ImplementsHandlers
  ThreadsRest
  BindingsConverge
CHECK_DEADLOCK FALSE

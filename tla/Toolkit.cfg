SPECIFICATION SpecParts
CONSTANTS
  NULL = NULL
  Widgets = {"a", "a1", "b"}
  Inside <- Nesting
  Addresses = {1, 2}
  Callbacks = 2
  MaxCreated = 2
  Changing = {"_NET_WM_VISIBLE_NAME", "WM_STATE"}
  MaxChanges = 4
  Ours = {"o"}
  Foreign = {"f"}
  Properties = {"p", "q"}
  Size = 4
  Most = 3
  Width = 2
  MaxTransfers = 2
  Track = 3
  Skid = 2
  Flipped = FALSE
  Ports = {1, 3}
  Children = {2, 5}
  MaxSteps = 4
  Heights = {1, 4}
  MaxRows = 5
  Views = {4, 6}
  Scale = 64
INVARIANTS
  LinksAreKept
  EditsAreSeen
  DriverKeepsUp
  ViewsFollow
PROPERTY PointerAndTimeMoveOn
CHECK_DEADLOCK FALSE

CONSTANTS
  Containers = {c1, c2, c3}
  Sessions = {s1, s2, s3}
  NoSession = NoSession
  NoContainer = NoContainer
  MinSize = 1
  MaxSize = 2
  Recyclable = TRUE
  ClientsReconnect = TRUE
  DeleteDuringTurn = TRUE
  Zones = {}
  Faults = {}
SPECIFICATION Spec
CHECK_DEADLOCK FALSE
SYMMETRY Symmetry
INVARIANT ExclusiveBinding

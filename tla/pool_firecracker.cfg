CONSTANTS
  Containers = {c1, c2, c3, c4}
  Sessions = {s1, s2, s3}
  NoSession = NoSession
  NoContainer = NoContainer
  MinSize = 2
  MaxSize = 3
  Recyclable = FALSE
  ClientsReconnect = TRUE
  DeleteDuringTurn = TRUE
  Zones = {"outside", "process"}
  Faults = {"create", "death", "crash"}
SPECIFICATION Spec
CHECK_DEADLOCK FALSE
SYMMETRY Symmetry
INVARIANTS
  TurnsApart
  NoStateLeaks
PROPERTY ImplementsLease

CONSTANTS
  Containers = {c1, c2, c3, c4}
  Sessions = {s1, s2, s3}
  NoSession = NoSession
  NoContainer = NoContainer
  MinSize = 2
  MaxSize = 3
  Recyclable = TRUE
  ClientsReconnect = FALSE
  DeleteDuringTurn = FALSE
  Zones = {"globbed", "process"}
  Faults = {"create", "exec", "destroy", "death", "crash"}
SPECIFICATION Spec
CHECK_DEADLOCK FALSE
SYMMETRY Symmetry
INVARIANTS
  TypeOK
  ExclusiveBinding
  Bookkeeping
  NoOrphans
  WithinMaxSize
  ResetIsolates
PROPERTY ImplementsLease

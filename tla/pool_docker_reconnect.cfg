CONSTANTS
  Containers = {c1, c2, c3, c4}
  Sessions = {s1, s2, s3}
  NoSession = NoSession
  NoContainer = NoContainer
  MinSize = 2
  MaxSize = 2
  Recyclable = TRUE
  ClientsReconnect = TRUE
  DeleteDuringTurn = FALSE
  Zones = {}
  Faults = {"create", "exec", "death"}
SPECIFICATION FairSpec
CHECK_DEADLOCK FALSE
INVARIANTS
  WithinMaxSize
PROPERTY ShortageEnds

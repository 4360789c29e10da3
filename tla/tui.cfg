SPECIFICATION FairSpec
CONSTANTS
  Sessions = {s1, s2}
  NoSession = NoSession
  Workers = {w1, w2}
  Faults = {"lost", "delete"}
INVARIANTS
  TypeOK
  NoneForgotten
  OneStream
  TopBarTruthful
PROPERTY PromptReturns
CHECK_DEADLOCK FALSE

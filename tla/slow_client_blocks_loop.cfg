CONSTANTS
  c1 = c1
  c2 = c2
  t1 = t1
  t2 = t2
  Tools = {t1, t2}
  Calls = {c1, c2}
  ToolOf <- TwoCalls
  NoList = NoList
  SlowClient = TRUE
SPECIFICATION Spec
CHECK_DEADLOCK FALSE
INVARIANT LoopNeverBlocks

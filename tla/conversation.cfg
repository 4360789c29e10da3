CONSTANTS
  Requests = {r1, r2, r3}
  Sizes = {31, 100, 133, 234}
  SummarySizes = {76, 98}
  MaxTokens = 80
  Overlap = FALSE
  NoPrompt = NoPrompt
SPECIFICATION Spec
CHECK_DEADLOCK FALSE
INVARIANTS
  TypeOK
  NothingLost
  RecentVerbatim
  PromptIsOwn
  KeepsLast
  RemainderFits

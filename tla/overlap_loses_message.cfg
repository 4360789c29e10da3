CONSTANTS
  Requests = {r1, r2, r3}
  Sizes = {31, 50}
  SummarySizes = {76, 98}
  MaxTokens = 24
  Overlap = TRUE
  NoPrompt = NoPrompt
SPECIFICATION Spec
CHECK_DEADLOCK FALSE
INVARIANT NothingLost

SPECIFICATION Spec
CONSTANT MaxLen = 4
INVARIANTS
  CommandArrives
  ArgumentArrives
  AnswerTruthful
CHECK_DEADLOCK FALSE

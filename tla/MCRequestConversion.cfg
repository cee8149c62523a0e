SPECIFICATION Spec
CONSTANTS
  ToolIds = {t1, t2}
  MaxMessages = 3
  MaxBlocks = 2
  MaxBody = 5
SYMMETRY Symmetry
INVARIANTS
  ResultsAnswerCalls
  SentInOrder
  OverrideOnce
CHECK_DEADLOCK FALSE

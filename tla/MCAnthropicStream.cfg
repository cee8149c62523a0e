SPECIFICATION Spec
CONSTANTS
  ToolCalls = {0, 1}
  MaxChunks = 3
  FinishReasons = {"length", "function_call"}
  MaxDeltas = 2
  MaxParts = 2
INVARIANTS
  TypeOK
  BlocksInOrder
  DeltasInBlocks
  BlocksBalanced
  StreamMatchesCollected
  SameAnswer
CHECK_DEADLOCK FALSE

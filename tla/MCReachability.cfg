SPECIFICATION FairSpec
CONSTANTS
  Functions = 5
  Blocks = {0, 1, 2, 3, 4, 5}
  Program <- MCProgram
  Main = 1
  MaxDepth = 4
INVARIANTS PrunedNeverReachGoal Exact
PROPERTIES DenialIsFinal Settles
CHECK_DEADLOCK FALSE

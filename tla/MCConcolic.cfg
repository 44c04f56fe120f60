SPECIFICATION Spec
CONSTANTS
  Inputs = {1, 2, 3, 4, 5, 6, 7, 8}
  Path <- MCPath
  Sides <- MCSides
  Ending <- MCEnding
  Hides = {}
  CanReach <- MCCanReach
  Seed = 5
  Hard <- MCHard
  MaxRuns = 5
  MaxSteps = 9
  MaxVisits = 2
  MayTimeOut = TRUE
INVARIANTS Frontier UnsatIsExhaustive

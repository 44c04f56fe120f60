SPECIFICATION FairSpec
CONSTANTS
  Inputs = {0, 1, 2, 3}
  Data = {0, 1, 2, 3}
  Points = {1, 2, 3, 4, 5, 6}
  InitialData <- MCInitialData
  Code <- Messages
  Goalward <- MCGoalward
  CanReach <- MCCanReach
  Start = 1
  GoalPoints = {}
  AvoidPoints = {}
  OnReturn = {}
  MaxCallDepth = 2
  MaxStates = 12
  MaxSteps = 40
  MaxVisits = 2
  MayTimeOut = FALSE
  Solutions = 1
  Preferred = {}
  HasPreference = FALSE
  PreferencePaths = 2
  Initialized = TRUE
  Hard = {{1}}
  NoState = NoState
INVARIANT UnsatMeansUnreachable

SPECIFICATION FairSpec
CONSTANTS
  Inputs = {0, 1, 2, 3, 4, 5, 6, 7, 8, 9, 10, 11, 12, 13}
  Data = {0, 1, 2, 3, 4, 5, 6, 7, 8, 9, 10, 11, 12, 13}
  Points = {1, 2, 3, 4, 5, 6, 7, 8, 9, 10, 11, 12, 13, 14, 15, 16, 17, 18, 19}
  InitialData <- MCInitialData
  Code <- Limits
  Goalward <- MCGoalward
  CanReach <- MCCanReach
  Start = 1
  GoalPoints = {}
  AvoidPoints = {}
  OnReturn <- ReturnsAsked
  MaxCallDepth = 2
  MaxStates = 20
  MaxSteps = 48
  MaxVisits = 2
  MayTimeOut = TRUE
  Solutions = 2
  Preferred = {1, 3}
  HasPreference = TRUE
  PreferencePaths = 2
  Initialized = TRUE
  Hard = {{3, 4}, {2}, {5}, {0, 1, 2, 3, 4, 5, 6}, {13}, {12, 13}}
  NoState = NoState
INVARIANTS TypeOK UnsatIsExhaustive

SPECIFICATION FairSpec
CONSTANTS
  Inputs = {0, 1, 2, 3}
  Data = {0, 1, 2, 3}
  Points = {1, 2, 3, 4, 5, 6, 7, 8, 9, 10, 11, 12, 13, 14}
  InitialData <- MCInitialData
  Code <- Checker
  Goalward <- MCGoalward
  CanReach <- MCCanReach
  Start = 1
  GoalPoints = {14}
  AvoidPoints = {12}
  OnReturn = {}
  MaxCallDepth = 2
  MaxStates = 8
  MaxSteps = 4
  MaxVisits = 2
  MayTimeOut = TRUE
  Solutions = 1
  Preferred = {1, 3}
  HasPreference = TRUE
  PreferencePaths = 3
  Initialized = TRUE
  Hard <- Anything
  NoState = NoState
INVARIANTS Covered FewestDecisionsFirst SolutionsReachGoal
PROPERTY Termination

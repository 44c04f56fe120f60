SPECIFICATION Spec
CONSTANTS
  Bytes = {"a", "b", "x"}
  Printable = {"a", "b"}
  EndOfLine = "nl"
  Main = "main"
  EndsProgram = {"exit", "abort"}
  StdinReaders = {"fgets", "read"}
  PipeSize = 1
  OutputLimit = 1
  MaxOutput = 2
  InputSize = 1
  Jobs <- MCJobs
  PreferencePaths = 2
  BruteMaxLength = 2
  BruteCap = 11
  Width = 2
INVARIANTS ShortestFirst AnswersTaken UnsatMeansNone AnswersVerify ChainDrives NothingRuns
PROPERTIES Returns
CHECK_DEADLOCK FALSE

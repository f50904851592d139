SPECIFICATION PollingSpec
CONSTANTS
  Tasks = {t1, t2}
  Requests = {q1}
  SolverCalls = {}
  NoId = NoId
  MaxRounds = 1
  MaxRequests = 1
  RoundMaxRequests = 1
  MaxSolverCalls = 1
  RoundBudget = 1
  Inheritance = "incumbent_only"
  PopSize = 1
  MemoryEnabled = FALSE
  SummaryReasons <- NormalEnd
  JobObject = FALSE
INVARIANTS NobodyWorksOn
PROPERTIES NobodyLeftBehind StopEnds
CHECK_DEADLOCK FALSE

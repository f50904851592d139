SPECIFICATION Spec
CONSTANTS
  Tasks = {t1, t2}
  Requests = {q1}
  SolverCalls = {c1}
  NoId = NoId
  MaxRounds = 2
  MaxRequests = 2
  RoundMaxRequests = 1
  MaxSolverCalls = 3
  RoundBudget = 3
  Inheritance = "population_seeds"
  PopSize = 1
  MemoryEnabled = FALSE
  SummaryReasons <- NormalEnd
  JobObject = TRUE
SYMMETRY Symmetry
PROPERTIES NothingLost ImplementsLifecycle
CHECK_DEADLOCK FALSE

SPECIFICATION Spec
CONSTANTS
  Tasks = {t1, t2}
  Requests = {q1, q2}
  SolverCalls = {c1, c2}
  NoId = NoId
  MaxRounds = 1
  MaxRequests = 1
  RoundMaxRequests = 1
  MaxSolverCalls = 1
  RoundBudget = 1
  Inheritance = "incumbent_only"
  PopSize = 1
  MemoryEnabled = TRUE
  SummaryReasons <- FewReasons
  JobObject = TRUE
SYMMETRY Symmetry
INVARIANTS TypeOK OneEffectfulTask LedgersSettled LedgersAgree RoundsAgree TreesEnd
PROPERTIES LedgersFinal
CHECK_DEADLOCK FALSE

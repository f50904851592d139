SPECIFICATION Spec
CONSTANTS
  Calls = {1, 2, 3, 4, 5, 6, 7, 8}
  RequestLimit = 4  RepairLimit = 1  SolverLimit = 3
  Attempts = 2  Seeds = 1  Candidates = 2  Bounded = TRUE  RepairsPerWorker = 1
INVARIANTS  EvidenceIsSound 
PROPERTIES RunReported
CHECK_DEADLOCK FALSE

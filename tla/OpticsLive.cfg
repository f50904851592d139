SPECIFICATION FairSpec
CONSTANTS
  Artifacts = {0, 1}  Key <- MCKey  FeasibleKey = 2  Passes = {1}
  MaxCandidates = 1  MaxRequests = 1  MaxOnline = 2  MaxAudits = 1  MaxProfiles = 4
  RoundLimit = 1  MaxRounds = 1  AuditProfiles = 1  MaxTasks = 2
  MaxFaults = 1  Kinds = {"time", "runner", "worker"}
PROPERTIES  ClosedStartsNothing
CHECK_DEADLOCK FALSE

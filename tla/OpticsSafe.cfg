SPECIFICATION Spec
CONSTANTS
  Artifacts = {0, 1, 2}  Key <- MCBetterOrWorse  FeasibleKey = 1  Passes = {0, 1}
  MaxCandidates = 1  MaxRequests = 1  MaxOnline = 2  MaxAudits = 2  MaxProfiles = 4
  RoundLimit = 1  MaxRounds = 1  AuditProfiles = 1  MaxTasks = 3
  MaxFaults = 1
  Kinds = {"stop", "runner", "machine", "launcher", "spawn", "commit"}
INVARIANTS  NoReplay
PROPERTIES BestIsKept
CHECK_DEADLOCK FALSE

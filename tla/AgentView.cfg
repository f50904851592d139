SPECIFICATION ViewSpec
CONSTANTS
  Lengths <- MCLengths
  MaxRows = 3  MaxPage = 2  MaxHits = 4
  Callers = {p1, p2}  Asked <- MCAsked  Codes = {"c1", "c2"}  None = None
  MaxCalls = 3  MaxEdits = 1
  Worth <- MCWorth  Behaviour <- MCBehaviour  Baseline = "base"  Policies <- MCPolicies
  Nothing = Nothing  Intents = {Nothing, "exploitation"}
  Evaluations = 9  PerRound = 4  Rounds = 3
INVARIANTS ReceiptsAreTrue ReadingIsDecided  ProgressIsAccounted
SYMMETRY Alike
CHECK_DEADLOCK FALSE

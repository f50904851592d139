SPECIFICATION QuerySpec
CONSTANTS
  c1 = c1  c2 = c2  sup = sup
  o1 = o1  o2 = o2  o3 = o3  o4 = o4  o5 = o5  o6 = o6
  p1 = p1  p2 = p2  none = none  nobody = nobody
  Calls <- MCCalls  Process <- MCProcess  Supervisor <- sup
  Nobody <- nobody  NoPlan <- none
  Plans = {p1, p2}
  OpIds <- MCLiveIds  Wants <- MCLiveWants
  MaxRounds = 1  MaxFaults = 1
INVARIANTS AuditDescribesSnapshot
CHECK_DEADLOCK FALSE

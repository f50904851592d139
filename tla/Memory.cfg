SPECIFICATION FairSpec
CONSTANTS
  a1 = a1  a2 = a2  b1 = b1  s1 = s1  s2 = s2  w1 = w1  w2 = w2
  Entries = {e1}  Legacy = {e1}
  Writes <- MCRivals  SessionOf <- MCRivalSessionOf  Sessions = {s1, s2}
  Writers <- MCWriters  Readers = {r1}
  Nobody = nobody  NoWrite = nothing  LegacyText = legacy
  MaxVersion = 3  MaxFaults = 1  MaxMissed = 1
INVARIANTS StoreAgrees
PROPERTIES ImplementsRegister HistoryKept PublicationsSettle
CHECK_DEADLOCK FALSE

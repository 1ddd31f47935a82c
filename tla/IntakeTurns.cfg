SPECIFICATION FairSpec
CONSTANTS
  Sessions = {s1,s2}
  Criteria = {}
  Questions = {q1}
  MaxTurns = 2
  MaxAttempts = 6
  MaxDecisions = 0
  MaxCrashes = 1
CHECK_DEADLOCK FALSE
INVARIANTS LineageIntact NoRepeatedQuestion
PROPERTIES TurnsEnd ModelSpendFinite

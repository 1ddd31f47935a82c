SPECIFICATION FairSpec
CONSTANTS
  Sessions = {s1}
  Criteria = {c1}
  Questions = {}
  MaxTurns = 2
  MaxAttempts = 3
  MaxDecisions = 1
  MaxCrashes = 0
CHECK_DEADLOCK FALSE
PROPERTY ModelSpendFinite

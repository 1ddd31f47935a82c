SPECIFICATION Spec
CONSTANTS
  Sessions = {s1,s2}
  Criteria = {c1}
  Questions = {}
  MaxTurns = 1
  MaxAttempts = 3
  MaxDecisions = 2
  MaxCrashes = 0
CHECK_DEADLOCK FALSE
SYMMETRY Symmetry
INVARIANTS ClosedUntilReopened BudgetKept 
PROPERTY ImplementsLedger

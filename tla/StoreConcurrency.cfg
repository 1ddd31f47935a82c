SPECIFICATION Spec
CONSTANTS
  Names = {1,2,3}
  Writers = {w1,w2}
  Readers = {r1}
  Limit = 2
  MaxTime = 1
  MaxFailures = 1
SYMMETRY Symmetry
INVARIANTS  NothingIsMissed
PROPERTY ImplementsLedger

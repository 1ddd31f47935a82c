SPECIFICATION ChannelSpec
CONSTANTS
  Criteria = {c1, c2}
  Texts = {t1, t2}
  Slices = {s1, s2}
  Paths = {p1, p2, p3}
  Bodies = {b1}
  ManualCriteria = {}
  MaxGenerations = 3
  Revisable = {3}
  MaxRevisions = 1
  MaxWords = 1
SYMMETRY MCSymmetry
CHECK_DEADLOCK FALSE
INVARIANTS
  PlansAreHistory
  RequirementsBuilt
  SuitesAreHistory
  
  
  

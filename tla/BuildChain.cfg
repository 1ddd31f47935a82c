SPECIFICATION Spec
CONSTANTS
  s1 = s1
  s2 = s2
  f1 = f1
  f2 = f2
  f12 = f12
  Slices = {s1, s2}
  DependsOn <- MCDependsOn
  TestFiles = {f1, f2, f12}
  Covers <- MCCovers
  AcceptanceTests = AcceptanceTests
  Runners = {r1}
  MaxEdits = 2
  MaxOrders = 2
  MaxSubmissions = 2
  MaxDecisions = 2
  MaxCompletions = 1
SYMMETRY MCSymmetry
CHECK_DEADLOCK FALSE
INVARIANTS DependenciesFirst   BuildBannerLeadsOn

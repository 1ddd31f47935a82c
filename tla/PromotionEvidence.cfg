SPECIFICATION HandoffSpec
CONSTANTS
  p1 = p1
  r1 = r1
  r2 = r2
  Requests = {r1, r2}
  Ids = {"team"}
  Roots = {"a", "b"}
  BuiltIn = "workbench"
  Home = "home"
  AtFirst <- MCAtFirst
  Advices <- MCAdvices
  MaxRuns = 2
  Apart = TRUE
  Policies <- MCPolicies
  FirstPolicy <- MCFirstPolicy
  Patches <- MCPatches
  Mutable <- MCMutable
  Cases <- MCCases
  Protected = {"prot"}
  Regression = {"reg"}
  Threshold = 2
  Outcomes <- MCOutcomes
  Measurements <- MCMeasurements
  Processes = {p1}
  MaxCases = 1
  MaxAttempts = 2
  MaxMeasured = 2
  MaxIds = 5
  MaxDecisions = 1
  MaxReleases = 1
SYMMETRY Symmetry
CHECK_DEADLOCK FALSE
INVARIANTS
  EvidenceHangsTogether
  CandidateIsThePatch
  ApprovedIsNoWorse
  ExportIsMeasured

SPECIFICATION FairRunSpec
CONSTANTS
  Operations = {o1}
  Streams = {}
  Limit = 3
  MaxEvents = 3
  MaxInFlight = 2
  MaxRestarts = 1
  Paths <- MCPaths
  PathOrder <- MCPathOrder
  Orientation <- MCOrientation
  Instructions = "AGENTS.md"
  Documents <- MCDocuments
  Manifests <- MCManifests
  Facts = {f1, f2}
  Report = report
  Verification = verification
  MaximumFiles = 2
  DocumentBudget = 1
  ManifestBudget = 1
  ContextBytes = 2
  Sizes = {1, 2}
  Proposals <- MCProposals
  MaxChanged = 1
  MaxFacts = 2
  MaxPoints = 1
CHECK_DEADLOCK FALSE
INVARIANTS OutcomeHasEvidence ContextComplete
PROPERTIES OutcomeShown

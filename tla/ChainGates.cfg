SPECIFICATION Spec
CONSTANTS
  Runners = {r1, r2}
  Verdicts = {"approve", "revise"}
  MaxBriefs = 1
  MaxArtifacts = 5
  MaxDecisions = 5
SYMMETRY MCSymmetry
CHECK_DEADLOCK FALSE
INVARIANTS CompletionIsSigned  RevisionsStay BannerAccepted

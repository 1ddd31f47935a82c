SPECIFICATION Spec
CONSTANTS
  Runners = {r1}
  Verdicts = {"approve", "reject", "revise", "reopen"}
  MaxBriefs = 2
  MaxArtifacts = 3
  MaxDecisions = 2
SYMMETRY MCSymmetry
CHECK_DEADLOCK FALSE
INVARIANTS PlansApprovedBrief

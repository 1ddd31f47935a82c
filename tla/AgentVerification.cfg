SPECIFICATION Spec
CONSTANTS
  NumDatasets = 2
  NumCases = 2
  Requests <- MCRequests
CHECK_DEADLOCK FALSE
INVARIANTS
  EachEntryOnce
  VerdictSound
  EvidenceSaved

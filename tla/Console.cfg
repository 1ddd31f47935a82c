SPECIFICATION PageSpec
CONSTANTS
  Operations = {o1,o2,o3,o4}
  Streams = {c1}
  Limit = 3
  MaxEvents = 3
  MaxRestarts = 1
  Controls = {banner, panel}
  NextStep = banner
  MaxOpen = 2
  MaxLoads = 2
  MaxPosts = 1
  MaxRecords = 1
SYMMETRY MCSymmetry
CHECK_DEADLOCK FALSE
INVARIANTS StreamExact  OwnRecordsShown
PROPERTIES OutcomeTold FailureStaysListed

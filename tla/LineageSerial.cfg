SPECIFICATION Spec
CONSTANTS
  Requests = {r1, r2, r3, r4}
  MaxConcurrent = 1
  MaxFailures = 2
  Deletable = {"active", "needs_clarification"}
SYMMETRY RequestSymmetry
CHECK_DEADLOCK FALSE
INVARIANTS
  OneActiveProjectionPerClaim
  LiveProjectionIsCurrent
  OneOpenVersion
  ForwardChainComplete
  ProjectionsAgree
  CmoLineIsLinear
PROPERTIES
  DeletedClaimStaysDeleted
  HistoryIsAppendOnly

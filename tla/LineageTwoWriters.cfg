SPECIFICATION Spec
CONSTANTS
  Requests = {r1, r2, r3}
  MaxConcurrent = 2
  MaxFailures = 0
  Deletable = {"active", "needs_clarification"}
SYMMETRY RequestSymmetry
CHECK_DEADLOCK FALSE
INVARIANTS
  OneActiveProjectionPerClaim

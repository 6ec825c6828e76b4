SPECIFICATION Spec
CONSTANTS
  Requests = {r1, r2, r3}
  MaxConcurrent = 3
  MaxFailures = 1
  Deletable = {"active", "needs_clarification", "expired", "deleted"}
SYMMETRY RequestSymmetry
CHECK_DEADLOCK FALSE
INVARIANTS
  TypeOK
  LineageStaysInClaim
  SupersessionMovesForward
  ReplacedIsRetired
  EvidenceCitesOwnMemory

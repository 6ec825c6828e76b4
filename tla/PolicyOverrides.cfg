SPECIFICATION Spec
CONSTANTS
  Candidates <- MCCandidates
  Facts <- MCFacts
  Answers <- MCAnswers
CHECK_DEADLOCK FALSE
INVARIANTS
  OnlySafeReuseMerges
  DroppedOnlyUnnamed
  CriticalIsProtected
  HearsayReplacesNothing

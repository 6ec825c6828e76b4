SPECIFICATION Spec
CONSTANTS
  p1 = p1
  p2 = p2
  Passes = {p1, p2}
  Memories = {1, 2, 3}
  BatchSize = 2
  Answers = {"ADD", "SUPERSEDE"}
  Poison = {3}
  Failures = TRUE
  Deletions = FALSE
CHECK_DEADLOCK FALSE
SYMMETRY PassSymmetry
INVARIANTS
  SupersessionMovesBack
  ReplacementSurvives
PROPERTIES
  FlagClearedWhenSettled

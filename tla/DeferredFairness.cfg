SPECIFICATION FairSpec
CONSTANTS
  p1 = p1
  p2 = p2
  Passes = {p1}
  Memories = {1, 2, 3}
  BatchSize = 2
  Answers = {"ADD", "SUPERSEDE", "DELETE"}
  Poison = {1}
  Failures = FALSE
  Deletions = TRUE
CHECK_DEADLOCK FALSE
PROPERTIES
  EventuallyReconciled

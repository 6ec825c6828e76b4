CONSTANTS
  s1 = s1
  s2 = s2
  s3 = s3
  s4 = s4
  fill = fill
  k1 = k1
  k2 = k2
  decay = decay
  reset = reset
  drop = drop
  edit = edit
  o1 = o1
  o2 = o2
  n1 = n1
  n2 = n2
  n3 = n3
  firm = firm
  a = a
  b = b
  c = c
  d = d
  e = e
  here = here
  there = there
  None = None
  StoreJobs = {s1, s2, s3, s4}
  Backfills = {fill}
  UpkeepJobs = {k1, k2, decay, reset, drop, edit, o1, o2}
  Stores <- MCStores
  Normal <- MCNormal
  Near <- MCNear
  Threshold = 92
  Scenarios <- MCScenarios
  Work <- MCWork
  Alike <- MCAlike
  Recency <- MCRecency
  Settings <- MCSettings
SPECIFICATION Spec
INVARIANTS KeptByConsolidation NamesOnOneEntity SlotEntitiesAreMentioned OpinionCollapseIsFlagged
CHECK_DEADLOCK FALSE

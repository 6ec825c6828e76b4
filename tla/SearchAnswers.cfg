SPECIFICATION Spec
CONSTANTS
  job = job
  home = home
  both = both
  copy = copy
  shared = shared
  foreign = foreign
  chat = chat
  mail = mail
  acme = acme
  berlin = berlin
  other = other
  None = None
  Memories = {job, home, both, copy, shared, foreign}
  Row <- MCRow
  Links <- MCLinks
  Entity <- MCEntity
  Relations <- MCRelations
  Window = 1
  Queries <- MCQueries
  Limit = 2
  UriMax = 2
  RerankDepth = 3
  LinkMax = 1
  MaxAnchors = 1
  MaxProtected = 1
  Chains <- MCChains
  MaxChanges = 2
CHECK_DEADLOCK FALSE
INVARIANTS
  GoneStayHidden
  AnswersStayInScope
  CompositesAreFresh

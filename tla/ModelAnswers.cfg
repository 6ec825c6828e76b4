SPECIFICATION MCSpec
CONSTANTS
  c1 = c1
  c2 = c2
  c3 = c3
  x1 = x1
  x2 = x2
  s1 = s1
  s2 = s2
  a = a
  b = b
  None = None
  Calls <- MCCalls
  Call <- MCCall
  Setups <- MCSetups
  Clients <- MCClients
  CacheMax = 2
  MaxRetries = 2
  MaxRestarts = 1
  Extractions <- MCExtractions
  Jobs <- MCJobs
  Said <- MCSaid
  Importance <- MCImportance
  Alike <- MCAlike
  Scans <- MCScans
  MemoryOf <- MCMemoryOf
  Replies <- MCReplies
  Meetings <- MCMeetings
CHECK_DEADLOCK FALSE
INVARIANTS
  AnswersBelongToTheirCall
  EveryTurnIsHeard
  EarliestMentionStands
PROPERTIES
  EveryCallEnds

SPECIFICATION FairChainSpec
CONSTANTS
  m1 = m1
  m2 = m2
  m3 = m3
  m4 = m4
  e1 = e1
  e2 = e2
  chat = chat
  mail = mail
  Null = Null
  Memories = {m1, m2, m3, m4}
  Entities = {e1, e2}
  Sources = {chat, mail}
  Source <- MCSource
  Mentions <- MCMentions
CHECK_DEADLOCK FALSE
INVARIANTS
  BackstopNeverFires
  ChainIsLine
PROPERTIES
  AppendsEnd

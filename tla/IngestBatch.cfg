CONSTANTS
  full = full
  quick = quick
  ws = ws
  other = other
  text = text
  f1 = f1
  f2 = f2
  f3 = f3
  bad = bad
  u1 = u1
  u2 = u2
  w = w
  site = site
  None = None
  Jobs = {full, quick, ws, other, text}
  Job <- MCJob
  Alike <- MCAlike
  Keywords <- MCKeywords
  Words <- MCWords
  Composed = {f1, f2, f3}
  Literals <- MCLiterals
  Slot <- MCSlot
  Findings <- MCFindings
  Trusted = {}
  Settings <- MCSettings
  Together <- MCTogether
  MaxAttempts <- MCMaxAttempts
SPECIFICATION BatchSpec
INVARIANT BatchIsDated
PROPERTY SentAgainStoredOnce
CHECK_DEADLOCK FALSE

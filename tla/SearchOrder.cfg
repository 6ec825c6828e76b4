SPECIFICATION Spec
CONSTANTS
  Ids <- MCIds
  Row <- MCRow
  Similar <- MCSimilar
  Questions <- MCQuestions
  Scores <- MCScores
  Settings <- MCSettings
  Budgets <- MCBudgets
  EndpointCost = 4
  SummaryCost = 3
INVARIANTS
  ProtectedOutrankOthers
  WithinBudget
  
CHECK_DEADLOCK FALSE

SPECIFICATION Spec
CONSTANTS
  d1 = d1
  NoRun = 0
  Runs <- TwoRuns
  Readers <- OneReader
  Long <- FirstIsLong
  PromptWindow = 2
  HistoryWindow = 3
  PromptBudget = 3
  Streaming = TRUE
  MaxEvents = 1
INVARIANT ClearedStaysCleared
CHECK_DEADLOCK FALSE

SPECIFICATION FairSpec
CONSTANTS
  d1 = d1
  NoRun = 0
  Runs <- TwoRuns
  Readers <- OneReader
  Long <- FirstIsLong
  PromptWindow = 2
  HistoryWindow = 3
  PromptBudget = 3
  Streaming = TRUE
  MaxEvents = 1
INVARIANT PromptSeesReplies
INVARIANT ThreadSound
INVARIANT AnswersUnderQuestions
INVARIANT WaitingIsWorkedOn
PROPERTY AnswerShows
CHECK_DEADLOCK FALSE

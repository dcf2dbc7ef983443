SPECIFICATION FairSpec
CONSTANTS
  r1 = r1
  r2 = r2
  w1 = w1
  w2 = w2
  h1 = h1
  h2 = h2
  NoRun = NoRun
  Runs <- OneRun
  Slots <- TwoSlots
  Handlers <- OneHandler
  AttemptsPatched = FALSE
  Faults <- RecordFaults
  MaxCrashes = 0
  MaxRequeues = 0
  MaxAttempts = 2
  MaxStalled = 1
PROPERTY TerminalIsFinal
CHECK_DEADLOCK FALSE

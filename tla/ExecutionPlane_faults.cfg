SPECIFICATION FairSpec
CONSTANTS
  r1 = r1
  r2 = r2
  w1 = w1
  w2 = w2
  h1 = h1
  h2 = h2
  NoRun = NoRun
  Runs <- OneRun
  Slots <- TwoSlots
  Handlers <- TwoHandlers
  AttemptsPatched = FALSE
  Faults <- AllFaults
  MaxCrashes = 1
  MaxRequeues = 2
  MaxAttempts = 2
  MaxStalled = 1
INVARIANT AttemptBudget
INVARIANT LossIsDeclared
PROPERTY SettlesUnlessDropped
CHECK_DEADLOCK FALSE

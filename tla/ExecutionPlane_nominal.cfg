SPECIFICATION FairSpec
CONSTANTS
  r1 = r1
  r2 = r2
  w1 = w1
  w2 = w2
  h1 = h1
  h2 = h2
  NoRun = NoRun
  Runs <- TwoRuns
  Slots <- TwoSlots
  Handlers <- OneHandler
  AttemptsPatched = TRUE
  Faults <- NoFaults
  MaxCrashes = 0
  MaxRequeues = 1
  MaxAttempts = 3
  MaxStalled = 1
INVARIANT ClaimsSound
INVARIANT RunsAccountedFor
PROPERTY TerminalIsFinal
PROPERTY RunSettles
PROPERTY LifecycleSpec
CHECK_DEADLOCK FALSE

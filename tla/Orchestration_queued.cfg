SPECIFICATION FairSpec
CONSTANTS
  p1 = p1
  p2 = p2
  w1 = w1
  w2 = w2
  w3 = w3
  Free = Free
  Parents <- TwoParents
  Slots <- TwoSlots
  Answers <- ChainOrOwnRound
  PlannerMayFail = FALSE
  Complex = TRUE
  Hired <- Everyone
  DefaultType = "researcher"
  Async = TRUE
  LateSubscription = TRUE
  ChildrenExhaust = TRUE
  MaxAttempts = 2
  DebateRounds = 1
  MaxCrashes = 0
INVARIANT ChildExclusive
INVARIANT PhaseTruthful
PROPERTY SettlesOrHangs
CHECK_DEADLOCK FALSE

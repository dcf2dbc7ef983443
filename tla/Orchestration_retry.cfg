SPECIFICATION FairSpec
CONSTANTS
  p1 = p1
  p2 = p2
  w1 = w1
  w2 = w2
  w3 = w3
  Free = Free
  Parents <- OneParent
  Slots <- TwoSlots
  Answers <- ChainAnswer
  PlannerMayFail = FALSE
  Complex = TRUE
  Hired <- Everyone
  DefaultType = "researcher"
  Async = TRUE
  LateSubscription = FALSE
  ChildrenExhaust = TRUE
  MaxAttempts = 2
  DebateRounds = 1
  MaxCrashes = 0
PROPERTY ParentSettles
CHECK_DEADLOCK FALSE

SPECIFICATION FairSpec
CONSTANTS
  p1 = p1
  p2 = p2
  w1 = w1
  w2 = w2
  w3 = w3
  Free = Free
  Parents <- OneParent
  Slots <- TwoSlots
  Answers <- AnyAnswer
  PlannerMayFail = TRUE
  Complex = TRUE
  Hired <- NoAnalyst
  DefaultType = "researcher"
  Async = FALSE
  LateSubscription = FALSE
  ChildrenExhaust = FALSE
  MaxAttempts = 2
  DebateRounds = 2
  MaxCrashes = 1
INVARIANT SortSound
INVARIANT DependenciesReady
INVARIANT DebateSound
PROPERTY CompletedChildrenReused
PROPERTY ParentSettles
CHECK_DEADLOCK FALSE

SPECIFICATION Spec
CONSTANTS
  Nodes = {p1, p2, p3}
  Titles <- MCTitles
  Top = Top
  Pages = {k1}
  Editors = {e1, e2}
  MaxEdits = 2
  Passages = 2
  Lessons = {l1, l2}
  Requests = {r1, r2}
  Questions = {"q1", "q2"}
  Options = {"a", "b"}
  Correct <- MCCorrect
  PassingScore = 70
  MaxTotal = 50
INVARIANT TreeSound HistoryIsWhole EditsKept FoundAsWritten CompletionRight RoundingLenient
CHECK_DEADLOCK FALSE

----------------------------- MODULE MCTeamly -----------------------------
(***************************************************************************)
(* The three parts of Teamly that keep state: the page tree, the editing   *)
(* of pages and the courses.  They share no state while they run (a course *)
(* reads the pages once, when it is generated), so each behaviour works on *)
(* one of them, chosen at the start: the states add up, they do not        *)
(* multiply.  The rounding of scores, an operator, is looked at in states  *)
(* of its own, one for each number of questions.                           *)
(***************************************************************************)
EXTENDS PageTree, PageStore, Courses, TLC

CONSTANT MaxTotal  \* bound: questions of the quizzes whose rounding is checked
ASSUME TotalAssumption == MaxTotal \in Nat

VARIABLES part, total

MCTitles == {<< >>, <<2>>}
MCCorrect == "q1" :> {"a"} @@ "q2" :> {"b"}

vars == <<treeVars, storeVars, courseVars, part, total>>

Init ==
  /\ TreeInit /\ StoreInit /\ CourseInit
  /\ \/ part \in {"tree", "store", "course"} /\ total = 0
     \/ part = "grading" /\ total \in 1 .. MaxTotal

Next ==
  \/ part = "tree" /\ TreeNext /\ UNCHANGED <<storeVars, courseVars, part, total>>
  \/ part = "store" /\ StoreNext /\ UNCHANGED <<treeVars, courseVars, part, total>>
  \/ part = "course" /\ CourseNext /\ UNCHANGED <<treeVars, storeVars, part, total>>

Spec == Init /\ [][Next]_vars

(* In every quiz of up to MaxTotal questions, at every threshold, a score  *)
(* rounded before it is compared (grade.ts:35) fails nobody who has the    *)
(* share asked for, and passes nobody who is more than half a percent      *)
(* short; no progress of that many units is shown as 100 before its end.   *)
RoundingLenient == part = "grading" => RoundedUpAtMost(total)

=============================================================================

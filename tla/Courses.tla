------------------------------ MODULE Courses ------------------------------
(***************************************************************************)
(* A course of the learning part: it is generated from the pages of a      *)
(* space lesson by lesson, learners enrol, complete lessons and take the   *)
(* quiz, and every such request ends by computing anew whether the course  *)
(* is completed.  Requests are not serialized; every await is a step.      *)
(*                                                                         *)
(* Enrolments do not touch each other: one learner's is modelled, with     *)
(* several of his requests under way at a time.                            *)
(***************************************************************************)
EXTENDS Naturals, FiniteSets

CONSTANTS
  Lessons,       \* the pages a lesson is made of, one each
  Requests,      \* requests of the learner
  Questions,     \* questions of the quiz
  Options,       \* options of a question
  Correct,       \* for each question, its correct options
  PassingScore   \* percent

ASSUME QuizAssumption ==
  /\ IsFiniteSet(Lessons) /\ IsFiniteSet(Questions)
  /\ Correct \in [Questions -> SUBSET Options]
  /\ PassingScore \in 0..100

VARIABLES
  lessons,     \* the lessons the course has so far
  quiz,        \* it has a quiz
  ready,       \* its generation is over
  grown,       \* it grew after the learner enrolled
  enrolment,   \* "none", or whether it is marked as completed
  progress,    \* the lessons the learner completed
  attempts,    \* his answers to the quiz, with their result
  request,     \* what each request is about, and how far it is
  cut          \* a request was cut, and none has loaded the progress since

courseVars == <<lessons, quiz, ready, grown, enrolment, progress, attempts, request, cut>>

Idle == [pc |-> "idle", marked |-> FALSE, complete |-> FALSE]

CourseInit ==
  /\ lessons = {} /\ quiz = FALSE /\ ready = FALSE /\ grown = FALSE
  /\ enrolment = "none" /\ progress = {} /\ attempts = {}
  /\ request = [r \in Requests |-> Idle] /\ cut = FALSE

-----------------------------------------------------------------------------
(* generateCourseFromSpace, createQuizForModule: the course is listed from *)
(* its creation on.                                                        *)

AddLesson ==
  /\ ~ ready
  /\ \E l \in Lessons \ lessons : lessons' = lessons \cup {l}
  /\ grown' = (grown \/ enrolment # "none")
  /\ UNCHANGED <<quiz, ready, enrolment, progress, attempts, request, cut>>

Generated ==
  /\ ~ ready /\ lessons = Lessons
  /\ ready' = TRUE
  /\ UNCHANGED <<lessons, quiz, grown, enrolment, progress, attempts, request, cut>>

AddQuiz ==
  /\ ~ quiz /\ ready
  /\ quiz' = TRUE
  /\ grown' = (grown \/ enrolment # "none")
  /\ UNCHANGED <<lessons, ready, enrolment, progress, attempts, request, cut>>

(* An upsert that leaves what is there alone.                              *)
Enrol ==
  /\ enrolment = "none"
  /\ enrolment' = "open"
  /\ UNCHANGED <<lessons, quiz, ready, grown, progress, attempts, request, cut>>

-----------------------------------------------------------------------------
(* A part of a whole in percent, rounded; at a half, floating point goes   *)
(* either way (23 of 40 are 57, 1 of 8 are 13).                            *)
Percents(part, whole) ==
  LET up == (200 * part + whole) \div (2 * whole)
  IN IF whole = 0 THEN {0}
     ELSE IF (200 * part + whole) % (2 * whole) = 0 THEN {up - 1, up} ELSE {up}

(* Mutant: an attempt is good if some answer is.                           *)
AnyRight(answers, score) == \E q \in Questions : answers[q] = Correct[q]

(* Mutant: the threshold itself does not pass.                             *)
PassesAbove(total, score, threshold) == total > 0 /\ score > threshold

Passes(total, score, threshold) == total > 0 /\ score >= threshold

(* gradeQuiz: a question is right if exactly its correct options are       *)
(* chosen.                                                                 *)
Right(answers) == Cardinality({q \in Questions : answers[q] = Correct[q]})
Passed(answers, score) == Passes(Cardinality(Questions), score, PassingScore)

(* courseProgress: lessons done and quiz passed are counted against all.   *)
Completed ==
  LET total == Cardinality(lessons) + (IF quiz THEN 1 ELSE 0)
      done == Cardinality(lessons \cap progress)
              + (IF quiz /\ \E a \in attempts : a.passed THEN 1 ELSE 0)
  IN total > 0 /\ done = total

CompleteLesson(r) ==
  /\ request[r].pc = "idle" /\ enrolment # "none"
  /\ \E l \in lessons : progress' = progress \cup {l}
  /\ request' = [request EXCEPT ![r].pc = "load"]
  /\ UNCHANGED <<lessons, quiz, ready, grown, enrolment, attempts, cut>>

(* The form has one option to choose for every question.                   *)
SubmitQuiz(r) ==
  /\ request[r].pc = "idle" /\ enrolment # "none" /\ quiz
  /\ \E choice \in [Questions -> Options] :
       LET answers == [q \in Questions |-> {choice[q]}]
       IN \E score \in Percents(Right(answers), Cardinality(Questions)) :
            attempts' = attempts \cup {[answers |-> answers, passed |-> Passed(answers, score)]}
  /\ request' = [request EXCEPT ![r].pc = "load"]
  /\ UNCHANGED <<lessons, quiz, ready, grown, enrolment, progress, cut>>

(* recomputeCompletion: the enrolment's row is loaded first, what belongs  *)
(* to it after, and the row is written if the two disagree.                *)
Load(r) ==
  /\ request[r].pc = "load"
  /\ request' = [request EXCEPT ![r].pc = "relations", ![r].marked = (enrolment = "completed")]
  /\ UNCHANGED <<lessons, quiz, ready, grown, enrolment, progress, attempts, cut>>

LoadRelations(r) ==
  /\ request[r].pc = "relations"
  /\ request' = [request EXCEPT ![r].pc = "write", ![r].complete = Completed]
  /\ cut' = FALSE
  /\ UNCHANGED <<lessons, quiz, ready, grown, enrolment, progress, attempts>>

Mark(r) ==
  /\ request[r].pc = "write"
  /\ enrolment' = IF request[r].complete = request[r].marked THEN enrolment
                  ELSE IF request[r].complete THEN "completed" ELSE "open"
  /\ request' = [request EXCEPT ![r] = Idle]
  /\ UNCHANGED <<lessons, quiz, ready, grown, progress, attempts, cut>>

(* A read or the write of recomputeCompletion throws, or the server is cut *)
(* between the two: what the learner did is stored, and nothing takes the  *)
(* computation up again.                                                   *)
RequestCut(r) ==
  /\ request[r].pc # "idle"
  /\ request' = [request EXCEPT ![r] = Idle]
  /\ cut' = TRUE
  /\ UNCHANGED <<lessons, quiz, ready, grown, enrolment, progress, attempts>>

CourseNext ==
  \/ AddLesson \/ Generated \/ AddQuiz \/ Enrol
  \/ \E r \in Requests : \/ CompleteLesson(r) \/ SubmitQuiz(r)
                         \/ Load(r) \/ LoadRelations(r) \/ Mark(r) \/ RequestCut(r)

CourseSpec == CourseInit /\ [][CourseNext]_courseVars

-----------------------------------------------------------------------------
CourseTypeOK ==
  /\ lessons \subseteq Lessons /\ progress \subseteq Lessons
  /\ {quiz, ready, grown, cut} \subseteq BOOLEAN
  /\ enrolment \in {"none", "open", "completed"}
  /\ \A r \in Requests : /\ request[r].pc \in {"idle", "load", "relations", "write"}
                         /\ {request[r].marked, request[r].complete} \subseteq BOOLEAN

(* Everything the course asks for is done, in the words of the README:     *)
(* "every lesson is done and every quiz is passed".                        *)
AllDone ==
  /\ lessons # {} \/ quiz
  /\ lessons \subseteq progress
  /\ quiz => \E a \in attempts :
       100 * Right(a.answers) >= PassingScore * Cardinality(Questions)

(* Once nothing of the learner's is under way, a course marked as          *)
(* completed is done, and one that is done is marked, in whatever order    *)
(* his requests overlapped and wherever they were cut - unless none has    *)
(* loaded his progress since one was cut, and as long as the course does   *)
(* not grow under him (recomputeCompletion reads and writes without a      *)
(* transaction, apart from what the learner did, and only on his requests).*)
CompletionRight ==
  (\A r \in Requests : request[r].pc = "idle") /\ ~ grown =>
    /\ enrolment = "completed" => AllDone
    /\ enrolment = "open" /\ AllDone => cut

(* What the README says (README.md:14-15): "the course auto-completes when *)
(* every lesson is done and every quiz is passed".  It does not where the  *)
(* last request was cut, and the page of a lesson that is done has no      *)
(* button left to send another with.                                       *)
AutoCompletes ==
  (\A r \in Requests : request[r].pc = "idle") /\ ~ grown /\ enrolment # "none" /\ AllDone
  => enrolment = "completed"

(* A score is rounded before it is compared (grade.ts:35): whoever has the *)
(* share asked for passes all the same, in floating point too, and whoever *)
(* passes is at most half a percent short of it; and the progress shown is *)
(* not 100 before a course of fewer than 200 units is completed.           *)
RoundedUpAtMost(total) ==
  \A right \in 0 .. total :
    /\ \A score \in Percents(right, total) : \A threshold \in 0 .. 100 :
         /\ 100 * right >= threshold * total => Passes(total, score, threshold)
         /\ Passes(total, score, threshold) => 200 * right >= (2 * threshold - 1) * total
    /\ right < total => 100 \notin Percents(right, total)

(* From two hundred on it may be.                                          *)
DoneWhenShown == \A done \in 0 .. 199 : 100 \notin Percents(done, 200)

=============================================================================

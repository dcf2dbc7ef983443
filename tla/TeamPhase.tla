------------------------------ MODULE TeamPhase ------------------------------
(***************************************************************************)
(* The phase of an orchestrated task, derived from the rows alone (the     *)
(* parent's status and its child runs), and the ids of the debate rounds.  *)
(***************************************************************************)
EXTENDS RunStateMachine, Naturals, Sequences

ReviewIds == <<"review", "review2", "review3", "review4", "review5">>
RevisionIds == <<"rev1", "rev2", "rev3", "rev4", "rev5">>

IsReviewId(id) == \E k \in DOMAIN ReviewIds : id = ReviewIds[k]
IsRevisionId(id) == \E k \in DOMAIN RevisionIds : id = RevisionIds[k]

(* Mutant: ended children count as well.                                   *)
ActiveAny == RunStatus

Active == {"queued", "running"}

(* children: the rows, oldest first; the first active round decides.       *)
ActiveRounds(children) ==
  {i \in DOMAIN children : /\ children[i].status \in Active
                           /\ IsReviewId(children[i].id) \/ IsRevisionId(children[i].id)}
FirstRound(children) ==
  children[CHOOSE i \in ActiveRounds(children) : \A j \in ActiveRounds(children) : i <= j]

(* What a task that is neither new, paused nor ended is doing.             *)
PhaseAtWork(children) ==
  IF children = << >> THEN "analyzing"
  ELSE IF ActiveRounds(children) = {} THEN "working"
  ELSE IF IsReviewId(FirstRound(children).id) THEN "reviewing"
  ELSE "revising"

DeriveTeamPhase(parentStatus, children) ==
  CASE parentStatus = "succeeded"              -> "completed"
    [] parentStatus \in {"failed", "canceled"} -> "failed"
    [] parentStatus = "paused"                 -> "needs_human"
    [] parentStatus = "queued"                 -> "new"
    [] OTHER                                   -> PhaseAtWork(children)

=============================================================================

--------------------------- MODULE RunStateMachine ---------------------------
(***************************************************************************)
(* The formal state machine of a Run (agent-os/src/domain): the six        *)
(* statuses, the table of allowed transitions and the two predicates every *)
(* other part of the system consults.  Pure operators, no state.           *)
(***************************************************************************)

RunStatus == {"queued", "running", "paused", "succeeded", "failed", "canceled"}

(* The statuses no execution leaves: an operator re-opens "failed" by a    *)
(* write that deliberately does not go through the table.                  *)
TerminalStates == {"succeeded", "failed", "canceled"}

AllowedTransitions ==
  [from \in RunStatus |->
     CASE from = "queued"  -> {"running", "canceled"}
       [] from = "running" -> {"paused", "succeeded", "failed", "canceled"}
       [] from = "paused"  -> {"running", "canceled"}
       [] OTHER            -> {}]

CanTransition(from, to) == to \in AllowedTransitions[from]

IsTerminal(status) == status \in TerminalStates

=============================================================================

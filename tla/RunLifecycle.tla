---------------------------- MODULE RunLifecycle ----------------------------
(***************************************************************************)
(* What the execution plane promises about a Run, whoever executes it: a   *)
(* submitted run is attempted at most MaxAttempts times, it ends by        *)
(* succeeding or, only when the whole budget is spent, by failing, and the *)
(* one way out of a terminal status is an operator who re-opens a failed   *)
(* run and thereby grants a new budget.  Queue, workers, retries and the   *)
(* dead-letter store are invisible here.                                   *)
(***************************************************************************)
EXTENDS RunStateMachine, Naturals

CONSTANTS
  Runs,         \* identifiers of runs
  MaxAttempts   \* attempts a run is granted when it is submitted or re-opened

VARIABLES
  status,       \* status of each run, "absent" until it is submitted
  tries         \* attempts begun since the run was submitted or re-opened

vars == <<status, tries>>

Init ==
  /\ status = [r \in Runs |-> "absent"]
  /\ tries = [r \in Runs |-> 0]

Submit(r) ==
  /\ status[r] = "absent"
  /\ status' = [status EXCEPT ![r] = "queued"]
  /\ UNCHANGED tries

BeginAttempt(r) ==
  /\ status[r] \in {"queued", "running"}
  /\ tries[r] < MaxAttempts
  /\ tries' = [tries EXCEPT ![r] = @ + 1]
  /\ UNCHANGED status

Start(r) ==
  /\ status[r] = "queued" /\ tries[r] > 0
  /\ status' = [status EXCEPT ![r] = "running"]
  /\ UNCHANGED tries

Succeed(r) ==
  /\ status[r] = "running"
  /\ status' = [status EXCEPT ![r] = "succeeded"]
  /\ UNCHANGED tries

Exhaust(r) ==
  /\ status[r] = "running" /\ tries[r] = MaxAttempts
  /\ status' = [status EXCEPT ![r] = "failed"]
  /\ UNCHANGED tries

Reopen(r) ==
  /\ status[r] = "failed"
  /\ status' = [status EXCEPT ![r] = "queued"]
  /\ tries' = [tries EXCEPT ![r] = 0]

Next ==
  \E r \in Runs :
    \/ Submit(r) \/ BeginAttempt(r) \/ Start(r)
    \/ Succeed(r) \/ Exhaust(r) \/ Reopen(r)

Spec == Init /\ [][Next]_vars

=============================================================================

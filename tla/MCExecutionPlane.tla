-------------------------- MODULE MCExecutionPlane --------------------------
(***************************************************************************)
(* Small instances of the execution plane for the model checker.           *)
(***************************************************************************)
EXTENDS ExecutionPlane, TLC

CONSTANTS r1, r2, w1, w2, h1, h2

OneRun == {r1}
TwoRuns == {r1, r2}
TwoSlots == {w1, w2}
OneHandler == {h1}
TwoHandlers == {h1, h2}

NoFaults == {}
RecordFaults == {"record"}
PrologueFaults == {"prologue"}
AllFaults == FaultKinds

=============================================================================

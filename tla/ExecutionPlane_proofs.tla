------------------------ MODULE ExecutionPlane_proofs ------------------------
(***************************************************************************)
(* Theorems about the execution plane, for any number of runs, slots and   *)
(* requests and any attempt budget: its types, who may execute a run at    *)
(* all, which statuses are final, which runs may be lost, how often a run  *)
(* is begun, and that the whole implements RunLifecycle.                   *)
(***************************************************************************)
EXTENDS ExecutionPlane, FiniteSetTheorems, TLAPS

Busy == PcOfSlot \ {"idle"}

-----------------------------------------------------------------------------
(* Type correctness *)

LEMMA IdleTypes == IdleSlot \in SlotType /\ IdleHandler \in HandlerType
BY ConstantsAssumption
   DEF IdleSlot, IdleHandler, SlotType, HandlerType, PcOfSlot, StallCount

(* Replacing what one slot does by a well-typed record keeps SlotsOK.      *)
LEMMA SlotReplaced ==
  ASSUME SlotsOK, NEW w \in Slots, NEW s \in SlotType,
         (s.run = NoRun) <=> (s.pc = "idle"),
         slot' = [slot EXCEPT ![w] = s]
  PROVE  SlotsOK'
BY DEF SlotsOK

(* A busy slot that moves to another busy step stays well typed.           *)
LEMMA SlotMoved ==
  ASSUME SlotsOK, NEW w \in Slots, slot[w].pc # "idle", NEW pc \in Busy,
         slot' = [slot EXCEPT ![w].pc = pc]
  PROVE  SlotsOK'
<1> DEFINE s == [slot[w] EXCEPT !.pc = pc]
<1>1. slot[w] \in SlotType
  BY DEF SlotsOK
<1>2. s \in SlotType /\ s.pc = pc /\ s.run = slot[w].run
  BY <1>1 DEF SlotType, Busy
<1>3. (s.run = NoRun) <=> (s.pc = "idle")
  BY <1>2 DEF SlotsOK, Busy
<1>4. slot' = [slot EXCEPT ![w] = s]
  OBVIOUS
<1>. QED BY <1>2, <1>3, <1>4, SlotReplaced

LEMMA SlotFreed ==
  ASSUME SlotsOK, NEW w \in Slots, slot' = [slot EXCEPT ![w] = IdleSlot]
  PROVE  SlotsOK'
BY SlotReplaced, IdleTypes DEF IdleSlot

(* A busy slot holds a run.                                                *)
LEMMA BusyHoldsRun ==
  ASSUME SlotsOK, NEW w \in Slots, slot[w].pc # "idle"
  PROVE  slot[w].run \in Runs
BY DEF SlotsOK, SlotType


(* A busy slot may remember a status and an attempt number as it moves.    *)
LEMMA SlotRemembers ==
  ASSUME SlotsOK, NEW w \in Slots, slot[w].pc # "idle", NEW pc \in Busy,
         NEW seen \in RunStatus \cup {"absent"}, NEW attempt \in Nat,
         \/ slot' = [slot EXCEPT ![w].pc = pc, ![w].seen = seen]
         \/ slot' = [slot EXCEPT ![w].pc = pc, ![w].attempt = attempt]
  PROVE  SlotsOK'
<1>1. slot[w] \in SlotType
  BY DEF SlotsOK
<1>2. CASE slot' = [slot EXCEPT ![w].pc = pc, ![w].seen = seen]
  <2> DEFINE s == [slot[w] EXCEPT !.pc = pc, !.seen = seen]
  <2>1. s \in SlotType /\ s.pc = pc /\ s.run = slot[w].run
    BY <1>1 DEF SlotType, Busy
  <2>2. slot' = [slot EXCEPT ![w] = s]
    BY <1>2, <1>1 DEF SlotsOK, SlotType
  <2>3. (s.run = NoRun) <=> (s.pc = "idle")
    BY <2>1 DEF SlotsOK, Busy
  <2>. QED BY <2>1, <2>2, <2>3, SlotReplaced
<1>3. CASE slot' = [slot EXCEPT ![w].pc = pc, ![w].attempt = attempt]
  <2> DEFINE s == [slot[w] EXCEPT !.pc = pc, !.attempt = attempt]
  <2>1. s \in SlotType /\ s.pc = pc /\ s.run = slot[w].run
    BY <1>1 DEF SlotType, Busy
  <2>2. slot' = [slot EXCEPT ![w] = s]
    BY <1>3, <1>1 DEF SlotsOK, SlotType
  <2>3. (s.run = NoRun) <=> (s.pc = "idle")
    BY <2>1 DEF SlotsOK, Busy
  <2>. QED BY <2>1, <2>2, <2>3, SlotReplaced
<1>. QED BY <1>2, <1>3

-----------------------------------------------------------------------------
(* What a move shows of the slots *)

LEMMA MoveView ==
  ASSUME SlotsOK, NEW w \in Slots, NEW pc, slot' = [slot EXCEPT ![w].pc = pc]
  PROVE  /\ \A v \in Slots \ {w} : slot'[v] = slot[v]
         /\ slot'[w].run = slot[w].run
         /\ slot'[w].seen = slot[w].seen
         /\ slot'[w].pc = pc
<1>1. slot \in [Slots -> SlotType] /\ slot[w] \in SlotType
  BY DEF SlotsOK
<1>2. \A v \in Slots \ {w} : slot'[v] = slot[v]
  BY <1>1
<1>3. slot'[w] = [slot[w] EXCEPT !.pc = pc]
  BY <1>1
<1>4. slot'[w].run = slot[w].run /\ slot'[w].seen = slot[w].seen /\ slot'[w].pc = pc
  BY <1>1, <1>3 DEF SlotType
<1>. QED BY <1>2, <1>4

LEMMA RememberView ==
  ASSUME SlotsOK, NEW w \in Slots, NEW pc, NEW seen,
         slot' = [slot EXCEPT ![w].pc = pc, ![w].seen = seen]
  PROVE  /\ \A v \in Slots \ {w} : slot'[v] = slot[v]
         /\ slot'[w].run = slot[w].run
         /\ slot'[w].seen = seen
         /\ slot'[w].pc = pc
<1>1. slot \in [Slots -> SlotType] /\ slot[w] \in SlotType
  BY DEF SlotsOK
<1>2. \A v \in Slots \ {w} : slot'[v] = slot[v]
  BY <1>1
<1>3. slot'[w] = [slot[w] EXCEPT !.pc = pc, !.seen = seen]
  BY <1>1 DEF SlotType
<1>4. slot'[w].run = slot[w].run /\ slot'[w].seen = seen /\ slot'[w].pc = pc
  BY <1>1, <1>3 DEF SlotType
<1>. QED BY <1>2, <1>4

-----------------------------------------------------------------------------
(* The steps of a slot that only move it.                                  *)
LEMMA SlotTypes ==
  ASSUME TypeOK, NEW w \in Slots, SlotStep(w) \/ Crash(w)
  PROVE  TypeOK'
<1>0. SlotsOK /\ RowsOK /\ QueueOK /\ HandlersOK /\ BoundsOK
  BY DEF TypeOK
<1>a. slot[w].pc # "idle" => slot[w].run \in Runs /\ slot[w] \in SlotType
  BY <1>0, BusyHoldsRun DEF SlotsOK
<1>b. ASSUME UNCHANGED handler PROVE HandlersOK'
  BY <1>b, <1>0 DEF HandlersOK
<1>c. ASSUME UNCHANGED waiting PROVE QueueOK'
  BY <1>c, <1>0 DEF QueueOK
<1>d. ASSUME UNCHANGED bounds PROVE BoundsOK'
  BY <1>d, <1>0 DEF BoundsOK, bounds
<1>e. ASSUME UNCHANGED rows PROVE RowsOK'
  BY <1>e, <1>0 DEF RowsOK, rows
<1>f. ASSUME NEW r \in Runs, NEW v \in RunStatus,
             status' = [status EXCEPT ![r] = v],
             UNCHANGED <<attempts, deadLetters, tries>>
      PROVE  RowsOK'
  BY <1>f, <1>0 DEF RowsOK
<1>g. ASSUME dropped' \in {dropped, dropped \cup {slot[w].run}},
             slot[w].pc # "idle", UNCHANGED requeues, crashes' \in Nat
      PROVE  BoundsOK'
  BY <1>g, <1>a, <1>0 DEF BoundsOK
<1>1. CASE Deliver(w)
  <2>1. PICK r \in Runs, s \in StallCount :
          /\ waiting[r][s] > 0
          /\ waiting' = [waiting EXCEPT ![r][s] = @ - 1]
          /\ slot' = [slot EXCEPT ![w] = [IdleSlot EXCEPT !.pc = "increment",
                                                          !.run = r, !.stalls = s]]
    BY <1>1 DEF Deliver
  <2> DEFINE rec == [IdleSlot EXCEPT !.pc = "increment", !.run = r, !.stalls = s]
  <2>2. rec \in SlotType /\ rec.pc = "increment" /\ rec.run = r
    BY IdleTypes DEF IdleSlot, SlotType, PcOfSlot
  <2>3. SlotsOK'
    BY <2>1, <2>2, <1>0, SlotReplaced, ConstantsAssumption
  <2>4. QueueOK'
    BY <2>1, <1>0 DEF QueueOK
  <2>. QED BY <2>3, <2>4, <1>1, <1>b, <1>d, <1>e DEF Deliver, TypeOK
<1>2. CASE IncrementAttempts(w)
  <2> DEFINE n == attempts[slot[w].run] + 1
  <2>0. n \in Nat
    BY <1>2, <1>0, <1>a DEF IncrementAttempts, RowsOK
  <2>1. SlotsOK'
    <3>1. slot[w].pc # "idle" /\ slot' = [slot EXCEPT ![w].pc = "load", ![w].attempt = n]
      BY <1>2 DEF IncrementAttempts
    <3>2. "load" \in Busy
      BY DEF Busy, PcOfSlot
    <3> HIDE DEF n
    <3>. QED BY <3>1, <3>2, <2>0, <1>0, SlotRemembers
  <2>2. RowsOK'
    BY <1>2, <1>0, <1>a DEF IncrementAttempts, RowsOK
  <2>. QED BY <1>2, <2>1, <2>2, <1>b, <1>c, <1>d DEF IncrementAttempts, TypeOK
<1>3. CASE LoadRun(w)
  <2>1. SlotsOK'
    BY <1>3, <1>0, <1>a, SlotRemembers DEF LoadRun, RowsOK, Busy, PcOfSlot
  <2>. QED BY <1>3, <2>1, <1>b, <1>c, <1>d, <1>e DEF LoadRun, TypeOK
<1>4. CASE StartRun(w)
  <2>1. SlotsOK'
    BY <1>4, <1>0, SlotMoved DEF StartRun, GoTo, Busy, PcOfSlot
  <2>2. RowsOK'
    BY <1>4, <1>0, <1>a, <1>f DEF StartRun, GoTo, RowsOK, RunStatus
  <2>. QED BY <1>4, <2>1, <2>2, <1>b, <1>c, <1>d DEF StartRun, TypeOK
<1>5. CASE PrologueThrows(w)
  <2>1. SlotsOK'
    BY <1>5, <1>0, SlotMoved DEF PrologueThrows, GoTo, Busy, PcOfSlot
  <2>. QED BY <1>5, <2>1, <1>b, <1>c, <1>d, <1>e DEF PrologueThrows, TypeOK
<1>6. CASE ModelAnswers(w)
  <2>1. SlotsOK'
    BY <1>6, <1>0, SlotMoved DEF ModelAnswers, GoTo, Busy, PcOfSlot
  <2>. QED BY <1>6, <2>1, <1>b, <1>c, <1>d, <1>e DEF ModelAnswers, TypeOK
<1>7. CASE AttemptThrows(w)
  <2>1. SlotsOK'
    BY <1>7, <1>0, SlotMoved DEF AttemptThrows, GoTo, Busy, PcOfSlot
  <2>. QED BY <1>7, <2>1, <1>b, <1>c, <1>d, <1>e DEF AttemptThrows, TypeOK
<1>8. CASE MarkSucceeded(w)
  <2>1. SlotsOK'
    BY <1>8, <1>0, SlotMoved DEF MarkSucceeded, GoTo, Busy, PcOfSlot
  <2>2. RowsOK'
    BY <1>8, <1>a, <1>f DEF MarkSucceeded, GoTo, RunStatus
  <2>. QED BY <1>8, <2>1, <2>2, <1>b, <1>c, <1>d DEF MarkSucceeded, TypeOK
<1>9. CASE RecordSuccess(w)
  <2>1. SlotsOK'
    BY <1>9, <1>0, SlotMoved DEF RecordSuccess, GoTo, Busy, PcOfSlot
  <2>. QED BY <1>9, <2>1, <1>b, <1>c, <1>d, <1>e DEF RecordSuccess, TypeOK
<1>10. CASE RecordThrows(w)
  <2>1. SlotsOK'
    BY <1>10, <1>0, SlotMoved DEF RecordThrows, GoTo, Busy, PcOfSlot
  <2>. QED BY <1>10, <2>1, <1>b, <1>c, <1>d, <1>e DEF RecordThrows, TypeOK
<1>11. CASE CatchAttempt(w)
  <2>1. SlotsOK'
    BY <1>11, <1>0, SlotMoved DEF CatchAttempt, GoTo, Busy, PcOfSlot
  <2>2. RowsOK'
    BY <1>11, <1>a, <1>f DEF CatchAttempt, GoTo, RunStatus
  <2>. QED BY <1>11, <2>1, <2>2, <1>b, <1>c, <1>d DEF CatchAttempt, TypeOK
<1>12. CASE ScheduleRetry(w)
  <2>1. SlotsOK'
    BY <1>12, <1>0, SlotMoved DEF ScheduleRetry, GoTo, Busy, PcOfSlot
  <2>2. QueueOK'
    <3> DEFINE r == slot[w].run
    <3>1. r \in Runs /\ 0 \in StallCount
      BY <1>12, <1>a, ConstantsAssumption DEF ScheduleRetry, GoTo, StallCount
    <3>2. waiting \in [Runs -> [StallCount -> Nat]] /\ waiting[r][0] \in Nat
      BY <1>0, <3>1 DEF QueueOK
    <3>3. waiting' = [waiting EXCEPT ![r][0] = @ + 1]
      BY <1>12 DEF ScheduleRetry
    <3>. HIDE DEF r
    <3>. QED BY <3>1, <3>2, <3>3 DEF QueueOK
  <2>. QED BY <1>12, <2>1, <2>2, <1>b, <1>d, <1>e DEF ScheduleRetry, TypeOK
<1>13. CASE ReadExhausted(w)
  <2>1. SlotsOK'
    BY <1>13, <1>0, <1>a, SlotRemembers DEF ReadExhausted, RowsOK, Busy, PcOfSlot
  <2>. QED BY <1>13, <2>1, <1>b, <1>c, <1>d, <1>e DEF ReadExhausted, TypeOK
<1>14. CASE MarkFailed(w)
  <2>1. SlotsOK'
    BY <1>14, <1>0, SlotMoved DEF MarkFailed, GoTo, Busy, PcOfSlot
  <2>2. RowsOK'
    BY <1>14, <1>a, <1>f DEF MarkFailed, GoTo, RunStatus
  <2>. QED BY <1>14, <2>1, <2>2, <1>b, <1>c, <1>d DEF MarkFailed, TypeOK
<1>15. CASE IllegalFailure(w)
  <2>1. BoundsOK'
    BY <1>15, <1>0, <1>g DEF IllegalFailure, BoundsOK
  <2>. QED BY <1>15, <1>0, SlotFreed, <2>1, <1>b, <1>c, <1>e DEF IllegalFailure, TypeOK
<1>16. CASE RecordDeadLetter(w)
  <2>1. SlotsOK'
    BY <1>16, <1>0, SlotMoved DEF RecordDeadLetter, GoTo, Busy, PcOfSlot
  <2>2. RowsOK'
    BY <1>16, <1>0, <1>a DEF RecordDeadLetter, GoTo, RowsOK
  <2>. QED BY <1>16, <2>1, <2>2, <1>b, <1>c, <1>d DEF RecordDeadLetter, TypeOK
<1>17. CASE Complete(w)
  BY <1>17, <1>0, SlotFreed, <1>b, <1>c, <1>d, <1>e DEF Complete, TypeOK
<1>18. CASE ProcessorRejects(w)
  <2>1. BoundsOK'
    BY <1>18, <1>0, <1>g DEF ProcessorRejects, BoundsOK
  <2>. QED BY <1>18, <1>0, SlotFreed, <2>1, <1>b, <1>c, <1>e DEF ProcessorRejects, TypeOK
<1>19. CASE Crash(w)
  <2>1. SlotsOK'
    BY <1>19, <1>0, SlotFreed DEF Crash
  <2>2. slot[w].run \in Runs /\ slot[w].stalls \in StallCount
    BY <1>19, <1>a DEF Crash, SlotType
  <2>3. QueueOK'
    <3>1. CASE slot[w].stalls < MaxStalled
      <4> DEFINE r == slot[w].run
                 t == slot[w].stalls + 1
      <4>1. r \in Runs /\ t \in StallCount
        BY <3>1, <2>2, ConstantsAssumption DEF StallCount
      <4>2. waiting' = [waiting EXCEPT ![r][t] = @ + 1]
        BY <3>1, <1>19 DEF Crash
      <4> HIDE DEF r, t
      <4>. QED BY <4>1, <4>2, <1>0 DEF QueueOK
    <3>2. CASE ~ (slot[w].stalls < MaxStalled)
      BY <3>2, <1>19, <1>c DEF Crash
    <3>. QED BY <3>1, <3>2
  <2>4. BoundsOK'
    BY <1>19, <1>0, <1>g DEF Crash, BoundsOK
  <2>. QED BY <1>19, <2>1, <2>3, <2>4, <1>b, <1>e DEF Crash, TypeOK
<1>. QED
  BY <1>1, <1>2, <1>3, <1>4, <1>5, <1>6, <1>7, <1>8, <1>9, <1>10,
         <1>11, <1>12, <1>13, <1>14, <1>15, <1>16, <1>17, <1>18, <1>19
  DEF SlotStep

LEMMA HandlerTypes ==
  ASSUME TypeOK, NEW h \in Handlers,
         HandlerStep(h) \/ AbandonRequest(h)
           \/ \E r \in Runs : CreateRun(h, r) \/ CheckFailed(h, r)
  PROVE  TypeOK'
<1>0. SlotsOK /\ RowsOK /\ QueueOK /\ HandlersOK /\ BoundsOK
  BY DEF TypeOK
<1>a. handler[h].pc # "idle" => handler[h].run \in Runs
  BY <1>0 DEF HandlersOK, HandlerType
<1>b. ASSUME UNCHANGED slot PROVE SlotsOK'
  BY <1>b, <1>0 DEF SlotsOK
<1>c. ASSUME NEW g \in HandlerType, (g.run = NoRun) <=> (g.pc = "idle"),
             handler' = [handler EXCEPT ![h] = g]
      PROVE  HandlersOK'
  BY <1>c, <1>0 DEF HandlersOK
<1>d. ASSUME NEW pc \in {"mark", "enqueue"}, handler[h].pc # "idle",
             handler' = [handler EXCEPT ![h].pc = pc]
      PROVE  HandlersOK'
  <2> DEFINE g == [handler[h] EXCEPT !.pc = pc]
  <2>1. handler[h] \in HandlerType
    BY <1>0 DEF HandlersOK
  <2>2. g \in HandlerType /\ g.pc = pc /\ g.run = handler[h].run
    BY <2>1, <1>d DEF HandlerType
  <2>3. (g.run = NoRun) <=> (g.pc = "idle")
    BY <2>2, <1>d, <1>0 DEF HandlersOK
  <2>4. handler' = [handler EXCEPT ![h] = g]
    BY <1>d
  <2>. QED BY <2>2, <2>3, <2>4, <1>c
<1>e. ASSUME handler' = [handler EXCEPT ![h] = IdleHandler] PROVE HandlersOK'
  BY <1>e, <1>c, IdleTypes DEF IdleHandler
<1>f. ASSUME NEW r \in Runs, NEW pc \in {"enqueue", "reopen"},
             handler' = [handler EXCEPT ![h] = [pc |-> pc, run |-> r]]
      PROVE  HandlersOK'
  <2>1. [pc |-> pc, run |-> r] \in HandlerType
    BY DEF HandlerType
  <2>. QED BY <2>1, <1>f, <1>c, ConstantsAssumption
<1>1. ASSUME NEW r \in Runs, CreateRun(h, r) PROVE TypeOK'
  <2>1. RowsOK'
    BY <1>1, <1>0 DEF CreateRun, RowsOK, RunStatus
  <2>2. HandlersOK'
    BY <1>1, <1>f DEF CreateRun
  <2>. QED BY <1>1, <1>0, <1>b, <2>1, <2>2 DEF CreateRun, TypeOK, QueueOK, BoundsOK, bounds
<1>2. ASSUME NEW r \in Runs, CheckFailed(h, r) PROVE TypeOK'
  <2>1. BoundsOK'
    BY <1>2, <1>0 DEF CheckFailed, BoundsOK
  <2>2. HandlersOK'
    BY <1>2, <1>f DEF CheckFailed
  <2>. QED BY <1>2, <1>0, <1>b, <2>1, <2>2 DEF CheckFailed, TypeOK, QueueOK, RowsOK, rows
<1>3. CASE Reopen(h)
  <2>1. RowsOK'
    BY <1>3, <1>0, <1>a DEF Reopen, RowsOK, RunStatus
  <2>2. HandlersOK'
    BY <1>3, <1>d DEF Reopen
  <2>. QED BY <1>3, <1>0, <1>b, <2>1, <2>2 DEF Reopen, TypeOK, QueueOK, BoundsOK, bounds
<1>4. CASE MarkRequeued(h)
  <2>1. RowsOK'
    BY <1>4, <1>0, <1>a DEF MarkRequeued, RowsOK
  <2>2. HandlersOK'
    BY <1>4, <1>d DEF MarkRequeued
  <2>. QED BY <1>4, <1>0, <1>b, <2>1, <2>2 DEF MarkRequeued, TypeOK, QueueOK, BoundsOK, bounds
<1>5. CASE Enqueue(h)
  <2>1. QueueOK'
    BY <1>5, <1>0, <1>a, ConstantsAssumption DEF Enqueue, QueueOK, StallCount
  <2>. QED BY <1>5, <1>0, <1>b, <1>e, <2>1 DEF Enqueue, TypeOK, RowsOK, rows, BoundsOK, bounds
<1>6. CASE AbandonRequest(h)
  <2>1. BoundsOK'
    BY <1>6, <1>0, <1>a DEF AbandonRequest, BoundsOK
  <2>. QED BY <1>6, <2>1, <1>0, <1>b, <1>e DEF AbandonRequest, TypeOK, QueueOK, RowsOK, rows
<1>. QED BY <1>1, <1>2, <1>3, <1>4, <1>5, <1>6 DEF HandlerStep

LEMMA InitTypes == Init => TypeOK
<1> SUFFICES ASSUME Init PROVE TypeOK
  OBVIOUS
<1>1. RowsOK /\ QueueOK /\ BoundsOK
  BY DEF Init, RowsOK, QueueOK, BoundsOK
<1>2. SlotsOK /\ HandlersOK
  BY IdleTypes DEF Init, SlotsOK, HandlersOK, IdleSlot, IdleHandler
<1>. QED BY <1>1, <1>2 DEF TypeOK

LEMMA StutterTypes ==
  ASSUME TypeOK, UNCHANGED vars
  PROVE  TypeOK'
BY DEF TypeOK, RowsOK, QueueOK, SlotsOK, HandlersOK, BoundsOK, vars, rows, bounds

(* Type correctness of the execution plane, whatever fails or crashes.     *)
THEOREM TypeCorrect == Spec => []TypeOK
<1>1. TypeOK /\ [Next]_vars => TypeOK'
  BY HandlerTypes, SlotTypes, StutterTypes DEF Next
<1>. QED BY <1>1, InitTypes, PTL DEF Spec

-----------------------------------------------------------------------------
(***************************************************************************)
(* When no database call fails, no worker dies and requests are handled    *)
(* one at a time, no run is ever executed twice at once and no terminal    *)
(* status is left but by an operator.  ExclusiveExecution is not inductive *)
(* alone: a requeue may only follow a failed run nobody works on, so the   *)
(* invariant also relates every claim to the row it claims (ClaimsAgree).  *)
(***************************************************************************)

Healthy ==
  /\ Faults = {}
  /\ MaxCrashes = 0
  /\ \A h1, h2 \in Handlers : h1 = h2

IInv == TypeOK /\ ClaimsAgree /\ ExclusiveExecution

-----------------------------------------------------------------------------
(* A claim that moves without changing hands, or is given up: only the row *)
(* of the claimed run may change, and the others agree as before.          *)
LEMMA ClaimMoves ==
  ASSUME IInv, NEW w \in Slots, slot[w].pc \in ClaimingPc,
         UNCHANGED <<waiting, handler>>,
         \A v \in Slots \ {w} : /\ slot'[v].run = slot[v].run
                                /\ slot'[v].pc = slot[v].pc
                                /\ slot'[v].seen = slot[v].seen,
         slot'[w].run = slot[w].run \/ slot'[w].pc \notin ClaimingPc,
         \A q \in Runs \ {slot[w].run} : status'[q] = status[q],
         SlotAgrees(w)'
  PROVE  ClaimsAgree' /\ ExclusiveExecution'
<1> DEFINE r == slot[w].run
<1>0. SlotsOK /\ HandlersOK /\ r \in Runs /\ SlotClaims(w, r)
  BY BusyHoldsRun DEF IInv, TypeOK, ClaimingPc, SlotClaims
<1>1. \A v \in Slots, q \in Runs : SlotClaims(v, q)' => SlotClaims(v, q)
  BY DEF SlotClaims
<1>2. \A h \in Handlers, q \in Runs : HandlerClaims(h, q)' <=> HandlerClaims(h, q)
  BY DEF HandlerClaims
<1>3. ExclusiveExecution'
  BY <1>1, <1>2 DEF IInv, ExclusiveExecution, QueueClaims
<1>4. status[r] # "failed"
  BY <1>0 DEF IInv, ClaimsAgree, SlotAgrees, SlotClaims, ClaimingPc, PcOfSlot
<1>5. ASSUME NEW h \in Handlers PROVE HandlerAgrees(h)'
  <2>1. CASE handler[h].pc = "idle"
    BY <2>1 DEF HandlerAgrees
  <2>2. CASE handler[h].pc # "idle"
    <3>1. handler[h].run \in Runs /\ handler[h].run # r
      BY <2>2, <1>0, <1>4 DEF IInv, ClaimsAgree, HandlerAgrees, ExclusiveExecution,
                             HandlerClaims, HandlersOK, HandlerType
    <3>. QED BY <3>1 DEF IInv, ClaimsAgree, HandlerAgrees
  <2>. QED BY <2>1, <2>2
<1>6. ASSUME NEW q \in Runs PROVE QueueAgrees(q)'
  BY <1>0 DEF IInv, ClaimsAgree, QueueAgrees, QueueClaims, ExclusiveExecution
<1>7. ASSUME NEW v \in Slots PROVE SlotAgrees(v)'
  <2>1. CASE v = w
    BY <2>1
  <2>2. CASE v # w /\ slot[v].pc \notin ClaimingPc
    BY <2>2 DEF SlotAgrees, ClaimingPc, PcOfSlot
  <2>3. CASE v # w /\ slot[v].pc \in ClaimingPc
    <3>1. slot[v].run \in Runs /\ slot[v].run # r
      BY <2>3, <1>0, BusyHoldsRun DEF IInv, ExclusiveExecution, SlotClaims, ClaimingPc
    <3>2. SlotAgrees(v)
      BY DEF IInv, ClaimsAgree
    <3>. QED BY <2>3, <3>1, <3>2 DEF SlotAgrees
  <2>. QED BY <2>1, <2>2, <2>3
<1>. QED BY <1>3, <1>5, <1>6, <1>7 DEF ClaimsAgree

(* No claim and no row changes: a slot goes on after it gave up its claim. *)
LEMMA NothingClaimed ==
  ASSUME IInv, NEW w \in Slots, slot[w].pc \notin ClaimingPc,
         UNCHANGED <<waiting, handler, status>>,
         \A v \in Slots \ {w} : slot'[v] = slot[v],
         slot'[w].pc \notin ClaimingPc
  PROVE  ClaimsAgree' /\ ExclusiveExecution'
<1>1. \A v \in Slots, q \in Runs : SlotClaims(v, q)' => SlotClaims(v, q)
  BY DEF SlotClaims
<1>2. ExclusiveExecution'
  BY <1>1 DEF IInv, ExclusiveExecution, QueueClaims, HandlerClaims
<1>3. ASSUME NEW v \in Slots PROVE SlotAgrees(v)'
  BY DEF SlotAgrees, ClaimingPc, PcOfSlot, IInv, ClaimsAgree
<1>. QED
  BY <1>2, <1>3 DEF IInv, ClaimsAgree, HandlerAgrees, QueueAgrees, QueueClaims

-----------------------------------------------------------------------------
(* The steps of a slot *)

LEMMA SlotPreserves ==
  ASSUME IInv, Healthy, NEW w \in Slots, SlotStep(w) \/ Crash(w)
  PROVE  ClaimsAgree' /\ ExclusiveExecution'
<1> DEFINE r == slot[w].run
<1>0. SlotsOK /\ RowsOK /\ QueueOK /\ SlotAgrees(w)
  BY DEF IInv, TypeOK, ClaimsAgree
<1>a. slot[w].pc # "idle" => r \in Runs
  BY <1>0, BusyHoldsRun
<1>b. slot \in [Slots -> SlotType] /\ status \in [Runs -> RunStatus \cup {"absent"}]
  BY <1>0 DEF SlotsOK, RowsOK
<1>1. CASE Deliver(w)
  <2>1. PICK q \in Runs, t \in StallCount :
          /\ waiting[q][t] > 0
          /\ waiting' = [waiting EXCEPT ![q][t] = @ - 1]
          /\ slot' = [slot EXCEPT ![w] = [IdleSlot EXCEPT !.pc = "increment",
                                                          !.run = q, !.stalls = t]]
    BY <1>1 DEF Deliver
  <2>2. slot[w].pc = "idle" /\ UNCHANGED <<status, handler>>
    BY <1>1 DEF Deliver, rows
  <2>3. /\ slot'[w].pc = "increment" /\ slot'[w].run = q
        /\ \A v \in Slots \ {w} : slot'[v] = slot[v]
    BY <2>1, <1>b DEF IdleSlot
  <2>4. QueueClaims(q)
    BY <2>1 DEF QueueClaims
  <2>5. waiting[q][t] = 1 /\ \A u \in StallCount \ {t} : waiting[q][u] = 0
    BY <2>1, <1>0 DEF IInv, ExclusiveExecution, QueueOK
  <2>6. /\ \A u \in StallCount : waiting'[q][u] = 0
        /\ \A p \in Runs \ {q} : waiting'[p] = waiting[p]
    BY <2>1, <2>5, <1>0 DEF QueueOK
  <2>7. ~ QueueClaims(q)' /\ \A p \in Runs \ {q} : QueueClaims(p)' <=> QueueClaims(p)
    BY <2>6 DEF QueueClaims
  <2>8. \A v \in Slots : ~ SlotClaims(v, q)
    BY <2>4 DEF IInv, ExclusiveExecution
  <2>9. \A h \in Handlers : ~ HandlerClaims(h, q)
    BY <2>4 DEF IInv, ExclusiveExecution
  <2>10. /\ \A v \in Slots \ {w}, p \in Runs : SlotClaims(v, p)' <=> SlotClaims(v, p)
         /\ \A p \in Runs : SlotClaims(w, p)' <=> p = q
         /\ \A h \in Handlers, p \in Runs : HandlerClaims(h, p)' <=> HandlerClaims(h, p)
    BY <2>2, <2>3 DEF SlotClaims, HandlerClaims, ClaimingPc, PcOfSlot
  <2>11. ASSUME NEW p \in Runs, NEW u \in StallCount
         PROVE  /\ waiting'[p][u] <= 1
                /\ \A u2 \in StallCount : waiting'[p][u] > 0 /\ waiting'[p][u2] > 0 => u = u2
    <3>1. CASE p = q
      BY <3>1, <2>6
    <3>2. CASE p # q
      BY <3>2, <2>6 DEF IInv, ExclusiveExecution
    <3>. QED BY <3>1, <3>2
  <2>12. ExclusiveExecution'
    BY <2>7, <2>8, <2>9, <2>10, <2>11 DEF IInv, ExclusiveExecution
  <2>13. status[q] \in {"queued", "running"}
    BY <2>4 DEF IInv, ClaimsAgree, QueueAgrees
  <2>14. \A v \in Slots : SlotAgrees(v)'
    BY <2>2, <2>3, <2>13 DEF IInv, ClaimsAgree, SlotAgrees
  <2>15. \A p \in Runs : QueueAgrees(p)'
    BY <2>2, <2>7 DEF IInv, ClaimsAgree, QueueAgrees
  <2>16. \A h \in Handlers : HandlerAgrees(h)'
    BY <2>2 DEF IInv, ClaimsAgree, HandlerAgrees
  <2>. QED BY <2>12, <2>14, <2>15, <2>16 DEF ClaimsAgree
<1>2. CASE IncrementAttempts(w)
  <2>1. /\ \A v \in Slots \ {w} : slot'[v] = slot[v]
        /\ slot'[w] = [slot[w] EXCEPT !.pc = "load", !.attempt = attempts[r] + 1]
    BY <1>2, <1>b DEF IncrementAttempts, SlotType
  <2>2. slot'[w].run = r /\ slot'[w].pc = "load"
    BY <2>1, <1>b DEF SlotType
  <2>3. slot[w].pc = "increment" /\ UNCHANGED <<waiting, handler, status>>
    BY <1>2 DEF IncrementAttempts
  <2>4. SlotAgrees(w)'
    BY <2>2, <2>3, <1>0 DEF SlotAgrees
  <2>. QED BY <2>1, <2>2, <2>3, <2>4, ClaimMoves DEF ClaimingPc, PcOfSlot
<1>3. CASE LoadRun(w)
  <2>1. slot[w].pc = "load" /\ UNCHANGED <<waiting, handler, status>>
    BY <1>3 DEF LoadRun, rows
  <2>2. ~ IsTerminal(status[r])
    BY <2>1, <1>0 DEF SlotAgrees, IsTerminal, TerminalStates
  <2>3. slot' = [slot EXCEPT ![w].pc = "start", ![w].seen = status[r]]
    BY <1>3, <2>2 DEF LoadRun
  <2>4. /\ \A v \in Slots \ {w} : slot'[v] = slot[v]
        /\ slot'[w].run = r /\ slot'[w].seen = status[r] /\ slot'[w].pc = "start"
    BY <2>3, <1>0, RememberView, ZenonT(40)
  <2>5. SlotAgrees(w)'
    BY <2>1, <2>4, <1>0, SMTT(30) DEF SlotAgrees
  <2>. QED BY <2>1, <2>4, <2>5, ClaimMoves DEF ClaimingPc, PcOfSlot
<1>4. CASE StartRun(w)
  <2>1. slot[w].pc = "start" /\ UNCHANGED <<waiting, handler>>
    BY <1>4 DEF StartRun, GoTo
  <2>2. status'[r] = "running" /\ \A q \in Runs \ {r} : status'[q] = status[q]
    BY <1>4, <2>1, <1>0, <1>a, <1>b DEF StartRun, SlotAgrees
  <2>3. slot' = [slot EXCEPT ![w].pc = "work"]
    BY <1>4 DEF StartRun, GoTo
  <2>4. /\ \A v \in Slots \ {w} : slot'[v] = slot[v]
        /\ slot'[w].run = r /\ slot'[w].seen = slot[w].seen /\ slot'[w].pc = "work"
    BY <2>3, <1>0, MoveView
  <2>5. SlotAgrees(w)'
    BY <2>2, <2>4 DEF SlotAgrees
  <2>. QED BY <2>1, <2>2, <2>4, <2>5, ClaimMoves DEF ClaimingPc, PcOfSlot
<1>5. CASE PrologueThrows(w) \/ RecordThrows(w) \/ ProcessorRejects(w)
  BY <1>5 DEF Healthy, PrologueThrows, RecordThrows, ProcessorRejects
<1>6. CASE ModelAnswers(w)
  <2>1. slot[w].pc = "work" /\ UNCHANGED <<waiting, handler>>
    BY <1>6 DEF ModelAnswers, GoTo
  <2>2. status' = status
    BY <1>6 DEF ModelAnswers, rows
  <2>3. slot' = [slot EXCEPT ![w].pc = "succeed"]
    BY <1>6 DEF ModelAnswers, GoTo
  <2>4. /\ \A v \in Slots \ {w} : slot'[v] = slot[v]
        /\ slot'[w].run = r /\ slot'[w].seen = slot[w].seen /\ slot'[w].pc = "succeed"
    BY <2>3, <1>0, MoveView
  <2>5. SlotAgrees(w)'
    BY <2>1, <2>2, <2>4, <1>0 DEF SlotAgrees
  <2>. QED BY <2>1, <2>2, <2>4, <2>5, ClaimMoves DEF ClaimingPc, PcOfSlot
<1>7. CASE AttemptThrows(w)
  <2>1. slot[w].pc = "work" /\ UNCHANGED <<waiting, handler>>
    BY <1>7 DEF AttemptThrows, GoTo
  <2>2. status' = status
    BY <1>7 DEF AttemptThrows, rows
  <2>3. slot' = [slot EXCEPT ![w].pc = "catch"]
    BY <1>7 DEF AttemptThrows, GoTo
  <2>4. /\ \A v \in Slots \ {w} : slot'[v] = slot[v]
        /\ slot'[w].run = r /\ slot'[w].seen = slot[w].seen /\ slot'[w].pc = "catch"
    BY <2>3, <1>0, MoveView
  <2>5. SlotAgrees(w)'
    BY <2>1, <2>2, <2>4, <1>0 DEF SlotAgrees
  <2>. QED BY <2>1, <2>2, <2>4, <2>5, ClaimMoves DEF ClaimingPc, PcOfSlot
<1>8. CASE MarkSucceeded(w)
  <2>1. slot[w].pc = "succeed" /\ UNCHANGED <<waiting, handler>>
    BY <1>8 DEF MarkSucceeded, GoTo
  <2>2. status'[r] = "succeeded" /\ \A q \in Runs \ {r} : status'[q] = status[q]
    BY <1>8, <2>1, <1>a, <1>b DEF MarkSucceeded
  <2>3. slot' = [slot EXCEPT ![w].pc = "record"]
    BY <1>8 DEF MarkSucceeded, GoTo
  <2>4. /\ \A v \in Slots \ {w} : slot'[v] = slot[v]
        /\ slot'[w].run = r /\ slot'[w].seen = slot[w].seen /\ slot'[w].pc = "record"
    BY <2>3, <1>0, MoveView
  <2>5. SlotAgrees(w)'
    BY <2>1, <2>2, <2>4, <1>0 DEF SlotAgrees
  <2>. QED BY <2>1, <2>2, <2>4, <2>5, ClaimMoves DEF ClaimingPc, PcOfSlot
<1>9. CASE RecordSuccess(w)
  <2>1. slot[w].pc = "record" /\ UNCHANGED <<waiting, handler>>
    BY <1>9 DEF RecordSuccess, GoTo
  <2>2. status' = status
    BY <1>9 DEF RecordSuccess, rows
  <2>3. slot' = [slot EXCEPT ![w].pc = "complete"]
    BY <1>9 DEF RecordSuccess, GoTo
  <2>4. /\ \A v \in Slots \ {w} : slot'[v] = slot[v]
        /\ slot'[w].run = r /\ slot'[w].seen = slot[w].seen /\ slot'[w].pc = "complete"
    BY <2>3, <1>0, MoveView
  <2>5. SlotAgrees(w)'
    BY <2>1, <2>2, <2>4, <1>0 DEF SlotAgrees
  <2>. QED BY <2>1, <2>2, <2>4, <2>5, ClaimMoves DEF ClaimingPc, PcOfSlot
<1>10. CASE CatchAttempt(w)
  <2>1. slot[w].pc = "catch" /\ UNCHANGED <<waiting, handler>>
    BY <1>10 DEF CatchAttempt, GoTo
  <2>2. status'[r] = "running" /\ \A q \in Runs \ {r} : status'[q] = status[q]
    BY <1>10, <2>1, <1>a, <1>b DEF CatchAttempt
  <2>3. slot' = [slot EXCEPT ![w].pc = "decide"]
    BY <1>10 DEF CatchAttempt, GoTo
  <2>4. /\ \A v \in Slots \ {w} : slot'[v] = slot[v]
        /\ slot'[w].run = r /\ slot'[w].seen = slot[w].seen /\ slot'[w].pc = "decide"
    BY <2>3, <1>0, MoveView
  <2>5. SlotAgrees(w)'
    BY <2>1, <2>2, <2>4, <1>0 DEF SlotAgrees
  <2>. QED BY <2>1, <2>2, <2>4, <2>5, ClaimMoves DEF ClaimingPc, PcOfSlot
<1>11. CASE ScheduleRetry(w)
  <2>1. slot[w].pc = "decide" /\ UNCHANGED <<status, handler>>
    BY <1>11 DEF ScheduleRetry, GoTo, rows
  <2>2. slot' = [slot EXCEPT ![w].pc = "complete"]
    BY <1>11 DEF ScheduleRetry, GoTo
  <2>3. /\ \A v \in Slots \ {w} : slot'[v] = slot[v]
        /\ slot'[w].run = r /\ slot'[w].seen = slot[w].seen /\ slot'[w].pc = "complete"
    BY <2>2, <1>0, MoveView
  <2>4. r \in Runs /\ SlotClaims(w, r)
    BY <2>1, <1>a DEF SlotClaims, ClaimingPc, PcOfSlot
  <2>5. /\ \A v \in Slots \ {w} : ~ SlotClaims(v, r)
        /\ \A h \in Handlers : ~ HandlerClaims(h, r)
        /\ ~ QueueClaims(r)
    BY <2>4 DEF IInv, ExclusiveExecution
  <2>6. \A u \in StallCount : waiting[r][u] = 0
    BY <2>4, <2>5, <1>0 DEF QueueClaims, QueueOK
  <2>7. 0 \in StallCount
    BY ConstantsAssumption DEF StallCount
  <2>8. waiting' = [waiting EXCEPT ![r][0] = @ + 1]
    BY <1>11 DEF ScheduleRetry
  <2>9. /\ \A u \in StallCount : waiting'[r][u] = IF u = 0 THEN 1 ELSE 0
        /\ \A p \in Runs \ {r} : waiting'[p] = waiting[p]
    BY <2>4, <2>6, <2>7, <2>8, <1>0 DEF QueueOK
  <2>10. \A p \in Runs \ {r} : QueueClaims(p)' <=> QueueClaims(p)
    BY <2>9 DEF QueueClaims
  <2>11. /\ \A v \in Slots, p \in Runs : SlotClaims(v, p)' <=> v # w /\ SlotClaims(v, p)
         /\ \A h \in Handlers, p \in Runs : HandlerClaims(h, p)' <=> HandlerClaims(h, p)
    BY <2>1, <2>3 DEF SlotClaims, HandlerClaims, ClaimingPc, PcOfSlot
  <2>12. ASSUME NEW p \in Runs, NEW u \in StallCount
         PROVE  /\ waiting'[p][u] <= 1
                /\ \A u2 \in StallCount : waiting'[p][u] > 0 /\ waiting'[p][u2] > 0 => u = u2
    <3>1. CASE p = r
      BY <3>1, <2>9
    <3>2. CASE p # r
      BY <3>2, <2>9 DEF IInv, ExclusiveExecution
    <3>. QED BY <3>1, <3>2
  <2>13. ExclusiveExecution'
    BY <2>4, <2>5, <2>10, <2>11, <2>12 DEF IInv, ExclusiveExecution
  <2>14. status[r] = "running"
    BY <2>1, <1>0 DEF SlotAgrees
  <2>15. \A p \in Runs : QueueAgrees(p)'
    BY <2>1, <2>10, <2>14 DEF IInv, ClaimsAgree, QueueAgrees
  <2>16. \A v \in Slots : SlotAgrees(v)'
    BY <2>1, <2>3 DEF IInv, ClaimsAgree, SlotAgrees
  <2>17. \A h \in Handlers : HandlerAgrees(h)'
    BY <2>1 DEF IInv, ClaimsAgree, HandlerAgrees
  <2>. QED BY <2>13, <2>15, <2>16, <2>17 DEF ClaimsAgree
<1>12. CASE ReadExhausted(w)
  <2>1. slot[w].pc = "decide" /\ UNCHANGED <<waiting, handler, status>>
    BY <1>12 DEF ReadExhausted, rows
  <2>2. slot' = [slot EXCEPT ![w].pc = "fail", ![w].seen = status[r]]
    BY <1>12 DEF ReadExhausted
  <2>3. /\ \A v \in Slots \ {w} : slot'[v] = slot[v]
        /\ slot'[w].run = r /\ slot'[w].seen = status[r] /\ slot'[w].pc = "fail"
    BY <2>2, <1>0, RememberView, ZenonT(40)
  <2>4. SlotAgrees(w)'
    BY <2>1, <2>3, <1>0, SMTT(30) DEF SlotAgrees
  <2>. QED BY <2>1, <2>3, <2>4, ClaimMoves DEF ClaimingPc, PcOfSlot
<1>13. CASE MarkFailed(w)
  <2>1. slot[w].pc = "fail" /\ UNCHANGED <<waiting, handler>>
    BY <1>13 DEF MarkFailed, GoTo
  <2>2. status'[r] = "failed" /\ \A q \in Runs \ {r} : status'[q] = status[q]
    BY <1>13, <2>1, <1>a, <1>b DEF MarkFailed
  <2>3. slot' = [slot EXCEPT ![w].pc = "deadletter"]
    BY <1>13 DEF MarkFailed, GoTo
  <2>4. /\ \A v \in Slots \ {w} : slot'[v] = slot[v]
        /\ slot'[w].run = r /\ slot'[w].seen = slot[w].seen /\ slot'[w].pc = "deadletter"
    BY <2>3, <1>0, MoveView
  <2>5. SlotAgrees(w)'
    BY <2>1, <2>2, <2>4, <1>0 DEF SlotAgrees
  <2>. QED BY <2>1, <2>2, <2>4, <2>5, ClaimMoves DEF ClaimingPc, PcOfSlot
<1>14. CASE IllegalFailure(w)
  <2>1. slot[w].pc = "fail" /\ slot[w].seen = "running"
    BY <1>14, <1>0 DEF IllegalFailure, SlotAgrees
  <2>2. CanTransition("running", "failed")
    BY DEF CanTransition, AllowedTransitions, RunStatus
  <2>. QED BY <1>14, <2>1, <2>2 DEF IllegalFailure
<1>15. CASE RecordDeadLetter(w)
  <2>1. slot' = [slot EXCEPT ![w].pc = "complete"] /\ slot[w].pc = "deadletter"
    BY <1>15 DEF RecordDeadLetter, GoTo
  <2>2. slot'[w].pc = "complete" /\ \A v \in Slots \ {w} : slot'[v] = slot[v]
    BY <2>1, <1>0, <1>b, MoveView
  <2>. QED BY <1>15, <2>1, <2>2, NothingClaimed DEF RecordDeadLetter, ClaimingPc
<1>16. CASE Complete(w)
  <2>1. slot' = [slot EXCEPT ![w] = IdleSlot] /\ slot[w].pc = "complete"
    BY <1>16 DEF Complete
  <2>2. slot'[w].pc = "idle" /\ \A v \in Slots \ {w} : slot'[v] = slot[v]
    BY <2>1, <1>b DEF IdleSlot
  <2>. QED BY <1>16, <2>1, <2>2, NothingClaimed DEF Complete, rows, ClaimingPc
<1>17. CASE Crash(w)
  BY <1>17 DEF Crash, Healthy, IInv, TypeOK, BoundsOK
<1>. QED
  BY <1>1, <1>2, <1>3, <1>4, <1>5, <1>6, <1>7, <1>8, <1>9, <1>10,
         <1>11, <1>12, <1>13, <1>14, <1>15, <1>16, <1>17
  DEF SlotStep

-----------------------------------------------------------------------------
(* The steps of a request *)

(* A run that is absent or failed is claimed by nobody.                    *)
LEMMA Unclaimed ==
  ASSUME IInv, NEW r \in Runs, status[r] \in {"absent", "failed"}
  PROVE  /\ ~ QueueClaims(r)
         /\ \A w \in Slots : ~ SlotClaims(w, r)
         /\ \A h \in Handlers : ~ HandlerClaims(h, r)
<1>1. ~ QueueClaims(r)
  BY DEF IInv, ClaimsAgree, QueueAgrees
<1>2. ASSUME NEW w \in Slots PROVE ~ SlotClaims(w, r)
  BY DEF IInv, ClaimsAgree, SlotAgrees, SlotClaims, ClaimingPc, PcOfSlot
<1>3. ASSUME NEW h \in Handlers PROVE ~ HandlerClaims(h, r)
  BY DEF IInv, ClaimsAgree, HandlerAgrees, HandlerClaims
<1>. QED BY <1>1, <1>2, <1>3

(* The only request takes or keeps a claim on a run nobody else claims,    *)
(* queued from now on; nothing else changes.                               *)
LEMMA RequestClaims ==
  ASSUME IInv, Healthy, NEW h \in Handlers, NEW r \in Runs,
         ~ QueueClaims(r), \A w \in Slots : ~ SlotClaims(w, r),
         UNCHANGED <<waiting, slot>>,
         handler'[h].run = r, handler'[h].pc \in {"mark", "enqueue"},
         status'[r] = "queued", \A q \in Runs \ {r} : status'[q] = status[q]
  PROVE  ClaimsAgree' /\ ExclusiveExecution'
<1>1. \A g \in Handlers : g = h
  BY DEF Healthy
<1>2. /\ \A v \in Slots, q \in Runs : SlotClaims(v, q)' <=> SlotClaims(v, q)
      /\ \A q \in Runs : QueueClaims(q)' <=> QueueClaims(q)
      /\ \A q \in Runs : HandlerClaims(h, q)' <=> q = r
  BY DEF SlotClaims, QueueClaims, HandlerClaims
<1>3. ExclusiveExecution'
  BY <1>1, <1>2 DEF IInv, ExclusiveExecution
<1>4. ASSUME NEW v \in Slots PROVE SlotAgrees(v)'
  <2>1. CASE slot[v].pc \in ClaimingPc
    <3>1. slot[v].run \in Runs /\ slot[v].run # r
      BY <2>1, BusyHoldsRun DEF SlotClaims, ClaimingPc, IInv, TypeOK
    <3>. QED BY <3>1 DEF IInv, ClaimsAgree, SlotAgrees
  <2>2. CASE slot[v].pc \notin ClaimingPc
    BY <2>2 DEF SlotAgrees, ClaimingPc, PcOfSlot
  <2>. QED BY <2>1, <2>2
<1>5. ASSUME NEW q \in Runs PROVE QueueAgrees(q)'
  BY <1>2 DEF IInv, ClaimsAgree, QueueAgrees
<1>6. \A g \in Handlers : HandlerAgrees(g)'
  BY <1>1 DEF HandlerAgrees
<1>. QED BY <1>3, <1>4, <1>5, <1>6 DEF ClaimsAgree

LEMMA HandlerPreserves ==
  ASSUME IInv, Healthy, NEW h \in Handlers,
         HandlerStep(h) \/ AbandonRequest(h)
           \/ \E r \in Runs : CreateRun(h, r) \/ CheckFailed(h, r)
  PROVE  ClaimsAgree' /\ ExclusiveExecution'
<1>0. /\ handler \in [Handlers -> HandlerType]
      /\ handler[h].pc # "idle" => handler[h].run \in Runs
      /\ status \in [Runs -> RunStatus \cup {"absent"}]
      /\ QueueOK /\ HandlerAgrees(h)
  BY DEF IInv, TypeOK, HandlersOK, HandlerType, RowsOK, ClaimsAgree
<1>1. ASSUME NEW r \in Runs, CreateRun(h, r) PROVE ClaimsAgree' /\ ExclusiveExecution'
  <2>1. handler'[h].run = r /\ handler'[h].pc = "enqueue"
    BY <1>1, <1>0 DEF CreateRun
  <2>2. status'[r] = "queued" /\ \A q \in Runs \ {r} : status'[q] = status[q]
    BY <1>1, <1>0 DEF CreateRun
  <2>3. status[r] = "absent" /\ UNCHANGED <<waiting, slot>>
    BY <1>1 DEF CreateRun
  <2>. QED BY <2>1, <2>2, <2>3, Unclaimed, RequestClaims
<1>2. ASSUME NEW r \in Runs, CheckFailed(h, r) PROVE ClaimsAgree' /\ ExclusiveExecution'
  <2>1. handler'[h].run = r /\ handler'[h].pc = "reopen" /\ \A g \in Handlers : g = h
    BY <1>2, <1>0 DEF CheckFailed, Healthy
  <2>2. status[r] = "failed" /\ UNCHANGED <<status, waiting, slot>>
    BY <1>2 DEF CheckFailed, rows
  <2>3. ExclusiveExecution'
    BY <2>1, <2>2 DEF IInv, ExclusiveExecution, SlotClaims, QueueClaims, HandlerClaims
  <2>. QED BY <2>1, <2>2, <2>3
           DEF IInv, ClaimsAgree, HandlerAgrees, SlotAgrees, QueueAgrees, QueueClaims
<1>3. CASE Reopen(h)
  <2> DEFINE r == handler[h].run
  <2>1. r \in Runs /\ status[r] = "failed" /\ UNCHANGED <<waiting, slot>>
    BY <1>3, <1>0 DEF Reopen, HandlerAgrees
  <2>2. handler'[h] = [handler[h] EXCEPT !.pc = "mark"]
    BY <1>3, <1>0 DEF Reopen
  <2>3. handler'[h].run = r /\ handler'[h].pc = "mark"
    BY <2>2, <1>0 DEF HandlerType
  <2>4. status'[r] = "queued" /\ \A q \in Runs \ {r} : status'[q] = status[q]
    BY <1>3, <2>1, <1>0 DEF Reopen
  <2>. QED BY <2>1, <2>3, <2>4, Unclaimed, RequestClaims
<1>4. CASE MarkRequeued(h)
  <2> DEFINE r == handler[h].run
  <2>1. r \in Runs /\ status[r] = "queued" /\ HandlerClaims(h, r)
    BY <1>4, <1>0 DEF MarkRequeued, HandlerAgrees, HandlerClaims
  <2>2. UNCHANGED <<status, waiting, slot>>
    BY <1>4 DEF MarkRequeued
  <2>3. handler'[h] = [handler[h] EXCEPT !.pc = "enqueue"]
    BY <1>4, <1>0 DEF MarkRequeued
  <2>4. handler'[h].run = r /\ handler'[h].pc = "enqueue"
    BY <2>3, <1>0 DEF HandlerType
  <2>5. ~ QueueClaims(r) /\ \A w \in Slots : ~ SlotClaims(w, r)
    BY <2>1 DEF IInv, ExclusiveExecution
  <2>. QED BY <2>1, <2>2, <2>4, <2>5, RequestClaims
<1>5. CASE Enqueue(h)
  <2> DEFINE r == handler[h].run
  <2>1. r \in Runs /\ status[r] = "queued" /\ HandlerClaims(h, r)
    BY <1>5, <1>0 DEF Enqueue, HandlerAgrees, HandlerClaims
  <2>2. UNCHANGED <<status, slot>> /\ waiting' = [waiting EXCEPT ![r][0] = @ + 1]
    BY <1>5 DEF Enqueue, rows
  <2>3. handler'[h].pc = "idle" /\ \A g \in Handlers : g = h
    BY <1>5, <1>0 DEF Enqueue, IdleHandler, Healthy
  <2>4. ~ QueueClaims(r) /\ \A w \in Slots : ~ SlotClaims(w, r)
    BY <2>1 DEF IInv, ExclusiveExecution
  <2>5. 0 \in StallCount /\ \A u \in StallCount : waiting[r][u] = 0
    BY <2>1, <2>4, <1>0, ConstantsAssumption DEF QueueClaims, QueueOK, StallCount
  <2>6. /\ \A u \in StallCount : waiting'[r][u] = IF u = 0 THEN 1 ELSE 0
        /\ \A p \in Runs \ {r} : waiting'[p] = waiting[p]
    BY <2>1, <2>2, <2>5, <1>0 DEF QueueOK
  <2>7. /\ \A p \in Runs \ {r} : QueueClaims(p)' <=> QueueClaims(p)
        /\ \A v \in Slots, p \in Runs : SlotClaims(v, p)' <=> SlotClaims(v, p)
        /\ \A g \in Handlers, p \in Runs : ~ HandlerClaims(g, p)'
    BY <2>2, <2>3, <2>6 DEF QueueClaims, SlotClaims, HandlerClaims
  <2>8. ASSUME NEW p \in Runs, NEW u \in StallCount
        PROVE  /\ waiting'[p][u] <= 1
               /\ \A u2 \in StallCount : waiting'[p][u] > 0 /\ waiting'[p][u2] > 0 => u = u2
    <3>1. CASE p = r
      BY <3>1, <2>6
    <3>2. CASE p # r
      BY <3>2, <2>6 DEF IInv, ExclusiveExecution
    <3>. QED BY <3>1, <3>2
  <2>9. ExclusiveExecution'
    BY <2>3, <2>4, <2>7, <2>8 DEF IInv, ExclusiveExecution
  <2>10. /\ \A p \in Runs : QueueAgrees(p)'
         /\ \A v \in Slots : SlotAgrees(v)'
         /\ \A g \in Handlers : HandlerAgrees(g)'
    BY <2>1, <2>2, <2>3, <2>7 DEF IInv, ClaimsAgree, QueueAgrees, SlotAgrees, HandlerAgrees
  <2>. QED BY <2>9, <2>10 DEF ClaimsAgree
<1>6. CASE AbandonRequest(h)
  BY <1>6 DEF AbandonRequest, Healthy
<1>. QED BY <1>1, <1>2, <1>3, <1>4, <1>5, <1>6 DEF HandlerStep

-----------------------------------------------------------------------------
(* Theorems *)

LEMMA InitInv == Init => IInv
<1> SUFFICES ASSUME Init PROVE IInv
  OBVIOUS
<1>1. TypeOK
  BY InitTypes
<1>2. /\ \A w \in Slots : slot[w].pc = "idle"
      /\ \A h \in Handlers : handler[h].pc = "idle"
      /\ \A r \in Runs, s \in StallCount : waiting[r][s] = 0
  BY DEF Init, IdleSlot, IdleHandler
<1>3. ExclusiveExecution
  BY <1>2 DEF ExclusiveExecution, SlotClaims, QueueClaims, HandlerClaims, ClaimingPc
<1>4. ClaimsAgree
  BY <1>2 DEF ClaimsAgree, SlotAgrees, QueueAgrees, HandlerAgrees, QueueClaims
<1>. QED BY <1>1, <1>3, <1>4 DEF IInv

LEMMA NextInv ==
  ASSUME Healthy, IInv, [Next]_vars
  PROVE  IInv'
<1>1. TypeOK'
  BY HandlerTypes, SlotTypes, StutterTypes DEF Next, IInv
<1>2. CASE Next
  BY <1>1, <1>2, HandlerPreserves, SlotPreserves DEF Next, IInv
<1>3. CASE UNCHANGED vars
  <2>1. UNCHANGED <<status, waiting, slot, handler>>
    BY <1>3 DEF vars, rows
  <2>2. ExclusiveExecution'
    BY <2>1 DEF IInv, ExclusiveExecution, SlotClaims, QueueClaims, HandlerClaims
  <2>3. ClaimsAgree'
    BY <2>1 DEF IInv, ClaimsAgree, SlotAgrees, QueueAgrees, HandlerAgrees, QueueClaims
  <2>. QED BY <1>1, <2>2, <2>3 DEF IInv
<1>. QED BY <1>2, <1>3

THEOREM InductiveInvariant ==
  ASSUME Healthy
  PROVE  Spec => []IInv
<1>1. IInv /\ [Next]_vars => IInv'
  BY NextInv
<1>. QED BY <1>1, InitInv, PTL DEF Spec

(* No run is executed twice at once, for any number of runs and slots.     *)
THEOREM ExclusiveExecutionHolds ==
  ASSUME Healthy
  PROVE  Spec => []ExclusiveExecution
<1>1. IInv => ExclusiveExecution
  BY DEF IInv
<1>. QED BY <1>1, InductiveInvariant, PTL

(* The row of a claimed run says what its holder is entitled to assume.    *)
THEOREM ClaimsAgreeHolds ==
  ASSUME Healthy
  PROVE  Spec => []ClaimsAgree
<1>1. IInv => ClaimsAgree
  BY DEF IInv
<1>. QED BY <1>1, InductiveInvariant, PTL

(* Both together: what a worker pool without locks still guarantees.       *)
THEOREM ClaimsSoundHolds ==
  ASSUME Healthy
  PROVE  Spec => []ClaimsSound
<1>1. IInv => ClaimsSound
  BY DEF IInv, ClaimsSound
<1>. QED BY <1>1, InductiveInvariant, PTL

(* One step never leaves a terminal status, but for an operator's Reopen.  *)
LEMMA TerminalStep ==
  ASSUME Healthy, IInv, [Next]_vars, NEW r \in Runs,
         IsTerminal(status[r]), status'[r] # status[r]
  PROVE  /\ status[r] = "failed" /\ status'[r] = "queued"
         /\ \E h \in Handlers : handler[h] = [pc |-> "reopen", run |-> r]
<1>0. /\ status \in [Runs -> RunStatus \cup {"absent"}]
      /\ handler \in [Handlers -> HandlerType]
      /\ status[r] \in {"succeeded", "failed", "canceled"}
  BY DEF IInv, TypeOK, RowsOK, HandlersOK, IsTerminal, TerminalStates
<1>1. ~ UNCHANGED status
  OBVIOUS
<1>2. ASSUME NEW w \in Slots, SlotStep(w) \/ Crash(w) PROVE FALSE
  <2> DEFINE q == slot[w].run
  <2>0. SlotAgrees(w) /\ SlotsOK
    BY DEF IInv, ClaimsAgree, TypeOK
  <2>1. StartRun(w) \/ MarkSucceeded(w) \/ CatchAttempt(w) \/ MarkFailed(w)
    BY <1>1, <1>2
       DEF SlotStep, Crash, rows, Deliver, IncrementAttempts, LoadRun, PrologueThrows,
           ModelAnswers, AttemptThrows, RecordSuccess, RecordThrows, ScheduleRetry,
           ReadExhausted, IllegalFailure, RecordDeadLetter, Complete, ProcessorRejects
  <2>2. slot[w].pc \in {"start", "succeed", "catch", "fail"}
    BY <2>1 DEF StartRun, MarkSucceeded, CatchAttempt, MarkFailed, GoTo
  <2>3. q \in Runs /\ status[q] \in {"queued", "running"}
    BY <2>2, <2>0, BusyHoldsRun DEF SlotAgrees
  <2>4. \A p \in Runs \ {q} : status'[p] = status[p]
    BY <2>1, <2>3, <1>0 DEF StartRun, MarkSucceeded, CatchAttempt, MarkFailed
  <2>. QED BY <2>3, <2>4, <1>0
<1>3. ASSUME NEW h \in Handlers, NEW q \in Runs, CreateRun(h, q) \/ CheckFailed(h, q)
      PROVE  FALSE
  BY <1>0, <1>1, <1>3 DEF CreateRun, CheckFailed, rows
<1>4. ASSUME NEW h \in Handlers, HandlerStep(h) \/ AbandonRequest(h)
      PROVE  /\ status[r] = "failed" /\ status'[r] = "queued"
             /\ handler[h] = [pc |-> "reopen", run |-> r]
  <2>1. Reopen(h)
    BY <1>1, <1>4 DEF HandlerStep, AbandonRequest, MarkRequeued, Enqueue, rows
  <2>2. status' = [status EXCEPT ![handler[h].run] = "queued"] /\ handler[h].pc = "reopen"
    BY <2>1 DEF Reopen
  <2>3. handler[h].run = r /\ status'[r] = "queued"
    BY <2>2, <1>0
  <2>4. status[r] = "failed"
    BY <2>2, <2>3 DEF IInv, ClaimsAgree, HandlerAgrees
  <2>5. handler[h] \in HandlerType
    BY <1>0
  <2>6. handler[h] = [pc |-> "reopen", run |-> r]
    BY <2>2, <2>3, <2>5 DEF HandlerType
  <2>. QED BY <2>3, <2>4, <2>6
<1>5. Next
  BY <1>1 DEF vars, rows
<1>. QED BY <1>2, <1>3, <1>4, <1>5 DEF Next

(* A terminal status is left only by an operator re-opening a failed run.  *)
THEOREM TerminalIsFinalHolds ==
  ASSUME Healthy
  PROVE  Spec => TerminalIsFinal
<1>1. IInv /\ [Next]_vars =>
        [\A r \in Runs :
           IsTerminal(status[r]) /\ status'[r] # status[r] =>
             /\ status[r] = "failed" /\ status'[r] = "queued"
             /\ \E h \in Handlers : handler[h] = [pc |-> "reopen", run |-> r]]_vars
  BY TerminalStep
<1>. QED BY <1>1, InductiveInvariant, PTL DEF Spec, TerminalIsFinal

-----------------------------------------------------------------------------
(* What is lost.  Whatever call fails, whatever worker dies and however    *)
(* many requests race, a run that has not ended is only lost where its job *)
(* is visibly given up.  LossIsDeclared is not inductive: a slot that      *)
(* records a success still claims its run, and lets it go without a look   *)
(* at a row that another slot may have turned back to running.  Such a     *)
(* slot does not count here: somebody else holds every run that is open.   *)

Open == {"queued", "running"}
HoldingPc == ClaimingPc \ {"record"}
SlotHolds(w, r) == slot[w].run = r /\ slot[w].pc \in HoldingPc

Held(r) ==
  \/ QueueClaims(r)
  \/ \E w \in Slots : SlotHolds(w, r)
  \/ \E h \in Handlers : HandlerClaims(h, r)

OpenRunsHeld == \A r \in Runs \ dropped : status[r] \in Open => Held(r)

LossInv == TypeOK /\ OpenRunsHeld

-----------------------------------------------------------------------------
(* A slot's step keeps every open run held if the run it held, queued or   *)
(* wrote is afterwards held by it, queued, dropped or ended.               *)
LEMMA SlotKeepsHeld ==
  ASSUME OpenRunsHeld, NEW w \in Slots,
         UNCHANGED handler, dropped \subseteq dropped',
         \A v \in Slots \ {w} : slot'[v] = slot[v],
         \A q \in Runs : QueueClaims(q) => QueueClaims(q)' \/ SlotHolds(w, q)',
         \A q \in Runs : SlotHolds(w, q) \/ status'[q] # status[q] =>
           \/ q \in dropped' \/ status'[q] \notin Open
           \/ SlotHolds(w, q)' \/ QueueClaims(q)'
  PROVE  OpenRunsHeld'
<1> SUFFICES ASSUME NEW r \in Runs \ dropped', status'[r] \in Open
             PROVE  Held(r)'
  BY DEF OpenRunsHeld
<1>1. CASE SlotHolds(w, r) \/ status'[r] # status[r]
  BY <1>1 DEF Held
<1>2. CASE ~ SlotHolds(w, r) /\ status'[r] = status[r]
  <2>1. Held(r)
    BY <1>2 DEF OpenRunsHeld
  <2>2. CASE QueueClaims(r)
    BY <2>2 DEF Held
  <2>3. CASE \E v \in Slots : SlotHolds(v, r)
    BY <2>3, <1>2 DEF Held, SlotHolds
  <2>4. CASE \E h \in Handlers : HandlerClaims(h, r)
    BY <2>4 DEF Held, HandlerClaims
  <2>. QED BY <2>1, <2>2, <2>3, <2>4 DEF Held
<1>. QED BY <1>1, <1>2

(* The same for a request.                                                 *)
LEMMA HandlerKeepsHeld ==
  ASSUME OpenRunsHeld, NEW h \in Handlers,
         UNCHANGED slot, dropped \subseteq dropped',
         \A g \in Handlers \ {h} : handler'[g] = handler[g],
         \A q \in Runs : QueueClaims(q) => QueueClaims(q)',
         \A q \in Runs : HandlerClaims(h, q) \/ status'[q] # status[q] =>
           \/ q \in dropped' \/ HandlerClaims(h, q)' \/ QueueClaims(q)'
  PROVE  OpenRunsHeld'
<1> SUFFICES ASSUME NEW r \in Runs \ dropped', status'[r] \in Open
             PROVE  Held(r)'
  BY DEF OpenRunsHeld
<1>1. CASE HandlerClaims(h, r) \/ status'[r] # status[r]
  BY <1>1 DEF Held
<1>2. CASE ~ HandlerClaims(h, r) /\ status'[r] = status[r]
  <2>1. Held(r)
    BY <1>2 DEF OpenRunsHeld
  <2>2. CASE QueueClaims(r)
    BY <2>2 DEF Held
  <2>3. CASE \E v \in Slots : SlotHolds(v, r)
    BY <2>3 DEF Held, SlotHolds
  <2>4. CASE \E g \in Handlers : HandlerClaims(g, r)
    BY <2>4, <1>2 DEF Held, HandlerClaims
  <2>. QED BY <2>1, <2>2, <2>3, <2>4 DEF Held
<1>. QED BY <1>1, <1>2

(* A job put into the queue is a claim and takes none away.                *)
LEMMA QueuedClaims ==
  ASSUME QueueOK, NEW r \in Runs, NEW s \in StallCount,
         waiting' = [waiting EXCEPT ![r][s] = @ + 1]
  PROVE  /\ QueueClaims(r)'
         /\ \A q \in Runs : QueueClaims(q) => QueueClaims(q)'
BY DEF QueueOK, QueueClaims

LEMMA NothingQueued ==
  ASSUME UNCHANGED waiting
  PROVE  \A q \in Runs : QueueClaims(q) => QueueClaims(q)'
BY DEF QueueClaims

-----------------------------------------------------------------------------
(* The steps of a slot *)

LEMMA SlotKeepsOpenRunsHeld ==
  ASSUME LossInv, NEW w \in Slots, NEW r, r = slot[w].run,
         SlotStep(w) \/ Crash(w)
  PROVE  OpenRunsHeld'
<1>0. SlotsOK /\ RowsOK /\ QueueOK /\ OpenRunsHeld
  BY DEF LossInv, TypeOK
<1>a. slot[w].pc # "idle" => r \in Runs /\ slot[w] \in SlotType
  BY <1>0, BusyHoldsRun DEF SlotsOK
<1>b. \A q \in Runs : SlotHolds(w, q) => q = r
  BY DEF SlotHolds
(* A slot that holds its run before and after, writing at most its row.    *)
<1>c. ASSUME NEW pc \in HoldingPc, slot[w].pc # "idle",
             slot'[w].run = r, slot'[w].pc = pc,
             \A v \in Slots \ {w} : slot'[v] = slot[v],
             \A q \in Runs \ {r} : status'[q] = status[q],
             UNCHANGED <<handler, waiting, dropped>>
      PROVE  OpenRunsHeld'
  <2>1. SlotHolds(w, r)'
    BY <1>c DEF SlotHolds
  <2>. QED BY <2>1, <1>0, <1>b, <1>c, NothingQueued, SlotKeepsHeld
(* A slot that lets its run go, the row unchanged, the job queued or given *)
(* up; or that did not hold it.                                            *)
<1>d. ASSUME \A v \in Slots \ {w} : slot'[v] = slot[v],
             UNCHANGED <<status, handler, waiting>>, dropped \subseteq dropped',
             slot[w].pc \in HoldingPc => r \in dropped' \/ status[r] \notin Open
      PROVE  OpenRunsHeld'
  <2>1. \A q \in Runs : SlotHolds(w, q) => q \in dropped' \/ status'[q] \notin Open
    BY <1>d DEF SlotHolds
  <2>. QED BY <2>1, <1>0, <1>d, NothingQueued, SlotKeepsHeld
<1>e. slot' = [slot EXCEPT ![w] = IdleSlot] => \A v \in Slots \ {w} : slot'[v] = slot[v]
  BY <1>0 DEF SlotsOK
<1> USE DEF bounds, rows
<1>1. CASE Deliver(w)
  <2>1. PICK q \in Runs, s \in StallCount :
          /\ waiting[q][s] > 0
          /\ waiting' = [waiting EXCEPT ![q][s] = @ - 1]
          /\ slot' = [slot EXCEPT ![w] = [IdleSlot EXCEPT !.pc = "increment",
                                                          !.run = q, !.stalls = s]]
    BY <1>1 DEF Deliver
  <2>2. SlotHolds(w, q)'
    BY <2>1, <1>0 DEF SlotHolds, SlotsOK, IdleSlot, HoldingPc, ClaimingPc, PcOfSlot
  <2>3. \A p \in Runs \ {q} : QueueClaims(p) => QueueClaims(p)'
    BY <2>1, <1>0 DEF QueueClaims, QueueOK
  <2>4. \A v \in Slots \ {w} : slot'[v] = slot[v]
    BY <2>1, <1>0 DEF SlotsOK
  <2>5. \A p \in Runs : ~ SlotHolds(w, p)
    BY <1>1 DEF Deliver, SlotHolds, HoldingPc, ClaimingPc
  <2>. QED BY <1>0, <1>1, <2>2, <2>3, <2>4, <2>5, SlotKeepsHeld DEF Deliver
<1>2. CASE IncrementAttempts(w)
  <2>1. /\ slot'[w].run = r /\ slot'[w].pc = "load"
        /\ \A v \in Slots \ {w} : slot'[v] = slot[v]
    BY <1>2, <1>0, <1>a DEF IncrementAttempts, SlotsOK, SlotType
  <2>. QED BY <1>2, <1>c, <2>1 DEF IncrementAttempts, HoldingPc, ClaimingPc, PcOfSlot
<1>3. CASE LoadRun(w)
  <2> DEFINE pc == IF IsTerminal(status[r]) THEN "complete" ELSE "start"
  <2>1. /\ slot'[w].run = r /\ slot'[w].pc = pc
        /\ \A v \in Slots \ {w} : slot'[v] = slot[v]
    BY <1>3, <1>0, RememberView DEF LoadRun
  <2>2. CASE IsTerminal(status[r])
    <3>1. status[r] \notin Open
      BY <2>2 DEF IsTerminal, TerminalStates, Open
    <3>. QED BY <1>3, <1>d, <2>1, <3>1 DEF LoadRun
  <2>3. CASE ~ IsTerminal(status[r])
    BY <1>3, <1>c, <2>1, <2>3 DEF LoadRun, HoldingPc, ClaimingPc, PcOfSlot
  <2>. QED BY <2>2, <2>3
<1>4. CASE StartRun(w)
  <2>1. /\ slot'[w].run = r /\ slot'[w].pc = "work"
        /\ \A v \in Slots \ {w} : slot'[v] = slot[v]
    BY <1>4, <1>0, MoveView DEF StartRun, GoTo
  <2>2. \A q \in Runs \ {r} : status'[q] = status[q]
    BY <1>4, <1>0, <1>a DEF StartRun, GoTo, RowsOK
  <2>. QED BY <1>4, <1>c, <2>1, <2>2 DEF StartRun, GoTo, HoldingPc, ClaimingPc, PcOfSlot
<1>5. CASE PrologueThrows(w)
  <2>1. /\ slot'[w].run = r /\ slot'[w].pc = "decide"
        /\ \A v \in Slots \ {w} : slot'[v] = slot[v]
    BY <1>5, <1>0, MoveView DEF PrologueThrows
  <2>. QED BY <1>5, <1>c, <2>1 DEF PrologueThrows, HoldingPc, ClaimingPc, PcOfSlot
<1>6. CASE ModelAnswers(w)
  <2>1. /\ slot'[w].run = r /\ slot'[w].pc = "succeed"
        /\ \A v \in Slots \ {w} : slot'[v] = slot[v]
    BY <1>6, <1>0, MoveView DEF ModelAnswers, GoTo
  <2>. QED BY <1>6, <1>c, <2>1 DEF ModelAnswers, GoTo, HoldingPc, ClaimingPc, PcOfSlot
<1>7. CASE AttemptThrows(w)
  <2>1. /\ slot'[w].run = r /\ slot'[w].pc = "catch"
        /\ \A v \in Slots \ {w} : slot'[v] = slot[v]
    BY <1>7, <1>0, MoveView DEF AttemptThrows, GoTo
  <2>. QED BY <1>7, <1>c, <2>1 DEF AttemptThrows, GoTo, HoldingPc, ClaimingPc, PcOfSlot
<1>8. CASE MarkSucceeded(w)
  <2>1. \A v \in Slots \ {w} : slot'[v] = slot[v]
    BY <1>8, <1>0, MoveView DEF MarkSucceeded, GoTo
  <2>2. /\ \A q \in Runs \ {r} : status'[q] = status[q]
        /\ status'[r] = "succeeded"
    BY <1>8, <1>0, <1>a DEF MarkSucceeded, GoTo, RowsOK
  <2>3. \A q \in Runs : SlotHolds(w, q) \/ status'[q] # status[q] => status'[q] \notin Open
    BY <2>2, <1>b DEF Open
  <2>. QED BY <1>0, <1>8, <2>1, <2>3, NothingQueued, SlotKeepsHeld DEF MarkSucceeded
<1>9. CASE RecordSuccess(w)
  <2>1. /\ \A v \in Slots \ {w} : slot'[v] = slot[v]
        /\ slot[w].pc \notin HoldingPc
    BY <1>9, <1>0, MoveView DEF RecordSuccess, GoTo, HoldingPc
  <2>. QED BY <1>9, <1>d, <2>1 DEF RecordSuccess
<1>10. CASE RecordThrows(w)
  <2>1. /\ slot'[w].run = r /\ slot'[w].pc = "catch"
        /\ \A v \in Slots \ {w} : slot'[v] = slot[v]
    BY <1>10, <1>0, MoveView DEF RecordThrows
  <2>. QED BY <1>10, <1>c, <2>1 DEF RecordThrows, HoldingPc, ClaimingPc, PcOfSlot
<1>11. CASE CatchAttempt(w)
  <2>1. /\ slot'[w].run = r /\ slot'[w].pc = "decide"
        /\ \A v \in Slots \ {w} : slot'[v] = slot[v]
    BY <1>11, <1>0, MoveView DEF CatchAttempt, GoTo
  <2>2. \A q \in Runs \ {r} : status'[q] = status[q]
    BY <1>11, <1>0, <1>a DEF CatchAttempt, GoTo, RowsOK
  <2>. QED BY <1>11, <1>c, <2>1, <2>2 DEF CatchAttempt, GoTo, HoldingPc, ClaimingPc, PcOfSlot
<1>12. CASE ScheduleRetry(w)
  <2>1. \A v \in Slots \ {w} : slot'[v] = slot[v]
    BY <1>12, <1>0, MoveView DEF ScheduleRetry, GoTo
  <2>2. r \in Runs /\ 0 \in StallCount
    BY <1>12, <1>a, ConstantsAssumption DEF ScheduleRetry, GoTo, StallCount
  <2>3. /\ QueueClaims(r)'
        /\ \A q \in Runs : QueueClaims(q) => QueueClaims(q)'
    BY <1>12, <1>0, <2>2, QueuedClaims DEF ScheduleRetry
  <2>. QED BY <1>0, <1>b, <1>12, <2>1, <2>3, SlotKeepsHeld DEF ScheduleRetry
<1>13. CASE ReadExhausted(w)
  <2>1. /\ slot'[w].run = r /\ slot'[w].pc = "fail"
        /\ \A v \in Slots \ {w} : slot'[v] = slot[v]
    BY <1>13, <1>0, RememberView DEF ReadExhausted
  <2>. QED BY <1>13, <1>c, <2>1 DEF ReadExhausted, HoldingPc, ClaimingPc, PcOfSlot
<1>14. CASE MarkFailed(w)
  <2>1. \A v \in Slots \ {w} : slot'[v] = slot[v]
    BY <1>14, <1>0, MoveView DEF MarkFailed, GoTo
  <2>2. /\ \A q \in Runs \ {r} : status'[q] = status[q]
        /\ status'[r] = "failed"
    BY <1>14, <1>0, <1>a DEF MarkFailed, GoTo, RowsOK
  <2>3. \A q \in Runs : SlotHolds(w, q) \/ status'[q] # status[q] => status'[q] \notin Open
    BY <2>2, <1>b DEF Open
  <2>. QED BY <1>0, <1>14, <2>1, <2>3, NothingQueued, SlotKeepsHeld DEF MarkFailed
<1>15. CASE IllegalFailure(w)
  BY <1>15, <1>d, <1>e DEF IllegalFailure
<1>16. CASE RecordDeadLetter(w)
  <2>1. /\ \A v \in Slots \ {w} : slot'[v] = slot[v]
        /\ slot[w].pc \notin HoldingPc
    BY <1>16, <1>0, MoveView DEF RecordDeadLetter, GoTo, HoldingPc, ClaimingPc
  <2>. QED BY <1>16, <1>d, <2>1 DEF RecordDeadLetter
<1>17. CASE Complete(w)
  <2>1. slot[w].pc \notin HoldingPc
    BY <1>17 DEF Complete, HoldingPc, ClaimingPc
  <2>. QED BY <1>17, <1>d, <1>e, <2>1 DEF Complete
<1>18. CASE ProcessorRejects(w)
  BY <1>18, <1>d, <1>e DEF ProcessorRejects
<1>19. CASE Crash(w)
  <2>1. r \in Runs /\ slot[w].stalls \in StallCount
    BY <1>19, <1>a DEF Crash, SlotType
  <2>2. CASE slot[w].stalls < MaxStalled
    <3>1. slot[w].stalls + 1 \in StallCount
      BY <2>1, <2>2, ConstantsAssumption DEF StallCount
    <3>2. /\ QueueClaims(r)'
          /\ \A q \in Runs : QueueClaims(q) => QueueClaims(q)'
      BY <1>19, <1>0, <2>1, <2>2, <3>1, QueuedClaims DEF Crash
    <3>. QED BY <1>0, <1>b, <1>e, <1>19, <2>2, <3>2, SlotKeepsHeld DEF Crash
  <2>3. CASE ~ (slot[w].stalls < MaxStalled)
    BY <2>3, <1>19, <1>d, <1>e DEF Crash
  <2>. QED BY <2>2, <2>3
<1>. QED
  BY <1>1, <1>2, <1>3, <1>4, <1>5, <1>6, <1>7, <1>8, <1>9, <1>10,
     <1>11, <1>12, <1>13, <1>14, <1>15, <1>16, <1>17, <1>18, <1>19
  DEF SlotStep

-----------------------------------------------------------------------------
(* The steps of a request *)

LEMMA HandlerKeepsOpenRunsHeld ==
  ASSUME LossInv, NEW h \in Handlers,
         NEW run, run = handler[h].run,
         HandlerStep(h) \/ AbandonRequest(h)
           \/ \E r \in Runs : CreateRun(h, r) \/ CheckFailed(h, r)
  PROVE  OpenRunsHeld'
<1>0. HandlersOK /\ RowsOK /\ QueueOK /\ OpenRunsHeld
  BY DEF LossInv, TypeOK
<1>a. handler[h].pc # "idle" => handler[h].run \in Runs
  BY <1>0 DEF HandlersOK, HandlerType
<1> USE DEF bounds, rows
<1>1. ASSUME NEW r \in Runs, CreateRun(h, r) PROVE OpenRunsHeld'
  <2>1. /\ HandlerClaims(h, r)'
        /\ \A q \in Runs : ~ HandlerClaims(h, q)
        /\ \A g \in Handlers \ {h} : handler'[g] = handler[g]
    BY <1>1, <1>0 DEF CreateRun, HandlerClaims, HandlersOK
  <2>2. \A q \in Runs \ {r} : status'[q] = status[q]
    BY <1>1, <1>0 DEF CreateRun, RowsOK
  <2>. QED BY <1>0, <1>1, <2>1, <2>2, NothingQueued, HandlerKeepsHeld DEF CreateRun
<1>2. ASSUME NEW r \in Runs, CheckFailed(h, r) PROVE OpenRunsHeld'
  <2>1. /\ \A q \in Runs : ~ HandlerClaims(h, q)
        /\ \A g \in Handlers \ {h} : handler'[g] = handler[g]
    BY <1>2, <1>0 DEF CheckFailed, HandlerClaims, HandlersOK
  <2>. QED BY <1>0, <1>2, <2>1, NothingQueued, HandlerKeepsHeld DEF CheckFailed
<1>3. CASE Reopen(h)
  <2>1. /\ HandlerClaims(h, run)'
        /\ \A q \in Runs : ~ HandlerClaims(h, q)
        /\ \A g \in Handlers \ {h} : handler'[g] = handler[g]
    BY <1>3, <1>0 DEF Reopen, HandlerClaims, HandlersOK, HandlerType
  <2>2. \A q \in Runs \ {run} : status'[q] = status[q]
    BY <1>3, <1>0, <1>a DEF Reopen, RowsOK
  <2>. QED BY <1>0, <1>3, <2>1, <2>2, NothingQueued, HandlerKeepsHeld DEF Reopen
<1>4. CASE MarkRequeued(h)
  <2>1. /\ \A q \in Runs : HandlerClaims(h, q) => HandlerClaims(h, q)'
        /\ \A g \in Handlers \ {h} : handler'[g] = handler[g]
    BY <1>4, <1>0 DEF MarkRequeued, HandlerClaims, HandlersOK, HandlerType
  <2>. QED BY <1>0, <1>4, <2>1, NothingQueued, HandlerKeepsHeld DEF MarkRequeued
<1>5. CASE Enqueue(h)
  <2>1. run \in Runs /\ 0 \in StallCount
    BY <1>5, <1>a, ConstantsAssumption DEF Enqueue, StallCount
  <2>2. /\ QueueClaims(run)'
        /\ \A q \in Runs : QueueClaims(q) => QueueClaims(q)'
    BY <1>5, <1>0, <2>1, QueuedClaims DEF Enqueue
  <2>3. /\ \A q \in Runs : HandlerClaims(h, q) => q = run
        /\ \A g \in Handlers \ {h} : handler'[g] = handler[g]
    BY <1>5, <1>0 DEF Enqueue, HandlerClaims, HandlersOK
  <2>. QED BY <1>0, <1>5, <2>2, <2>3, HandlerKeepsHeld DEF Enqueue
<1>6. CASE AbandonRequest(h)
  <2>1. /\ \A q \in Runs : HandlerClaims(h, q) => q \in dropped'
        /\ \A g \in Handlers \ {h} : handler'[g] = handler[g]
    BY <1>6, <1>0 DEF AbandonRequest, HandlerClaims, HandlersOK
  <2>. QED BY <1>0, <1>6, <2>1, NothingQueued, HandlerKeepsHeld DEF AbandonRequest
<1>. QED BY <1>1, <1>2, <1>3, <1>4, <1>5, <1>6 DEF HandlerStep

-----------------------------------------------------------------------------
LEMMA LossInvInductive == LossInv /\ [Next]_vars => LossInv'
<1> SUFFICES ASSUME LossInv, [Next]_vars PROVE LossInv'
  OBVIOUS
<1>1. TypeOK'
  BY HandlerTypes, SlotTypes, StutterTypes DEF Next, LossInv
<1>2. CASE UNCHANGED vars
  BY <1>1, <1>2 DEF vars, rows, bounds, LossInv, OpenRunsHeld, Held, QueueClaims,
                    SlotHolds, HandlerClaims
<1>3. CASE Next
  <2>1. CASE \E h \in Handlers :
               \/ HandlerStep(h) \/ AbandonRequest(h)
               \/ \E r \in Runs : CreateRun(h, r) \/ CheckFailed(h, r)
    BY <1>1, <2>1, HandlerKeepsOpenRunsHeld DEF LossInv
  <2>2. CASE \E w \in Slots : SlotStep(w) \/ Crash(w)
    BY <1>1, <2>2, SlotKeepsOpenRunsHeld DEF LossInv
  <2>. QED BY <1>3, <2>1, <2>2 DEF Next
<1>. QED BY <1>1, <1>2, <1>3 DEF LossInv

LEMMA LossInvInitially == Init => LossInv
BY InitTypes DEF Init, LossInv, OpenRunsHeld, Open

LEMMA HeldIsClaimed == LossInv => LossIsDeclared
BY DEF LossInv, OpenRunsHeld, Held, Open, SlotHolds, HoldingPc, SlotClaims, LossIsDeclared

(* A run that has not ended is claimed by a job, slot or request unless    *)
(* the code gave its job up, whatever fails, crashes or races.             *)
THEOREM LossIsDeclaredHolds == Spec => []LossIsDeclared
BY LossInvInductive, LossInvInitially, HeldIsClaimed, PTL DEF Spec

-----------------------------------------------------------------------------
(* A healthy plane gives nothing up: the only way out of a slot that needs *)
(* no fault is an illegal transition, and a slot that fails a run has seen *)
(* it running.                                                             *)

LEMMA NothingDropped ==
  ASSUME Healthy, IInv, dropped = {}, [Next]_vars
  PROVE  dropped' = {}
<1>0. /\ Faults = {} /\ MaxCrashes = 0 /\ crashes \in Nat
      /\ \A w \in Slots : SlotAgrees(w)
  BY DEF Healthy, IInv, TypeOK, BoundsOK, ClaimsAgree
<1>1. CASE UNCHANGED vars
  BY <1>1 DEF vars, bounds
<1>2. ASSUME NEW h \in Handlers, HandlerStep(h) \/ AbandonRequest(h)
      PROVE  dropped' = {}
  BY <1>0, <1>2 DEF HandlerStep, AbandonRequest, Reopen, MarkRequeued, Enqueue, bounds
<1>3. ASSUME NEW h \in Handlers, NEW r \in Runs, CreateRun(h, r) \/ CheckFailed(h, r)
      PROVE  dropped' = {}
  BY <1>3 DEF CreateRun, CheckFailed, bounds
<1>4. ASSUME NEW w \in Slots, SlotStep(w) PROVE dropped' = {}
  <2>1. CASE IllegalFailure(w)
    <3>1. slot[w].seen = "running"
      BY <2>1, <1>0 DEF IllegalFailure, SlotAgrees
    <3>. QED BY <2>1, <3>1
             DEF IllegalFailure, CanTransition, AllowedTransitions, RunStatus
  <2>2. CASE ProcessorRejects(w)
    BY <2>2, <1>0 DEF ProcessorRejects
  <2>3. CASE ~ IllegalFailure(w) /\ ~ ProcessorRejects(w)
    BY <1>4, <2>3 DEF SlotStep, bounds, Deliver, IncrementAttempts, LoadRun, StartRun,
       PrologueThrows, ModelAnswers, AttemptThrows, MarkSucceeded, RecordSuccess,
       RecordThrows, CatchAttempt, ScheduleRetry, ReadExhausted, MarkFailed,
       RecordDeadLetter, Complete
  <2>. QED BY <2>1, <2>2, <2>3
<1>5. ASSUME NEW w \in Slots, Crash(w) PROVE dropped' = {}
  BY <1>0, <1>5 DEF Crash
<1>. QED BY <1>1, <1>2, <1>3, <1>4, <1>5 DEF Next

(* With no fault, no crash and one request at a time no run is ever lost.  *)
THEOREM NoLostRunHolds ==
  ASSUME Healthy
  PROVE  Spec => []NoLostRun
<1>1. Init => dropped = {}
  BY DEF Init
<1>2. IInv /\ dropped = {} /\ [Next]_vars => (dropped = {})'
  BY NothingDropped
<1>3. LossIsDeclared /\ dropped = {} => NoLostRun
  BY DEF LossIsDeclared, NoLostRun
<1>. QED BY <1>1, <1>2, <1>3, InductiveInvariant, LossIsDeclaredHolds, PTL DEF Spec

-----------------------------------------------------------------------------
(* Failures and the dead-letter list *)

LEMMA FailureRecordedInductive ==
  ASSUME Healthy, IInv, FailureRecorded, [Next]_vars
  PROVE  FailureRecorded'
<1>0. /\ Faults = {} /\ MaxCrashes = 0 /\ crashes \in Nat
      /\ \A w \in Slots : SlotAgrees(w)
      /\ \A h \in Handlers : HandlerAgrees(h)
      /\ SlotsOK /\ RowsOK /\ HandlersOK
  BY DEF Healthy, IInv, TypeOK, BoundsOK, ClaimsAgree
<1> SUFFICES ASSUME NEW r \in Runs, status'[r] = "failed"
             PROVE  \/ deadLetters'[r] > 0
                    \/ \E w \in Slots : slot'[w].run = r /\ slot'[w].pc = "deadletter"
  BY DEF FailureRecorded
<1> DEFINE Filing(w) == slot[w].run = r /\ slot[w].pc = "deadletter"
(* Nothing that fails, clears or files this run.                           *)
<1>a. ASSUME status[r] = "failed", UNCHANGED deadLetters,
             \A w \in Slots : Filing(w) => slot'[w] = slot[w]
      PROVE  \/ deadLetters'[r] > 0
             \/ \E w \in Slots : slot'[w].run = r /\ slot'[w].pc = "deadletter"
  BY <1>a DEF FailureRecorded
<1>1. CASE UNCHANGED vars
  BY <1>1, <1>a DEF vars, rows
<1>2. ASSUME NEW h \in Handlers, HandlerStep(h) \/ AbandonRequest(h)
      PROVE  \/ deadLetters'[r] > 0
             \/ \E w \in Slots : slot'[w].run = r /\ slot'[w].pc = "deadletter"
  <2>1. CASE Reopen(h)
    <3>1. status[r] = "failed"
      BY <2>1, <1>0 DEF Reopen, RowsOK
    <3>. QED BY <2>1, <3>1, <1>a DEF Reopen
  <2>2. CASE MarkRequeued(h)
    <3>1. status[r] = "failed" /\ handler[h].run # r
      BY <2>2, <1>0 DEF MarkRequeued, HandlerAgrees
    <3>2. deadLetters'[r] = deadLetters[r]
      BY <2>2, <3>1, <1>0 DEF MarkRequeued, RowsOK
    <3>. QED BY <2>2, <3>1, <3>2 DEF MarkRequeued, FailureRecorded
  <2>3. CASE Enqueue(h) \/ AbandonRequest(h)
    BY <2>3, <1>a DEF Enqueue, AbandonRequest, rows
  <2>. QED BY <1>2, <2>1, <2>2, <2>3 DEF HandlerStep
<1>3. ASSUME NEW h \in Handlers, NEW q \in Runs, CreateRun(h, q) \/ CheckFailed(h, q)
      PROVE  \/ deadLetters'[r] > 0
             \/ \E w \in Slots : slot'[w].run = r /\ slot'[w].pc = "deadletter"
  <2>1. status[r] = "failed"
    BY <1>3, <1>0 DEF CreateRun, CheckFailed, rows, RowsOK
  <2>. QED BY <1>3, <2>1, <1>a DEF CreateRun, CheckFailed, rows
<1>4. ASSUME NEW w \in Slots, SlotStep(w) \/ Crash(w)
      PROVE  \/ deadLetters'[r] > 0
             \/ \E v \in Slots : slot'[v].run = r /\ slot'[v].pc = "deadletter"
  <2>1. CASE MarkFailed(w)
    <3>1. /\ \A v \in Slots \ {w} : slot'[v] = slot[v]
          /\ slot'[w].run = slot[w].run /\ slot'[w].pc = "deadletter"
      BY <2>1, <1>0, MoveView DEF MarkFailed, GoTo
    <3>2. CASE slot[w].run = r
      BY <3>1, <3>2
    <3>3. CASE slot[w].run # r
      <4>1. status[r] = "failed"
        BY <2>1, <3>3, <1>0 DEF MarkFailed, GoTo, RowsOK
      <4>2. \A v \in Slots : Filing(v) => slot'[v] = slot[v]
        BY <2>1, <3>1 DEF MarkFailed, GoTo
      <4>. QED BY <2>1, <4>1, <4>2, <1>a DEF MarkFailed
    <3>. QED BY <3>2, <3>3
  <2>2. CASE RecordDeadLetter(w)
    <3>1. /\ \A v \in Slots \ {w} : slot'[v] = slot[v]
          /\ status[r] = "failed" /\ deadLetters[r] \in Nat
      BY <2>2, <1>0, MoveView DEF RecordDeadLetter, GoTo, RowsOK
    <3>2. CASE slot[w].run = r
      BY <2>2, <3>1, <3>2, <1>0 DEF RecordDeadLetter, GoTo, RowsOK
    <3>3. CASE slot[w].run # r
      <4>1. deadLetters'[r] = deadLetters[r]
        BY <2>2, <3>3, <1>0 DEF RecordDeadLetter, GoTo, RowsOK
      <4>. QED BY <3>1, <3>3, <4>1 DEF FailureRecorded
    <3>. QED BY <3>2, <3>3
  <2>3. CASE ~ MarkFailed(w) /\ ~ RecordDeadLetter(w)
    <3>1. UNCHANGED deadLetters
      BY <1>4, <2>3 DEF SlotStep, Crash, rows, Deliver, IncrementAttempts, LoadRun,
         StartRun, PrologueThrows, ModelAnswers, AttemptThrows, MarkSucceeded,
         RecordSuccess, RecordThrows, CatchAttempt, ScheduleRetry, ReadExhausted,
         IllegalFailure, Complete, ProcessorRejects
    <3>2. status[r] = "failed"
      BY <1>4, <2>3, <1>0 DEF SlotStep, Crash, rows, RowsOK, Deliver, IncrementAttempts,
         LoadRun, StartRun, PrologueThrows, ModelAnswers, AttemptThrows, MarkSucceeded,
         RecordSuccess, RecordThrows, CatchAttempt, ScheduleRetry, ReadExhausted,
         IllegalFailure, Complete, ProcessorRejects
    <3>3. slot[w].pc # "deadletter"
      <4>1. ~ Crash(w) /\ ~ ProcessorRejects(w)
        BY <1>0 DEF Crash, ProcessorRejects
      <4>2. ASSUME NEW from, NEW to, GoTo(w, from, to), from # "deadletter"
            PROVE  slot[w].pc # "deadletter"
        BY <4>2 DEF GoTo
      <4>3. CASE \/ Deliver(w) \/ IncrementAttempts(w) \/ LoadRun(w) \/ PrologueThrows(w)
                 \/ RecordThrows(w) \/ ReadExhausted(w) \/ IllegalFailure(w) \/ Complete(w)
        BY <4>3, Zenon DEF Deliver, IncrementAttempts, LoadRun, PrologueThrows,
           RecordThrows, ReadExhausted, IllegalFailure, Complete
      <4>4. CASE \/ StartRun(w) \/ ModelAnswers(w) \/ AttemptThrows(w) \/ MarkSucceeded(w)
                 \/ RecordSuccess(w) \/ CatchAttempt(w) \/ ScheduleRetry(w)
        BY <4>4, <4>2 DEF StartRun, ModelAnswers, AttemptThrows, MarkSucceeded,
           RecordSuccess, CatchAttempt, ScheduleRetry
      <4>. QED BY <1>4, <2>3, <4>1, <4>3, <4>4 DEF SlotStep
    <3>4. \A v \in Slots \ {w} : slot'[v] = slot[v]
      BY <1>4, <2>3, <1>0 DEF SlotStep, Crash, GoTo, SlotsOK, Deliver, IncrementAttempts,
         LoadRun, StartRun, PrologueThrows, ModelAnswers, AttemptThrows, MarkSucceeded,
         RecordSuccess, RecordThrows, CatchAttempt, ScheduleRetry, ReadExhausted,
         IllegalFailure, Complete, ProcessorRejects
    <3>. QED BY <3>1, <3>2, <3>3, <3>4, <1>a
  <2>. QED BY <2>1, <2>2, <2>3
<1>. QED BY <1>1, <1>2, <1>3, <1>4 DEF Next

(* Under the same assumptions every failed run is in the dead-letter list, *)
(* or the slot that failed it is about to put it there.                    *)
THEOREM FailureRecordedHolds ==
  ASSUME Healthy
  PROVE  Spec => []FailureRecorded
<1>1. Init => FailureRecorded
  BY DEF Init, FailureRecorded
<1>2. IInv /\ FailureRecorded /\ [Next]_vars => FailureRecorded'
  BY FailureRecordedInductive
<1>. QED BY <1>1, <1>2, InductiveInvariant, PTL DEF Spec

(* Under the same assumptions every run is accounted for: open and held,   *)
(* or failed and in the dead-letter list or about to be.                   *)
THEOREM RunsAccountedForHolds ==
  ASSUME Healthy
  PROVE  Spec => []RunsAccountedFor
<1>1. NoLostRun /\ FailureRecorded => RunsAccountedFor
  BY DEF RunsAccountedFor
<1>. QED BY <1>1, NoLostRunHolds, FailureRecordedHolds, PTL

-----------------------------------------------------------------------------
(* How often a run is begun, whatever fails, crashes or races.  A budget   *)
(* is not inductive by itself: a queued job, a slot that may still come to *)
(* a retry and a request about to enqueue each stand for one more attempt. *)
(* They are counted with the attempts spent beyond the last one that may   *)
(* be retried; only a new run, a requeue and a crash add to the sum.  With *)
(* it, and when nothing fails, the plane implements the life of a run that *)
(* RunLifecycle states, step by step.                                      *)

(* Attempts of a run from the one that exhausts the budget on.             *)
Beyond(n) == IF n < MaxAttempts THEN 0 ELSE n - MaxAttempts + 1

Jobs(r) == {j \in StallCount \X (Nat \ {0}) : j[2] <= waiting[r][j[1]]}

TryingPc == {"load", "start", "work", "succeed", "record", "catch", "decide"}
MayBegin(w, r) ==
  /\ slot[w].run = r
  /\ \/ slot[w].pc = "increment"
     \/ slot[w].pc \in TryingPc /\ slot[w].attempt < MaxAttempts
Beginners(r) == {w \in Slots : MayBegin(w, r)}

Requests(r) == {h \in Handlers : handler[h].run = r}

Outstanding(r) ==
  Cardinality(Jobs(r)) + Cardinality(Beginners(r)) + Cardinality(Requests(r))

Counted(r) ==
  /\ IsFiniteSet(Jobs(r)) /\ IsFiniteSet(Beginners(r)) /\ IsFiniteSet(Requests(r))
  /\ Beyond(attempts[r]) + Outstanding(r) <= 1 + requeues[r] + crashes

(* A run without a row has left no trace.                                  *)
Untouched(r) ==
  status[r] = "absent" =>
    /\ attempts[r] = 0 /\ tries[r] = 0 /\ Jobs(r) = {} /\ Requests(r) = {}
    /\ \A w \in Slots : slot[w].run # r

BudgetInv == TypeOK /\ \A r \in Runs : Counted(r) /\ Untouched(r)

-----------------------------------------------------------------------------
(* Counting *)

(* A finite set that gains or loses one element.                           *)
LEMMA CountMoves ==
  ASSUME NEW S, NEW T, NEW x, IsFiniteSet(S), S \ {x} = T \ {x}
  PROVE  /\ IsFiniteSet(T)
         /\ Cardinality(S) \in Nat /\ Cardinality(T) \in Nat
         /\ Cardinality(T) + (IF x \in S THEN 1 ELSE 0)
              = Cardinality(S) + (IF x \in T THEN 1 ELSE 0)
<1> DEFINE R == S \ {x}
<1>1. IsFiniteSet(R) /\ Cardinality(R) \in Nat /\ Cardinality(S) \in Nat
  BY FS_RemoveElement, FS_CardinalityType
<1>2. x \notin R
  OBVIOUS
<1>3. IsFiniteSet(R \cup {x}) /\ Cardinality(R \cup {x}) = Cardinality(R) + 1
  BY <1>1, <1>2, FS_AddElement
<1>4. /\ x \in S => S = R \cup {x}
      /\ x \notin S => S = R
  OBVIOUS
<1>5. /\ x \in T => T = R \cup {x}
      /\ x \notin T => T = R
  OBVIOUS
<1> HIDE DEF R
<1>6. Cardinality(S) = Cardinality(R) + (IF x \in S THEN 1 ELSE 0)
  <2>1. CASE x \in S
    BY <2>1, <1>1, <1>3, <1>4
  <2>2. CASE x \notin S
    BY <2>2, <1>1, <1>4
  <2>. QED BY <2>1, <2>2
<1>7. /\ IsFiniteSet(T)
      /\ Cardinality(T) = Cardinality(R) + (IF x \in T THEN 1 ELSE 0)
  <2>1. CASE x \in T
    BY <2>1, <1>1, <1>3, <1>5
  <2>2. CASE x \notin T
    BY <2>2, <1>1, <1>5
  <2>. QED BY <2>1, <2>2
<1>. QED BY <1>1, <1>6, <1>7

LEMMA JobAdded ==
  ASSUME QueueOK, NEW r \in Runs, NEW s \in StallCount,
         waiting' = [waiting EXCEPT ![r][s] = @ + 1]
  PROVE  /\ \A q \in Runs \ {r} : Jobs(q)' = Jobs(q)
         /\ IsFiniteSet(Jobs(r)) =>
              /\ IsFiniteSet(Jobs(r)')
              /\ Cardinality(Jobs(r)) \in Nat
              /\ Cardinality(Jobs(r)') = Cardinality(Jobs(r)) + 1
<1> DEFINE new == <<s, waiting[r][s] + 1>>
<1>1. waiting \in [Runs -> [StallCount -> Nat]] /\ waiting[r][s] \in Nat
  BY DEF QueueOK
<1>2. \A q \in Runs \ {r} : Jobs(q)' = Jobs(q)
  BY <1>1 DEF Jobs
<1>3. \A t \in StallCount : waiting'[r][t] = IF t = s THEN waiting[r][s] + 1 ELSE waiting[r][t]
  BY <1>1
<1>4. new \notin Jobs(r) /\ new \in Jobs(r)'
  BY <1>1, <1>3 DEF Jobs
<1>5. ASSUME NEW j \in StallCount \X (Nat \ {0}), j # new
      PROVE  j[2] <= waiting[r][j[1]] <=> j[2] <= waiting'[r][j[1]]
  BY <1>1, <1>3, <1>5
<1>6. Jobs(r) \ {new} = Jobs(r)' \ {new}
  BY <1>5 DEF Jobs
<1> HIDE DEF new
<1>. QED BY <1>2, <1>4, <1>6, CountMoves

LEMMA JobTaken ==
  ASSUME QueueOK, NEW r \in Runs, NEW s \in StallCount, waiting[r][s] > 0,
         waiting' = [waiting EXCEPT ![r][s] = @ - 1]
  PROVE  /\ \A q \in Runs \ {r} : Jobs(q)' = Jobs(q)
         /\ Jobs(r) # {}
         /\ IsFiniteSet(Jobs(r)) =>
              /\ IsFiniteSet(Jobs(r)')
              /\ Cardinality(Jobs(r)') \in Nat
              /\ Cardinality(Jobs(r)) = Cardinality(Jobs(r)') + 1
<1> DEFINE old == <<s, waiting[r][s]>>
<1>1. waiting \in [Runs -> [StallCount -> Nat]] /\ waiting[r][s] \in Nat
  BY DEF QueueOK
<1>2. \A q \in Runs \ {r} : Jobs(q)' = Jobs(q)
  BY <1>1 DEF Jobs
<1>3. \A t \in StallCount : waiting'[r][t] = IF t = s THEN waiting[r][s] - 1 ELSE waiting[r][t]
  BY <1>1
<1>4. old \in Jobs(r) /\ old \notin Jobs(r)'
  BY <1>1, <1>3 DEF Jobs
<1>5. ASSUME NEW j \in StallCount \X (Nat \ {0}), j # old
      PROVE  j[2] <= waiting[r][j[1]] <=> j[2] <= waiting'[r][j[1]]
  BY <1>1, <1>3, <1>5
<1>6. Jobs(r) \ {old} = Jobs(r)' \ {old}
  BY <1>5 DEF Jobs
<1> HIDE DEF old
<1>. QED BY <1>2, <1>4, <1>6, CountMoves

LEMMA JobsStay == ASSUME UNCHANGED waiting PROVE \A q \in Runs : Jobs(q)' = Jobs(q)
BY DEF Jobs

(* Only one slot, or one request, moves at a time.                         *)
LEMMA BeginnersMove ==
  ASSUME NEW w \in Slots, NEW q \in Runs, IsFiniteSet(Beginners(q)),
         \A v \in Slots \ {w} : slot'[v] = slot[v]
  PROVE  /\ IsFiniteSet(Beginners(q)')
         /\ Cardinality(Beginners(q)) \in Nat /\ Cardinality(Beginners(q)') \in Nat
         /\ Cardinality(Beginners(q)') + (IF MayBegin(w, q) THEN 1 ELSE 0)
              = Cardinality(Beginners(q)) + (IF MayBegin(w, q)' THEN 1 ELSE 0)
<1>1. Beginners(q) \ {w} = Beginners(q)' \ {w}
  BY DEF Beginners, MayBegin
<1>2. /\ w \in Beginners(q) <=> MayBegin(w, q)
      /\ w \in Beginners(q)' <=> MayBegin(w, q)'
  BY DEF Beginners
<1>. QED BY <1>1, <1>2, CountMoves

LEMMA RequestsMove ==
  ASSUME NEW h \in Handlers, NEW q \in Runs, IsFiniteSet(Requests(q)),
         \A g \in Handlers \ {h} : handler'[g] = handler[g]
  PROVE  /\ IsFiniteSet(Requests(q)')
         /\ Cardinality(Requests(q)) \in Nat /\ Cardinality(Requests(q)') \in Nat
         /\ Cardinality(Requests(q)') + (IF handler[h].run = q THEN 1 ELSE 0)
              = Cardinality(Requests(q)) + (IF handler'[h].run = q THEN 1 ELSE 0)
<1>1. Requests(q) \ {h} = Requests(q)' \ {h}
  BY DEF Requests
<1>2. /\ h \in Requests(q) <=> handler[h].run = q
      /\ h \in Requests(q)' <=> handler'[h].run = q
  BY DEF Requests
<1>. QED BY <1>1, <1>2, CountMoves

-----------------------------------------------------------------------------
(* The steps of a slot *)

LEMMA AttemptStays ==
  ASSUME SlotsOK, NEW w \in Slots, NEW pc, NEW seen,
         \/ slot' = [slot EXCEPT ![w].pc = pc]
         \/ slot' = [slot EXCEPT ![w].pc = pc, ![w].seen = seen]
  PROVE  /\ \A v \in Slots \ {w} : slot'[v] = slot[v]
         /\ slot'[w].run = slot[w].run /\ slot'[w].pc = pc
         /\ slot'[w].attempt = slot[w].attempt
<1>1. slot \in [Slots -> SlotType] /\ slot[w] \in SlotType
  BY DEF SlotsOK
<1>. QED BY <1>1 DEF SlotType

(* What a slot may do to the count in most of its steps: nothing is begun, *)
(* queued or requeued, and the slot comes no nearer to another attempt.    *)
Quiet(w) ==
  /\ UNCHANGED <<attempts, tries, waiting, handler, requeues, crashes>>
  /\ \A v \in Slots \ {w} : slot'[v] = slot[v]
  /\ slot'[w].run \in {slot[w].run, NoRun}
  /\ \A q \in Runs : MayBegin(w, q)' => MayBegin(w, q)
  /\ \A q \in Runs : status'[q] = "absent" => status[q] = "absent"

LEMMA QuietSteps ==
  ASSUME TypeOK, NEW w \in Slots, SlotStep(w),
         ~ Deliver(w), ~ IncrementAttempts(w), ~ ScheduleRetry(w)
  PROVE  Quiet(w)
<1>0. SlotsOK /\ RowsOK /\ slot \in [Slots -> SlotType]
  BY DEF TypeOK, SlotsOK
<1>1. ASSUME NEW from, NEW to, slot[w].pc = from, to # "increment",
             to \in TryingPc => from \in TryingPc,
             \/ slot' = [slot EXCEPT ![w].pc = to]
             \/ \E seen : slot' = [slot EXCEPT ![w].pc = to, ![w].seen = seen]
      PROVE  /\ \A v \in Slots \ {w} : slot'[v] = slot[v]
             /\ slot'[w].run = slot[w].run
             /\ \A q \in Runs : MayBegin(w, q)' => MayBegin(w, q)
  <2>1. /\ \A v \in Slots \ {w} : slot'[v] = slot[v]
        /\ slot'[w].run = slot[w].run /\ slot'[w].pc = to
        /\ slot'[w].attempt = slot[w].attempt
    BY <1>0, <1>1, AttemptStays
  <2>. QED BY <1>1, <2>1 DEF MayBegin
<1>2. ASSUME slot' = [slot EXCEPT ![w] = IdleSlot]
      PROVE  /\ \A v \in Slots \ {w} : slot'[v] = slot[v]
             /\ slot'[w].run = NoRun
             /\ \A q \in Runs : MayBegin(w, q)' => MayBegin(w, q)
  BY <1>0, <1>2, ConstantsAssumption DEF MayBegin, IdleSlot, TryingPc
<1>3. UNCHANGED <<attempts, tries, waiting, handler, requeues, crashes>>
  BY Zenon DEF SlotStep, rows, bounds, LoadRun, StartRun, PrologueThrows, ModelAnswers,
     AttemptThrows, MarkSucceeded, RecordSuccess, RecordThrows, CatchAttempt,
     ReadExhausted, MarkFailed, IllegalFailure, RecordDeadLetter, Complete,
     ProcessorRejects
<1>4. \A q \in Runs : status'[q] = "absent" => status[q] = "absent"
  BY <1>0 DEF RowsOK, SlotStep, rows, bounds, LoadRun, StartRun, PrologueThrows,
     ModelAnswers, AttemptThrows, MarkSucceeded, RecordSuccess, RecordThrows,
     CatchAttempt, ReadExhausted, MarkFailed, IllegalFailure, RecordDeadLetter,
     Complete, ProcessorRejects, GoTo
<1>5. CASE \/ StartRun(w) \/ ModelAnswers(w) \/ AttemptThrows(w) \/ MarkSucceeded(w)
           \/ RecordSuccess(w) \/ CatchAttempt(w) \/ MarkFailed(w) \/ RecordDeadLetter(w)
  <2>1. \E from, to \in PcOfSlot :
          /\ GoTo(w, from, to) /\ to # "increment"
          /\ to \in TryingPc => from \in TryingPc
    BY <1>5 DEF StartRun, ModelAnswers, AttemptThrows, MarkSucceeded, RecordSuccess,
       CatchAttempt, MarkFailed, RecordDeadLetter, PcOfSlot, TryingPc
  <2>. QED BY <2>1, <1>1, <1>3, <1>4 DEF Quiet, GoTo
<1>6. CASE PrologueThrows(w) \/ RecordThrows(w)
  BY <1>6, <1>1, <1>3, <1>4 DEF Quiet, PrologueThrows, RecordThrows, TryingPc
<1>7. CASE LoadRun(w) \/ ReadExhausted(w)
  BY <1>7, <1>1, <1>3, <1>4 DEF Quiet, LoadRun, ReadExhausted, TryingPc
<1>8. CASE IllegalFailure(w) \/ Complete(w) \/ ProcessorRejects(w)
  BY <1>8, <1>2, <1>3, <1>4 DEF Quiet, IllegalFailure, Complete, ProcessorRejects
<1>. QED BY <1>5, <1>6, <1>7, <1>8 DEF SlotStep

LEMMA QuietStepCounts ==
  ASSUME BudgetInv, NEW w \in Slots, Quiet(w), NEW q \in Runs
  PROVE  Counted(q)' /\ Untouched(q)'
<1>0. Counted(q) /\ Untouched(q) /\ RowsOK /\ BoundsOK
  BY DEF BudgetInv, TypeOK
<1>1. /\ Jobs(q)' = Jobs(q) /\ Requests(q)' = Requests(q)
      /\ attempts'[q] = attempts[q] /\ tries'[q] = tries[q]
      /\ requeues'[q] = requeues[q] /\ crashes' = crashes
  BY DEF Quiet, Jobs, Requests
<1>2. /\ IsFiniteSet(Beginners(q)')
      /\ Cardinality(Beginners(q)) \in Nat /\ Cardinality(Beginners(q)') \in Nat
      /\ Cardinality(Beginners(q)') <= Cardinality(Beginners(q))
  BY <1>0, BeginnersMove DEF Quiet, Counted
<1>3. /\ Cardinality(Jobs(q)) \in Nat /\ Cardinality(Requests(q)) \in Nat
      /\ Beyond(attempts[q]) \in Nat /\ requeues[q] \in Nat /\ crashes \in Nat
  BY <1>0, FS_CardinalityType, ConstantsAssumption DEF Counted, Beyond, RowsOK, BoundsOK
<1>4. Beyond(attempts[q])' = Beyond(attempts[q])
  BY <1>1 DEF Beyond
<1>5. Counted(q)'
  BY <1>0, <1>1, <1>2, <1>3, <1>4 DEF Counted, Outstanding
<1>6. Untouched(q)'
  <2>1. status'[q] = "absent" => status[q] = "absent"
    BY DEF Quiet
  <2>2. (\A v \in Slots : slot[v].run # q) => \A v \in Slots : slot'[v].run # q
    BY ConstantsAssumption DEF Quiet
  <2>. QED BY <1>0, <1>1, <2>1, <2>2 DEF Untouched
<1>. QED BY <1>5, <1>6

(* The steps that begin an attempt, queue one or die.                      *)
LEMMA DeliverCounts ==
  ASSUME BudgetInv, NEW w \in Slots, Deliver(w), NEW q \in Runs
  PROVE  Counted(q)' /\ Untouched(q)'
<1>0. Counted(q) /\ Untouched(q) /\ RowsOK /\ BoundsOK /\ QueueOK /\ SlotsOK
  BY DEF BudgetInv, TypeOK
<1>1. PICK r \in Runs, s \in StallCount :
        /\ waiting[r][s] > 0
        /\ waiting' = [waiting EXCEPT ![r][s] = @ - 1]
        /\ slot' = [slot EXCEPT ![w] = [IdleSlot EXCEPT !.pc = "increment",
                                                        !.run = r, !.stalls = s]]
  BY DEF Deliver
<1>2. /\ slot'[w].run = r /\ slot'[w].pc = "increment"
      /\ \A v \in Slots \ {w} : slot'[v] = slot[v]
  BY <1>0, <1>1 DEF SlotsOK, IdleSlot
<1>3. /\ UNCHANGED <<attempts, tries, handler, requeues, crashes, status>>
      /\ Requests(q)' = Requests(q) /\ Beyond(attempts[q])' = Beyond(attempts[q])
  BY DEF Deliver, rows, bounds, Requests, Beyond
<1>4. /\ MayBegin(w, q)' <=> q = r
      /\ ~ MayBegin(w, q)
  BY <1>2 DEF Deliver, MayBegin, TryingPc
<1>5. /\ IsFiniteSet(Beginners(q)')
      /\ Cardinality(Beginners(q)) \in Nat /\ Cardinality(Beginners(q)') \in Nat
      /\ Cardinality(Beginners(q)')
           = Cardinality(Beginners(q)) + (IF q = r THEN 1 ELSE 0)
  BY <1>0, <1>2, <1>4, BeginnersMove DEF Counted
<1>6. /\ IsFiniteSet(Jobs(q)')
      /\ Cardinality(Jobs(q)') \in Nat /\ Cardinality(Jobs(q)) \in Nat
      /\ Cardinality(Jobs(q)) = Cardinality(Jobs(q)') + (IF q = r THEN 1 ELSE 0)
  <2>1. CASE q = r
    BY <2>1, <1>0, <1>1, JobTaken, FS_CardinalityType DEF Counted
  <2>2. CASE q # r
    <3>1. Jobs(q)' = Jobs(q)
      BY <2>2, <1>0, <1>1, JobTaken
    <3>. QED BY <2>2, <3>1, <1>0, FS_CardinalityType DEF Counted
  <2>. QED BY <2>1, <2>2
<1>7. /\ Cardinality(Requests(q)) \in Nat /\ IsFiniteSet(Requests(q))
      /\ Beyond(attempts[q]) \in Nat /\ requeues[q] \in Nat /\ crashes \in Nat
  BY <1>0, FS_CardinalityType, ConstantsAssumption DEF Counted, Beyond, RowsOK, BoundsOK
<1>8. Counted(q)'
  BY <1>0, <1>3, <1>5, <1>6, <1>7 DEF Counted, Outstanding
<1>9. Untouched(q)'
  <2>1. CASE q = r
    BY <2>1, <1>0, <1>1, <1>3, JobTaken DEF Untouched
  <2>2. CASE q # r
    <3>1. Jobs(q)' = Jobs(q)
      BY <2>2, <1>0, <1>1, JobTaken
    <3>. QED BY <2>2, <3>1, <1>0, <1>2, <1>3 DEF Untouched
  <2>. QED BY <2>1, <2>2
<1>. QED BY <1>8, <1>9

LEMMA IncrementCounts ==
  ASSUME BudgetInv, NEW w \in Slots, IncrementAttempts(w), NEW q \in Runs
  PROVE  Counted(q)' /\ Untouched(q)'
<1> DEFINE r == slot[w].run
<1>0. Counted(q) /\ Untouched(q) /\ RowsOK /\ BoundsOK /\ SlotsOK
  BY DEF BudgetInv, TypeOK
<1>1. r \in Runs /\ slot[w] \in SlotType /\ slot \in [Slots -> SlotType]
  BY <1>0, BusyHoldsRun DEF IncrementAttempts, SlotsOK
<1>2. /\ slot'[w].run = r /\ slot'[w].pc = "load" /\ slot'[w].attempt = attempts[r] + 1
      /\ \A v \in Slots \ {w} : slot'[v] = slot[v]
  BY <1>1 DEF IncrementAttempts, SlotType
<1>3. /\ UNCHANGED <<waiting, handler, requeues, crashes, status>>
      /\ Requests(q)' = Requests(q) /\ Jobs(q)' = Jobs(q)
  BY DEF IncrementAttempts, bounds, Requests, Jobs
<1>4. /\ attempts'[q] = attempts[q] + (IF q = r THEN 1 ELSE 0)
      /\ q # r => tries'[q] = tries[q]
      /\ attempts[q] \in Nat
  BY <1>0, <1>1 DEF IncrementAttempts, RowsOK
<1>5. /\ MayBegin(w, q) <=> q = r
      /\ MayBegin(w, q)' <=> q = r /\ attempts[q] + 1 < MaxAttempts
  BY <1>2 DEF IncrementAttempts, MayBegin, TryingPc
<1>6. /\ IsFiniteSet(Beginners(q)')
      /\ Cardinality(Beginners(q)) \in Nat /\ Cardinality(Beginners(q)') \in Nat
      /\ Cardinality(Beginners(q)') + (IF q = r THEN 1 ELSE 0) =
           Cardinality(Beginners(q))
             + (IF q = r /\ attempts[q] + 1 < MaxAttempts THEN 1 ELSE 0)
  BY <1>0, <1>2, <1>5, BeginnersMove DEF Counted
<1>7. /\ Cardinality(Requests(q)) \in Nat /\ IsFiniteSet(Requests(q))
      /\ Cardinality(Jobs(q)) \in Nat /\ IsFiniteSet(Jobs(q))
      /\ requeues[q] \in Nat /\ crashes \in Nat
  BY <1>0, FS_CardinalityType DEF Counted, BoundsOK
<1>8. /\ Beyond(attempts[q]) \in Nat /\ Beyond(attempts[q])' \in Nat
      /\ Beyond(attempts[q])' = Beyond(attempts[q])
           + (IF q = r /\ attempts[q] + 1 >= MaxAttempts THEN 1 ELSE 0)
  BY <1>4, ConstantsAssumption DEF Beyond
<1>9. Counted(q)'
  BY <1>0, <1>3, <1>4, <1>6, <1>7, <1>8, ConstantsAssumption DEF Counted, Outstanding
<1>10. Untouched(q)'
  <2>1. (\A v \in Slots : slot[v].run # q) => q # r /\ \A v \in Slots : slot'[v].run # q
    BY <1>2
  <2>. QED BY <2>1, <1>0, <1>3, <1>4 DEF Untouched
<1>. QED BY <1>9, <1>10

LEMMA ScheduleCounts ==
  ASSUME BudgetInv, NEW w \in Slots, ScheduleRetry(w), NEW q \in Runs
  PROVE  Counted(q)' /\ Untouched(q)'
<1> DEFINE r == slot[w].run
<1>0. Counted(q) /\ Untouched(q) /\ RowsOK /\ BoundsOK /\ SlotsOK /\ QueueOK
  BY DEF BudgetInv, TypeOK
<1>1. r \in Runs /\ 0 \in StallCount
  BY <1>0, BusyHoldsRun, ConstantsAssumption DEF ScheduleRetry, GoTo, StallCount
<1>2. /\ slot'[w].run = r /\ slot'[w].pc = "complete"
      /\ \A v \in Slots \ {w} : slot'[v] = slot[v]
  BY <1>0, AttemptStays DEF ScheduleRetry, GoTo
<1>3. /\ UNCHANGED <<attempts, tries, handler, requeues, crashes, status>>
      /\ Requests(q)' = Requests(q) /\ Beyond(attempts[q])' = Beyond(attempts[q])
  BY DEF ScheduleRetry, rows, bounds, Requests, Beyond
<1>4. /\ MayBegin(w, q) <=> q = r
      /\ ~ MayBegin(w, q)'
  BY <1>2 DEF ScheduleRetry, GoTo, MayBegin, TryingPc
<1>5. /\ IsFiniteSet(Beginners(q)')
      /\ Cardinality(Beginners(q)) \in Nat /\ Cardinality(Beginners(q)') \in Nat
      /\ Cardinality(Beginners(q)') + (IF q = r THEN 1 ELSE 0)
           = Cardinality(Beginners(q))
  BY <1>0, <1>2, <1>4, BeginnersMove DEF Counted
<1>6. /\ IsFiniteSet(Jobs(q)') /\ Cardinality(Jobs(q)) \in Nat
      /\ Cardinality(Jobs(q)') = Cardinality(Jobs(q)) + (IF q = r THEN 1 ELSE 0)
      /\ q # r => Jobs(q)' = Jobs(q)
  <2>0. waiting' = [waiting EXCEPT ![r][0] = @ + 1]
    BY DEF ScheduleRetry
  <2>1. CASE q = r
    BY <2>0, <2>1, <1>0, <1>1, JobAdded DEF Counted
  <2>2. CASE q # r
    <3>1. Jobs(q)' = Jobs(q)
      BY <2>0, <2>2, <1>0, <1>1, JobAdded
    <3>. QED BY <2>2, <3>1, <1>0, FS_CardinalityType DEF Counted
  <2>. QED BY <2>1, <2>2
<1>7. /\ Cardinality(Requests(q)) \in Nat /\ IsFiniteSet(Requests(q))
      /\ Beyond(attempts[q]) \in Nat /\ requeues[q] \in Nat /\ crashes \in Nat
  BY <1>0, FS_CardinalityType, ConstantsAssumption DEF Counted, Beyond, RowsOK, BoundsOK
<1>8. Counted(q)'
  BY <1>0, <1>3, <1>5, <1>6, <1>7 DEF Counted, Outstanding
<1>9. Untouched(q)'
  BY <1>0, <1>2, <1>3, <1>6 DEF Untouched
<1>. QED BY <1>8, <1>9

LEMMA CrashCounts ==
  ASSUME BudgetInv, NEW w \in Slots, Crash(w), NEW q \in Runs
  PROVE  Counted(q)' /\ Untouched(q)'
<1> DEFINE r == slot[w].run
<1> DEFINE s == slot[w].stalls
<1>0. Counted(q) /\ Untouched(q) /\ RowsOK /\ BoundsOK /\ SlotsOK /\ QueueOK
  BY DEF BudgetInv, TypeOK
<1>1. r \in Runs /\ s \in StallCount /\ slot \in [Slots -> SlotType]
  BY <1>0, BusyHoldsRun DEF Crash, SlotsOK, SlotType
<1>2. /\ slot'[w].run = NoRun /\ slot'[w].pc = "idle"
      /\ \A v \in Slots \ {w} : slot'[v] = slot[v]
  BY <1>1 DEF Crash, IdleSlot
<1>3. /\ UNCHANGED <<attempts, tries, handler, requeues, status>>
      /\ crashes' = crashes + 1
      /\ Requests(q)' = Requests(q) /\ Beyond(attempts[q])' = Beyond(attempts[q])
  BY DEF Crash, rows, bounds, Requests, Beyond
<1>4. ~ MayBegin(w, q)'
  BY <1>2 DEF MayBegin, TryingPc
<1>5. /\ IsFiniteSet(Beginners(q)')
      /\ Cardinality(Beginners(q)) \in Nat /\ Cardinality(Beginners(q)') \in Nat
      /\ Cardinality(Beginners(q)') <= Cardinality(Beginners(q))
  BY <1>0, <1>2, <1>4, BeginnersMove DEF Counted
<1>6. /\ IsFiniteSet(Jobs(q)')
      /\ Cardinality(Jobs(q)) \in Nat /\ Cardinality(Jobs(q)') \in Nat
      /\ Cardinality(Jobs(q)') <= Cardinality(Jobs(q)) + 1
      /\ q # r => Jobs(q)' = Jobs(q)
  <2>1. CASE s < MaxStalled
    <3>1. PICK t \in StallCount : t = s + 1
      BY <2>1, <1>1, ConstantsAssumption DEF StallCount
    <3>2. waiting' = [waiting EXCEPT ![r][t] = @ + 1]
      BY <2>1, <3>1 DEF Crash
    <3>3. CASE q = r
      <4>1. /\ IsFiniteSet(Jobs(q)') /\ Cardinality(Jobs(q)) \in Nat
            /\ Cardinality(Jobs(q)') = Cardinality(Jobs(q)) + 1
        BY <3>2, <3>3, <1>0, JobAdded DEF Counted
      <4>. QED BY <3>3, <4>1
    <3>4. CASE q # r
      <4>1. Jobs(q)' = Jobs(q)
        BY <3>2, <3>4, <1>0, <1>1, JobAdded
      <4>. QED BY <3>4, <4>1, <1>0, FS_CardinalityType DEF Counted
    <3>. QED BY <3>3, <3>4
  <2>2. CASE ~ (s < MaxStalled)
    <3>1. Jobs(q)' = Jobs(q)
      BY <2>2, JobsStay DEF Crash
    <3>. QED BY <3>1, <1>0, FS_CardinalityType DEF Counted
  <2>. QED BY <2>1, <2>2
<1>7. /\ Cardinality(Requests(q)) \in Nat /\ IsFiniteSet(Requests(q))
      /\ Beyond(attempts[q]) \in Nat /\ requeues[q] \in Nat /\ crashes \in Nat
  BY <1>0, FS_CardinalityType, ConstantsAssumption DEF Counted, Beyond, RowsOK, BoundsOK
<1>8. Counted(q)'
  BY <1>0, <1>3, <1>5, <1>6, <1>7 DEF Counted, Outstanding
<1>9. Untouched(q)'
  BY <1>0, <1>1, <1>2, <1>3, <1>6, ConstantsAssumption DEF Untouched
<1>. QED BY <1>8, <1>9

-----------------------------------------------------------------------------
(* The steps of a request *)

(* A request that ends, or goes on with its run, adds nothing.             *)
LEMMA RequestGoesOn ==
  ASSUME BudgetInv, NEW h \in Handlers, NEW q \in Runs,
         UNCHANGED <<waiting, slot, requeues, crashes>>,
         \A g \in Handlers \ {h} : handler'[g] = handler[g],
         handler'[h].run \in {handler[h].run, NoRun},
         attempts'[q] \in {0, attempts[q]},
         status'[q] = "absent" =>
           status[q] = "absent" /\ attempts'[q] = attempts[q] /\ tries'[q] = tries[q]
  PROVE  Counted(q)' /\ Untouched(q)'
<1>0. Counted(q) /\ Untouched(q) /\ RowsOK /\ BoundsOK
  BY DEF BudgetInv, TypeOK
<1>1. Jobs(q)' = Jobs(q) /\ Beginners(q)' = Beginners(q)
  BY DEF Jobs, Beginners, MayBegin
<1>2. /\ IsFiniteSet(Requests(q)')
      /\ Cardinality(Requests(q)) \in Nat /\ Cardinality(Requests(q)') \in Nat
      /\ Cardinality(Requests(q)') <= Cardinality(Requests(q))
  <2>1. handler'[h].run = q => handler[h].run = q
    BY ConstantsAssumption
  <2>. QED BY <2>1, <1>0, RequestsMove DEF Counted
<1>3. /\ Cardinality(Jobs(q)) \in Nat /\ Cardinality(Beginners(q)) \in Nat
      /\ requeues[q] \in Nat /\ crashes \in Nat
  BY <1>0, FS_CardinalityType DEF Counted, BoundsOK
<1>4. /\ Beyond(attempts[q]) \in Nat /\ Beyond(attempts[q])' \in Nat
      /\ Beyond(attempts[q])' <= Beyond(attempts[q])
  BY <1>0, ConstantsAssumption DEF Beyond, RowsOK
<1>5. Counted(q)'
  BY <1>0, <1>1, <1>2, <1>3, <1>4 DEF Counted, Outstanding
<1>6. Untouched(q)'
  <2>1. (Requests(q) = {}) => (Requests(q)' = {})
    BY ConstantsAssumption DEF Requests
  <2>. QED BY <2>1, <1>0, <1>1 DEF Untouched
<1>. QED BY <1>5, <1>6

LEMMA CreateCounts ==
  ASSUME BudgetInv, NEW h \in Handlers, NEW r \in Runs, CreateRun(h, r), NEW q \in Runs
  PROVE  Counted(q)' /\ Untouched(q)'
<1>0. Counted(q) /\ Untouched(q) /\ RowsOK /\ BoundsOK /\ HandlersOK
  BY DEF BudgetInv, TypeOK
<1>1. /\ UNCHANGED <<attempts, tries, waiting, slot, requeues, crashes>>
      /\ Jobs(q)' = Jobs(q) /\ Beginners(q)' = Beginners(q)
      /\ Beyond(attempts[q])' = Beyond(attempts[q])
  BY DEF CreateRun, bounds, Jobs, Beginners, MayBegin, Beyond
<1>2. /\ status'[q] = IF q = r THEN "queued" ELSE status[q]
      /\ handler'[h].run = r /\ handler[h].run = NoRun
      /\ \A g \in Handlers \ {h} : handler'[g] = handler[g]
  BY <1>0 DEF CreateRun, RowsOK, HandlersOK
<1>3. /\ IsFiniteSet(Requests(q)')
      /\ Cardinality(Requests(q)) \in Nat /\ Cardinality(Requests(q)') \in Nat
      /\ Cardinality(Requests(q)') = Cardinality(Requests(q)) + (IF q = r THEN 1 ELSE 0)
  BY <1>0, <1>2, RequestsMove, ConstantsAssumption DEF Counted
<1>4. Counted(q)'
  <2>1. CASE q = r
    <3>1. \A w \in Slots : ~ MayBegin(w, q)
      BY <2>1, <1>0 DEF Untouched, CreateRun, MayBegin
    <3>2. /\ Jobs(q) = {} /\ Requests(q) = {} /\ Beginners(q) = {}
          /\ Beyond(attempts[q]) = 0
      BY <2>1, <3>1, <1>0, ConstantsAssumption
         DEF Untouched, CreateRun, Beginners, Beyond
    <3>3. requeues[q] \in Nat /\ crashes \in Nat
      BY <1>0 DEF BoundsOK
    <3>. QED BY <2>1, <3>2, <3>3, <1>0, <1>1, <1>3, FS_EmptySet DEF Counted, Outstanding
  <2>2. CASE q # r
    BY <2>2, <1>0, <1>1, <1>3 DEF Counted, Outstanding
  <2>. QED BY <2>1, <2>2
<1>5. Untouched(q)'
  <2>1. q # r => Requests(q)' = Requests(q)
    BY <1>2, ConstantsAssumption DEF Requests
  <2>. QED BY <2>1, <1>0, <1>1, <1>2 DEF Untouched
<1>. QED BY <1>4, <1>5

LEMMA CheckCounts ==
  ASSUME BudgetInv, NEW h \in Handlers, NEW r \in Runs, CheckFailed(h, r), NEW q \in Runs
  PROVE  Counted(q)' /\ Untouched(q)'
<1>0. Counted(q) /\ Untouched(q) /\ RowsOK /\ BoundsOK /\ HandlersOK
  BY DEF BudgetInv, TypeOK
<1>1. /\ UNCHANGED <<attempts, tries, status, waiting, slot, crashes>>
      /\ Jobs(q)' = Jobs(q) /\ Beginners(q)' = Beginners(q)
      /\ Beyond(attempts[q])' = Beyond(attempts[q])
  BY DEF CheckFailed, rows, Jobs, Beginners, MayBegin, Beyond
<1>2. /\ requeues'[q] = requeues[q] + (IF q = r THEN 1 ELSE 0)
      /\ handler'[h].run = r /\ handler[h].run = NoRun
      /\ \A g \in Handlers \ {h} : handler'[g] = handler[g]
  BY <1>0 DEF CheckFailed, BoundsOK, HandlersOK
<1>3. /\ IsFiniteSet(Requests(q)')
      /\ Cardinality(Requests(q)) \in Nat /\ Cardinality(Requests(q)') \in Nat
      /\ Cardinality(Requests(q)') = Cardinality(Requests(q)) + (IF q = r THEN 1 ELSE 0)
  BY <1>0, <1>2, RequestsMove, ConstantsAssumption DEF Counted
<1>4. /\ Cardinality(Jobs(q)) \in Nat /\ Cardinality(Beginners(q)) \in Nat
      /\ Beyond(attempts[q]) \in Nat /\ requeues[q] \in Nat /\ crashes \in Nat
  <2>1. Cardinality(Jobs(q)) \in Nat /\ Cardinality(Beginners(q)) \in Nat
    BY <1>0, FS_CardinalityType DEF Counted
  <2>2. requeues[q] \in Nat /\ crashes \in Nat
    BY <1>0 DEF BoundsOK
  <2>3. attempts[q] \in Nat
    BY <1>0 DEF RowsOK
  <2>4. Beyond(attempts[q]) \in Nat
    BY <2>3, ConstantsAssumption DEF Beyond
  <2>. QED BY <2>1, <2>2, <2>4
<1>5. Counted(q)'
  BY <1>0, <1>1, <1>2, <1>3, <1>4 DEF Counted, Outstanding
<1>6. Untouched(q)'
  <2>1. q # r => Requests(q)' = Requests(q)
    BY <1>2, ConstantsAssumption DEF Requests
  <2>2. q = r => status[q] # "absent"
    BY DEF CheckFailed
  <2>. QED BY <2>1, <2>2, <1>0, <1>1, <1>2 DEF Untouched
<1>. QED BY <1>5, <1>6

LEMMA EnqueueCounts ==
  ASSUME BudgetInv, NEW h \in Handlers, Enqueue(h), NEW q \in Runs
  PROVE  Counted(q)' /\ Untouched(q)'
<1> DEFINE r == handler[h].run
<1>0. Counted(q) /\ Untouched(q) /\ RowsOK /\ BoundsOK /\ HandlersOK /\ QueueOK
  BY DEF BudgetInv, TypeOK
<1>1. r \in Runs /\ 0 \in StallCount /\ waiting' = [waiting EXCEPT ![r][0] = @ + 1]
  BY <1>0, ConstantsAssumption DEF Enqueue, HandlersOK, HandlerType, StallCount
<1>2. /\ UNCHANGED <<attempts, tries, status, slot, requeues, crashes>>
      /\ Beginners(q)' = Beginners(q) /\ Beyond(attempts[q])' = Beyond(attempts[q])
  BY DEF Enqueue, rows, bounds, Beginners, MayBegin, Beyond
<1>3. /\ handler'[h].run = NoRun
      /\ \A g \in Handlers \ {h} : handler'[g] = handler[g]
  BY <1>0 DEF Enqueue, HandlersOK, IdleHandler
<1>4. /\ IsFiniteSet(Requests(q)')
      /\ Cardinality(Requests(q)) \in Nat /\ Cardinality(Requests(q)') \in Nat
      /\ Cardinality(Requests(q)') + (IF q = r THEN 1 ELSE 0) = Cardinality(Requests(q))
  BY <1>0, <1>3, RequestsMove, ConstantsAssumption DEF Counted
<1>5. /\ IsFiniteSet(Jobs(q)') /\ Cardinality(Jobs(q)) \in Nat
      /\ Cardinality(Jobs(q)') = Cardinality(Jobs(q)) + (IF q = r THEN 1 ELSE 0)
      /\ q # r => Jobs(q)' = Jobs(q)
  <2>1. CASE q = r
    BY <2>1, <1>0, <1>1, JobAdded DEF Counted
  <2>2. CASE q # r
    <3>1. Jobs(q)' = Jobs(q)
      BY <2>2, <1>0, <1>1, JobAdded
    <3>. QED BY <2>2, <3>1, <1>0, FS_CardinalityType DEF Counted
  <2>. QED BY <2>1, <2>2
<1>6. /\ Cardinality(Beginners(q)) \in Nat
      /\ Beyond(attempts[q]) \in Nat /\ requeues[q] \in Nat /\ crashes \in Nat
  BY <1>0, FS_CardinalityType, ConstantsAssumption DEF Counted, BoundsOK, Beyond, RowsOK
<1>7. Counted(q)'
  BY <1>0, <1>2, <1>4, <1>5, <1>6 DEF Counted, Outstanding
<1>8. Untouched(q)'
  <2>1. Requests(q) = {} => q # r /\ Requests(q)' = {}
    BY <1>3, ConstantsAssumption DEF Requests
  <2>. QED BY <2>1, <1>0, <1>2, <1>5 DEF Untouched
<1>. QED BY <1>7, <1>8

LEMMA BudgetInductive == BudgetInv /\ [Next]_vars => BudgetInv'
<1> SUFFICES ASSUME BudgetInv, [Next]_vars PROVE BudgetInv'
  OBVIOUS
<1>0. RowsOK /\ HandlersOK /\ TypeOK
  BY DEF BudgetInv, TypeOK
<1>1. TypeOK'
  BY <1>0, HandlerTypes, SlotTypes, StutterTypes DEF Next
<1>2. ASSUME NEW q \in Runs PROVE Counted(q)' /\ Untouched(q)'
  <2>1. CASE UNCHANGED vars
    BY <2>1, ZenonT(40) DEF vars, rows, bounds, BudgetInv, Counted, Untouched, Outstanding, Beyond,
                Jobs, Beginners, MayBegin, Requests
  <2>2. ASSUME NEW h \in Handlers, NEW r \in Runs, CreateRun(h, r) \/ CheckFailed(h, r)
        PROVE  Counted(q)' /\ Untouched(q)'
    BY <2>2, CreateCounts, CheckCounts
  <2>3. ASSUME NEW h \in Handlers, HandlerStep(h) \/ AbandonRequest(h)
        PROVE  Counted(q)' /\ Untouched(q)'
    <3>1. CASE Enqueue(h)
      BY <3>1, EnqueueCounts
    <3>2. CASE Reopen(h)
      <4>1. /\ UNCHANGED <<waiting, slot, requeues, crashes>>
            /\ \A g \in Handlers \ {h} : handler'[g] = handler[g]
            /\ handler'[h].run = handler[h].run
        BY <3>2, <1>0 DEF Reopen, bounds, HandlersOK, HandlerType
      <4>2. attempts'[q] \in {0, attempts[q]}
        BY <3>2, <1>0 DEF Reopen, RowsOK
      <4>3. handler[h].run = q \/ (status'[q] = status[q] /\ tries'[q] = tries[q]
                                     /\ attempts'[q] = attempts[q])
        BY <3>2, <1>0 DEF Reopen, RowsOK
      <4>4. handler[h].run = q => status'[q] = "queued"
        BY <3>2, <1>0 DEF Reopen, RowsOK
      <4>. QED BY <4>1, <4>2, <4>3, <4>4, RequestGoesOn
    <3>3. CASE MarkRequeued(h) \/ AbandonRequest(h)
      <4>1. /\ UNCHANGED <<status, attempts, tries, waiting, slot, requeues, crashes>>
            /\ \A g \in Handlers \ {h} : handler'[g] = handler[g]
            /\ handler'[h].run \in {handler[h].run, NoRun}
        BY <3>3, <1>0 DEF MarkRequeued, AbandonRequest, rows, bounds, HandlersOK,
                          HandlerType, IdleHandler
      <4>. QED BY <4>1, RequestGoesOn
    <3>. QED BY <2>3, <3>1, <3>2, <3>3 DEF HandlerStep
  <2>4. ASSUME NEW w \in Slots, SlotStep(w) \/ Crash(w)
        PROVE  Counted(q)' /\ Untouched(q)'
    BY <2>4, <1>0, DeliverCounts, IncrementCounts, ScheduleCounts, CrashCounts,
       QuietSteps, QuietStepCounts
  <2>. QED BY <2>1, <2>2, <2>3, <2>4 DEF Next
<1>. QED BY <1>1, <1>2 DEF BudgetInv

LEMMA BudgetInitially == Init => BudgetInv
<1> SUFFICES ASSUME Init PROVE BudgetInv
  OBVIOUS
<1>1. ASSUME NEW q \in Runs PROVE Counted(q) /\ Untouched(q)
  <2>1. Jobs(q) = {}
    BY <1>1 DEF Init, Jobs
  <2>2. \A w \in Slots : slot[w].run # q /\ ~ MayBegin(w, q)
    BY <1>1, ConstantsAssumption DEF Init, IdleSlot, MayBegin, TryingPc
  <2>3. Beginners(q) = {}
    BY <2>2 DEF Beginners
  <2>4. Requests(q) = {}
    BY <1>1, ConstantsAssumption DEF Init, IdleHandler, Requests
  <2>5. attempts[q] = 0 /\ tries[q] = 0 /\ requeues[q] = 0 /\ crashes = 0
    BY <1>1 DEF Init
  <2>6. Beyond(attempts[q]) = 0
    BY <2>5, ConstantsAssumption DEF Beyond
  <2>. QED BY <2>1, <2>2, <2>3, <2>4, <2>5, <2>6, FS_EmptySet
           DEF Counted, Outstanding, Untouched
<1>. QED BY <1>1, InitTypes DEF BudgetInv

LEMMA BudgetImplied == BudgetInv => AttemptBudget
<1> SUFFICES ASSUME BudgetInv, NEW r \in Runs
             PROVE  attempts[r] <= MaxAttempts + requeues[r] + crashes
  BY DEF AttemptBudget
<1>1. Counted(r) /\ RowsOK /\ BoundsOK
  BY DEF BudgetInv, TypeOK
<1>2. Outstanding(r) \in Nat
  BY <1>1, FS_CardinalityType DEF Counted, Outstanding
<1>. QED BY <1>1, <1>2, ConstantsAssumption DEF Counted, Beyond, RowsOK, BoundsOK

(* Whatever fails, crashes or races, the attempt counter of a run exceeds  *)
(* the budget by at most one for every requeue and one for every crash.    *)
THEOREM AttemptBudgetHolds == Spec => []AttemptBudget
BY BudgetInductive, BudgetInitially, BudgetImplied, PTL DEF Spec

-----------------------------------------------------------------------------
(* The lifecycle a Run is promised.  With no fault, no crash and one       *)
(* request at a time a claim stands for what is left of the budget: the    *)
(* attempt a slot works on is the last one counted, a job in the queue has *)
(* at least one attempt to go, and a slot that fails its run has used them *)
(* all.  This needs a repository that applies the reset of `attempts'.     *)

SlotBudget(w) ==
  LET n == tries[slot[w].run]
      pc == slot[w].pc IN
  /\ pc = "increment" => n < MaxAttempts
  /\ pc \in ClaimingPc \ {"increment"} => slot[w].attempt = n /\ 0 < n /\ n <= MaxAttempts
  /\ pc = "fail" => n = MaxAttempts

BudgetAgrees ==
  /\ \A r \in Runs : attempts[r] = tries[r]
  /\ \A r \in Runs : status[r] = "absent" => tries[r] = 0
  /\ \A r \in Runs : QueueClaims(r) => tries[r] < MaxAttempts
  /\ \A h \in Handlers : handler[h].pc \in {"mark", "enqueue"} => tries[handler[h].run] = 0
  /\ \A w \in Slots : SlotBudget(w)

LifeInv == IInv /\ BudgetAgrees

LEMMA IdleBudget == \A w \in Slots : slot[w].pc \notin ClaimingPc => SlotBudget(w)
BY DEF SlotBudget, ClaimingPc, PcOfSlot

(* A slot that moves on with its attempt, the counters untouched.          *)
LEMMA BudgetMoves ==
  ASSUME LifeInv, NEW w \in Slots, NEW pc, NEW seen,
         slot[w].pc \in ClaimingPc \ {"increment"},
         \/ slot' = [slot EXCEPT ![w].pc = pc]
         \/ slot' = [slot EXCEPT ![w].pc = pc, ![w].seen = seen],
         pc # "increment", pc = "fail" => slot[w].attempt >= MaxAttempts,
         UNCHANGED <<attempts, tries, handler>>,
         \A r \in Runs : status'[r] = "absent" => status[r] = "absent",
         \A r \in Runs : QueueClaims(r)' => tries[r] < MaxAttempts
  PROVE  BudgetAgrees'
<1>0. SlotsOK /\ BudgetAgrees /\ SlotBudget(w) /\ slot[w] \in SlotType
  BY DEF LifeInv, IInv, TypeOK, SlotsOK, BudgetAgrees
<1>1. /\ \A v \in Slots \ {w} : slot'[v] = slot[v]
      /\ slot'[w].run = slot[w].run /\ slot'[w].pc = pc
      /\ slot'[w].attempt = slot[w].attempt
  BY <1>0, AttemptStays
<1>2. SlotBudget(w)'
  BY <1>0, <1>1, ConstantsAssumption DEF SlotBudget, SlotType
<1>3. \A v \in Slots \ {w} : SlotBudget(v)'
  BY <1>0, <1>1 DEF BudgetAgrees, SlotBudget
<1>. QED BY <1>0, <1>2, <1>3 DEF BudgetAgrees

LEMMA SlotKeepsBudget ==
  ASSUME LifeInv, Healthy, NEW w \in Slots, NEW r, r = slot[w].run,
         SlotStep(w) \/ Crash(w)
  PROVE  BudgetAgrees'
<1>0. /\ SlotsOK /\ RowsOK /\ QueueOK /\ BudgetAgrees /\ SlotBudget(w)
      /\ ExclusiveExecution /\ slot \in [Slots -> SlotType] /\ SlotAgrees(w)
  BY DEF LifeInv, IInv, TypeOK, SlotsOK, BudgetAgrees, ClaimsAgree
<1>a. slot[w].pc # "idle" => r \in Runs
  BY <1>0, BusyHoldsRun
<1>b. UNCHANGED waiting => \A q \in Runs : QueueClaims(q)' => tries[q] < MaxAttempts
  BY <1>0 DEF BudgetAgrees, QueueClaims
<1>c. ASSUME slot' = [slot EXCEPT ![w] = IdleSlot], UNCHANGED <<rows, waiting, handler>>
      PROVE  BudgetAgrees'
  <2>1. slot'[w].pc = "idle" /\ \A v \in Slots \ {w} : slot'[v] = slot[v]
    BY <1>0, <1>c DEF IdleSlot
  <2>2. SlotBudget(w)'
    BY <2>1 DEF SlotBudget, ClaimingPc
  <2>3. \A v \in Slots \ {w} : SlotBudget(v)'
    BY <2>1, <1>0, <1>c DEF BudgetAgrees, SlotBudget, rows
  <2>. QED BY <2>2, <2>3, <1>0, <1>b, <1>c DEF BudgetAgrees, rows
<1> USE DEF bounds, rows
<1>1. CASE Deliver(w)
  <2>1. PICK q \in Runs, s \in StallCount :
          /\ waiting[q][s] > 0
          /\ waiting' = [waiting EXCEPT ![q][s] = @ - 1]
          /\ slot' = [slot EXCEPT ![w] = [IdleSlot EXCEPT !.pc = "increment",
                                                          !.run = q, !.stalls = s]]
    BY <1>1 DEF Deliver
  <2>2. /\ slot'[w].run = q /\ slot'[w].pc = "increment"
        /\ \A v \in Slots \ {w} : slot'[v] = slot[v]
    BY <2>1, <1>0 DEF IdleSlot
  <2>3. tries[q] < MaxAttempts
    BY <2>1, <1>0 DEF BudgetAgrees, QueueClaims
  <2>4. SlotBudget(w)'
    BY <2>2, <2>3, <1>1 DEF SlotBudget, Deliver
  <2>5. \A v \in Slots \ {w} : SlotBudget(v)'
    BY <2>2, <1>0, <1>1 DEF BudgetAgrees, SlotBudget, Deliver
  <2>6. \A p \in Runs : QueueClaims(p)' => QueueClaims(p)
    BY <2>1, <1>0 DEF QueueClaims, QueueOK
  <2>. QED BY <2>4, <2>5, <2>6, <1>0, <1>1 DEF BudgetAgrees, Deliver
<1>2. CASE IncrementAttempts(w)
  <2>1. /\ slot'[w].run = r /\ slot'[w].pc = "load" /\ slot'[w].attempt = attempts[r] + 1
        /\ \A v \in Slots \ {w} : slot'[v] = slot[v]
    BY <1>2, <1>0 DEF IncrementAttempts, SlotType
  <2>2. /\ SlotClaims(w, r) /\ r \in Runs /\ tries[r] < MaxAttempts
        /\ attempts[r] = tries[r] /\ tries[r] \in Nat
    BY <1>2, <1>0, <1>a DEF IncrementAttempts, SlotClaims, ClaimingPc, PcOfSlot,
                            SlotBudget, BudgetAgrees, RowsOK
  <2>3. /\ tries'[r] = tries[r] + 1 /\ attempts'[r] = attempts[r] + 1
        /\ \A q \in Runs \ {r} : tries'[q] = tries[q] /\ attempts'[q] = attempts[q]
    BY <1>2, <1>0, <2>2 DEF IncrementAttempts, RowsOK
  <2>4. SlotBudget(w)'
    BY <2>1, <2>2, <2>3, ConstantsAssumption DEF SlotBudget
  <2>5. ASSUME NEW v \in Slots \ {w} PROVE SlotBudget(v)'
    <3>1. CASE slot[v].pc \in ClaimingPc
      <4>1. slot[v].run \in Runs /\ slot[v].run # r
        BY <3>1, <2>2, <1>0, BusyHoldsRun DEF ExclusiveExecution, SlotClaims, ClaimingPc
      <4>. QED BY <4>1, <2>1, <2>3, <1>0 DEF SlotBudget, BudgetAgrees
    <3>2. CASE slot[v].pc \notin ClaimingPc
      BY <3>2, <2>1 DEF SlotBudget, ClaimingPc, PcOfSlot
    <3>. QED BY <3>1, <3>2
  <2>6. ~ QueueClaims(r) /\ \A h \in Handlers : ~ HandlerClaims(h, r)
    BY <2>2, <1>0 DEF ExclusiveExecution
  <2>7. \A q \in Runs : QueueClaims(q)' => tries'[q] < MaxAttempts
    BY <2>3, <2>6, <1>0, <1>2 DEF BudgetAgrees, QueueClaims, IncrementAttempts
  <2>8. \A h \in Handlers : handler'[h].pc \in {"mark", "enqueue"} => tries'[handler'[h].run] = 0
    <3>1. HandlersOK
      BY DEF LifeInv, IInv, TypeOK
    <3>2. ASSUME NEW h \in Handlers, handler[h].pc \in {"mark", "enqueue"}
          PROVE  handler[h].run \in Runs /\ handler[h].run # r
      BY <3>1, <3>2, <2>6 DEF HandlersOK, HandlerType, HandlerClaims
    <3>. QED BY <3>2, <2>3, <1>0, <1>2 DEF BudgetAgrees, IncrementAttempts
  <2>9. status[r] # "absent" /\ UNCHANGED status
    BY <1>0, <1>2 DEF SlotAgrees, IncrementAttempts
  <2>. QED BY <2>2, <2>3, <2>4, <2>5, <2>7, <2>8, <2>9, <1>0 DEF BudgetAgrees
<1>3. CASE LoadRun(w) \/ ReadExhausted(w)
  <2>1. slot[w].attempt \in Nat
    BY <1>0 DEF SlotType
  <2>. QED BY <2>1, <1>3, <1>b, BudgetMoves, ConstantsAssumption, SMTT(30)
           DEF LoadRun, ReadExhausted, ClaimingPc, PcOfSlot
<1>4. CASE \/ StartRun(w) \/ ModelAnswers(w) \/ AttemptThrows(w) \/ MarkSucceeded(w)
           \/ RecordSuccess(w) \/ CatchAttempt(w) \/ MarkFailed(w)
  <2>1. PICK from \in ClaimingPc \ {"increment"}, to \in PcOfSlot \ {"increment", "fail"} :
          GoTo(w, from, to)
    BY <1>4 DEF StartRun, ModelAnswers, AttemptThrows, MarkSucceeded, RecordSuccess,
       CatchAttempt, MarkFailed, PcOfSlot, ClaimingPc
  <2>2. UNCHANGED <<attempts, tries, handler, waiting>>
    BY <1>4, Zenon DEF StartRun, ModelAnswers, AttemptThrows, MarkSucceeded, RecordSuccess,
       CatchAttempt, MarkFailed
  <2>3. \A q \in Runs : status'[q] = "absent" => status[q] = "absent"
    BY <1>4, <1>0 DEF RowsOK, StartRun, ModelAnswers, AttemptThrows, MarkSucceeded,
       RecordSuccess, CatchAttempt, MarkFailed
  <2>. QED BY <2>1, <2>2, <2>3, <1>b, BudgetMoves DEF GoTo
<1>5. CASE ScheduleRetry(w)
  <2>1. /\ r \in Runs /\ 0 \in StallCount /\ tries[r] < MaxAttempts
    BY <1>5, <1>0, <1>a, ConstantsAssumption
       DEF ScheduleRetry, GoTo, SlotBudget, ClaimingPc, PcOfSlot, StallCount
  <2>2. \A q \in Runs : QueueClaims(q)' => QueueClaims(q) \/ q = r
    BY <1>5, <1>0, <2>1 DEF ScheduleRetry, QueueClaims, QueueOK
  <2>3. \A q \in Runs : QueueClaims(q)' => tries[q] < MaxAttempts
    BY <2>1, <2>2, <1>0 DEF BudgetAgrees
  <2>4. PICK from \in ClaimingPc \ {"increment"}, to \in PcOfSlot \ {"increment", "fail"} :
          GoTo(w, from, to)
    BY <1>5 DEF ScheduleRetry, ClaimingPc, PcOfSlot
  <2>5. UNCHANGED <<status, attempts, tries, handler>>
    BY <1>5 DEF ScheduleRetry
  <2>. QED BY <2>3, <2>4, <2>5, BudgetMoves DEF GoTo
<1>6. CASE IllegalFailure(w) \/ Complete(w)
  BY <1>6, <1>c DEF IllegalFailure, Complete
<1>7. CASE RecordDeadLetter(w)
  <2>1. /\ \A v \in Slots \ {w} : slot'[v] = slot[v]
        /\ slot'[w].pc = "complete"
    BY <1>7, <1>0, AttemptStays DEF RecordDeadLetter, GoTo
  <2>2. UNCHANGED <<status, attempts, tries, waiting, handler>>
    BY <1>7 DEF RecordDeadLetter
  <2>3. SlotBudget(w)' /\ \A v \in Slots \ {w} : SlotBudget(v)'
    BY <2>1, <2>2, <1>0 DEF SlotBudget, BudgetAgrees, ClaimingPc
  <2>. QED BY <2>2, <2>3, <1>0 DEF BudgetAgrees, QueueClaims
<1>8. CASE PrologueThrows(w) \/ RecordThrows(w) \/ ProcessorRejects(w) \/ Crash(w)
  BY <1>8 DEF Healthy, PrologueThrows, RecordThrows, ProcessorRejects, Crash, LifeInv, IInv,
              TypeOK, BoundsOK
<1>. QED BY <1>1, <1>2, <1>3, <1>4, <1>5, <1>6, <1>7, <1>8 DEF SlotStep

LEMMA HandlerKeepsBudget ==
  ASSUME LifeInv, Healthy, AttemptsPatched, NEW h \in Handlers, NEW run, run = handler[h].run,
         HandlerStep(h) \/ AbandonRequest(h)
           \/ \E r \in Runs : CreateRun(h, r) \/ CheckFailed(h, r)
  PROVE  BudgetAgrees'
<1>0. /\ SlotsOK /\ RowsOK /\ QueueOK /\ HandlersOK /\ BudgetAgrees
      /\ ExclusiveExecution /\ HandlerAgrees(h) /\ \A g \in Handlers : g = h
  BY DEF LifeInv, IInv, TypeOK, ClaimsAgree, Healthy
<1>a. handler[h].pc # "idle" => run \in Runs
  BY <1>0 DEF HandlersOK, HandlerType
<1> USE DEF bounds, rows
(* Where the counters and the queue stay, only the request has to agree.   *)
<1>b. ASSUME UNCHANGED <<attempts, tries, slot, waiting>>,
             \A r \in Runs : status'[r] = "absent" => status[r] = "absent",
             handler'[h].pc \in {"mark", "enqueue"} => tries[handler'[h].run] = 0
      PROVE  BudgetAgrees'
  BY <1>0, <1>b DEF BudgetAgrees, SlotBudget, QueueClaims
<1>1. ASSUME NEW r \in Runs, CreateRun(h, r) PROVE BudgetAgrees'
  <2>1. /\ handler'[h].run = r /\ tries[r] = 0
        /\ \A q \in Runs : status'[q] = "absent" => status[q] = "absent"
    BY <1>1, <1>0 DEF CreateRun, BudgetAgrees, RowsOK, HandlersOK
  <2>. QED BY <2>1, <1>1, <1>b DEF CreateRun
<1>2. ASSUME NEW r \in Runs, CheckFailed(h, r) PROVE BudgetAgrees'
  <2>1. handler'[h].pc = "reopen"
    BY <1>2, <1>0 DEF CheckFailed, HandlersOK
  <2>. QED BY <2>1, <1>2, <1>b DEF CheckFailed
<1>3. CASE Reopen(h)
  <2>1. /\ run \in Runs /\ status[run] = "failed"
        /\ handler'[h].run = run /\ handler'[h].pc = "mark"
    BY <1>3, <1>0, <1>a DEF Reopen, HandlerAgrees, HandlersOK, HandlerType
  <2>2. ~ QueueClaims(run) /\ \A w \in Slots : ~ SlotClaims(w, run)
    BY <2>1, Unclaimed DEF LifeInv
  <2>3. /\ tries'[run] = 0 /\ attempts'[run] = 0 /\ status'[run] = "queued"
        /\ \A q \in Runs \ {run} : /\ tries'[q] = tries[q] /\ attempts'[q] = attempts[q]
                                   /\ status'[q] = status[q]
    BY <1>3, <1>0, <2>1 DEF Reopen, RowsOK
  <2>4. UNCHANGED <<slot, waiting>>
    BY <1>3 DEF Reopen
  <2>5. ASSUME NEW w \in Slots PROVE SlotBudget(w)'
    <3>1. CASE slot[w].pc \in ClaimingPc
      <4>1. slot[w].run \in Runs /\ slot[w].run # run
        BY <3>1, <2>2, <1>0, BusyHoldsRun DEF SlotClaims, ClaimingPc
      <4>. QED BY <4>1, <2>3, <2>4, <1>0 DEF SlotBudget, BudgetAgrees
    <3>2. CASE slot[w].pc \notin ClaimingPc
      BY <3>2, <2>4 DEF SlotBudget, ClaimingPc, PcOfSlot
    <3>. QED BY <3>1, <3>2
  <2>6. \A q \in Runs : QueueClaims(q)' => tries'[q] < MaxAttempts
    BY <2>2, <2>3, <2>4, <1>0 DEF BudgetAgrees, QueueClaims
  <2>. QED BY <2>1, <2>3, <2>5, <2>6, <1>0 DEF BudgetAgrees
<1>4. CASE MarkRequeued(h)
  <2>1. handler'[h].run = run /\ tries[run] = 0
    BY <1>4, <1>0 DEF MarkRequeued, HandlersOK, HandlerType, BudgetAgrees
  <2>. QED BY <2>1, <1>4, <1>b DEF MarkRequeued
<1>5. CASE Enqueue(h)
  <2>1. /\ run \in Runs /\ 0 \in StallCount /\ tries[run] = 0
        /\ handler'[h].pc = "idle"
    BY <1>5, <1>0, <1>a, ConstantsAssumption
       DEF Enqueue, HandlersOK, BudgetAgrees, StallCount, IdleHandler
  <2>2. \A q \in Runs : QueueClaims(q)' => QueueClaims(q) \/ q = run
    BY <1>5, <1>0, <2>1 DEF Enqueue, QueueClaims, QueueOK
  <2>3. UNCHANGED <<status, attempts, tries, slot>>
    BY <1>5 DEF Enqueue
  <2>4. \A w \in Slots : SlotBudget(w)'
    BY <2>3, <1>0 DEF SlotBudget, BudgetAgrees
  <2>. QED BY <2>1, <2>2, <2>3, <2>4, <1>0, ConstantsAssumption DEF BudgetAgrees
<1>6. CASE AbandonRequest(h)
  BY <1>6 DEF AbandonRequest, Healthy
<1>. QED BY <1>1, <1>2, <1>3, <1>4, <1>5, <1>6 DEF HandlerStep

LEMMA LifeInvariant ==
  ASSUME Healthy, AttemptsPatched
  PROVE  Spec => []LifeInv
<1>1. Init => LifeInv
  <2> SUFFICES ASSUME Init PROVE BudgetAgrees
    BY InitInv DEF LifeInv
  <2>1. /\ \A w \in Slots : slot[w].pc = "idle"
        /\ \A h \in Handlers : handler[h].pc = "idle"
        /\ \A r \in Runs : /\ attempts[r] = 0 /\ tries[r] = 0
                           /\ \A s \in StallCount : waiting[r][s] = 0
    BY DEF Init, IdleSlot, IdleHandler
  <2>2. \A w \in Slots : SlotBudget(w)
    BY <2>1 DEF SlotBudget, ClaimingPc
  <2>. QED BY <2>1, <2>2 DEF BudgetAgrees, QueueClaims
<1>2. LifeInv /\ [Next]_vars => LifeInv'
  <2> SUFFICES ASSUME LifeInv, [Next]_vars PROVE BudgetAgrees'
    BY NextInv DEF LifeInv
  <2>1. CASE UNCHANGED vars
    BY <2>1 DEF vars, rows, LifeInv, BudgetAgrees, SlotBudget, QueueClaims
  <2>2. CASE Next
    BY <2>2, SlotKeepsBudget, HandlerKeepsBudget DEF Next
  <2>. QED BY <2>1, <2>2
<1>. QED BY <1>1, <1>2, PTL DEF Spec

(* Every step of the plane is a step of the lifecycle or leaves both the   *)
(* statuses and the counts of attempts alone.                              *)
LEMMA LifecycleStep ==
  ASSUME Healthy, AttemptsPatched, LifeInv, [Next]_vars
  PROVE  [Lifecycle!Next]_(Lifecycle!vars)
<1>0. /\ SlotsOK /\ RowsOK /\ HandlersOK /\ BudgetAgrees
      /\ \A w \in Slots : SlotAgrees(w) /\ SlotBudget(w)
      /\ \A h \in Handlers : HandlerAgrees(h)
  BY DEF LifeInv, IInv, TypeOK, ClaimsAgree, BudgetAgrees
<1> USE DEF Lifecycle!vars, rows
<1>1. CASE UNCHANGED vars
  BY <1>1 DEF vars
<1>2. ASSUME NEW h \in Handlers, NEW r \in Runs, CreateRun(h, r) \/ CheckFailed(h, r)
      PROVE  [Lifecycle!Next]_(Lifecycle!vars)
  <2>1. CASE CreateRun(h, r)
    BY <2>1 DEF CreateRun, Lifecycle!Next, Lifecycle!Submit
  <2>. QED BY <1>2, <2>1 DEF CheckFailed
<1>3. ASSUME NEW h \in Handlers, HandlerStep(h) \/ AbandonRequest(h)
      PROVE  [Lifecycle!Next]_(Lifecycle!vars)
  <2>1. CASE Reopen(h)
    <3>1. handler[h].run \in Runs /\ status[handler[h].run] = "failed"
      BY <2>1, <1>0 DEF Reopen, HandlersOK, HandlerType, HandlerAgrees
    <3>. QED BY <2>1, <3>1 DEF Reopen, Lifecycle!Next, Lifecycle!Reopen
  <2>. QED BY <1>3, <2>1 DEF HandlerStep, MarkRequeued, Enqueue, AbandonRequest
<1>4. ASSUME NEW w \in Slots, SlotStep(w) \/ Crash(w)
      PROVE  [Lifecycle!Next]_(Lifecycle!vars)
  <2> DEFINE r == slot[w].run
  <2>0. slot[w].pc # "idle" => r \in Runs
    BY <1>0, BusyHoldsRun
  <2>1. CASE IncrementAttempts(w)
    <3>1. r \in Runs /\ status[r] \in {"queued", "running"} /\ tries[r] < MaxAttempts
      BY <2>0, <2>1, <1>0 DEF IncrementAttempts, SlotAgrees, SlotBudget
    <3>. QED BY <2>1, <3>1 DEF IncrementAttempts, Lifecycle!Next, Lifecycle!BeginAttempt
  <2>2. CASE StartRun(w)
    <3>1. slot[w].pc = "start" /\ r \in Runs /\ slot[w].seen = status[r]
      BY <2>0, <2>2, <1>0 DEF StartRun, GoTo, SlotAgrees
    <3>2. status[r] \in {"queued", "running"} /\ tries[r] > 0
      BY <3>1, <1>0 DEF SlotAgrees, SlotBudget, ClaimingPc, PcOfSlot
    <3>3. CASE status[r] = "running"
      BY <2>2, <3>1, <3>3 DEF StartRun
    <3>4. CASE status[r] = "queued"
      BY <2>2, <3>1, <3>2, <3>4 DEF StartRun, Lifecycle!Next, Lifecycle!Start
    <3>. QED BY <3>2, <3>3, <3>4
  <2>3. CASE MarkSucceeded(w)
    <3>1. r \in Runs /\ status[r] = "running"
      BY <2>0, <2>3, <1>0 DEF MarkSucceeded, GoTo, SlotAgrees
    <3>. QED BY <2>3, <3>1 DEF MarkSucceeded, Lifecycle!Next, Lifecycle!Succeed
  <2>4. CASE CatchAttempt(w)
    <3>1. r \in Runs /\ status[r] = "running"
      BY <2>0, <2>4, <1>0 DEF CatchAttempt, GoTo, SlotAgrees
    <3>2. status' = status
      BY <2>4, <3>1, <1>0 DEF CatchAttempt, RowsOK
    <3>. QED BY <2>4, <3>2 DEF CatchAttempt
  <2>5. CASE MarkFailed(w)
    <3>1. r \in Runs /\ status[r] = "running" /\ tries[r] = MaxAttempts
      BY <2>0, <2>5, <1>0 DEF MarkFailed, GoTo, SlotAgrees, SlotBudget
    <3>. QED BY <2>5, <3>1 DEF MarkFailed, Lifecycle!Next, Lifecycle!Exhaust
  <2>6. CASE ~ \/ IncrementAttempts(w) \/ StartRun(w) \/ MarkSucceeded(w)
               \/ CatchAttempt(w) \/ MarkFailed(w)
    <3>1. UNCHANGED <<status, tries>>
      BY <1>4, <2>6, Zenon DEF SlotStep, Crash, Deliver, LoadRun, PrologueThrows,
         ModelAnswers, AttemptThrows, RecordSuccess, RecordThrows, ScheduleRetry,
         ReadExhausted, IllegalFailure, RecordDeadLetter, Complete, ProcessorRejects
    <3>. QED BY <3>1
  <2>. QED BY <2>1, <2>2, <2>3, <2>4, <2>5, <2>6
<1>. QED BY <1>1, <1>2, <1>3, <1>4 DEF Next

(* The execution plane implements the lifecycle a Run is promised, with no *)
(* fault, no crash, one request at a time and a repository that applies    *)
(* the reset of `attempts': queue, workers, retries and dead letters make  *)
(* no difference a reader of the rows could see.                           *)
THEOREM LifecycleImplemented ==
  ASSUME Healthy, AttemptsPatched
  PROVE  Spec => LifecycleSpec
<1>1. Init => Lifecycle!Init
  BY DEF Init, Lifecycle!Init
<1>2. LifeInv /\ [Next]_vars => [Lifecycle!Next]_(Lifecycle!vars)
  BY LifecycleStep
<1>. QED BY <1>1, <1>2, LifeInvariant, PTL DEF Spec, LifecycleSpec, Lifecycle!Spec

=============================================================================

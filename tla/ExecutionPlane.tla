---------------------------- MODULE ExecutionPlane ----------------------------
(***************************************************************************)
(* The life of a Run from the API request that creates it to the worker    *)
(* that ends it: control-plane handlers (createRun, requeueDeadLetter),    *)
(* the job queue, and the worker slots that drain it.  One action per      *)
(* awaited call that reads or writes shared state, because every await is  *)
(* a point where another handler, slot or process may run.                 *)
(*                                                                         *)
(* Both bodies a worker dispatches to, executeRun and executeOrchestration,*)
(* have this envelope: skip a terminal run, mark it running, work, mark it *)
(* succeeded, and on any throw write 'running' with the error and rethrow. *)
(***************************************************************************)
EXTENDS RunStateMachine, Naturals

CONSTANTS
  Runs,             \* run ids
  NoRun,            \* what an idle slot or handler holds
  Slots,            \* concurrent job processors (BullMQ concurrency x workers)
  Handlers,         \* concurrent control-plane requests
  MaxAttempts,      \* the attempt budget of the queue adapter
  MaxStalled,       \* redeliveries BullMQ grants a job whose worker died
  AttemptsPatched,  \* does updateRunStatus apply a patch of `attempts'?
  Faults,           \* which groups of calls may fail, see FaultKinds
  MaxCrashes,       \* bound: worker crashes
  MaxRequeues       \* bound: operator requeues of one run

(* "prologue": a read, audit or memory recall outside the runtime's try;   *)
(* "record": the writes that mark a run succeeded, audit and remember it;  *)
(* "policy": a call of the worker outside its own try;                     *)
(* "request": an API call that dies between two of its writes.             *)
FaultKinds == {"prologue", "record", "policy", "request"}

ASSUME ConstantsAssumption ==
  /\ NoRun \notin Runs
  /\ MaxAttempts \in Nat \ {0}
  /\ MaxStalled \in Nat
  /\ AttemptsPatched \in BOOLEAN
  /\ Faults \subseteq FaultKinds
  /\ MaxCrashes \in Nat
  /\ MaxRequeues \in Nat

VARIABLES
  status,       \* Run.status, "absent" before the row exists
  attempts,     \* Run.attempts, the budget's authoritative counter
  deadLetters,  \* open (not requeued) DeadLetter rows of each run
  waiting,      \* jobs in the queue: run -> times already stalled -> number
  slot,         \* what each worker slot is doing
  handler,      \* what each control-plane request is doing
  tries,        \* history: attempts since the run was created or re-opened
  requeues,     \* bounded counter of requeues per run
  crashes,      \* bounded counter of worker crashes
  dropped       \* history: runs a job or request of which was given up

rows == <<status, attempts, deadLetters, tries>>   \* what the database holds
bounds == <<requeues, crashes, dropped>>
vars == <<rows, waiting, slot, handler, bounds>>

StallCount == 0 .. MaxStalled

IdleSlot == [pc |-> "idle", run |-> NoRun, stalls |-> 0,
             attempt |-> 0, seen |-> "absent"]
IdleHandler == [pc |-> "idle", run |-> NoRun]

Init ==
  /\ status = [r \in Runs |-> "absent"]
  /\ attempts = [r \in Runs |-> 0]
  /\ deadLetters = [r \in Runs |-> 0]
  /\ waiting = [r \in Runs |-> [s \in StallCount |-> 0]]
  /\ slot = [w \in Slots |-> IdleSlot]
  /\ handler = [h \in Handlers |-> IdleHandler]
  /\ tries = [r \in Runs |-> 0]
  /\ requeues = [r \in Runs |-> 0]
  /\ crashes = 0
  /\ dropped = {}

GoTo(w, from, to) ==
  /\ slot[w].pc = from
  /\ slot' = [slot EXCEPT ![w].pc = to]

-----------------------------------------------------------------------------
(* Control plane *)

(* createRun writes the row with a fresh budget; the enqueue follows.      *)
CreateRun(h, r) ==
  /\ handler[h].pc = "idle"
  /\ status[r] = "absent"
  /\ status' = [status EXCEPT ![r] = "queued"]
  /\ handler' = [handler EXCEPT ![h] = [pc |-> "enqueue", run |-> r]]
  /\ UNCHANGED <<attempts, deadLetters, waiting, slot, tries, bounds>>

(* Mutant: any existing run may be requeued.                               *)
CheckFailedAnyStatus(h, r) ==
  /\ handler[h].pc = "idle"
  /\ status[r] # "absent"
  /\ requeues[r] < MaxRequeues
  /\ requeues' = [requeues EXCEPT ![r] = @ + 1]
  /\ handler' = [handler EXCEPT ![h] = [pc |-> "reopen", run |-> r]]
  /\ UNCHANGED <<rows, waiting, slot, crashes, dropped>>

(* requeueDeadLetter checks that the run is failed, before any write.      *)
CheckFailed(h, r) ==
  /\ handler[h].pc = "idle"
  /\ status[r] = "failed"
  /\ requeues[r] < MaxRequeues
  /\ requeues' = [requeues EXCEPT ![r] = @ + 1]
  /\ handler' = [handler EXCEPT ![h] = [pc |-> "reopen", run |-> r]]
  /\ UNCHANGED <<rows, waiting, slot, crashes, dropped>>

(* ... then writes 'queued' unconditionally, asking for attempts = 0.      *)
Reopen(h) ==
  LET r == handler[h].run IN
  /\ handler[h].pc = "reopen"
  /\ status' = [status EXCEPT ![r] = "queued"]
  /\ attempts' = IF AttemptsPatched THEN [attempts EXCEPT ![r] = 0] ELSE attempts
  /\ tries' = [tries EXCEPT ![r] = 0]
  /\ handler' = [handler EXCEPT ![h].pc = "mark"]
  /\ UNCHANGED <<deadLetters, waiting, slot, bounds>>

MarkRequeued(h) ==
  /\ handler[h].pc = "mark"
  /\ deadLetters' = [deadLetters EXCEPT ![handler[h].run] = 0]
  /\ handler' = [handler EXCEPT ![h].pc = "enqueue"]
  /\ UNCHANGED <<status, attempts, waiting, slot, tries, bounds>>

Enqueue(h) ==
  /\ handler[h].pc = "enqueue"
  /\ waiting' = [waiting EXCEPT ![handler[h].run][0] = @ + 1]
  /\ handler' = [handler EXCEPT ![h] = IdleHandler]
  /\ UNCHANGED <<rows, slot, bounds>>

(* A call throws or the API process dies: the remaining steps never run.   *)
AbandonRequest(h) ==
  /\ "request" \in Faults
  /\ handler[h].pc # "idle"
  /\ handler' = [handler EXCEPT ![h] = IdleHandler]
  /\ dropped' = dropped \cup {handler[h].run}
  /\ UNCHANGED <<rows, waiting, slot, requeues, crashes>>

-----------------------------------------------------------------------------
(* Worker slot: the queue hands over a job and the processor begins *)

Deliver(w) ==
  /\ slot[w].pc = "idle"
  /\ \E r \in Runs, s \in StallCount :
       /\ waiting[r][s] > 0
       /\ waiting' = [waiting EXCEPT ![r][s] = @ - 1]
       /\ slot' = [slot EXCEPT ![w] = [IdleSlot EXCEPT !.pc = "increment",
                                                       !.run = r, !.stalls = s]]
  /\ UNCHANGED <<rows, handler, bounds>>

(* The budget is counted on the run, whichever queue delivered it.         *)
IncrementAttempts(w) ==
  LET r == slot[w].run IN
  /\ slot[w].pc = "increment"
  /\ attempts' = [attempts EXCEPT ![r] = @ + 1]
  /\ tries' = [tries EXCEPT ![r] = @ + 1]
  /\ slot' = [slot EXCEPT ![w].pc = "load", ![w].attempt = attempts[r] + 1]
  /\ UNCHANGED <<status, deadLetters, waiting, handler, bounds>>

(* Mutant: a redelivered run that is already running is skipped as well.   *)
LoadRunSkipsStarted(w) ==
  LET current == status[slot[w].run] IN
  /\ slot[w].pc = "load"
  /\ slot' = [slot EXCEPT ![w].pc = IF current # "queued" THEN "complete" ELSE "start",
                          ![w].seen = current]
  /\ UNCHANGED <<rows, waiting, handler, bounds>>

(* A run that is already terminal is skipped, silently.                    *)
LoadRun(w) ==
  LET current == status[slot[w].run] IN
  /\ slot[w].pc = "load"
  /\ slot' = [slot EXCEPT ![w].pc = IF IsTerminal(current) THEN "complete" ELSE "start",
                          ![w].seen = current]
  /\ UNCHANGED <<rows, waiting, handler, bounds>>

(* Mutant: a retry, seen running, is judged by the table too and throws.   *)
StartRunStrict(w) ==
  /\ GoTo(w, "start", "work")
  /\ CanTransition(slot[w].seen, "running")
  /\ status' = [status EXCEPT ![slot[w].run] = "running"]
  /\ UNCHANGED <<attempts, deadLetters, waiting, handler, tries, bounds>>

(* The status read before is the one transition() judges; the write is     *)
(* blind.  A run seen running (a retry) is not written.                    *)
StartRun(w) ==
  LET seen == slot[w].seen IN
  /\ GoTo(w, "start", "work")
  /\ seen = "running" \/ CanTransition(seen, "running")
  /\ status' = IF seen = "running" THEN status
               ELSE [status EXCEPT ![slot[w].run] = "running"]
  /\ UNCHANGED <<attempts, deadLetters, waiting, handler, tries, bounds>>

(* A read, an audit, the memory recall, or the catch's own write throws    *)
(* where only the worker's catch can see it.                               *)
PrologueThrows(w) ==
  /\ "prologue" \in Faults
  /\ slot[w].pc \in {"load", "start", "work", "catch"}
  /\ slot' = [slot EXCEPT ![w].pc = "decide"]
  /\ UNCHANGED <<rows, waiting, handler, bounds>>

-----------------------------------------------------------------------------
(* Worker slot: the attempt itself *)

(* The model's final answer passed the empty/placeholder guard.            *)
ModelAnswers(w) ==
  /\ GoTo(w, "work", "succeed")
  /\ UNCHANGED <<rows, waiting, handler, bounds>>

(* Model or tool error, empty output, forbidden tool, iteration limit.     *)
AttemptThrows(w) ==
  /\ GoTo(w, "work", "catch")
  /\ UNCHANGED <<rows, waiting, handler, bounds>>

(* The table is consulted with the literal 'running', not with the row.    *)
MarkSucceeded(w) ==
  /\ GoTo(w, "succeed", "record")
  /\ CanTransition("running", "succeeded")
  /\ status' = [status EXCEPT ![slot[w].run] = "succeeded"]
  /\ UNCHANGED <<attempts, deadLetters, waiting, handler, tries, bounds>>

(* Audit, event and episodic memory, still inside the try.                 *)
RecordSuccess(w) ==
  /\ GoTo(w, "record", "complete")
  /\ UNCHANGED <<rows, waiting, handler, bounds>>

(* The success write, its audit or the memory write throws into the catch. *)
RecordThrows(w) ==
  /\ "record" \in Faults
  /\ slot[w].pc \in {"succeed", "record"}
  /\ slot' = [slot EXCEPT ![w].pc = "catch"]
  /\ UNCHANGED <<rows, waiting, handler, bounds>>

(* The catch writes 'running' with the error, whatever the row says now.   *)
CatchAttempt(w) ==
  /\ GoTo(w, "catch", "decide")
  /\ status' = [status EXCEPT ![slot[w].run] = "running"]
  /\ UNCHANGED <<attempts, deadLetters, waiting, handler, tries, bounds>>

-----------------------------------------------------------------------------
(* Worker slot: retry policy and dead letters *)

(* Mutant: one retry too many.                                             *)
ScheduleRetryOnceMore(w) ==
  /\ GoTo(w, "decide", "complete")
  /\ slot[w].attempt <= MaxAttempts
  /\ waiting' = [waiting EXCEPT ![slot[w].run][0] = @ + 1]
  /\ UNCHANGED <<rows, handler, bounds>>

(* Mutant: the retry is audited but never enqueued.                        *)
ScheduleRetryNotEnqueued(w) ==
  /\ GoTo(w, "decide", "complete")
  /\ slot[w].attempt < MaxAttempts
  /\ UNCHANGED <<rows, waiting, handler, bounds>>

ScheduleRetry(w) ==
  /\ GoTo(w, "decide", "complete")
  /\ slot[w].attempt < MaxAttempts
  /\ waiting' = [waiting EXCEPT ![slot[w].run][0] = @ + 1]
  /\ UNCHANGED <<rows, handler, bounds>>

(* Mutant: the budget is not consulted before giving up.                   *)
ReadExhaustedEarly(w) ==
  /\ slot[w].pc = "decide"
  /\ slot' = [slot EXCEPT ![w].pc = "fail", ![w].seen = status[slot[w].run]]
  /\ UNCHANGED <<rows, waiting, handler, bounds>>

ReadExhausted(w) ==
  /\ slot[w].pc = "decide"
  /\ ~ (slot[w].attempt < MaxAttempts)
  /\ slot' = [slot EXCEPT ![w].pc = "fail", ![w].seen = status[slot[w].run]]
  /\ UNCHANGED <<rows, waiting, handler, bounds>>

(* Mutant: the dead letter is forgotten.                                   *)
MarkFailedOnly(w) ==
  /\ GoTo(w, "fail", "complete")
  /\ CanTransition(slot[w].seen, "failed")
  /\ status' = [status EXCEPT ![slot[w].run] = "failed"]
  /\ UNCHANGED <<attempts, deadLetters, waiting, handler, tries, bounds>>

MarkFailed(w) ==
  /\ GoTo(w, "fail", "deadletter")
  /\ CanTransition(slot[w].seen, "failed")
  /\ status' = [status EXCEPT ![slot[w].run] = "failed"]
  /\ UNCHANGED <<attempts, deadLetters, waiting, handler, tries, bounds>>

(* transition() throws inside the worker's catch: the processor rejects    *)
(* and BullMQ, told `attempts: 1', does not deliver the job again.         *)
IllegalFailure(w) ==
  /\ slot[w].pc = "fail"
  /\ ~ CanTransition(slot[w].seen, "failed")
  /\ slot' = [slot EXCEPT ![w] = IdleSlot]
  /\ dropped' = dropped \cup {slot[w].run}
  /\ UNCHANGED <<rows, waiting, handler, requeues, crashes>>

(* An operator may meanwhile have re-opened the run it buries.              *)
RecordDeadLetter(w) ==
  /\ GoTo(w, "deadletter", "complete")
  /\ deadLetters' = [deadLetters EXCEPT ![slot[w].run] = @ + 1]
  /\ UNCHANGED <<status, attempts, waiting, handler, tries, bounds>>

(* The processor has returned; the queue acknowledges the job.             *)
Complete(w) ==
  /\ slot[w].pc = "complete"
  /\ slot' = [slot EXCEPT ![w] = IdleSlot]
  /\ UNCHANGED <<rows, waiting, handler, bounds>>

(* A call of the worker that no catch surrounds throws: the job is lost.   *)
ProcessorRejects(w) ==
  /\ "policy" \in Faults
  /\ slot[w].pc \in {"increment", "decide", "fail", "deadletter"}
  /\ slot' = [slot EXCEPT ![w] = IdleSlot]
  /\ dropped' = dropped \cup {slot[w].run}
  /\ UNCHANGED <<rows, waiting, handler, requeues, crashes>>

(* The worker process dies with a job it has not acknowledged: the queue   *)
(* delivers the job again, or drops it when it stalled too often.          *)
Crash(w) ==
  LET r == slot[w].run
      s == slot[w].stalls IN
  /\ crashes < MaxCrashes
  /\ slot[w].pc # "idle"
  /\ crashes' = crashes + 1
  /\ waiting' = IF s < MaxStalled
                THEN [waiting EXCEPT ![r][s + 1] = @ + 1] ELSE waiting
  /\ dropped' = IF s < MaxStalled THEN dropped ELSE dropped \cup {r}
  /\ slot' = [slot EXCEPT ![w] = IdleSlot]
  /\ UNCHANGED <<rows, handler, requeues>>

-----------------------------------------------------------------------------
HandlerStep(h) == Reopen(h) \/ MarkRequeued(h) \/ Enqueue(h)

SlotStep(w) ==
  \/ Deliver(w) \/ IncrementAttempts(w) \/ LoadRun(w) \/ StartRun(w)
  \/ PrologueThrows(w) \/ ModelAnswers(w) \/ AttemptThrows(w)
  \/ MarkSucceeded(w) \/ RecordSuccess(w) \/ RecordThrows(w) \/ CatchAttempt(w)
  \/ ScheduleRetry(w) \/ ReadExhausted(w) \/ MarkFailed(w) \/ IllegalFailure(w)
  \/ RecordDeadLetter(w) \/ Complete(w) \/ ProcessorRejects(w)

Next ==
  \/ \E h \in Handlers, r \in Runs : CreateRun(h, r) \/ CheckFailed(h, r)
  \/ \E h \in Handlers : HandlerStep(h) \/ AbandonRequest(h)
  \/ \E w \in Slots : SlotStep(w) \/ Crash(w)

Spec == Init /\ [][Next]_vars

(* A slot that holds a job or could take one goes on, and so does a        *)
(* request in progress; nobody has to submit or requeue anything.          *)
Fairness ==
  /\ \A w \in Slots : WF_vars(SlotStep(w))
  /\ \A h \in Handlers : WF_vars(HandlerStep(h))

FairSpec == Spec /\ Fairness

-----------------------------------------------------------------------------
(* Properties *)

PcOfSlot == {"idle", "increment", "load", "start", "work", "succeed", "record",
             "catch", "decide", "fail", "deadletter", "complete"}

SlotType == [pc : PcOfSlot, run : Runs \cup {NoRun}, stalls : StallCount,
             attempt : Nat, seen : RunStatus \cup {"absent"}]
HandlerType == [pc : {"idle", "reopen", "mark", "enqueue"}, run : Runs \cup {NoRun}]

RowsOK ==
  /\ status \in [Runs -> RunStatus \cup {"absent"}]
  /\ attempts \in [Runs -> Nat]
  /\ deadLetters \in [Runs -> Nat]
  /\ tries \in [Runs -> Nat]
QueueOK == waiting \in [Runs -> [StallCount -> Nat]]
SlotsOK ==
  /\ slot \in [Slots -> SlotType]
  /\ \A w \in Slots : (slot[w].run = NoRun) <=> (slot[w].pc = "idle")
HandlersOK ==
  /\ handler \in [Handlers -> HandlerType]
  /\ \A h \in Handlers : (handler[h].run = NoRun) <=> (handler[h].pc = "idle")
BoundsOK == requeues \in [Runs -> Nat] /\ crashes \in Nat /\ dropped \subseteq Runs

(* Every variable keeps its type; a slot or request names a run exactly    *)
(* while it is busy.                                                       *)
TypeOK == RowsOK /\ QueueOK /\ SlotsOK /\ HandlersOK /\ BoundsOK

(* A claim on a run is the right and the duty to move it: a queued job, a  *)
(* slot that has not yet decided the run's fate, a request about to        *)
(* enqueue it.                                                             *)
ClaimingPc == PcOfSlot \ {"idle", "deadletter", "complete"}
SlotClaims(w, r) == slot[w].run = r /\ slot[w].pc \in ClaimingPc
QueueClaims(r) == \E s \in StallCount : waiting[r][s] > 0
HandlerClaims(h, r) == handler[h].run = r /\ handler[h].pc \in {"mark", "enqueue"}

(* No run is executed twice at once: at most one claim on it exists, over  *)
(* all slots, queued jobs and requests, through every retry hand-over of   *)
(* the worker and every requeue.                                           *)
ExclusiveExecution ==
  \A r \in Runs :
    /\ \A w1, w2 \in Slots : SlotClaims(w1, r) /\ SlotClaims(w2, r) => w1 = w2
    /\ \A h1, h2 \in Handlers : HandlerClaims(h1, r) /\ HandlerClaims(h2, r) => h1 = h2
    /\ \A s1, s2 \in StallCount : waiting[r][s1] > 0 /\ waiting[r][s2] > 0 => s1 = s2
    /\ \A s \in StallCount : waiting[r][s] <= 1
    /\ \A w \in Slots : SlotClaims(w, r) => ~ QueueClaims(r)
    /\ \A h \in Handlers : HandlerClaims(h, r) => ~ QueueClaims(r)
    /\ \A w \in Slots, h \in Handlers : ~ (SlotClaims(w, r) /\ HandlerClaims(h, r))

HandlerAgrees(h) ==
  /\ handler[h].pc \in {"mark", "enqueue"} => status[handler[h].run] = "queued"
  /\ handler[h].pc = "reopen" => status[handler[h].run] = "failed"
QueueAgrees(r) == QueueClaims(r) => status[r] \in {"queued", "running"}
SlotAgrees(w) ==
  LET pc == slot[w].pc
      current == status[slot[w].run] IN
  /\ pc \in {"increment", "load"} => current \in {"queued", "running"}
  /\ pc = "start" => slot[w].seen = current /\ current \in {"queued", "running"}
  /\ pc \in {"work", "succeed", "catch", "decide"} => current = "running"
  /\ pc = "record" => current = "succeeded"
  /\ pc = "fail" => slot[w].seen = "running" /\ current = "running"

(* The row agrees with whoever holds the run: a job is queued only for a   *)
(* run that has not ended, a slot past the start works on a run that is    *)
(* running, and a request that passed its check still sees a failed run.   *)
ClaimsAgree ==
  /\ \A h \in Handlers : HandlerAgrees(h)
  /\ \A r \in Runs : QueueAgrees(r)
  /\ \A w \in Slots : SlotAgrees(w)

(* No run is executed twice at once, and whoever holds one may rely on     *)
(* what its row said when it took it.                                      *)
ClaimsSound == ExclusiveExecution /\ ClaimsAgree

(* A run that has not ended is never orphaned: a job, a slot or a request  *)
(* still claims it.                                                        *)
NoLostRun ==
  \A r \in Runs : status[r] \in {"queued", "running"} =>
    \/ QueueClaims(r)
    \/ \E w \in Slots : SlotClaims(w, r)
    \/ \E h \in Handlers : HandlerClaims(h, r)

(* Whatever fails and crashes, a run that has not ended is claimed, or it  *)
(* is one whose job or request the code itself gave up: a call outside the *)
(* worker's catch, an illegal transition, a request cut in two, a job that *)
(* stalled too often.  Nothing else loses a run.                           *)
LossIsDeclared ==
  \A r \in Runs \ dropped : status[r] \in {"queued", "running"} =>
    \/ QueueClaims(r)
    \/ \E w \in Slots : SlotClaims(w, r)
    \/ \E h \in Handlers : HandlerClaims(h, r)

(* Every failed run is in the dead-letter list, or its worker is about to  *)
(* put it there.                                                           *)
FailureRecorded ==
  \A r \in Runs : status[r] = "failed" =>
    \/ deadLetters[r] > 0
    \/ \E w \in Slots : slot[w].run = r /\ slot[w].pc = "deadletter"

(* Every run is on somebody's list: an open one is claimed, a failed one   *)
(* is buried or about to be (startWorker, requeueDeadLetter).              *)
RunsAccountedFor == NoLostRun /\ FailureRecorded

(* The dead-letter list holds failed runs only (a requeue clears its       *)
(* entries one step after re-opening the run).                             *)
DeadLettersAreFailed ==
  \A r \in Runs : deadLetters[r] > 0 =>
    \/ status[r] = "failed"
    \/ \E h \in Handlers : handler[h] = [pc |-> "mark", run |-> r]

(* Retries are bounded: the counter of a run never exceeds the budget by   *)
(* more than one for every operator request that passed its check and one  *)
(* for every crash of a worker, whichever of them race.                    *)
AttemptBudget ==
  \A r \in Runs : attempts[r] <= MaxAttempts + requeues[r] + crashes

(* "Terminal states have no outgoing edges", but for the operator's        *)
(* re-opening of a failed run.                                             *)
TerminalIsFinal ==
  [][\A r \in Runs :
       IsTerminal(status[r]) /\ status'[r] # status[r] =>
         /\ status[r] = "failed" /\ status'[r] = "queued"
         /\ \E h \in Handlers : handler[h] = [pc |-> "reopen", run |-> r]]_vars

(* A run that has succeeded stays succeeded.                               *)
SuccessIsFinal ==
  [][\A r \in Runs : status[r] = "succeeded" => status'[r] = "succeeded"]_vars

(* A run fails only after a whole budget of attempts since it was created  *)
(* or re-opened by an operator.                                            *)
FreshBudget ==
  [][\A r \in Runs :
       status[r] # "failed" /\ status'[r] = "failed" => tries[r] >= MaxAttempts]_vars

(* Every run that is queued or running ends.                               *)
RunSettles ==
  \A r \in Runs : status[r] \in {"queued", "running"} ~> IsTerminal(status[r])

(* Whatever fails and crashes, a run ends unless its job was given up.     *)
SettlesUnlessDropped ==
  \A r \in Runs : status[r] \in {"queued", "running"} ~>
                  IsTerminal(status[r]) \/ r \in dropped

(* A failed run reaches the operator's dead-letter list, if it stays failed. *)
FailuresReachOperator ==
  \A r \in Runs : status[r] = "failed" ~> (deadLetters[r] > 0 \/ status[r] # "failed")

(* The execution plane implements the lifecycle a Run is promised.         *)
Lifecycle == INSTANCE RunLifecycle
  WITH Runs <- Runs, MaxAttempts <- MaxAttempts, status <- status, tries <- tries
LifecycleSpec == Lifecycle!Spec

=============================================================================

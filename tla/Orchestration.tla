---------------------------- MODULE Orchestration ----------------------------
(***************************************************************************)
(* A run of an orchestrator agent: plan the task, run the subtasks in      *)
(* dependency order as child runs with deterministic ids, let a reviewer   *)
(* debate the synthesis, aggregate.  Children run either inside the        *)
(* parent's own slot (dev) or as jobs of the same queue whose end the      *)
(* parent learns from the event bus (production).  The worker's retry      *)
(* policy is the one of ExecutionPlane, taken here in one step.            *)
(***************************************************************************)
EXTENDS Planner, TeamPhase

CONSTANTS
  Parents,          \* ids of orchestrator runs
  Slots,            \* concurrent job processors
  Free,             \* what an idle slot holds
  Answers,          \* what the planner's model may answer
  PlannerMayFail,   \* may the model fail, or answer without a plan?
  Complex,          \* does the complexity gate decompose the task?
  Hired,            \* agent types present in the organization
  DefaultType,      \* the agent type of the single-agent path
  Async,            \* asyncChildren: children are queued and awaited
  LateSubscription, \* may a job start before Redis has confirmed SUBSCRIBE?
  ChildrenExhaust,  \* may a queued child use up its own attempts?
  MaxAttempts,      \* the attempt budget of every run
  DebateRounds,     \* review and revise at most so often
  MaxCrashes        \* bound: process crashes

ASSUME OrchestrationAssumption ==
  /\ Free \notin Parents /\ IsFiniteSet(Slots)
  /\ {PlannerMayFail, Complex, Async, LateSubscription, ChildrenExhaust} \subseteq BOOLEAN
  /\ Hired \subseteq AgentTypes /\ DefaultType \in AgentTypes
  /\ MaxAttempts \in Nat \ {0}
  /\ DebateRounds \in 1 .. 5
  /\ MaxCrashes \in Nat

VARIABLES
  parent,   \* the row of each parent: status, attempts, result
  child,    \* the row of each child, keyed by subtask id
  born,     \* the subtask ids of a parent's children, oldest row first
  asked,    \* history: what each child was asked as, in all attempts
  jobs,     \* queued jobs of parents (of children: childJobs)
  childJobs,
  slot,     \* what each slot executes: a parent, a child <<p, id>>, or Free
  coord,    \* local state of executeOrchestration, lost with the attempt
  crashes   \* bounded counter

rows == <<parent, child, born, asked>>
queue == <<jobs, childJobs>>
vars == <<rows, queue, slot, coord, crashes>>

SinglePlan == <<[id |-> "single", type |-> DefaultType, deps |-> {}]>>
(* What normalizePlan makes of the answers, and what topoSort of that.      *)
Normalized == {NormalizePlan(raw) : raw \in Answers}
AcceptedPlans == Normalized \ {Rejected}
Order == [plan \in AcceptedPlans \cup {SinglePlan} |-> TopoSort(plan)]

ChildIds == {"single"} \cup (UNION {Ids(plan) : plan \in AcceptedPlans})
            \cup {ReviewIds[k] : k \in 1 .. DebateRounds}
            \cup {RevisionIds[k] : k \in 1 .. DebateRounds}

(* A slot's content says whose it is.                                      *)
ASSUME SlotAssumption ==
  /\ Free \notin Parents \X ChildIds
  /\ \A p \in Parents : p \notin Parents \X ChildIds
ASSUME AnswerAssumption == \A raw \in Answers : IsPlan(raw)

(* An output remembers which agent type wrote it and, for a review,        *)
(* whether its verdict asks for rework.                                    *)
NoOutput == [agent |-> "nobody", rework |-> FALSE]
NoChild == [status |-> "absent", attempts |-> 0, agent |-> "nobody", output |-> NoOutput]
NoResult == [summary |-> NoOutput, contributions |-> << >>]

(* executeOrchestration's locals, before it has planned.                   *)
Fresh(pc) == [pc |-> pc, plan |-> << >>, debated |-> FALSE, order |-> << >>,
              outputs |-> {}, contributions |-> << >>, summary |-> NoOutput,
              round |-> 1, kind |-> "subtask", id |-> "single", type |-> DefaultType,
              sub |-> "none", heard |-> "none"]

Init ==
  /\ parent = [p \in Parents |-> [status |-> "queued", attempts |-> 0, result |-> NoResult]]
  /\ child = [p \in Parents |-> [id \in ChildIds |-> NoChild]]
  /\ born = [p \in Parents |-> << >>]
  /\ asked = [p \in Parents |-> [id \in ChildIds |-> {}]]
  /\ jobs = [p \in Parents |-> 1]
  /\ childJobs = [p \in Parents |-> [id \in ChildIds |-> 0]]
  /\ slot = [w \in Slots |-> Free]
  /\ coord = [p \in Parents |-> Fresh("none")]
  /\ crashes = 0

-----------------------------------------------------------------------------
(* The worker takes a parent's job; planning *)

Begin(w, p) ==
  /\ slot[w] = Free /\ jobs[p] > 0
  /\ jobs' = [jobs EXCEPT ![p] = @ - 1]
  /\ IF IsTerminal(parent[p].status)
     THEN /\ parent' = [parent EXCEPT ![p].attempts = @ + 1]
          /\ UNCHANGED <<slot, coord>>
     ELSE /\ parent' = [parent EXCEPT ![p].attempts = @ + 1, ![p].status = "running"]
          /\ slot' = [slot EXCEPT ![w] = p]
          /\ coord' = [coord EXCEPT ![p] = Fresh("plan")]
  /\ UNCHANGED <<child, born, asked, childJobs, crashes>>

(* The gate decides for a team and the planner's answer is accepted.       *)
PlanTeam(p) ==
  /\ coord[p].pc = "plan" /\ Complex
  /\ \E plan \in AcceptedPlans :
       coord' = [coord EXCEPT ![p].pc = "sort", ![p].plan = plan, ![p].debated = TRUE]
  /\ UNCHANGED <<rows, queue, slot, crashes>>

(* A simple task, or a planner that fails: one default agent takes it.     *)
PlanSingle(p) ==
  /\ coord[p].pc = "plan"
  /\ ~ Complex \/ PlannerMayFail \/ Rejected \in Normalized
  /\ coord' = [coord EXCEPT ![p].pc = "sort", ![p].plan = SinglePlan]
  /\ UNCHANGED <<rows, queue, slot, crashes>>

Sort(p) ==
  LET order == Order[coord[p].plan] IN
  /\ coord[p].pc = "sort"
  /\ coord' = [coord EXCEPT ![p].pc = IF order = Rejected THEN "throw" ELSE "next",
                            ![p].order = order]
  /\ UNCHANGED <<rows, queue, slot, crashes>>

-----------------------------------------------------------------------------
(* One child: its row, its execution, its outcome *)

(* Mutant: the child is credited to the agent type of the one before.      *)
DispatchCreditsPrevious(p, kind, id, type) ==
  /\ child' = IF child[p][id].status # "absent" THEN child
              ELSE [child EXCEPT ![p][id] =
                      [NoChild EXCEPT !.status = "queued", !.agent = type]]
  /\ born' = IF child[p][id].status # "absent" THEN born
             ELSE [born EXCEPT ![p] = Append(@, id)]
  /\ asked' = [asked EXCEPT ![p][id] = @ \cup {[kind |-> kind, type |-> type]}]
  /\ coord' = [coord EXCEPT ![p].pc = IF Async THEN "enqueue" ELSE "execute",
                            ![p].kind = kind, ![p].id = id,
                            ![p].sub = IF ~ Async THEN "none"
                                       ELSE IF LateSubscription THEN "pending" ELSE "active",
                            ![p].heard = "none"]
  /\ UNCHANGED <<parent, queue, slot, crashes>>

(* createRun is an upsert that leaves an existing row alone; then the      *)
(* child is executed here, or subscribed to and queued.                    *)
Dispatch(p, kind, id, type) ==
  /\ child' = IF child[p][id].status # "absent" THEN child
              ELSE [child EXCEPT ![p][id] =
                      [NoChild EXCEPT !.status = "queued", !.agent = type]]
  /\ born' = IF child[p][id].status # "absent" THEN born
             ELSE [born EXCEPT ![p] = Append(@, id)]
  /\ asked' = [asked EXCEPT ![p][id] = @ \cup {[kind |-> kind, type |-> type]}]
  /\ coord' = [coord EXCEPT ![p].pc = IF Async THEN "enqueue" ELSE "execute",
                            ![p].kind = kind, ![p].id = id, ![p].type = type,
                            ![p].sub = IF ~ Async THEN "none"
                                       ELSE IF LateSubscription THEN "pending" ELSE "active",
                            ![p].heard = "none"]
  /\ UNCHANGED <<parent, queue, slot, crashes>>

Done(p) == Len(coord[p].contributions)

DispatchSubtask(p) ==
  /\ coord[p].pc = "next" /\ Done(p) < Len(coord[p].order)
  /\ LET s == coord[p].order[Done(p) + 1] IN
       /\ s.type \in Hired
       /\ Dispatch(p, "subtask", s.id, s.type)

(* No agent of the planned type in the organization.                       *)
NobodyToAsk(p) ==
  /\ coord[p].pc = "next" /\ Done(p) < Len(coord[p].order)
  /\ coord[p].order[Done(p) + 1].type \notin Hired
  /\ coord' = [coord EXCEPT ![p].pc = "throw"]
  /\ UNCHANGED <<rows, queue, slot, crashes>>

EnqueueChild(p) ==
  /\ coord[p].pc = "enqueue"
  /\ childJobs' = [childJobs EXCEPT ![p][coord[p].id] = @ + 1]
  /\ coord' = [coord EXCEPT ![p].pc = "await"]
  /\ UNCHANGED <<rows, jobs, slot, crashes>>

SubscriptionConfirmed(p) ==
  /\ coord[p].sub = "pending"
  /\ coord' = [coord EXCEPT ![p].sub = "active"]
  /\ UNCHANGED <<rows, queue, slot, crashes>>

(* A failed subtask fails the attempt, a failed debate round ends the      *)
(* debate.                                                                 *)
AfterFailure(p) == IF coord[p].kind = "subtask" THEN "throw" ELSE "aggregate"

Awaken(p) ==
  /\ coord[p].pc = "await" /\ coord[p].heard # "none"
  /\ coord' = [coord EXCEPT ![p].pc = IF coord[p].heard = "succeeded" THEN "read"
                                      ELSE AfterFailure(p)]
  /\ UNCHANGED <<rows, queue, slot, crashes>>

(* Mutant: a child that has already ended is executed once more.           *)
StartInlineAgain(p) ==
  /\ coord[p].pc = "execute"
  /\ coord' = [coord EXCEPT ![p].pc = "work"]
  /\ child' = [child EXCEPT ![p][coord[p].id].status = "running"]
  /\ UNCHANGED <<parent, born, asked, queue, slot, crashes>>

StartInline(p) ==
  LET ended == IsTerminal(child[p][coord[p].id].status) IN
  /\ coord[p].pc = "execute"
  /\ coord' = [coord EXCEPT ![p].pc = IF ended THEN "read" ELSE "work"]
  /\ child' = IF ended THEN child
              ELSE [child EXCEPT ![p][coord[p].id].status = "running"]
  /\ UNCHANGED <<parent, born, asked, queue, slot, crashes>>

Outputs(p, id) ==
  {[agent |-> child[p][id].agent, rework |-> r] :
     r \in IF IsReviewId(id) THEN BOOLEAN ELSE {FALSE}}

FinishInline(p) ==
  LET id == coord[p].id IN
  /\ coord[p].pc = "work"
  /\ \/ \E out \in Outputs(p, id) :
          /\ child' = [child EXCEPT ![p][id].status = "succeeded", ![p][id].output = out]
          /\ coord' = [coord EXCEPT ![p].pc = "read"]
     \/ /\ coord' = [coord EXCEPT ![p].pc = AfterFailure(p)]
        /\ child' = child          \* executeRun leaves it running and throws
  /\ UNCHANGED <<parent, born, asked, queue, slot, crashes>>

Contribution(p) ==
  [id |-> coord[p].id, type |-> coord[p].type, output |-> child[p][coord[p].id].output]

(* The row is read again and must say succeeded.                           *)
ReadsSuccess(p, kind) ==
  /\ coord[p].pc = "read" /\ coord[p].kind = kind
  /\ child[p][coord[p].id].status = "succeeded"

(* It does not where a second delivery of the child's job had it executed  *)
(* beside the one that succeeded, and failed after.                        *)
ReadsFailure(p) ==
  /\ coord[p].pc = "read"
  /\ child[p][coord[p].id].status # "succeeded"
  /\ coord' = [coord EXCEPT ![p].pc = AfterFailure(p)]
  /\ UNCHANGED <<rows, queue, slot, crashes>>

ReadSubtask(p) ==
  /\ ReadsSuccess(p, "subtask")
  /\ coord' = [coord EXCEPT ![p].pc = "next", ![p].outputs = @ \cup {coord[p].id},
                            ![p].contributions = Append(@, Contribution(p))]
  /\ UNCHANGED <<rows, queue, slot, crashes>>

(* Mutant: every review is followed by a revision.                         *)
ReadReviewAlways(p) ==
  /\ ReadsSuccess(p, "review")
  /\ coord' = [coord EXCEPT ![p].pc = "revise"]
  /\ UNCHANGED <<rows, queue, slot, crashes>>

(* A verdict of rework is followed by a revision, any other ends the debate. *)
ReadReview(p) ==
  /\ ReadsSuccess(p, "review")
  /\ coord' = [coord EXCEPT ![p].pc = IF Contribution(p).output.rework THEN "revise"
                                      ELSE "aggregate"]
  /\ UNCHANGED <<rows, queue, slot, crashes>>

ReadRevision(p) ==
  /\ ReadsSuccess(p, "revision")
  /\ coord' = [coord EXCEPT ![p].pc = IF coord[p].round < DebateRounds THEN "review"
                                      ELSE "aggregate",
                            ![p].round = @ + 1,
                            ![p].summary = Contribution(p).output,
                            ![p].contributions = Append(@, Contribution(p))]
  /\ UNCHANGED <<rows, queue, slot, crashes>>

-----------------------------------------------------------------------------
(* Debate and aggregation *)

(* The last subtask in order is the synthesis; a team of several without a *)
(* reviewer of its own is reviewed when a reviewer is hired.               *)
AllSubtasksDone(p) ==
  LET c == coord[p] IN
  /\ c.pc = "next" /\ Done(p) = Len(c.order)
  /\ coord' = [coord EXCEPT
       ![p].pc = IF /\ c.debated /\ Len(c.order) > 1 /\ "reviewer" \in Hired
                    /\ \A i \in DOMAIN c.order : c.order[i].type # "reviewer"
                 THEN "review" ELSE "aggregate",
       ![p].summary = c.contributions[Len(c.contributions)].output]
  /\ UNCHANGED <<rows, queue, slot, crashes>>

StartReview(p) ==
  /\ coord[p].pc = "review"
  /\ Dispatch(p, "review", ReviewIds[coord[p].round], "reviewer")

StartRevision(p) ==
  /\ coord[p].pc = "revise"
  /\ Dispatch(p, "revision", RevisionIds[coord[p].round],
              coord[p].order[Len(coord[p].order)].type)

Holder(p) == CHOOSE w \in Slots : slot[w] = p

Aggregate(p) ==
  /\ coord[p].pc = "aggregate"
  /\ parent' = [parent EXCEPT ![p].status = "succeeded",
                  ![p].result = [summary |-> coord[p].summary,
                                 contributions |-> coord[p].contributions]]
  /\ coord' = [coord EXCEPT ![p] = Fresh("none")]
  /\ slot' = [slot EXCEPT ![Holder(p)] = Free]
  /\ UNCHANGED <<child, born, asked, queue, crashes>>

(* Mutant: the attempt is given up, the retry is never queued.             *)
AttemptFailsForGood(p) ==
  /\ coord[p].pc = "throw"
  /\ coord' = [coord EXCEPT ![p] = Fresh("none")]
  /\ slot' = [slot EXCEPT ![Holder(p)] = Free]
  /\ UNCHANGED <<rows, queue, crashes>>

(* The catch leaves the parent running and the worker retries it or        *)
(* declares it failed.                                                     *)
AttemptFails(p) ==
  /\ coord[p].pc = "throw"
  /\ IF parent[p].attempts < MaxAttempts
     THEN jobs' = [jobs EXCEPT ![p] = @ + 1]
          /\ parent' = [parent EXCEPT ![p].status = "running"]
     ELSE jobs' = jobs /\ parent' = [parent EXCEPT ![p].status = "failed"]
  /\ coord' = [coord EXCEPT ![p] = Fresh("none")]
  /\ slot' = [slot EXCEPT ![Holder(p)] = Free]
  /\ UNCHANGED <<child, born, asked, childJobs, crashes>>

-----------------------------------------------------------------------------
(* Queued children: any slot executes them, the bus reports their end *)

Publish(p, id, event) ==
  coord' = IF coord[p].id = id /\ coord[p].sub = "active"
           THEN [coord EXCEPT ![p].sub = "none", ![p].heard = event]
           ELSE coord

(* A job of a child that has ended is skipped, without an event.           *)
TakeChild(w, p, id) ==
  /\ slot[w] = Free /\ childJobs[p][id] > 0
  /\ childJobs' = [childJobs EXCEPT ![p][id] = @ - 1]
  /\ IF IsTerminal(child[p][id].status)
     THEN /\ child' = [child EXCEPT ![p][id].attempts = @ + 1]
          /\ UNCHANGED slot
     ELSE /\ child' = [child EXCEPT ![p][id].attempts = @ + 1, ![p][id].status = "running"]
          /\ slot' = [slot EXCEPT ![w] = <<p, id>>]
  /\ UNCHANGED <<parent, born, asked, jobs, coord, crashes>>

ChildSucceeds(w, p, id) ==
  /\ slot[w] = <<p, id>>
  /\ \E out \in Outputs(p, id) :
       child' = [child EXCEPT ![p][id].status = "succeeded", ![p][id].output = out]
  /\ slot' = [slot EXCEPT ![w] = Free]
  /\ Publish(p, id, "succeeded")
  /\ UNCHANGED <<parent, born, asked, queue, crashes>>

(* Mutant: the retry of a child is announced like its end.                 *)
ChildRetriesLoudly(w, p, id) ==
  /\ slot[w] = <<p, id>>
  /\ child[p][id].attempts < MaxAttempts
  /\ childJobs' = [childJobs EXCEPT ![p][id] = @ + 1]
  /\ slot' = [slot EXCEPT ![w] = Free]
  /\ Publish(p, id, "dead")
  /\ UNCHANGED <<rows, jobs, crashes>>

(* The attempt's catch wrote 'running', blindly; the job is queued again.  *)
ChildRetries(w, p, id) ==
  /\ slot[w] = <<p, id>>
  /\ child[p][id].attempts < MaxAttempts
  /\ child' = [child EXCEPT ![p][id].status = "running"]
  /\ childJobs' = [childJobs EXCEPT ![p][id] = @ + 1]
  /\ slot' = [slot EXCEPT ![w] = Free]
  /\ UNCHANGED <<parent, born, asked, jobs, coord, crashes>>

ChildIsDeadLettered(w, p, id) ==
  /\ ChildrenExhaust
  /\ slot[w] = <<p, id>>
  /\ child[p][id].attempts >= MaxAttempts
  /\ child' = [child EXCEPT ![p][id].status = "failed"]
  /\ slot' = [slot EXCEPT ![w] = Free]
  /\ Publish(p, id, "dead")
  /\ UNCHANGED <<parent, born, asked, queue, crashes>>

(* The process dies: every attempt and subscription is lost, every job it  *)
(* had taken is delivered again.                                           *)
Crash ==
  /\ crashes < MaxCrashes
  /\ \E w \in Slots : slot[w] # Free
  /\ crashes' = crashes + 1
  /\ jobs' = [p \in Parents |-> jobs[p] + Cardinality({w \in Slots : slot[w] = p})]
  /\ childJobs' = [p \in Parents |-> [id \in ChildIds |->
       childJobs[p][id] + Cardinality({w \in Slots : slot[w] = <<p, id>>})]]
  /\ slot' = [w \in Slots |-> Free]
  /\ coord' = [p \in Parents |-> Fresh("none")]
  /\ UNCHANGED rows

-----------------------------------------------------------------------------
Coordinate(p) ==
  \/ PlanTeam(p) \/ PlanSingle(p) \/ Sort(p)
  \/ DispatchSubtask(p) \/ NobodyToAsk(p) \/ EnqueueChild(p)
  \/ SubscriptionConfirmed(p) \/ Awaken(p) \/ StartInline(p) \/ FinishInline(p)
  \/ ReadSubtask(p) \/ ReadReview(p) \/ ReadRevision(p) \/ ReadsFailure(p)
  \/ AllSubtasksDone(p) \/ StartReview(p) \/ StartRevision(p)
  \/ Aggregate(p) \/ AttemptFails(p)

Execute(w, p, id) ==
  \/ TakeChild(w, p, id) \/ ChildSucceeds(w, p, id)
  \/ ChildRetries(w, p, id) \/ ChildIsDeadLettered(w, p, id)

Work ==
  \/ \E p \in Parents : Coordinate(p)
  \/ \E w \in Slots, p \in Parents : Begin(w, p)
  \/ \E w \in Slots, p \in Parents, id \in ChildIds : Execute(w, p, id)

Next == Work \/ Crash

Spec == Init /\ [][Next]_vars

(* As long as something can be done, something is: attempts are bounded,   *)
(* so nothing can be put off for ever.                                     *)
FairSpec == Spec /\ WF_vars(Work)

-----------------------------------------------------------------------------
(* Properties *)

Pcs == {"none", "plan", "sort", "next", "enqueue", "await", "execute", "work", "read",
        "review", "revise", "aggregate", "throw"}

TypeOK ==
  /\ \A p \in Parents :
       /\ parent[p].status \in RunStatus /\ parent[p].attempts \in Nat
       /\ \A id \in ChildIds :
            /\ child[p][id].status \in RunStatus \cup {"absent"}
            /\ child[p][id].agent \in AgentTypes \cup {"nobody"}
            /\ childJobs[p][id] \in Nat
       /\ coord[p].pc \in Pcs
       /\ coord[p].id \in ChildIds
       /\ coord[p].pc = "none" <=> \A w \in Slots : slot[w] # p
  /\ slot \in [Slots -> {Free} \cup Parents \cup (Parents \X ChildIds)]

(* A subtask is sent to its agent only with the output of every subtask it *)
(* depends on at hand, whatever was retried, reused or crashed before.     *)
DependenciesReady ==
  \A p \in Parents :
    coord[p].kind = "subtask" /\ coord[p].pc \in {"enqueue", "execute", "work"} =>
      \A d \in Subtask(coord[p].plan, coord[p].id).deps :
        d \in coord[p].outputs /\ child[p][d].status = "succeeded"

(* "An orchestration retry reuses completed children": a child that has    *)
(* succeeded is never executed again and its output never changes.         *)
CompletedChildrenReused ==
  [][\A p \in Parents, id \in ChildIds :
       child[p][id].status = "succeeded" =>
         /\ child'[p][id].status = "succeeded"
         /\ child'[p][id].output = child[p][id].output]_vars

(* A child is never queued or executed twice at the same time.             *)
ChildExclusive ==
  \A p \in Parents, id \in ChildIds :
    childJobs[p][id] + Cardinality({w \in Slots : slot[w] = <<p, id>>}) <= 1

(* The planner is asked anew on every attempt, and nothing keeps it from   *)
(* giving an id to another role, or a subtask the name of a round.         *)
Reassigned(p, id) == \E a, b \in asked[p][id] : a.type # b.type
RoundId(id) == IsReviewId(id) \/ IsRevisionId(id)
Misnamed(p) == \E id \in ChildIds : RoundId(id) /\ \E a \in asked[p][id] : a.kind = "subtask"

(* Every contribution shows what the agent of the child's row wrote - the  *)
(* one that was asked first - and is credited to that kind of agent unless *)
(* the task has asked two kinds of agent for the same id.                  *)
AttributionCorrect ==
  \A p \in Parents : \A i \in DOMAIN parent[p].result.contributions :
    LET c == parent[p].result.contributions[i] IN
    /\ c.output.agent = child[p][c.id].agent
    /\ c.output.agent # c.type => Reassigned(p, c.id)

(* What orchestrator.ts:117 says of the report: "Track each contributor so *)
(* the aggregate is a readable, attributed team report".  A retry whose    *)
(* plan gives an id to another role credits it with the former's answer.   *)
CreditsTheAuthor ==
  \A p \in Parents : \A i \in DOMAIN parent[p].result.contributions :
    LET c == parent[p].result.contributions[i] IN c.output.agent = c.type

(* No revision without a review that asked for it, no further review       *)
(* without the revision of the round before - in a task that has no        *)
(* subtask by the name of a round, which would be taken for it.            *)
DebateAlternates ==
  \A p \in Parents : ~ Misnamed(p) => \A k \in 1 .. DebateRounds :
    /\ child[p][RevisionIds[k]].status # "absent" =>
         child[p][ReviewIds[k]].status = "succeeded" /\ child[p][ReviewIds[k]].output.rework
    /\ k > 1 /\ child[p][ReviewIds[k]].status # "absent" =>
         child[p][RevisionIds[k - 1]].status = "succeeded"

(* A task that succeeded was answered by every planned subtask, and its    *)
(* summary is the last contribution: the report shows what was decided.    *)
SummaryIsSynthesis ==
  \A p \in Parents : parent[p].status = "succeeded" =>
    LET r == parent[p].result IN
    /\ r.contributions # << >>
    /\ r.summary = r.contributions[Len(r.contributions)].output
    /\ \A i \in DOMAIN r.contributions :
         child[p][r.contributions[i].id].status = "succeeded"

(* The debate is led round by round, through every retry, and the report   *)
(* shows what came out of it (executeOrchestration).                       *)
DebateSound == DebateAlternates /\ SummaryIsSynthesis

(* While a child is executed, the phase a reader derives from the rows     *)
(* says that the team is at work; and it names the round of the debate, or *)
(* none, unless a subtask has the name of a round.                         *)
Phase(p) ==
  DeriveTeamPhase(parent[p].status,
    [i \in DOMAIN born[p] |-> [id |-> born[p][i], status |-> child[p][born[p][i]].status]])
PhaseTruthful ==
  \A p \in Parents :
    LET InRound(kind) == coord[p].kind = kind /\ coord[p].pc \in {"enqueue", "await", "execute", "work"}
                         /\ coord[p].heard = "none"
                         /\ ~ IsTerminal(child[p][coord[p].id].status) IN
    /\ \A kind \in {"subtask", "review", "revision"} :
         InRound(kind) => Phase(p) \in {"working", "reviewing", "revising"}
    /\ ~ Misnamed(p) => /\ InRound("review") => Phase(p) = "reviewing"
                        /\ InRound("revision") => Phase(p) = "revising"
                        /\ InRound("subtask") => Phase(p) = "working"

(* topoSort gives up exactly on the plans no order can execute; any other  *)
(* it runs completely, every subtask once and after all it depends on.     *)
SortSound ==
  \A p \in Parents :
    LET plan == coord[p].plan
        order == Order[plan] IN
    coord[p].pc = "sort" =>
      IF order = Rejected THEN ~ Executable(plan)
      ELSE Executes(order, plan)

(* A planner's answer that was accepted can be executed: it has an order.  *)
PlanIsExecutable ==
  \A p \in Parents : coord[p].pc = "sort" => Order[coord[p].plan] # Rejected

(* A parent that waits for ever: its child has ended and the event is gone, *)
(* or the child's job waits for a slot and every slot is held by a parent  *)
(* that waits itself.                                                      *)
Hung(p) ==
  LET id == coord[p].id IN
  /\ coord[p].pc = "await" /\ coord[p].heard = "none"
  /\ \/ IsTerminal(child[p][id].status)
     \/ /\ childJobs[p][id] > 0
        /\ \A w \in Slots : slot[w] \in Parents /\ coord[slot[w]].pc = "await"

(* Whatever else fails, a task only fails to end in these two ways.        *)
SettlesOrHangs ==
  \A p \in Parents : parent[p].status \in {"queued", "running"} ~>
                     IsTerminal(parent[p].status) \/ Hung(p)

(* Every orchestrated task ends.                                           *)
ParentSettles ==
  \A p \in Parents : parent[p].status \in {"queued", "running"} ~> IsTerminal(parent[p].status)

(* A child whose task has ended has ended too.                             *)
NoChildLeftRunning ==
  \A p \in Parents : \A id \in ChildIds :
    IsTerminal(parent[p].status) => child[p][id].status \notin {"queued", "running"}

=============================================================================

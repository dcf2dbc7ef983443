------------------------- MODULE Orchestration_proofs -------------------------
(***************************************************************************)
(* What orchestration promises, for any number of tasks, slots, plans and  *)
(* rounds.  Children executed inside the parent's slot survive crashes;    *)
(* queued ones are redelivered beside the job a retried parent queues for  *)
(* them, so what is said of them is said of a process that does not die.   *)
(***************************************************************************)
EXTENDS Orchestration, Planner_proofs

(* Either children are not queued, or the process does not die.            *)
NoRedelivery == ~ Async \/ MaxCrashes = 0

Plans == AcceptedPlans \cup {SinglePlan}
Tasks == [id : ChildIds, type : AgentTypes, deps : SUBSET ChildIds]
Writings == [agent : AgentTypes \cup {"nobody"}, rework : BOOLEAN]
Credits == [id : ChildIds, type : AgentTypes, output : Writings]
ParentRow == [status : RunStatus, attempts : Nat,
              result : [summary : Writings, contributions : Seq(Credits)]]
ChildRow == [status : RunStatus \cup {"absent"}, attempts : Nat,
             agent : AgentTypes \cup {"nobody"}, output : Writings]
Locals == [pc : Pcs, plan : Plans \cup {<< >>}, debated : BOOLEAN, order : Seq(Tasks),
           outputs : SUBSET ChildIds, contributions : Seq(Credits), summary : Writings,
           round : Nat, kind : {"subtask", "review", "revision"}, id : ChildIds,
           type : AgentTypes, sub : {"none", "pending", "active"},
           heard : {"none", "succeeded", "dead"}]

Typed ==
  /\ parent \in [Parents -> ParentRow]
  /\ child \in [Parents -> [ChildIds -> ChildRow]]
  /\ born \in [Parents -> Seq(ChildIds)]
  /\ jobs \in [Parents -> Nat] /\ childJobs \in [Parents -> [ChildIds -> Nat]]
  /\ slot \in [Slots -> {Free} \cup Parents \cup (Parents \X ChildIds)]
  /\ coord \in [Parents -> Locals]
  /\ crashes \in Nat

(* While a parent executes it holds one slot and has no job.               *)
ParentHeld(p) ==
  /\ coord[p].pc = "none" <=> \A w \in Slots : slot[w] # p
  /\ \A v, w \in Slots : slot[v] = p /\ slot[w] = p => v = w
  /\ jobs[p] = 0 \/ (jobs[p] = 1 /\ coord[p].pc = "none")
  /\ coord[p].pc # "none" => parent[p].status = "running"

Busy == {"enqueue", "await", "execute", "work", "read"}
Asking(p, kinds) == coord[p].pc \in Busy /\ coord[p].kind \in kinds

(* The attempt follows an order of its plan, one subtask for each one      *)
(* contributed, then one round for each one debated.                       *)
OnTrack(p) ==
  LET c == coord[p] IN
  /\ c.pc \in {"plan", "sort"} => c.contributions = << >>
  /\ c.pc \in {"plan", "sort", "next"} \/ Asking(p, {"subtask"}) => c.round = 1
  /\ c.pc = "sort" => c.plan \in Plans
  /\ c.pc \in Busy \cup {"next", "review", "revise", "aggregate"} =>
       c.plan \in Plans /\ c.order = Order[c.plan] /\ c.order # Rejected
  /\ c.pc = "next" => Done(p) <= Len(c.order)
  /\ Asking(p, {"subtask"}) =>
       /\ Done(p) < Len(c.order)
       /\ c.id = c.order[Done(p) + 1].id /\ c.type = c.order[Done(p) + 1].type
  /\ c.pc = "next" \/ Asking(p, {"subtask"}) =>
       \A j \in 1 .. Done(p) : c.order[j].id \in c.outputs
  /\ c.pc \in {"review", "revise"} \/ Asking(p, {"review", "revision"}) =>
       c.round \in 1 .. DebateRounds /\ Len(c.order) > 1
  /\ Asking(p, {"review"}) => c.id = ReviewIds[c.round] /\ c.type = "reviewer"
  /\ Asking(p, {"revision"}) =>
       c.id = RevisionIds[c.round] /\ c.type = c.order[Len(c.order)].type

(* What holds whatever crashes and whatever is delivered twice.            *)
TrackInv ==
  /\ Typed
  /\ \A p \in Parents : ParentHeld(p) /\ OnTrack(p)

(* A queued or executed child is the one its parent waits for.             *)
ChildHeld(p, id) ==
  /\ \A w \in Slots : slot[w] = <<p, id>> =>
       /\ childJobs[p][id] = 0 /\ child[p][id].status = "running"
       /\ \A v \in Slots : slot[v] = <<p, id>> => v = w
  /\ childJobs[p][id] # 0 \/ (\E w \in Slots : slot[w] = <<p, id>>) =>
       /\ childJobs[p][id] <= 1
       /\ Async /\ coord[p].pc = "await" /\ coord[p].id = id /\ coord[p].heard = "none"

(* The two ways to execute a child do not mix; a child that is asked has a *)
(* row, and what the attempt counts as done has succeeded.                 *)
ChildrenTrue(p) ==
  /\ IF Async THEN coord[p].pc \notin {"execute", "work"} ELSE coord[p].pc \notin {"enqueue", "await"}
  /\ coord[p].pc = "enqueue" => coord[p].heard = "none"
  /\ coord[p].pc \in Busy => child[p][coord[p].id].status # "absent"
  /\ coord[p].pc = "work" => child[p][coord[p].id].status = "running"
  /\ \A d \in coord[p].outputs : child[p][d].status = "succeeded"

(* What holds as long as no child's job is delivered twice.                *)
ChildrenInv ==
  /\ TrackInv
  /\ \A p \in Parents : ChildrenTrue(p)
  /\ \A p \in Parents : \A id \in ChildIds : ChildHeld(p, id)

-----------------------------------------------------------------------------
(* Constants *)

LEMMA NormalizedWell ==
  ASSUME NEW raw \in Answers, NormalizePlan(raw) # Rejected
  PROVE  WellFormed(NormalizePlan(raw))
<1> DEFINE named == [i \in DOMAIN raw |->
                       [raw[i] EXCEPT !.id = IF @ = NoId THEN DefaultIds[i] ELSE @]]
<1>1. NormalizePlan(raw) = named
      /\ (\A i \in DOMAIN raw : raw[i].type \in AgentTypes \ {"orchestrator"})
      /\ (\A i, j \in DOMAIN raw : named[i].id = named[j].id => i = j)
      /\ (\A i \in DOMAIN raw : named[i].deps \subseteq Ids(named))
  BY DEF NormalizePlan
<1> DEFINE Raw == [id : Ids(raw), type : {raw[i].type : i \in DOMAIN raw},
                   deps : SUBSET (UNION {raw[i].deps : i \in DOMAIN raw})]
<1>2. raw \in Seq(Raw) BY AnswerAssumption DEF IsPlan
<1> HIDE DEF Raw
<1>3. Len(raw) \in Nat /\ DOMAIN raw = 1 .. Len(raw) /\ \A i \in DOMAIN raw : raw[i] \in Raw
  BY <1>2, LenProperties, ElementOfSeq
<1>4. DOMAIN named = DOMAIN raw OBVIOUS
<1>5. \A i \in DOMAIN raw : named[i].id \in Ids(named) BY <1>4 DEF Ids
<1>6. ASSUME NEW i \in DOMAIN raw
      PROVE  named[i] = [id |-> named[i].id, type |-> raw[i].type, deps |-> named[i].deps]
  <2>1. raw[i] = [id |-> raw[i].id, type |-> raw[i].type, deps |-> raw[i].deps] BY <1>3 DEF Raw
  <2>2. named[i] = [raw[i] EXCEPT !.id = IF @ = NoId THEN DefaultIds[i] ELSE @] OBVIOUS
  <2> QED BY <2>1, <2>2
<1> HIDE DEF named
<1>7. \A i \in DOMAIN raw : named[i] \in TasksOf(named)
  <2> SUFFICES ASSUME NEW i \in DOMAIN raw PROVE named[i] \in TasksOf(named)
    OBVIOUS
  <2> DEFINE I == named[i].id
             D == named[i].deps
             t == raw[i].type
  <2>1. I \in Ids(named) /\ t \in AgentTypes /\ D \subseteq Ids(named) BY <1>1, <1>5
  <2>2. named[i] = [id |-> I, type |-> t, deps |-> D] BY <1>6
  <2> HIDE DEF I, D, t
  <2> QED BY <2>1, <2>2 DEF TasksOf
<1>8. named \in Seq(TasksOf(named))
  <2>1. named = [i \in 1 .. Len(raw) |-> named[i]] BY <1>3 DEF named
  <2> DEFINE T == TasksOf(named)
  <2>2. \A i \in 1 .. Len(raw) : named[i] \in T BY <1>3, <1>7
  <2> HIDE DEF T
  <2>3. \E n \in Nat : named \in [1 .. n -> T] BY <1>3, <2>1, <2>2
  <2>4. named \in Seq(T) BY <2>3, SeqDef
  <2> QED BY <2>4 DEF T
<1> QED BY <1>1, <1>4, <1>8 DEF WellFormed

LEMMA PlansWell ==
  ASSUME NEW plan \in Plans
  PROVE  /\ WellFormed(plan) /\ plan # << >> /\ Ids(plan) \subseteq ChildIds
         /\ Order[plan] = TopoSort(plan)
<1>1. CASE plan = SinglePlan
  <2> DEFINE t == [id |-> "single", type |-> DefaultType, deps |-> {}]
  <2>1. plan = <<t>> BY <1>1 DEF SinglePlan
  <2>2. t.id = "single" /\ t.deps = {} /\ t.type = DefaultType /\ DOMAIN t = {"id", "type", "deps"}
    OBVIOUS
  <2>3. DOMAIN plan = {1} /\ plan[1] = t /\ plan # << >> BY <2>1
  <2>4. Ids(plan) = {"single"} BY <2>2, <2>3 DEF Ids
  <2>5. t \in TasksOf(plan) BY <2>4, OrchestrationAssumption DEF TasksOf
  <2> HIDE DEF t
  <2>6. plan \in Seq(TasksOf(plan))
    <3> DEFINE T == TasksOf(plan)
    <3>1. t \in T BY <2>5
    <3> HIDE DEF T
    <3>2. <<t>> \in Seq(T) BY <3>1
    <3> QED BY <2>1, <3>2 DEF T
  <2> QED BY <1>1, <2>3, <2>4, <2>6 DEF WellFormed, Plans, Order, ChildIds
<1>2. CASE plan \in AcceptedPlans
  <2>1. WellFormed(plan) /\ plan # << >>
    BY <1>2, NormalizedWell DEF AcceptedPlans, Normalized, Rejected
  <2>2. Ids(plan) \subseteq ChildIds BY <1>2 DEF ChildIds
  <2> QED BY <2>1, <2>2 DEF Plans, Order
<1> QED BY <1>1, <1>2 DEF Plans

(* Every element of an order is a subtask of its plan and comes after the  *)
(* elements it depends on.                                                 *)
LEMMA OrdersWell ==
  ASSUME NEW plan \in Plans, Order[plan] # Rejected
  PROVE  LET order == Order[plan]
         IN  /\ order \in Seq(Tasks) /\ Len(order) \in Nat \ {0} /\ DOMAIN order = 1 .. Len(order)
             /\ Executes(order, plan)
             /\ \A i \in 1 .. Len(order) :
                  /\ order[i].id \in ChildIds /\ order[i].type \in AgentTypes
                  /\ order[i].id \in Ids(plan) /\ Subtask(plan, order[i].id) = order[i]
                  /\ order[i].deps \subseteq {order[j].id : j \in 1 .. i - 1}
<1> DEFINE order == Order[plan]
<1>1. /\ WellFormed(plan) /\ plan # << >> /\ Ids(plan) \subseteq ChildIds
      /\ order = TopoSort(plan)
  BY PlansWell
<1>2. order \in Seq(TasksOf(plan)) /\ Executes(order, plan) BY <1>1, TopoSortCorrect
<1>3. order # << >> BY DEF Rejected
<1>4. TasksOf(plan) \subseteq Tasks BY <1>1 DEF TasksOf, Tasks
<1> HIDE DEF order
<1> DEFINE T == TasksOf(plan)
<1>5. order \in Seq(T) /\ T \subseteq Tasks BY <1>2, <1>4
<1> HIDE DEF T
<1>6. Len(order) \in Nat \ {0} /\ DOMAIN order = 1 .. Len(order)
      /\ \A i \in 1 .. Len(order) : order[i] \in Tasks
  BY <1>5, <1>3, EmptySeq, LenProperties, ElementOfSeq
<1>7. order \in Seq(Tasks) BY <1>5
<1>8. ASSUME NEW i \in 1 .. Len(order)
      PROVE  /\ order[i].id \in ChildIds /\ order[i].type \in AgentTypes
             /\ order[i].id \in Ids(plan) /\ Subtask(plan, order[i].id) = order[i]
             /\ order[i].deps \subseteq {order[j].id : j \in 1 .. i - 1}
  <2>1. order[i] \in {plan[k] : k \in DOMAIN plan} BY <1>2, <1>6 DEF Executes
  <2>2. PICK k \in DOMAIN plan : order[i] = plan[k] BY <2>1
  <2>3. plan[k].id \in Ids(plan) /\ Subtask(plan, plan[k].id) = plan[k] BY <1>1, IdsOfPlan
  <2>4. order[i].deps \subseteq {order[j].id : j \in 1 .. i - 1} BY <1>2, <1>6 DEF Executes
  <2>5. order[i] \in Tasks BY <1>6
  <2> QED BY <2>2, <2>3, <2>4, <2>5 DEF Tasks
<1> QED BY <1>2, <1>6, <1>7, <1>8 DEF order

LEMMA DebateIds ==
  ASSUME NEW k \in 1 .. DebateRounds
  PROVE  ReviewIds[k] \in ChildIds /\ RevisionIds[k] \in ChildIds
  BY DEF ChildIds

-----------------------------------------------------------------------------
(* Types *)

LEMMA TypedInit ==
  ASSUME Init
  PROVE  Typed
<1>1. NoOutput \in Writings BY DEF NoOutput, Writings, AgentTypes
<1>2. NoChild \in ChildRow BY <1>1 DEF NoChild, ChildRow
<1>3. [status |-> "queued", attempts |-> 0, result |-> NoResult] \in ParentRow
  BY <1>1 DEF NoResult, ParentRow, RunStatus
<1>4. Fresh("none") \in Locals
  BY <1>1, OrchestrationAssumption DEF Fresh, Locals, Pcs, ChildIds, AgentTypes
<1> QED BY <1>1, <1>2, <1>3, <1>4 DEF Init, Typed

LEMMA DispatchTyped ==
  ASSUME Typed, NEW p \in Parents, NEW kind \in {"subtask", "review", "revision"},
         NEW id \in ChildIds, NEW type \in AgentTypes, Dispatch(p, kind, id, type)
  PROVE  Typed'
<1>1. [NoChild EXCEPT !.status = "queued", !.agent = type] \in ChildRow
  BY DEF NoChild, NoOutput, ChildRow, Writings, RunStatus
<1>2. child' \in [Parents -> [ChildIds -> ChildRow]]
  BY <1>1 DEF Typed, Dispatch
<1>3. born' \in [Parents -> Seq(ChildIds)]
  BY DEF Typed, Dispatch
<1>4. coord' \in [Parents -> Locals]
  <2> DEFINE pc == IF Async THEN "enqueue" ELSE "execute"
             sub == IF ~ Async THEN "none" ELSE IF LateSubscription THEN "pending" ELSE "active"
             c == [coord[p] EXCEPT !.pc = pc, !.kind = kind, !.id = id, !.type = type,
                                   !.sub = sub, !.heard = "none"]
  <2>1. pc \in Pcs /\ sub \in {"none", "pending", "active"} BY DEF Pcs
  <2>2. coord[p] \in Locals BY DEF Typed
  <2>3. coord' = [coord EXCEPT ![p].pc = pc, ![p].kind = kind, ![p].id = id, ![p].type = type,
                               ![p].sub = sub, ![p].heard = "none"]
    BY Zenon DEF Dispatch
  <2> HIDE DEF pc, sub
  <2>4. c \in Locals BY <2>1, <2>2 DEF Locals
  <2>5. coord' = [coord EXCEPT ![p] = c] BY <2>3 DEF Typed
  <2> HIDE DEF c
  <2> QED BY <2>4, <2>5 DEF Typed
<1> QED BY <1>2, <1>3, <1>4 DEF Typed, Dispatch, queue

(* A child's output is written by an agent type. *)
LEMMA OutputsTyped ==
  ASSUME Typed, NEW p \in Parents, NEW id \in ChildIds, NEW out \in Outputs(p, id)
  PROVE  out \in Writings /\ out.agent = child[p][id].agent
<1>1. child[p][id].agent \in AgentTypes \cup {"nobody"} BY DEF Typed, ChildRow
<1>2. PICK r \in BOOLEAN : out = [agent |-> child[p][id].agent, rework |-> r]
  BY Zenon DEF Outputs
<1> QED BY <1>1, <1>2 DEF Writings

LEMMA ContributionTyped ==
  ASSUME Typed, NEW p \in Parents
  PROVE  /\ Contribution(p) \in Credits
         /\ Contribution(p).id = coord[p].id /\ Contribution(p).type = coord[p].type
         /\ Contribution(p).output = child[p][coord[p].id].output
         /\ Contribution(p).output \in Writings
<1>1. coord[p].id \in ChildIds /\ coord[p].type \in AgentTypes BY DEF Typed, Locals
<1>2. child[p][coord[p].id].output \in Writings BY <1>1 DEF Typed, ChildRow
<1> QED BY <1>1, <1>2 DEF Contribution, Credits

(* Steps of a coordinator that change nothing but its locals. *)
Thinks(p) ==
  \/ PlanTeam(p) \/ PlanSingle(p) \/ Sort(p) \/ NobodyToAsk(p)
  \/ SubscriptionConfirmed(p) \/ Awaken(p)
  \/ ReadSubtask(p) \/ ReadReview(p) \/ ReadRevision(p) \/ ReadsFailure(p)
  \/ AllSubtasksDone(p)

LEMMA ThinksTyped ==
  ASSUME Typed, NEW p \in Parents, OnTrack(p), Thinks(p)
  PROVE  Typed'
<1> DEFINE To(c) == c \in Locals /\ coord' = [coord EXCEPT ![p] = c]
<1>1. coord[p] \in Locals BY DEF Typed
<1>2. UNCHANGED <<rows, queue, slot, crashes>>
  BY Zenon DEF Thinks, PlanTeam, PlanSingle, Sort, NobodyToAsk, SubscriptionConfirmed, Awaken,
     ReadSubtask, ReadReview, ReadRevision, ReadsFailure, AllSubtasksDone
<1>3. \E c : To(c)
  <2>1. CASE PlanTeam(p)
    <3>1. PICK plan \in AcceptedPlans :
            coord' = [coord EXCEPT ![p].pc = "sort", ![p].plan = plan, ![p].debated = TRUE]
      BY <2>1 DEF PlanTeam
    <3> DEFINE c == [coord[p] EXCEPT !.pc = "sort", !.plan = plan, !.debated = TRUE]
    <3>2. c \in Locals BY <1>1 DEF Locals, Pcs, Plans
    <3>3. coord' = [coord EXCEPT ![p] = c] BY <3>1 DEF Typed
    <3> QED BY <3>2, <3>3
  <2>2. CASE PlanSingle(p)
    <3> DEFINE c == [coord[p] EXCEPT !.pc = "sort", !.plan = SinglePlan]
    <3>2. c \in Locals BY <1>1 DEF Locals, Pcs, Plans
    <3>3. coord' = [coord EXCEPT ![p] = c] BY <2>2 DEF Typed, PlanSingle
    <3> QED BY <3>2, <3>3
  <2>3. CASE Sort(p)
    <3> DEFINE order == Order[coord[p].plan]
               pc == IF order = Rejected THEN "throw" ELSE "next"
               c == [coord[p] EXCEPT !.pc = pc, !.order = order]
    <3>1. pc \in Pcs BY DEF Pcs
    <3>2. order \in Seq(Tasks)
      <4>1. coord[p].plan \in Plans BY <2>3 DEF Sort, OnTrack
      <4>2. CASE order = Rejected BY <4>2 DEF Rejected
      <4>3. CASE order # Rejected BY <4>1, <4>3, OrdersWell
      <4> QED BY <4>2, <4>3
    <3>3. coord' = [coord EXCEPT ![p].pc = pc, ![p].order = order] BY <2>3, Zenon DEF Sort
    <3> HIDE DEF pc, order
    <3>4. c \in Locals BY <1>1, <3>1, <3>2 DEF Locals
    <3>5. coord' = [coord EXCEPT ![p] = c] BY <3>3 DEF Typed
    <3> QED BY <3>4, <3>5
  <2>4. CASE NobodyToAsk(p)
    <3> DEFINE c == [coord[p] EXCEPT !.pc = "throw"]
    <3>2. c \in Locals BY <1>1 DEF Locals, Pcs
    <3>3. coord' = [coord EXCEPT ![p] = c] BY <2>4 DEF Typed, NobodyToAsk
    <3> QED BY <3>2, <3>3
  <2>5. CASE SubscriptionConfirmed(p)
    <3> DEFINE c == [coord[p] EXCEPT !.sub = "active"]
    <3>2. c \in Locals BY <1>1 DEF Locals
    <3>3. coord' = [coord EXCEPT ![p] = c] BY <2>5 DEF Typed, SubscriptionConfirmed
    <3> QED BY <3>2, <3>3
  <2>6. CASE Awaken(p)
    <3> DEFINE pc == IF coord[p].heard = "succeeded" THEN "read" ELSE AfterFailure(p)
               c == [coord[p] EXCEPT !.pc = pc]
    <3>1. pc \in Pcs BY DEF Pcs, AfterFailure
    <3>2. coord' = [coord EXCEPT ![p].pc = pc] BY <2>6, Zenon DEF Awaken
    <3> HIDE DEF pc
    <3>3. c \in Locals BY <1>1, <3>1 DEF Locals
    <3>4. coord' = [coord EXCEPT ![p] = c] BY <3>2 DEF Typed
    <3> QED BY <3>3, <3>4
  <2>7. CASE ReadSubtask(p)
    <3> DEFINE outputs == coord[p].outputs \cup {coord[p].id}
               contributions == Append(coord[p].contributions, Contribution(p))
               c == [coord[p] EXCEPT !.pc = "next", !.outputs = outputs, !.contributions = contributions]
    <3>1. outputs \in SUBSET ChildIds BY <1>1 DEF Locals
    <3>2. contributions \in Seq(Credits)
      <4>1. coord[p].contributions \in Seq(Credits) BY <1>1 DEF Locals
      <4> QED BY <4>1, ContributionTyped, AppendProperties
    <3>3. coord' = [coord EXCEPT ![p].pc = "next", ![p].outputs = outputs,
                                 ![p].contributions = contributions]
      BY <2>7 DEF Typed, ReadSubtask
    <3> HIDE DEF outputs, contributions
    <3>4. c \in Locals BY <1>1, <3>1, <3>2 DEF Locals, Pcs
    <3>5. coord' = [coord EXCEPT ![p] = c] BY <3>3 DEF Typed
    <3> QED BY <3>4, <3>5
  <2>8. CASE ReadReview(p)
    <3> DEFINE pc == IF Contribution(p).output.rework THEN "revise" ELSE "aggregate"
               c == [coord[p] EXCEPT !.pc = pc]
    <3>1. pc \in Pcs BY DEF Pcs
    <3>2. coord' = [coord EXCEPT ![p].pc = pc] BY <2>8, Zenon DEF ReadReview
    <3> HIDE DEF pc
    <3>3. c \in Locals BY <1>1, <3>1 DEF Locals
    <3>4. coord' = [coord EXCEPT ![p] = c] BY <3>2 DEF Typed
    <3> QED BY <3>3, <3>4
  <2>9. CASE ReadRevision(p)
    <3> DEFINE pc == IF coord[p].round < DebateRounds THEN "review" ELSE "aggregate"
               summary == Contribution(p).output
               round == coord[p].round + 1
               contributions == Append(coord[p].contributions, Contribution(p))
               c == [coord[p] EXCEPT !.pc = pc, !.round = round, !.summary = summary,
                                     !.contributions = contributions]
    <3>1. pc \in Pcs /\ round \in Nat BY <1>1 DEF Pcs, Locals
    <3>2. contributions \in Seq(Credits) /\ summary \in Writings
      <4>1. coord[p].contributions \in Seq(Credits) BY <1>1 DEF Locals
      <4> QED BY <4>1, ContributionTyped, AppendProperties
    <3>3. coord' = [coord EXCEPT ![p].pc = pc, ![p].round = round, ![p].summary = summary,
                                 ![p].contributions = contributions]
      BY <2>9 DEF Typed, ReadRevision
    <3> HIDE DEF pc, summary, round, contributions
    <3>4. c \in Locals BY <1>1, <3>1, <3>2 DEF Locals
    <3>5. coord' = [coord EXCEPT ![p] = c] BY <3>3 DEF Typed
    <3> QED BY <3>4, <3>5
  <2>10. CASE AllSubtasksDone(p)
    <3> DEFINE summary == coord[p].contributions[Len(coord[p].contributions)].output
               pc == IF /\ coord[p].debated /\ Len(coord[p].order) > 1 /\ "reviewer" \in Hired
                        /\ \A i \in DOMAIN coord[p].order : coord[p].order[i].type # "reviewer"
                     THEN "review" ELSE "aggregate"
               c == [coord[p] EXCEPT !.pc = pc, !.summary = summary]
    <3>1. pc \in Pcs BY DEF Pcs
    <3>2. summary \in Writings
      <4> DEFINE done == coord[p].contributions
      <4>1. done \in Seq(Credits) BY <1>1 DEF Locals
      <4>2. Len(coord[p].order) # 0
        <5>1. coord[p].plan \in Plans /\ coord[p].order = Order[coord[p].plan]
              /\ coord[p].order # Rejected
          BY <2>10 DEF AllSubtasksDone, OnTrack
        <5> QED BY <5>1, OrdersWell
      <4>3. Len(done) = Len(coord[p].order) BY <2>10 DEF AllSubtasksDone, Done
      <4> HIDE DEF done
      <4>4. done[Len(done)] \in Credits BY <4>1, <4>2, <4>3, LenProperties, ElementOfSeq
      <4>5. summary = done[Len(done)].output BY DEF done
      <4> QED BY <4>4, <4>5 DEF Credits
    <3>3. coord' = [coord EXCEPT ![p].pc = pc, ![p].summary = summary]
      BY <2>10, Zenon DEF AllSubtasksDone
    <3> HIDE DEF pc, summary
    <3>4. c \in Locals BY <1>1, <3>1, <3>2 DEF Locals
    <3>5. coord' = [coord EXCEPT ![p] = c] BY <3>3 DEF Typed
    <3> QED BY <3>4, <3>5
  <2>11. CASE ReadsFailure(p)
    <3> DEFINE c == [coord[p] EXCEPT !.pc = AfterFailure(p)]
    <3>1. c \in Locals BY <1>1 DEF Locals, Pcs, AfterFailure
    <3>2. coord' = [coord EXCEPT ![p] = c] BY <2>11 DEF Typed, ReadsFailure
    <3> QED BY <3>1, <3>2
  <2> QED BY <2>1, <2>2, <2>3, <2>4, <2>5, <2>6, <2>7, <2>8, <2>9, <2>10, <2>11 DEF Thinks
<1>4. coord' \in [Parents -> Locals] BY <1>3 DEF Typed
<1> QED BY <1>2, <1>4 DEF Typed, rows, queue

-----------------------------------------------------------------------------
(* What a coordinator's step does to its locals. *)

PlanKept(p) == coord'[p].plan = coord[p].plan /\ coord'[p].order = coord[p].order
               /\ coord'[p].debated = coord[p].debated
WorkKept(p) == /\ coord'[p].outputs = coord[p].outputs
               /\ coord'[p].contributions = coord[p].contributions
               /\ coord'[p].summary = coord[p].summary /\ coord'[p].round = coord[p].round
AskKept(p) == coord'[p].kind = coord[p].kind /\ coord'[p].id = coord[p].id
              /\ coord'[p].type = coord[p].type
HeardKept(p) == coord'[p].sub = coord[p].sub /\ coord'[p].heard = coord[p].heard
Others(p) == \A q \in Parents : q # p => coord'[q] = coord[q]

LEMMA PlanEffect ==
  ASSUME Typed, NEW p \in Parents
  PROVE  /\ PlanTeam(p) => /\ Others(p) /\ coord[p].pc = "plan" /\ coord'[p].pc = "sort"
                           /\ coord'[p].plan \in AcceptedPlans /\ coord'[p].debated = TRUE
                           /\ WorkKept(p) /\ AskKept(p)
         /\ PlanSingle(p) => /\ Others(p) /\ coord[p].pc = "plan" /\ coord'[p].pc = "sort"
                             /\ coord'[p].plan = SinglePlan /\ coord'[p].debated = coord[p].debated
                             /\ WorkKept(p) /\ AskKept(p)
         /\ Sort(p) => /\ Others(p) /\ coord[p].pc = "sort"
                       /\ coord'[p].pc = IF Order[coord[p].plan] = Rejected THEN "throw" ELSE "next"
                       /\ coord'[p].order = Order[coord[p].plan]
                       /\ coord'[p].plan = coord[p].plan /\ coord'[p].debated = coord[p].debated
                       /\ WorkKept(p) /\ AskKept(p)
         /\ NobodyToAsk(p) => Others(p) /\ coord[p].pc = "next" /\ coord'[p].pc = "throw"
                              /\ WorkKept(p)
<1> USE DEF Others, WorkKept, AskKept
<1>0. coord \in [Parents -> Locals] /\ coord[p] \in Locals BY DEF Typed
<1>1. ASSUME PlanTeam(p)
      PROVE  /\ Others(p) /\ coord[p].pc = "plan" /\ coord'[p].pc = "sort"
             /\ coord'[p].plan \in AcceptedPlans /\ coord'[p].debated = TRUE
             /\ WorkKept(p) /\ AskKept(p)
  BY <1>0, <1>1 DEF PlanTeam, Locals
<1>2. ASSUME PlanSingle(p)
      PROVE  /\ Others(p) /\ coord[p].pc = "plan" /\ coord'[p].pc = "sort"
             /\ coord'[p].plan = SinglePlan /\ coord'[p].debated = coord[p].debated
             /\ WorkKept(p) /\ AskKept(p)
  BY <1>0, <1>2 DEF PlanSingle, Locals
<1>3. ASSUME Sort(p)
      PROVE  /\ Others(p) /\ coord[p].pc = "sort"
             /\ coord'[p].pc = IF Order[coord[p].plan] = Rejected THEN "throw" ELSE "next"
             /\ coord'[p].order = Order[coord[p].plan]
             /\ coord'[p].plan = coord[p].plan /\ coord'[p].debated = coord[p].debated
             /\ WorkKept(p) /\ AskKept(p)
  BY <1>0, <1>3 DEF Sort, Locals
<1>4. ASSUME NobodyToAsk(p)
      PROVE  Others(p) /\ coord[p].pc = "next" /\ coord'[p].pc = "throw" /\ WorkKept(p)
  BY <1>0, <1>4 DEF NobodyToAsk, Locals
<1> QED BY <1>1, <1>2, <1>3, <1>4

LEMMA WaitEffect ==
  ASSUME Typed, NEW p \in Parents
  PROVE  /\ SubscriptionConfirmed(p) =>
              /\ Others(p) /\ PlanKept(p) /\ WorkKept(p) /\ AskKept(p)
              /\ coord'[p].pc = coord[p].pc /\ coord'[p].heard = coord[p].heard
         /\ Awaken(p) =>
              /\ Others(p) /\ PlanKept(p) /\ WorkKept(p) /\ AskKept(p)
              /\ coord[p].pc = "await" /\ coord[p].heard # "none"
              /\ coord'[p].pc = IF coord[p].heard = "succeeded" THEN "read" ELSE AfterFailure(p)
         /\ EnqueueChild(p) =>
              /\ Others(p) /\ PlanKept(p) /\ WorkKept(p) /\ AskKept(p) /\ HeardKept(p)
              /\ coord[p].pc = "enqueue" /\ coord'[p].pc = "await"
         /\ StartInline(p) =>
              /\ Others(p) /\ PlanKept(p) /\ WorkKept(p) /\ AskKept(p)
              /\ coord[p].pc = "execute"
              /\ coord'[p].pc = IF IsTerminal(child[p][coord[p].id].status) THEN "read" ELSE "work"
         /\ FinishInline(p) =>
              /\ Others(p) /\ PlanKept(p) /\ WorkKept(p) /\ AskKept(p)
              /\ coord[p].pc = "work" /\ coord'[p].pc \in {"read", AfterFailure(p)}
         /\ ReadsFailure(p) =>
              /\ Others(p) /\ PlanKept(p) /\ WorkKept(p) /\ AskKept(p)
              /\ coord[p].pc = "read" /\ child[p][coord[p].id].status # "succeeded"
              /\ coord'[p].pc = AfterFailure(p)
<1> USE DEF Others, PlanKept, WorkKept, AskKept, HeardKept
<1>0. coord \in [Parents -> Locals] /\ coord[p] \in Locals BY DEF Typed
<1>1. ASSUME SubscriptionConfirmed(p)
      PROVE  /\ Others(p) /\ PlanKept(p) /\ WorkKept(p) /\ AskKept(p)
             /\ coord'[p].pc = coord[p].pc /\ coord'[p].heard = coord[p].heard
  BY <1>0, <1>1 DEF SubscriptionConfirmed, Locals
<1>2. ASSUME Awaken(p)
      PROVE  /\ Others(p) /\ PlanKept(p) /\ WorkKept(p) /\ AskKept(p)
             /\ coord[p].pc = "await" /\ coord[p].heard # "none"
             /\ coord'[p].pc = IF coord[p].heard = "succeeded" THEN "read" ELSE AfterFailure(p)
  BY <1>0, <1>2 DEF Awaken, Locals
<1>3. ASSUME EnqueueChild(p)
      PROVE  /\ Others(p) /\ PlanKept(p) /\ WorkKept(p) /\ AskKept(p) /\ HeardKept(p)
             /\ coord[p].pc = "enqueue" /\ coord'[p].pc = "await"
  BY <1>0, <1>3 DEF EnqueueChild, Locals
<1>4. ASSUME StartInline(p)
      PROVE  /\ Others(p) /\ PlanKept(p) /\ WorkKept(p) /\ AskKept(p)
             /\ coord[p].pc = "execute"
             /\ coord'[p].pc = IF IsTerminal(child[p][coord[p].id].status) THEN "read" ELSE "work"
  BY <1>0, <1>4 DEF StartInline, Locals
<1>5. ASSUME FinishInline(p)
      PROVE  /\ Others(p) /\ PlanKept(p) /\ WorkKept(p) /\ AskKept(p)
             /\ coord[p].pc = "work" /\ coord'[p].pc \in {"read", AfterFailure(p)}
  <2>1. coord[p].pc = "work"
        /\ \E pc \in {"read", AfterFailure(p)} : coord' = [coord EXCEPT ![p].pc = pc]
    BY <1>5, Zenon DEF FinishInline
  <2> QED BY <1>0, <2>1 DEF Locals
<1>6. ASSUME ReadsFailure(p)
      PROVE  /\ Others(p) /\ PlanKept(p) /\ WorkKept(p) /\ AskKept(p)
             /\ coord[p].pc = "read" /\ child[p][coord[p].id].status # "succeeded"
             /\ coord'[p].pc = AfterFailure(p)
  BY <1>0, <1>6 DEF ReadsFailure, Locals
<1> QED BY <1>1, <1>2, <1>3, <1>4, <1>5, <1>6

LEMMA ReadEffect ==
  ASSUME Typed, NEW p \in Parents
  PROVE  /\ ReadSubtask(p) =>
              /\ Others(p) /\ PlanKept(p) /\ ReadsSuccess(p, "subtask") /\ coord'[p].pc = "next"
              /\ coord'[p].outputs = coord[p].outputs \cup {coord[p].id}
              /\ coord'[p].contributions = Append(coord[p].contributions, Contribution(p))
              /\ coord'[p].summary = coord[p].summary /\ coord'[p].round = coord[p].round
         /\ ReadReview(p) =>
              /\ Others(p) /\ PlanKept(p) /\ WorkKept(p) /\ ReadsSuccess(p, "review")
              /\ coord'[p].pc = IF Contribution(p).output.rework THEN "revise" ELSE "aggregate"
         /\ ReadRevision(p) =>
              /\ Others(p) /\ PlanKept(p) /\ ReadsSuccess(p, "revision")
              /\ coord'[p].pc = IF coord[p].round < DebateRounds THEN "review" ELSE "aggregate"
              /\ coord'[p].outputs = coord[p].outputs /\ coord'[p].round = coord[p].round + 1
              /\ coord'[p].contributions = Append(coord[p].contributions, Contribution(p))
              /\ coord'[p].summary = Contribution(p).output
         /\ AllSubtasksDone(p) =>
              /\ Others(p) /\ PlanKept(p) /\ coord[p].pc = "next" /\ Done(p) = Len(coord[p].order)
              /\ coord'[p].pc \in {"review", "aggregate"}
              /\ (coord'[p].pc = "review" => Len(coord[p].order) > 1)
              /\ coord'[p].outputs = coord[p].outputs /\ coord'[p].round = coord[p].round
              /\ coord'[p].contributions = coord[p].contributions
              /\ coord'[p].summary = coord[p].contributions[Len(coord[p].contributions)].output
<1> USE DEF Others, PlanKept, WorkKept
<1>0. coord \in [Parents -> Locals] /\ coord[p] \in Locals BY DEF Typed
<1>1. ASSUME ReadSubtask(p)
      PROVE  /\ Others(p) /\ PlanKept(p) /\ ReadsSuccess(p, "subtask") /\ coord'[p].pc = "next"
             /\ coord'[p].outputs = coord[p].outputs \cup {coord[p].id}
             /\ coord'[p].contributions = Append(coord[p].contributions, Contribution(p))
             /\ coord'[p].summary = coord[p].summary /\ coord'[p].round = coord[p].round
  BY <1>0, <1>1 DEF ReadSubtask, Locals
<1>2. ASSUME ReadReview(p)
      PROVE  /\ Others(p) /\ PlanKept(p) /\ WorkKept(p) /\ ReadsSuccess(p, "review")
             /\ coord'[p].pc = IF Contribution(p).output.rework THEN "revise" ELSE "aggregate"
  BY <1>0, <1>2 DEF ReadReview, Locals
<1>3. ASSUME ReadRevision(p)
      PROVE  /\ Others(p) /\ PlanKept(p) /\ ReadsSuccess(p, "revision")
             /\ coord'[p].pc = IF coord[p].round < DebateRounds THEN "review" ELSE "aggregate"
             /\ coord'[p].outputs = coord[p].outputs /\ coord'[p].round = coord[p].round + 1
             /\ coord'[p].contributions = Append(coord[p].contributions, Contribution(p))
             /\ coord'[p].summary = Contribution(p).output
  BY <1>0, <1>3 DEF ReadRevision, Locals
<1>4. ASSUME AllSubtasksDone(p)
      PROVE  /\ Others(p) /\ PlanKept(p) /\ coord[p].pc = "next" /\ Done(p) = Len(coord[p].order)
             /\ coord'[p].pc \in {"review", "aggregate"}
             /\ (coord'[p].pc = "review" => Len(coord[p].order) > 1)
             /\ coord'[p].outputs = coord[p].outputs /\ coord'[p].round = coord[p].round
             /\ coord'[p].contributions = coord[p].contributions
             /\ coord'[p].summary = coord[p].contributions[Len(coord[p].contributions)].output
  <2> DEFINE s == coord[p].contributions[Len(coord[p].contributions)].output
  <2>1. PICK pc \in {"review", "aggregate"} :
          /\ pc = "review" => Len(coord[p].order) > 1
          /\ coord' = [coord EXCEPT ![p].pc = pc, ![p].summary = s]
    BY <1>4, Zenon DEF AllSubtasksDone
  <2> QED BY <1>0, <1>4, <2>1 DEF AllSubtasksDone, Locals
<1> QED BY <1>1, <1>2, <1>3, <1>4

LEMMA DispatchEffect ==
  ASSUME Typed, NEW p \in Parents, NEW kind, NEW id, NEW type, Dispatch(p, kind, id, type)
  PROVE  /\ Others(p) /\ PlanKept(p) /\ WorkKept(p)
         /\ coord'[p].pc = IF Async THEN "enqueue" ELSE "execute"
         /\ coord'[p].kind = kind /\ coord'[p].id = id /\ coord'[p].type = type
         /\ coord'[p].heard = "none"
<1>0. coord \in [Parents -> Locals] /\ coord[p] \in Locals BY DEF Typed
<1>1. PICK sub :
        coord' = [coord EXCEPT ![p].pc = IF Async THEN "enqueue" ELSE "execute", ![p].kind = kind,
                               ![p].id = id, ![p].type = type, ![p].sub = sub, ![p].heard = "none"]
  BY Zenon DEF Dispatch
<1> QED BY <1>0, <1>1 DEF Others, PlanKept, WorkKept, Locals

-----------------------------------------------------------------------------
(* The attempt stays on its track *)

(* What a step leaves alone stays as it was.                               *)
LEMMA UntouchedParent ==
  ASSUME NEW q \in Parents, OnTrack(q), coord'[q] = coord[q]
  PROVE  OnTrack(q)'
  BY DEF OnTrack, Asking, Done

LEMMA SameAsk ==
  ASSUME NEW p \in Parents, OnTrack(p), PlanKept(p), WorkKept(p), AskKept(p),
         coord[p].pc \in Busy, coord'[p].pc \in Busy
  PROVE  OnTrack(p)'
  BY DEF OnTrack, Asking, Done, PlanKept, WorkKept, AskKept, Busy

LEMMA GivesUp ==
  ASSUME NEW p \in Parents, coord'[p].pc \in {"throw", "none"}
  PROVE  OnTrack(p)'
  BY DEF OnTrack, Asking, Busy

LEMMA ThinksOnTrack ==
  ASSUME Typed, NEW p \in Parents, OnTrack(p), Thinks(p)
  PROVE  OnTrack(p)'
<1> USE DEF Busy
<1>0. coord[p] \in Locals /\ coord[p].round \in Nat BY DEF Typed, Locals
<1>1. CASE PlanTeam(p) \/ PlanSingle(p)
  BY <1>1, PlanEffect DEF OnTrack, Asking, WorkKept, Plans
<1>2. CASE Sort(p)
  <2>1. CASE Order[coord[p].plan] = Rejected BY <1>2, <2>1, PlanEffect, GivesUp
  <2>2. CASE Order[coord[p].plan] # Rejected
    <3>1. coord'[p].pc = "next" /\ coord'[p].plan \in Plans /\ coord'[p].order = Order[coord'[p].plan]
          /\ coord'[p].order # Rejected /\ coord'[p].contributions = << >> /\ coord'[p].round = 1
      BY <1>2, <2>2, PlanEffect, ZenonT(40) DEF OnTrack, WorkKept
    <3>2. Len(coord'[p].contributions) = 0 BY <3>1, EmptySeq
    <3>3. Len(coord'[p].order) \in Nat BY <3>1, OrdersWell
    <3> QED BY <3>1, <3>2, <3>3 DEF OnTrack, Asking, Done
  <2> QED BY <2>1, <2>2
<1>3. CASE NobodyToAsk(p) BY <1>3, PlanEffect, GivesUp
<1>4. CASE SubscriptionConfirmed(p)
  BY <1>4, WaitEffect, ZenonT(40) DEF OnTrack, Asking, Done, PlanKept, WorkKept, AskKept
<1>5. CASE Awaken(p)
  <2>1. CASE coord'[p].pc = "read" BY <1>5, <2>1, WaitEffect, SameAsk
  <2>2. CASE coord'[p].pc = "throw" BY <2>2, GivesUp
  <2>3. CASE coord'[p].pc = "aggregate" /\ coord[p].kind # "subtask"
    BY <1>5, <2>3, WaitEffect DEF OnTrack, Asking, PlanKept
  <2> QED BY <1>5, <2>1, <2>2, <2>3, WaitEffect DEF AfterFailure
<1>6. CASE ReadSubtask(p)
  <2> DEFINE done == coord[p].contributions
  <2>1. done \in Seq(Credits) /\ Contribution(p) \in Credits BY <1>0, ContributionTyped DEF Locals
  <2>2. Len(done) \in Nat /\ Len(Append(done, Contribution(p))) = Len(done) + 1
    BY <2>1, AppendProperties, LenProperties
  <2>3. /\ coord'[p].pc = "next" /\ PlanKept(p) /\ coord'[p].round = coord[p].round
        /\ coord'[p].outputs = coord[p].outputs \cup {coord[p].id}
        /\ Len(coord'[p].contributions) = Len(done) + 1 /\ Asking(p, {"subtask"})
    BY <1>6, <2>2, ReadEffect DEF Asking, ReadsSuccess
  <2>4. coord[p].plan \in Plans /\ coord[p].order = Order[coord[p].plan] /\ coord[p].order # Rejected
        /\ Len(done) < Len(coord[p].order) /\ coord[p].id = coord[p].order[Len(done) + 1].id
        /\ coord[p].round = 1 /\ \A j \in 1 .. Len(done) : coord[p].order[j].id \in coord[p].outputs
    BY <2>3 DEF OnTrack, Done, Asking
  <2>5. Len(coord[p].order) \in Nat BY <2>4, OrdersWell
  <2> HIDE DEF done
  <2>6. \A n \in Nat : 1 .. n + 1 = 1 .. n \cup {n + 1} OBVIOUS
  <2>7. \A j \in 1 .. Len(done) + 1 : coord[p].order[j].id \in coord'[p].outputs
    BY <2>2, <2>3, <2>4, <2>6
  <2>8. Len(done) + 1 <= Len(coord[p].order) BY <2>2, <2>4, <2>5
  <2> QED BY <2>3, <2>4, <2>7, <2>8 DEF OnTrack, Done, Asking, PlanKept
<1>7. CASE ReadReview(p)
  <2>1. Asking(p, {"review"}) /\ PlanKept(p) /\ WorkKept(p) /\ coord'[p].pc \in {"revise", "aggregate"}
    BY <1>7, ReadEffect DEF ReadsSuccess, Asking
  <2> QED BY <2>1 DEF OnTrack, Asking, PlanKept, WorkKept
<1>8. CASE ReadRevision(p)
  <2>1. Asking(p, {"revision"}) /\ PlanKept(p) /\ coord'[p].round = coord[p].round + 1
        /\ coord'[p].pc = IF coord[p].round < DebateRounds THEN "review" ELSE "aggregate"
    BY <1>8, ReadEffect DEF ReadsSuccess, Asking
  <2>2. coord[p].round \in 1 .. DebateRounds /\ Len(coord[p].order) > 1 BY <2>1 DEF OnTrack, Asking
  <2>3. coord'[p].pc = "review" => coord'[p].round \in 1 .. DebateRounds
    BY <2>1, <2>2, OrchestrationAssumption
  <2> QED BY <2>1, <2>2, <2>3 DEF OnTrack, Asking, PlanKept
<1>9. CASE AllSubtasksDone(p)
  <2>1. /\ PlanKept(p) /\ coord[p].pc = "next" /\ coord'[p].pc \in {"review", "aggregate"}
        /\ coord'[p].pc = "review" => Len(coord[p].order) > 1
        /\ coord'[p].round = coord[p].round
    BY <1>9, ReadEffect
  <2>2. 1 \in 1 .. DebateRounds BY OrchestrationAssumption
  <2> QED BY <2>1, <2>2 DEF OnTrack, Asking, PlanKept
<1>10. CASE ReadsFailure(p)
  <2>1. CASE coord'[p].pc = "throw" BY <2>1, GivesUp
  <2>2. CASE coord'[p].pc = "aggregate" /\ coord[p].kind # "subtask"
    BY <1>10, <2>2, WaitEffect DEF OnTrack, Asking, PlanKept
  <2> QED BY <1>10, <2>1, <2>2, WaitEffect DEF AfterFailure
<1> QED BY <1>1, <1>2, <1>3, <1>4, <1>5, <1>6, <1>7, <1>8, <1>9, <1>10 DEF Thinks

(* Who is asked, and for what, is in the plan or follows from the round.   *)
Dispatches(p) == DispatchSubtask(p) \/ StartReview(p) \/ StartRevision(p)

Asks(p, kind, id, type) ==
  /\ Dispatch(p, kind, id, type)
  /\ coord[p].plan \in Plans /\ coord[p].order = Order[coord[p].plan] /\ coord[p].order # Rejected
  /\ \/ /\ kind = "subtask" /\ coord[p].pc = "next" /\ Done(p) < Len(coord[p].order)
        /\ id = coord[p].order[Done(p) + 1].id /\ type = coord[p].order[Done(p) + 1].type
     \/ /\ kind = "review" /\ coord[p].pc = "review"
        /\ coord[p].round \in 1 .. DebateRounds /\ Len(coord[p].order) > 1
        /\ id = ReviewIds[coord[p].round] /\ type = "reviewer"
     \/ /\ kind = "revision" /\ coord[p].pc = "revise"
        /\ coord[p].round \in 1 .. DebateRounds /\ Len(coord[p].order) > 1
        /\ id = RevisionIds[coord[p].round]
        /\ type = coord[p].order[Len(coord[p].order)].type

LEMMA DispatchesEffect ==
  ASSUME Typed, NEW p \in Parents, OnTrack(p), Dispatches(p)
  PROVE  \E kind \in {"subtask", "review", "revision"}, id \in ChildIds, type \in AgentTypes :
           Asks(p, kind, id, type)
<1> USE DEF Asks
<1> DEFINE order == coord[p].order
<1>1. /\ coord[p].pc \in {"next", "review", "revise"}
      /\ coord[p].plan \in Plans /\ order = Order[coord[p].plan] /\ order # Rejected
      /\ coord[p].pc \in {"review", "revise"} =>
           coord[p].round \in 1 .. DebateRounds /\ Len(order) > 1
  <2>1. coord[p].pc \in {"next", "review", "revise"}
    BY DEF Dispatches, DispatchSubtask, StartReview, StartRevision
  <2> QED BY <2>1 DEF OnTrack
<1>2. /\ Len(order) \in Nat \ {0}
      /\ \A i \in 1 .. Len(order) : order[i].id \in ChildIds /\ order[i].type \in AgentTypes
  BY <1>1, OrdersWell
<1>3. CASE DispatchSubtask(p)
  <2> DEFINE s == order[Done(p) + 1]
  <2>1. coord[p].pc = "next" /\ Done(p) < Len(order) /\ Dispatch(p, "subtask", s.id, s.type)
    BY <1>3 DEF DispatchSubtask
  <2>2. Done(p) \in Nat
    <3>1. coord[p].contributions \in Seq(Credits) BY DEF Typed, Locals
    <3> QED BY <3>1, LenProperties DEF Done
  <2>3. s.id \in ChildIds /\ s.type \in AgentTypes BY <1>2, <2>1, <2>2
  <2> HIDE DEF order
  <2>4. s.id = order[Done(p) + 1].id /\ s.type = order[Done(p) + 1].type OBVIOUS
  <2> HIDE DEF s
  <2> QED BY <1>1, <2>1, <2>3, <2>4 DEF order
<1>4. CASE StartReview(p)
  <2>1. coord[p].pc = "review" /\ Dispatch(p, "review", ReviewIds[coord[p].round], "reviewer")
    BY <1>4 DEF StartReview
  <2>2. ReviewIds[coord[p].round] \in ChildIds BY <1>1, <2>1, DebateIds
  <2>3. "reviewer" \in AgentTypes BY DEF AgentTypes
  <2> QED BY <1>1, <2>1, <2>2, <2>3
<1>5. CASE StartRevision(p)
  <2>1. coord[p].pc = "revise"
        /\ Dispatch(p, "revision", RevisionIds[coord[p].round], order[Len(order)].type)
    BY <1>5 DEF StartRevision
  <2>2. RevisionIds[coord[p].round] \in ChildIds BY <1>1, <2>1, DebateIds
  <2>3. order[Len(order)].type \in AgentTypes BY <1>2
  <2> QED BY <1>1, <2>1, <2>2, <2>3
<1> QED BY <1>3, <1>4, <1>5 DEF Dispatches

LEMMA DispatchesOnTrack ==
  ASSUME Typed, NEW p \in Parents, OnTrack(p), Dispatches(p)
  PROVE  /\ Typed' /\ OnTrack(p)' /\ Others(p)
         /\ UNCHANGED <<parent, jobs, childJobs, slot, crashes>>
         /\ coord[p].pc # "none" /\ coord'[p].pc # "none"
<1>1. PICK kind \in {"subtask", "review", "revision"}, id \in ChildIds, type \in AgentTypes :
        Asks(p, kind, id, type)
  BY DispatchesEffect
<1> USE DEF Asks
<1>2. /\ Others(p) /\ PlanKept(p) /\ WorkKept(p) /\ coord'[p].pc \in {"enqueue", "execute"}
      /\ coord'[p].kind = kind /\ coord'[p].id = id /\ coord'[p].type = type
  BY <1>1, DispatchEffect
<1>3. coord[p].pc = "next" => \A j \in 1 .. Done(p) : coord[p].order[j].id \in coord[p].outputs
  BY DEF OnTrack
<1>4. coord[p].pc = "next" => coord[p].round = 1 BY DEF OnTrack
<1>5. OnTrack(p)' BY <1>1, <1>2, <1>3, <1>4 DEF OnTrack, Asking, Done, PlanKept, WorkKept, Busy
<1>6. Typed' BY <1>1, DispatchTyped
<1>7. UNCHANGED <<parent, jobs, childJobs, slot, crashes>> BY <1>1, Zenon DEF Dispatch, queue
<1> QED BY <1>1, <1>2, <1>5, <1>6, <1>7

(* An event reaches the coordinator that waits for it, or nobody.          *)
LEMMA PublishEffect ==
  ASSUME Typed, NEW p \in Parents, NEW id \in ChildIds, NEW event \in {"succeeded", "dead"},
         Publish(p, id, event)
  PROVE  /\ coord' \in [Parents -> Locals] /\ Others(p)
         /\ PlanKept(p) /\ WorkKept(p) /\ AskKept(p) /\ coord'[p].pc = coord[p].pc
         /\ coord'[p].heard = coord[p].heard \/ (coord[p].id = id /\ coord'[p].heard = event)
<1>0. coord \in [Parents -> Locals] /\ coord[p] \in Locals BY DEF Typed
<1>1. CASE coord' = coord
  BY <1>0, <1>1 DEF Others, PlanKept, WorkKept, AskKept
<1>2. CASE coord[p].id = id /\ coord' = [coord EXCEPT ![p].sub = "none", ![p].heard = event]
  <2> DEFINE c == [coord[p] EXCEPT !.sub = "none", !.heard = event]
  <2>1. c \in Locals BY <1>0 DEF Locals
  <2>2. coord' = [coord EXCEPT ![p] = c] BY <1>0, <1>2
  <2>3. coord'[p] = c BY <1>0, <2>2
  <2>4. PlanKept(p) /\ WorkKept(p) /\ AskKept(p) /\ c.pc = coord[p].pc /\ c.heard = event
    BY <1>0, <2>3 DEF Locals, PlanKept, WorkKept, AskKept
  <2> HIDE DEF c
  <2>5. Others(p) /\ coord' \in [Parents -> Locals] BY <1>0, <2>1, <2>2 DEF Others
  <2> QED BY <1>2, <2>3, <2>4, <2>5
<1> QED BY <1>1, <1>2 DEF Publish

(* A step changes one child's row at a time.                               *)
OtherRows(p, id) ==
  \A q \in Parents, j \in ChildIds : q # p \/ j # id => child'[q][j] = child[q][j]

LEMMA RowEffect ==
  ASSUME Typed, NEW p \in Parents, NEW id \in ChildIds, NEW r \in ChildRow,
         child' = [child EXCEPT ![p][id] = r]
  PROVE  child' \in [Parents -> [ChildIds -> ChildRow]] /\ child'[p][id] = r /\ OtherRows(p, id)
<1>1. child \in [Parents -> [ChildIds -> ChildRow]] BY DEF Typed
<1>2. child' = [child EXCEPT ![p] = [child[p] EXCEPT ![id] = r]] BY <1>1
<1> DEFINE row == [child[p] EXCEPT ![id] = r]
<1>3. row \in [ChildIds -> ChildRow] /\ row[id] = r /\ \A j \in ChildIds : j # id => row[j] = child[p][j]
  BY <1>1
<1> HIDE DEF row
<1>4. child' = [child EXCEPT ![p] = row] BY <1>2 DEF row
<1> QED BY <1>1, <1>3, <1>4 DEF OtherRows

LEMMA StatusEffect ==
  ASSUME Typed, NEW p \in Parents, NEW id \in ChildIds, NEW status \in RunStatus,
         child' = [child EXCEPT ![p][id].status = status]
  PROVE  /\ child' \in [Parents -> [ChildIds -> ChildRow]] /\ OtherRows(p, id)
         /\ child'[p][id].status = status
         /\ child'[p][id].agent = child[p][id].agent /\ child'[p][id].output = child[p][id].output
<1> DEFINE r == [child[p][id] EXCEPT !.status = status]
<1>1. child[p][id] \in ChildRow /\ child \in [Parents -> [ChildIds -> ChildRow]] BY DEF Typed
<1>2. r \in ChildRow /\ r.status = status /\ r.agent = child[p][id].agent
      /\ r.output = child[p][id].output
  BY <1>1 DEF ChildRow
<1>3. child' = [child EXCEPT ![p][id] = r] OBVIOUS
<1> HIDE DEF r
<1>4. r \in ChildRow BY <1>2
<1>5. child' \in [Parents -> [ChildIds -> ChildRow]] /\ child'[p][id] = r /\ OtherRows(p, id)
  BY <1>3, <1>4, RowEffect
<1> QED BY <1>2, <1>5

LEMMA SuccessEffect ==
  ASSUME Typed, NEW p \in Parents, NEW id \in ChildIds, NEW out \in Writings,
         child' = [child EXCEPT ![p][id].status = "succeeded", ![p][id].output = out]
  PROVE  /\ child' \in [Parents -> [ChildIds -> ChildRow]] /\ OtherRows(p, id)
         /\ child'[p][id].status = "succeeded" /\ child'[p][id].output = out
         /\ child'[p][id].agent = child[p][id].agent
<1> DEFINE r == [child[p][id] EXCEPT !.status = "succeeded", !.output = out]
<1>1. child[p][id] \in ChildRow /\ child \in [Parents -> [ChildIds -> ChildRow]] BY DEF Typed
<1>2. r \in ChildRow /\ r.status = "succeeded" /\ r.agent = child[p][id].agent /\ r.output = out
  BY <1>1 DEF ChildRow, RunStatus
<1>3. child' = [child EXCEPT ![p][id] = r] BY <1>1
<1> HIDE DEF r
<1>4. r \in ChildRow BY <1>2
<1>5. child' \in [Parents -> [ChildIds -> ChildRow]] /\ child'[p][id] = r /\ OtherRows(p, id)
  BY <1>3, <1>4, RowEffect
<1> QED BY <1>2, <1>5

(* Steps that execute the child a coordinator waits for.                   *)
RunsChild(p) == EnqueueChild(p) \/ StartInline(p) \/ FinishInline(p)

LEMMA RunsChildTyped ==
  ASSUME Typed, NEW p \in Parents, RunsChild(p)
  PROVE  Typed'
<1>0. coord \in [Parents -> Locals] /\ coord[p] \in Locals /\ coord[p].id \in ChildIds
      /\ child \in [Parents -> [ChildIds -> ChildRow]]
  BY DEF Typed, Locals
<1>1. CASE EnqueueChild(p)
  <2> DEFINE c == [coord[p] EXCEPT !.pc = "await"]
  <2>1. c \in Locals BY <1>0 DEF Locals, Pcs
  <2>2. coord' = [coord EXCEPT ![p] = c] BY <1>0, <1>1 DEF EnqueueChild
  <2> HIDE DEF c
  <2>3. coord' \in [Parents -> Locals] BY <1>0, <2>1, <2>2
  <2>4. childJobs' \in [Parents -> [ChildIds -> Nat]] BY <1>0, <1>1 DEF EnqueueChild, Typed
  <2> QED BY <1>1, <2>3, <2>4 DEF EnqueueChild, rows, Typed
<1>2. CASE StartInline(p)
  <2> DEFINE pc == IF IsTerminal(child[p][coord[p].id].status) THEN "read" ELSE "work"
             c == [coord[p] EXCEPT !.pc = pc]
  <2>1. pc \in Pcs BY DEF Pcs
  <2>2. coord' = [coord EXCEPT ![p].pc = pc] BY <1>2, Zenon DEF StartInline
  <2> HIDE DEF pc
  <2>3. c \in Locals /\ coord' = [coord EXCEPT ![p] = c] BY <1>0, <2>1, <2>2 DEF Locals
  <2> HIDE DEF c
  <2>4. coord' \in [Parents -> Locals] BY <1>0, <2>3
  <2>5. child' = child \/ child' = [child EXCEPT ![p][coord[p].id].status = "running"]
    BY <1>2 DEF StartInline
  <2>6. child' \in [Parents -> [ChildIds -> ChildRow]] BY <1>0, <2>5, StatusEffect DEF RunStatus
  <2> QED BY <1>2, <2>4, <2>6 DEF StartInline, queue, Typed
<1>3. CASE FinishInline(p)
  <2> DEFINE id == coord[p].id
  <2>1. \/ /\ \E out \in Outputs(p, id) :
              child' = [child EXCEPT ![p][id].status = "succeeded", ![p][id].output = out]
           /\ coord' = [coord EXCEPT ![p].pc = "read"]
        \/ child' = child /\ coord' = [coord EXCEPT ![p].pc = AfterFailure(p)]
    BY <1>3 DEF FinishInline
  <2>2. PICK pc \in Pcs : coord' = [coord EXCEPT ![p].pc = pc] BY <2>1 DEF AfterFailure, Pcs
  <2> DEFINE c == [coord[p] EXCEPT !.pc = pc]
  <2>3. c \in Locals /\ coord' = [coord EXCEPT ![p] = c] BY <1>0, <2>2 DEF Locals
  <2> HIDE DEF c
  <2>4. coord' \in [Parents -> Locals] BY <1>0, <2>3
  <2>5. child' \in [Parents -> [ChildIds -> ChildRow]]
    <3>1. \A out \in Outputs(p, id) : out \in Writings BY <1>0, OutputsTyped
    <3> HIDE DEF id
    <3>2. CASE child' = child BY <1>0, <3>2
    <3>3. CASE \E out \in Outputs(p, id) :
                 child' = [child EXCEPT ![p][id].status = "succeeded", ![p][id].output = out]
      <4>1. PICK out \in Writings :
              child' = [child EXCEPT ![p][id].status = "succeeded", ![p][id].output = out]
        BY <3>1, <3>3
      <4>2. id \in ChildIds BY <1>0 DEF id
      <4> QED BY <4>1, <4>2, SuccessEffect
    <3> QED BY <2>1, <3>2, <3>3
  <2> QED BY <1>3, <2>4, <2>5 DEF FinishInline, queue, Typed
<1> QED BY <1>1, <1>2, <1>3 DEF RunsChild

LEMMA RunsChildOnTrack ==
  ASSUME Typed, NEW p \in Parents, OnTrack(p), RunsChild(p)
  PROVE  /\ OnTrack(p)' /\ Others(p) /\ UNCHANGED <<parent, jobs, slot, crashes>>
         /\ coord[p].pc # "none" /\ coord'[p].pc # "none"
<1>1. Others(p) /\ PlanKept(p) /\ WorkKept(p) /\ AskKept(p)
      /\ coord[p].pc \in {"enqueue", "execute", "work"}
      /\ coord'[p].pc \in {"await", "read", "work", AfterFailure(p)}
  BY WaitEffect DEF RunsChild
<1>2. UNCHANGED <<parent, jobs, slot, crashes>>
  BY Zenon DEF RunsChild, EnqueueChild, StartInline, FinishInline, rows, queue
<1>3. OnTrack(p)'
  <2>1. CASE coord'[p].pc \in Busy BY <1>1, <2>1, SameAsk DEF Busy
  <2>2. CASE coord'[p].pc = "throw" BY <2>2, GivesUp
  <2>3. CASE coord'[p].pc = "aggregate" BY <1>1, <2>3 DEF OnTrack, Asking, Busy, PlanKept
  <2> QED BY <1>1, <2>1, <2>2, <2>3 DEF AfterFailure, Busy
<1> QED BY <1>1, <1>2, <1>3 DEF AfterFailure

LEMMA HeldStill ==
  ASSUME NEW p \in Parents, Others(p), UNCHANGED <<parent, jobs, slot>>,
         \A q \in Parents : ParentHeld(q), coord'[p].pc = "none" <=> coord[p].pc = "none"
  PROVE  \A q \in Parents : ParentHeld(q)'
  BY DEF ParentHeld, Others

LEMMA CoordinatesTracked ==
  ASSUME TrackInv, NEW p \in Parents, Thinks(p) \/ Dispatches(p) \/ RunsChild(p)
  PROVE  TrackInv'
<1>0. Typed /\ \A q \in Parents : ParentHeld(q) /\ OnTrack(q) BY DEF TrackInv
<1>1. /\ Typed' /\ Others(p) /\ OnTrack(p)' /\ UNCHANGED <<parent, jobs, slot>>
      /\ coord'[p].pc = "none" <=> coord[p].pc = "none"
  <2>1. CASE Thinks(p)
    <3>1. Typed' BY <1>0, <2>1, ThinksTyped
    <3>2. OnTrack(p)' BY <1>0, <2>1, ThinksOnTrack
    <3>3. UNCHANGED <<parent, jobs, slot>>
      BY <2>1, Zenon DEF Thinks, PlanTeam, PlanSingle, Sort, NobodyToAsk, SubscriptionConfirmed, Awaken,
         ReadSubtask, ReadReview, ReadRevision, ReadsFailure, AllSubtasksDone, rows, queue
    <3>4. Others(p) /\ (coord'[p].pc = "none" <=> coord[p].pc = "none")
      BY <1>0, <2>1, PlanEffect, WaitEffect, ReadEffect DEF Thinks, AfterFailure, ReadsSuccess
    <3> QED BY <3>1, <3>2, <3>3, <3>4
  <2>2. CASE Dispatches(p) BY <1>0, <2>2, DispatchesOnTrack
  <2>3. CASE RunsChild(p) BY <1>0, <2>3, RunsChildTyped, RunsChildOnTrack
  <2> QED BY <2>1, <2>2, <2>3
<1>2. \A q \in Parents : ParentHeld(q)' BY <1>0, <1>1, HeldStill
<1>3. \A q \in Parents : OnTrack(q)' BY <1>0, <1>1, UntouchedParent DEF Others
<1> QED BY <1>1, <1>2, <1>3 DEF TrackInv

(* Only the slot a parent holds is freed when its attempt ends.            *)
Ends(p) == Aggregate(p) \/ AttemptFails(p)

LEMMA EndsEffect ==
  ASSUME Typed, NEW p \in Parents, ParentHeld(p), Ends(p)
  PROVE  /\ Others(p) /\ coord[p].pc \in {"aggregate", "throw"} /\ coord'[p] = Fresh("none")
         /\ coord' \in [Parents -> Locals]
         /\ \E w \in Slots : slot[w] = p /\ slot' = [slot EXCEPT ![w] = Free]
         /\ UNCHANGED <<child, born, childJobs, crashes>>
         /\ \A q \in Parents : q # p => parent'[q] = parent[q] /\ jobs'[q] = jobs[q]
<1>0. coord \in [Parents -> Locals] /\ parent \in [Parents -> ParentRow] /\ jobs \in [Parents -> Nat]
  BY DEF Typed
<1>1. coord[p].pc \in {"aggregate", "throw"} /\ coord' = [coord EXCEPT ![p] = Fresh("none")]
      /\ slot' = [slot EXCEPT ![Holder(p)] = Free]
      /\ UNCHANGED <<child, born, childJobs, crashes>>
  BY DEF Ends, Aggregate, AttemptFails, queue
<1>2. \E w \in Slots : slot[w] = p BY <1>1 DEF ParentHeld
<1>3. Holder(p) \in Slots /\ slot[Holder(p)] = p BY <1>2, Zenon DEF Holder
<1>4. Fresh("none") \in Locals
  BY OrchestrationAssumption DEF Fresh, Locals, Pcs, ChildIds, AgentTypes, NoOutput, Writings
<1>5. \A q \in Parents : q # p => parent'[q] = parent[q] /\ jobs'[q] = jobs[q]
  BY <1>0 DEF Ends, Aggregate, AttemptFails, queue
<1> QED BY <1>0, <1>1, <1>3, <1>4, <1>5 DEF Others

LEMMA EndsTyped ==
  ASSUME Typed, NEW p \in Parents, ParentHeld(p), Ends(p)
  PROVE  Typed'
<1>0. coord[p] \in Locals /\ parent \in [Parents -> ParentRow] /\ jobs \in [Parents -> Nat]
  BY DEF Typed
<1>1. jobs' \in [Parents -> Nat] BY <1>0 DEF Ends, Aggregate, AttemptFails, queue
<1>2. parent' \in [Parents -> ParentRow]
  <2>1. CASE Aggregate(p)
    <3> DEFINE result == [summary |-> coord[p].summary, contributions |-> coord[p].contributions]
               r == [parent[p] EXCEPT !.status = "succeeded", !.result = result]
    <3>1. parent' = [parent EXCEPT ![p].status = "succeeded", ![p].result = result]
      BY <2>1 DEF Aggregate
    <3>2. result \in [summary : Writings, contributions : Seq(Credits)] BY <1>0 DEF Locals
    <3> HIDE DEF result
    <3>3. r \in ParentRow BY <1>0, <3>2 DEF ParentRow, RunStatus
    <3>4. parent' = [parent EXCEPT ![p] = r] BY <1>0, <3>1
    <3> HIDE DEF r
    <3> QED BY <1>0, <3>3, <3>4
  <2>2. CASE AttemptFails(p)
    <3>1. PICK status \in RunStatus : parent' = [parent EXCEPT ![p].status = status]
      BY <2>2 DEF AttemptFails, RunStatus
    <3> DEFINE r == [parent[p] EXCEPT !.status = status]
    <3>2. r \in ParentRow BY <1>0 DEF ParentRow
    <3>3. parent' = [parent EXCEPT ![p] = r] BY <1>0, <3>1
    <3> HIDE DEF r
    <3> QED BY <1>0, <3>2, <3>3
  <2> QED BY <2>1, <2>2 DEF Ends
<1>3. coord' \in [Parents -> Locals] /\ UNCHANGED <<child, born, childJobs, crashes>>
      /\ slot' \in [Slots -> {Free} \cup Parents \cup (Parents \X ChildIds)]
  BY EndsEffect DEF Typed
<1> QED BY <1>1, <1>2, <1>3 DEF Typed

LEMMA EndsTracked ==
  ASSUME TrackInv, NEW p \in Parents, Ends(p)
  PROVE  TrackInv'
<1>0. Typed /\ \A q \in Parents : ParentHeld(q) /\ OnTrack(q) BY DEF TrackInv
<1>1. Typed' BY <1>0, EndsTyped
<1>2. /\ Others(p) /\ coord[p].pc \in {"aggregate", "throw"} /\ coord'[p] = Fresh("none")
      /\ \A q \in Parents : q # p => parent'[q] = parent[q] /\ jobs'[q] = jobs[q]
  BY <1>0, EndsEffect
<1>3. coord'[p].pc = "none" BY <1>2 DEF Fresh
<1>4. \A q \in Parents : OnTrack(q)'
  BY <1>0, <1>2, <1>3, UntouchedParent, GivesUp DEF Others
<1>5. PICK w \in Slots : slot[w] = p /\ slot' = [slot EXCEPT ![w] = Free] BY <1>0, EndsEffect
<1>6. \A v \in Slots : (v = w => slot'[v] = Free) /\ (v # w => slot'[v] = slot[v] /\ slot[v] # p)
  BY <1>0, <1>5 DEF Typed, ParentHeld
<1>7. \A q \in Parents : \A v \in Slots : slot'[v] = q <=> slot[v] = q /\ q # p
  BY <1>5, <1>6, OrchestrationAssumption
<1>8. jobs'[p] \in {0, 1}
  BY <1>0, <1>2 DEF ParentHeld, Ends, Aggregate, AttemptFails, queue, Typed
<1>9. ParentHeld(p)' BY <1>3, <1>7, <1>8 DEF ParentHeld
<1>10. \A q \in Parents : q # p => ParentHeld(q)' BY <1>0, <1>2, <1>7 DEF ParentHeld, Others
<1> QED BY <1>1, <1>4, <1>9, <1>10 DEF TrackInv

LEMMA BeginTracked ==
  ASSUME TrackInv, NEW w \in Slots, NEW p \in Parents, Begin(w, p)
  PROVE  TrackInv'
<1>0. Typed /\ \A q \in Parents : ParentHeld(q) /\ OnTrack(q) BY DEF TrackInv
<1>1. coord \in [Parents -> Locals] /\ parent \in [Parents -> ParentRow] /\ jobs \in [Parents -> Nat]
      /\ slot \in [Slots -> {Free} \cup Parents \cup (Parents \X ChildIds)]
  BY <1>0 DEF Typed
<1>2. jobs' = [jobs EXCEPT ![p] = 0] /\ coord[p].pc = "none" /\ slot[w] = Free
      /\ \A v \in Slots : slot[v] # p
  <2>1. jobs[p] > 0 /\ slot[w] = Free /\ jobs' = [jobs EXCEPT ![p] = @ - 1] BY DEF Begin
  <2>2. jobs[p] = 1 /\ coord[p].pc = "none" /\ \A v \in Slots : slot[v] # p
    BY <1>0, <2>1 DEF ParentHeld
  <2> QED BY <2>1, <2>2
<1>3. UNCHANGED <<child, born, childJobs, crashes>> BY DEF Begin
<1>4. CASE IsTerminal(parent[p].status)
  <2>1. parent' = [parent EXCEPT ![p].attempts = @ + 1] /\ UNCHANGED <<slot, coord>>
    BY <1>4 DEF Begin
  <2>2. parent' \in [Parents -> ParentRow] /\ \A q \in Parents : parent'[q].status = parent[q].status
    <3> DEFINE n == parent[p].attempts + 1
               r == [parent[p] EXCEPT !.attempts = n]
    <3>1. n \in Nat BY <1>1 DEF ParentRow
    <3>2. parent' = [parent EXCEPT ![p].attempts = n] BY <2>1
    <3> HIDE DEF n
    <3>3. r \in ParentRow /\ r.status = parent[p].status BY <1>1, <3>1 DEF ParentRow
    <3>4. parent' = [parent EXCEPT ![p] = r] BY <1>1, <3>2
    <3> HIDE DEF r
    <3> QED BY <1>1, <3>3, <3>4
  <2>3. Typed' BY <1>0, <1>1, <1>2, <1>3, <2>1, <2>2 DEF Typed
  <2>4. \A q \in Parents : OnTrack(q)' BY <1>0, <2>1, UntouchedParent
  <2>5. \A q \in Parents : ParentHeld(q)' BY <1>0, <1>1, <1>2, <2>1, <2>2 DEF ParentHeld
  <2> QED BY <2>3, <2>4, <2>5 DEF TrackInv
<1>5. CASE ~ IsTerminal(parent[p].status)
  <2>1. /\ parent' = [parent EXCEPT ![p].attempts = @ + 1, ![p].status = "running"]
        /\ slot' = [slot EXCEPT ![w] = p] /\ coord' = [coord EXCEPT ![p] = Fresh("plan")]
    BY <1>5 DEF Begin
  <2>2. parent' \in [Parents -> ParentRow] /\ parent'[p].status = "running"
        /\ \A q \in Parents : q # p => parent'[q] = parent[q]
    <3> DEFINE n == parent[p].attempts + 1
               r == [parent[p] EXCEPT !.attempts = n, !.status = "running"]
    <3>1. n \in Nat BY <1>1 DEF ParentRow
    <3>2. parent' = [parent EXCEPT ![p].attempts = n, ![p].status = "running"] BY <2>1
    <3> HIDE DEF n
    <3>3. r \in ParentRow /\ r.status = "running" BY <1>1, <3>1 DEF ParentRow, RunStatus
    <3>4. parent' = [parent EXCEPT ![p] = r] BY <1>1, <3>2
    <3> HIDE DEF r
    <3> QED BY <1>1, <3>3, <3>4
  <2>3. Fresh("plan") \in Locals
    BY OrchestrationAssumption DEF Fresh, Locals, Pcs, ChildIds, AgentTypes, NoOutput, Writings
  <2>4. Typed' BY <1>0, <1>1, <1>2, <1>3, <2>1, <2>2, <2>3 DEF Typed
  <2>5. OnTrack(p)'
    <3>1. coord'[p].pc = "plan" /\ coord'[p].contributions = << >> /\ coord'[p].round = 1
      BY <1>1, <2>1 DEF Fresh
    <3> QED BY <3>1 DEF OnTrack, Asking, Busy
  <2>6. \A q \in Parents : q # p => OnTrack(q)' BY <1>0, <1>1, <2>1, UntouchedParent
  <2>7. \A q \in Parents, v \in Slots : slot'[v] = q <=> slot[v] = q \/ (q = p /\ v = w)
    BY <1>1, <1>2, <2>1, OrchestrationAssumption
  <2>8. ParentHeld(p)'
    <3>1. coord'[p].pc = "plan" BY <1>1, <2>1 DEF Fresh
    <3> QED BY <1>1, <1>2, <2>2, <2>7, <3>1 DEF ParentHeld
  <2>9. \A q \in Parents : q # p => ParentHeld(q)'
    BY <1>0, <1>1, <1>2, <2>1, <2>2, <2>7 DEF ParentHeld
  <2> QED BY <2>4, <2>5, <2>6, <2>8, <2>9 DEF TrackInv
<1> QED BY <1>4, <1>5

(* A slot that takes up or ends a child is not a parent's.                 *)
LEMMA ExecuteEffect ==
  ASSUME Typed, NEW w \in Slots, NEW p \in Parents, NEW id \in ChildIds, Execute(w, p, id)
  PROVE  /\ UNCHANGED <<parent, born, jobs, crashes>>
         /\ child' \in [Parents -> [ChildIds -> ChildRow]] /\ OtherRows(p, id)
         /\ child'[p][id].agent = child[p][id].agent
         /\ childJobs' \in [Parents -> [ChildIds -> Nat]]
         /\ \A q \in Parents, j \in ChildIds : q # p \/ j # id => childJobs'[q][j] = childJobs[q][j]
         /\ coord' \in [Parents -> Locals] /\ Others(p)
         /\ PlanKept(p) /\ WorkKept(p) /\ AskKept(p) /\ coord'[p].pc = coord[p].pc
         /\ slot' \in [Slots -> {Free} \cup Parents \cup (Parents \X ChildIds)]
         /\ \A v \in Slots : v # w => slot'[v] = slot[v]
         /\ slot[w] \in {Free, <<p, id>>} /\ slot'[w] \in {Free, <<p, id>>}
<1>0. /\ coord \in [Parents -> Locals] /\ child \in [Parents -> [ChildIds -> ChildRow]]
      /\ childJobs \in [Parents -> [ChildIds -> Nat]]
      /\ slot \in [Slots -> {Free} \cup Parents \cup (Parents \X ChildIds)]
      /\ <<p, id>> \in Parents \X ChildIds
  BY DEF Typed
<1> USE DEF Execute
<1>1. UNCHANGED <<parent, born, jobs, crashes>>
  BY Zenon DEF TakeChild, ChildSucceeds, ChildRetries, ChildIsDeadLettered, queue, rows
<1>2. child' \in [Parents -> [ChildIds -> ChildRow]] /\ OtherRows(p, id)
      /\ child'[p][id].agent = child[p][id].agent
  <2>1. CASE TakeChild(w, p, id)
    <3> DEFINE n == child[p][id].attempts + 1
               r == [child[p][id] EXCEPT !.attempts = n]
               s == [child[p][id] EXCEPT !.attempts = n, !.status = "running"]
    <3>0. n \in Nat /\ child[p][id] \in ChildRow BY <1>0 DEF ChildRow
    <3>1. \/ child' = [child EXCEPT ![p][id].attempts = n]
          \/ child' = [child EXCEPT ![p][id].attempts = n, ![p][id].status = "running"]
      BY <2>1 DEF TakeChild
    <3> HIDE DEF n
    <3>2. r \in ChildRow /\ s \in ChildRow /\ r.agent = child[p][id].agent /\ s.agent = child[p][id].agent
      BY <3>0 DEF ChildRow, RunStatus
    <3>2a. child' = [child EXCEPT ![p][id] = r] \/ child' = [child EXCEPT ![p][id] = s]
      BY <1>0, <3>1
    <3> HIDE DEF r, s
    <3>3. PICK x \in ChildRow : x.agent = child[p][id].agent /\ child' = [child EXCEPT ![p][id] = x]
      BY <3>2, <3>2a
    <3>4. child' \in [Parents -> [ChildIds -> ChildRow]] /\ child'[p][id] = x /\ OtherRows(p, id)
      BY <3>3, RowEffect
    <3> QED BY <3>3, <3>4
  <2>2. CASE ChildSucceeds(w, p, id)
    <3>1. PICK out \in Outputs(p, id) :
            child' = [child EXCEPT ![p][id].status = "succeeded", ![p][id].output = out]
      BY <2>2 DEF ChildSucceeds
    <3>2. out \in Writings BY OutputsTyped
    <3> QED BY <3>1, <3>2, SuccessEffect
  <2>3. CASE ChildRetries(w, p, id)
    <3>1. child' = [child EXCEPT ![p][id].status = "running"] BY <2>3 DEF ChildRetries
    <3>2. "running" \in RunStatus BY DEF RunStatus
    <3> QED BY <3>1, <3>2, StatusEffect
  <2>4. CASE ChildIsDeadLettered(w, p, id)
    <3>1. child' = [child EXCEPT ![p][id].status = "failed"] BY <2>4 DEF ChildIsDeadLettered
    <3>2. "failed" \in RunStatus BY DEF RunStatus
    <3> QED BY <3>1, <3>2, StatusEffect
  <2> QED BY <2>1, <2>2, <2>3, <2>4
<1>3. /\ childJobs' \in [Parents -> [ChildIds -> Nat]]
      /\ \A q \in Parents, j \in ChildIds : q # p \/ j # id => childJobs'[q][j] = childJobs[q][j]
  <2>1. \/ childJobs' = childJobs
        \/ childJobs[p][id] > 0 /\ childJobs' = [childJobs EXCEPT ![p][id] = @ - 1]
        \/ childJobs' = [childJobs EXCEPT ![p][id] = @ + 1]
    BY DEF TakeChild, ChildSucceeds, ChildRetries, ChildIsDeadLettered, queue
  <2>2. childJobs[p][id] \in Nat BY <1>0
  <2>3. childJobs' = childJobs \/ \E n \in Nat : childJobs' = [childJobs EXCEPT ![p][id] = n]
    BY <2>1, <2>2
  <2>4. CASE childJobs' = childJobs BY <1>0, <2>4
  <2>5. ASSUME NEW n \in Nat, childJobs' = [childJobs EXCEPT ![p][id] = n]
        PROVE  /\ childJobs' \in [Parents -> [ChildIds -> Nat]]
               /\ \A q \in Parents, j \in ChildIds : q # p \/ j # id => childJobs'[q][j] = childJobs[q][j]
    <3> DEFINE row == [childJobs[p] EXCEPT ![id] = n]
    <3>1. row \in [ChildIds -> Nat] /\ \A j \in ChildIds : j # id => row[j] = childJobs[p][j]
      BY <1>0
    <3>2. childJobs' = [childJobs EXCEPT ![p] = row] BY <1>0, <2>5
    <3> HIDE DEF row
    <3> QED BY <1>0, <3>1, <3>2
  <2> QED BY <2>3, <2>4, <2>5
<1>4. /\ coord' \in [Parents -> Locals] /\ Others(p)
      /\ PlanKept(p) /\ WorkKept(p) /\ AskKept(p) /\ coord'[p].pc = coord[p].pc
  <2>1. coord' = coord \/ Publish(p, id, "succeeded") \/ Publish(p, id, "dead")
    BY DEF TakeChild, ChildSucceeds, ChildRetries, ChildIsDeadLettered
  <2>2. CASE coord' = coord BY <1>0, <2>2 DEF Others, PlanKept, WorkKept, AskKept
  <2> QED BY <2>1, <2>2, PublishEffect
<1>5. /\ slot[w] \in {Free, <<p, id>>}
      /\ \/ slot' = slot \/ slot' = [slot EXCEPT ![w] = Free]
         \/ slot' = [slot EXCEPT ![w] = <<p, id>>]
  BY DEF TakeChild, ChildSucceeds, ChildRetries, ChildIsDeadLettered
<1> HIDE DEF Execute
<1>6. /\ slot' \in [Slots -> {Free} \cup Parents \cup (Parents \X ChildIds)]
      /\ \A v \in Slots : v # w => slot'[v] = slot[v]
      /\ slot'[w] \in {Free, <<p, id>>}
  BY <1>0, <1>5
<1> QED BY <1>1, <1>2, <1>3, <1>4, <1>5, <1>6

LEMMA ExecuteTracked ==
  ASSUME TrackInv, NEW w \in Slots, NEW p \in Parents, NEW id \in ChildIds, Execute(w, p, id)
  PROVE  TrackInv'
<1>0. Typed /\ \A q \in Parents : ParentHeld(q) /\ OnTrack(q) BY DEF TrackInv
<1>1. /\ UNCHANGED <<parent, born, jobs, crashes>>
      /\ child' \in [Parents -> [ChildIds -> ChildRow]]
      /\ childJobs' \in [Parents -> [ChildIds -> Nat]]
      /\ coord' \in [Parents -> Locals] /\ Others(p)
      /\ PlanKept(p) /\ WorkKept(p) /\ AskKept(p) /\ coord'[p].pc = coord[p].pc
      /\ slot' \in [Slots -> {Free} \cup Parents \cup (Parents \X ChildIds)]
      /\ \A v \in Slots : v # w => slot'[v] = slot[v]
      /\ slot[w] \in {Free, <<p, id>>} /\ slot'[w] \in {Free, <<p, id>>}
  BY <1>0, ExecuteEffect
<1>2. Typed' BY <1>0, <1>1 DEF Typed
<1>3. OnTrack(p)' BY <1>0, <1>1 DEF OnTrack, Asking, Done, PlanKept, WorkKept, AskKept
<1>4. \A q \in Parents : OnTrack(q)' BY <1>0, <1>1, <1>3, UntouchedParent DEF Others
<1>5. \A q \in Parents : slot[w] # q /\ slot'[w] # q
  <2>1. <<p, id>> \in Parents \X ChildIds OBVIOUS
  <2> QED BY <1>1, <2>1, OrchestrationAssumption, SlotAssumption
<1>6. \A q \in Parents, v \in Slots : slot'[v] = q <=> slot[v] = q BY <1>1, <1>5
<1>7. \A q \in Parents : coord'[q].pc = coord[q].pc BY <1>1 DEF Others
<1>8. ASSUME NEW q \in Parents PROVE ParentHeld(q)'
  <2>1. \A v \in Slots : slot'[v] = q <=> slot[v] = q BY <1>6
  <2>2. parent'[q] = parent[q] /\ jobs'[q] = jobs[q] /\ coord'[q].pc = coord[q].pc BY <1>1, <1>7
  <2> QED BY <1>0, <2>1, <2>2 DEF ParentHeld
<1> QED BY <1>2, <1>4, <1>8 DEF TrackInv

LEMMA CrashTracked ==
  ASSUME TrackInv, Crash
  PROVE  TrackInv'
<1>0. Typed /\ \A q \in Parents : ParentHeld(q) /\ OnTrack(q) BY DEF TrackInv
<1>1. /\ slot' = [w \in Slots |-> Free] /\ coord' = [p \in Parents |-> Fresh("none")]
      /\ jobs' = [p \in Parents |-> jobs[p] + Cardinality({w \in Slots : slot[w] = p})]
      /\ UNCHANGED <<parent, child, born>>
  BY DEF Crash, rows
<1>2. ASSUME NEW q \in Parents PROVE jobs'[q] \in {0, 1}
  <2> DEFINE held == {w \in Slots : slot[w] = q}
  <2>1. CASE held = {}
    <3>1. Cardinality(held) = 0 BY <2>1, FS_EmptySet
    <3>2. jobs[q] \in {0, 1} BY <1>0 DEF ParentHeld
    <3> QED BY <1>1, <3>1, <3>2
  <2>2. CASE held # {}
    <3>1. PICK w \in Slots : slot[w] = q BY <2>2
    <3>2. held = {w} BY <1>0, <3>1 DEF ParentHeld
    <3>3. Cardinality(held) = 1 BY <3>2, FS_Singleton
    <3>4. jobs[q] = 0 BY <1>0, <3>1 DEF ParentHeld
    <3> QED BY <1>1, <3>3, <3>4
  <2> QED BY <2>1, <2>2
<1>3. jobs' \in [Parents -> Nat] BY <1>1, <1>2
<1>4. Fresh("none") \in Locals /\ Fresh("none").pc = "none"
  BY OrchestrationAssumption DEF Fresh, Locals, Pcs, ChildIds, AgentTypes, NoOutput, Writings
<1>5. crashes' \in Nat BY <1>0 DEF Crash, Typed
<1>6. childJobs' \in [Parents -> [ChildIds -> Nat]]
  <2>1. ASSUME NEW p \in Parents, NEW id \in ChildIds
        PROVE  childJobs[p][id] + Cardinality({w \in Slots : slot[w] = <<p, id>>}) \in Nat
    <3>1. IsFiniteSet({w \in Slots : slot[w] = <<p, id>>})
      BY OrchestrationAssumption, FS_Subset
    <3>2. Cardinality({w \in Slots : slot[w] = <<p, id>>}) \in Nat BY <3>1, FS_CardinalityType
    <3>3. childJobs[p][id] \in Nat BY <1>0 DEF Typed
    <3> QED BY <3>2, <3>3
  <2> QED BY <2>1 DEF Crash
<1>7. Typed' BY <1>0, <1>1, <1>3, <1>4, <1>5, <1>6 DEF Typed
<1>8. \A q \in Parents : coord'[q].pc = "none" BY <1>1, <1>4
<1>9. \A q \in Parents : OnTrack(q)' BY <1>8, GivesUp
<1>10. \A q \in Parents : ParentHeld(q)' BY <1>1, <1>2, <1>8, OrchestrationAssumption DEF ParentHeld
<1> QED BY <1>7, <1>9, <1>10 DEF TrackInv

LEMMA TrackInit ==
  ASSUME Init
  PROVE  TrackInv
<1>1. \A p \in Parents : coord[p].pc = "none" /\ jobs[p] = 1 /\ \A w \in Slots : slot[w] # p
  BY OrchestrationAssumption DEF Init, Fresh
<1>2. \A p \in Parents : ParentHeld(p) BY <1>1 DEF ParentHeld
<1>3. \A p \in Parents : OnTrack(p) BY <1>1 DEF OnTrack, Asking, Busy
<1> QED BY <1>2, <1>3, TypedInit DEF TrackInv

LEMMA TrackNext ==
  ASSUME TrackInv, [Next]_vars
  PROVE  TrackInv'
<1>1. CASE Next
  <2>1. CASE \E p \in Parents : Coordinate(p)
    <3>1. PICK p \in Parents : Coordinate(p) BY <2>1
    <3>2. Thinks(p) \/ Dispatches(p) \/ RunsChild(p) \/ Ends(p)
      BY <3>1, Zenon DEF Coordinate, Thinks, Dispatches, RunsChild, Ends
    <3> QED BY <3>2, CoordinatesTracked, EndsTracked
  <2>2. CASE \E w \in Slots, p \in Parents : Begin(w, p) BY <2>2, BeginTracked
  <2>3. CASE \E w \in Slots, p \in Parents, id \in ChildIds : Execute(w, p, id)
    BY <2>3, ExecuteTracked
  <2>4. CASE Crash BY <2>4, CrashTracked
  <2> QED BY <1>1, <2>1, <2>2, <2>3, <2>4 DEF Next, Work
<1>2. CASE UNCHANGED vars
  <2>1. UNCHANGED <<parent, child, born, jobs, childJobs, slot, coord, crashes>>
    BY <1>2 DEF vars, rows, queue
  <2>2. Typed' BY <2>1 DEF TrackInv, Typed
  <2>3. \A p \in Parents : ParentHeld(p)' BY <2>1 DEF TrackInv, ParentHeld
  <2>4. \A p \in Parents : OnTrack(p)' BY <2>1, UntouchedParent DEF TrackInv
  <2> QED BY <2>2, <2>3, <2>4 DEF TrackInv
<1> QED BY <1>1, <1>2

(* Each attempt of an orchestration holds one slot and follows an order of *)
(* the plan it accepted, whatever crashes and is delivered twice.          *)
THEOREM AttemptsTracked == Spec => []TrackInv
  BY TrackInit, TrackNext, PTL DEF Spec

(* Every plan executeOrchestration accepts is sorted completely and in     *)
(* dependency order, or rejected because no order can execute it.          *)
THEOREM SortSoundHolds == Spec => []SortSound
<1>1. TrackInv => SortSound
  <2> SUFFICES ASSUME TrackInv, NEW p \in Parents, coord[p].pc = "sort"
               PROVE  IF Order[coord[p].plan] = Rejected THEN ~ Executable(coord[p].plan)
                      ELSE Executes(Order[coord[p].plan], coord[p].plan)
    BY DEF SortSound
  <2>1. coord[p].plan \in Plans BY DEF TrackInv, OnTrack
  <2>2. WellFormed(coord[p].plan) /\ coord[p].plan # << >>
        /\ Order[coord[p].plan] = TopoSort(coord[p].plan)
    BY <2>1, PlansWell
  <2> QED BY <2>2, TopoSortCorrect
<1> QED BY <1>1, AttemptsTracked, PTL

-----------------------------------------------------------------------------
(* Children, as long as none is delivered twice *)

Held(p, id) == childJobs[p][id] # 0 \/ \E w \in Slots : slot[w] = <<p, id>>

LEMMA ChildStill ==
  ASSUME NEW p \in Parents, NEW id \in ChildIds, ChildHeld(p, id),
         coord'[p].pc = coord[p].pc, coord'[p].id = coord[p].id, coord'[p].heard = coord[p].heard,
         childJobs'[p][id] = childJobs[p][id], child'[p][id].status = child[p][id].status,
         \A v \in Slots : slot'[v] = <<p, id>> <=> slot[v] = <<p, id>>
  PROVE  ChildHeld(p, id)'
  BY DEF ChildHeld

LEMMA ChildIdle ==
  ASSUME NEW p \in Parents, NEW id \in ChildIds, childJobs'[p][id] = 0,
         \A v \in Slots : slot'[v] # <<p, id>>
  PROVE  ChildHeld(p, id)'
  BY DEF ChildHeld

(* A child nobody waits for is neither queued nor executed.                *)
LEMMA NotWaitedFor ==
  ASSUME NEW p \in Parents, NEW id \in ChildIds, ChildHeld(p, id), Typed,
         ~ Async \/ coord[p].pc # "await" \/ coord[p].heard # "none" \/ coord[p].id # id
  PROVE  ~ Held(p, id) /\ childJobs[p][id] = 0
  BY DEF ChildHeld, Held

LEMMA UntouchedChildren ==
  ASSUME NEW q \in Parents, coord'[q] = coord[q], child'[q] = child[q], ChildrenTrue(q)
  PROVE  ChildrenTrue(q)'
  BY DEF ChildrenTrue

LEMMA DispatchRow ==
  ASSUME Typed, NEW p \in Parents, NEW kind, NEW id \in ChildIds, NEW type \in AgentTypes,
         Dispatch(p, kind, id, type)
  PROVE  /\ child' \in [Parents -> [ChildIds -> ChildRow]] /\ OtherRows(p, id)
         /\ child[p][id].status # "absent" => child'[p][id] = child[p][id]
         /\ child[p][id].status = "absent" =>
              child'[p][id].status = "queued" /\ child'[p][id].agent = type
<1>1. CASE child[p][id].status # "absent" BY <1>1 DEF Dispatch, Typed, OtherRows
<1>2. CASE child[p][id].status = "absent"
  <2> DEFINE r == [NoChild EXCEPT !.status = "queued", !.agent = type]
  <2>1. r \in ChildRow /\ r.status = "queued" /\ r.agent = type
    BY DEF NoChild, NoOutput, ChildRow, Writings, RunStatus
  <2>2. child' = [child EXCEPT ![p][id] = r] BY <1>2 DEF Dispatch
  <2> HIDE DEF r
  <2>3. r \in ChildRow BY <2>1
  <2>4. child' \in [Parents -> [ChildIds -> ChildRow]] /\ child'[p][id] = r /\ OtherRows(p, id)
    BY <2>2, <2>3, RowEffect
  <2> QED BY <1>2, <2>1, <2>4
<1> QED BY <1>1, <1>2

(* What a step of a coordinator does to the rows of its children.          *)
LEMMA RunsChildRow ==
  ASSUME Typed, NEW p \in Parents, RunsChild(p), ChildrenTrue(p)
  PROVE  /\ child' \in [Parents -> [ChildIds -> ChildRow]] /\ OtherRows(p, coord[p].id)
         /\ child'[p][coord[p].id].agent = child[p][coord[p].id].agent
         /\ child'[p][coord[p].id].status # "absent"
         /\ \/ child'[p][coord[p].id] = child[p][coord[p].id]
            \/ /\ child'[p][coord[p].id].status = "running" /\ ~ Async
               /\ child'[p][coord[p].id].output = child[p][coord[p].id].output
               /\ child[p][coord[p].id].status # "succeeded"
            \/ /\ child'[p][coord[p].id].status = "succeeded" /\ ~ Async
               /\ child'[p][coord[p].id].output.agent = child[p][coord[p].id].agent
               /\ child[p][coord[p].id].status # "succeeded"
         /\ coord'[p].pc = "work" => child'[p][coord[p].id].status = "running"
<1> DEFINE id == coord[p].id
<1>0. id \in ChildIds /\ child \in [Parents -> [ChildIds -> ChildRow]] BY DEF Typed, Locals
<1>1. coord[p].pc \in Busy /\ child[p][id].status # "absent"
  BY DEF ChildrenTrue, RunsChild, EnqueueChild, StartInline, FinishInline, Busy
<1>2. CASE EnqueueChild(p)
  <2>1. child' = child BY <1>2 DEF EnqueueChild, rows
  <2>2. coord'[p].pc = "await" BY <1>2, WaitEffect
  <2> QED BY <1>0, <1>1, <2>1, <2>2 DEF OtherRows
<1>3. CASE StartInline(p)
  <2>1. CASE IsTerminal(child[p][id].status)
    <3>1. child' = child BY <1>3, <2>1 DEF StartInline
    <3>2. coord'[p].pc = "read" BY <1>3, <2>1, WaitEffect
    <3> QED BY <1>0, <1>1, <3>1, <3>2 DEF OtherRows
  <2>2. CASE ~ IsTerminal(child[p][id].status)
    <3>1. child' = [child EXCEPT ![p][id].status = "running"] BY <1>3, <2>2 DEF StartInline
    <3>2. "running" \in RunStatus BY DEF RunStatus
    <3>3. child[p][id].status # "succeeded" BY <2>2 DEF IsTerminal, TerminalStates
    <3>4. ~ Async BY <1>3, OrchestrationAssumption DEF ChildrenTrue, StartInline
    <3> HIDE DEF id
    <3>5. /\ child' \in [Parents -> [ChildIds -> ChildRow]] /\ OtherRows(p, id)
          /\ child'[p][id].status = "running"
          /\ child'[p][id].agent = child[p][id].agent /\ child'[p][id].output = child[p][id].output
      BY <1>0, <3>1, <3>2, StatusEffect
    <3> QED BY <3>3, <3>4, <3>5 DEF id
  <2> QED BY <2>1, <2>2
<1>4. CASE FinishInline(p)
  <2>0. coord[p].pc = "work" /\ coord'[p].pc # "work" BY <1>4, WaitEffect DEF AfterFailure
  <2>1. ~ Async /\ child[p][id].status = "running"
    BY <2>0, OrchestrationAssumption DEF ChildrenTrue
  <2>2. CASE child' = child BY <1>0, <1>1, <2>0, <2>2 DEF OtherRows
  <2>3. CASE \E out \in Outputs(p, id) :
               child' = [child EXCEPT ![p][id].status = "succeeded", ![p][id].output = out]
    <3>1. PICK out \in Outputs(p, id) :
            child' = [child EXCEPT ![p][id].status = "succeeded", ![p][id].output = out]
      BY <2>3
    <3>2. out \in Writings /\ out.agent = child[p][id].agent BY <1>0, OutputsTyped
    <3> HIDE DEF id
    <3>3. /\ child' \in [Parents -> [ChildIds -> ChildRow]] /\ OtherRows(p, id)
          /\ child'[p][id].status = "succeeded" /\ child'[p][id].output = out
          /\ child'[p][id].agent = child[p][id].agent
      BY <1>0, <3>1, <3>2, SuccessEffect
    <3> QED BY <2>0, <2>1, <3>2, <3>3 DEF id
  <2> QED BY <1>4, <2>2, <2>3 DEF FinishInline
<1> QED BY <1>2, <1>3, <1>4 DEF RunsChild

(* A child is executed because its parent waits for it, at most once at a  *)
(* time, and never again when it has succeeded.                            *)
LEMMA ExecuteRow ==
  ASSUME Typed, NEW w \in Slots, NEW p \in Parents, NEW id \in ChildIds, Execute(w, p, id),
         ChildHeld(p, id), ChildrenTrue(p)
  PROVE  /\ Held(p, id) /\ coord[p].pc = "await" /\ coord[p].id = id
         /\ child[p][id].status # "absent" /\ child'[p][id].status # "absent"
         /\ child[p][id].status = "succeeded" =>
              child'[p][id].status = "succeeded" /\ child'[p][id].output = child[p][id].output
         /\ child'[p][id].status = "succeeded" /\ child[p][id].status # "succeeded" =>
              child'[p][id].output.agent = child[p][id].agent
         /\ ChildHeld(p, id)'
<1>0. /\ child \in [Parents -> [ChildIds -> ChildRow]] /\ child[p][id] \in ChildRow
      /\ childJobs \in [Parents -> [ChildIds -> Nat]] /\ childJobs[p][id] \in Nat
      /\ slot \in [Slots -> {Free} \cup Parents \cup (Parents \X ChildIds)]
      /\ <<p, id>> \in Parents \X ChildIds /\ <<p, id>> # Free
  BY SlotAssumption DEF Typed
<1>1. Held(p, id)
  BY <1>0 DEF Held, Execute, TakeChild, ChildSucceeds, ChildRetries, ChildIsDeadLettered
<1>2. coord[p].pc = "await" /\ coord[p].id = id /\ Async /\ coord[p].heard = "none"
  BY <1>1 DEF ChildHeld, Held
<1>3. child[p][id].status # "absent" BY <1>2 DEF ChildrenTrue, Busy
<1>4. CASE TakeChild(w, p, id)
  <2>1. childJobs[p][id] = 1 /\ slot[w] = Free /\ \A v \in Slots : slot[v] # <<p, id>>
    BY <1>0, <1>4 DEF TakeChild, ChildHeld
  <2>2. childJobs'[p][id] = 0 BY <1>0, <1>4, <2>1 DEF TakeChild
  <2>3. CASE IsTerminal(child[p][id].status)
    <3>1. child' = [child EXCEPT ![p][id].attempts = @ + 1] /\ slot' = slot
      BY <1>4, <2>3 DEF TakeChild
    <3>2. child'[p][id].status = child[p][id].status /\ child'[p][id].output = child[p][id].output
      BY <1>0, <3>1 DEF ChildRow
    <3>3. ChildHeld(p, id)' BY <2>1, <2>2, <3>1, ChildIdle
    <3> QED BY <1>1, <1>2, <1>3, <3>2, <3>3
  <2>4. CASE ~ IsTerminal(child[p][id].status)
    <3>1. child' = [child EXCEPT ![p][id].attempts = @ + 1, ![p][id].status = "running"]
          /\ slot' = [slot EXCEPT ![w] = <<p, id>>]
      BY <1>4, <2>4 DEF TakeChild
    <3>2. child'[p][id].status = "running"
      <4> DEFINE n == child[p][id].attempts + 1
      <4>1. child' = [child EXCEPT ![p][id].attempts = n, ![p][id].status = "running"] BY <3>1
      <4> HIDE DEF n
      <4> QED BY <1>0, <4>1 DEF ChildRow
    <3>3. child[p][id].status # "succeeded" BY <2>4 DEF IsTerminal, TerminalStates
    <3>4. \A v \in Slots : slot'[v] = <<p, id>> <=> v = w BY <1>0, <2>1, <3>1
    <3>5. coord' = coord BY <1>4 DEF TakeChild
    <3>6. ChildHeld(p, id)' BY <1>2, <2>2, <3>2, <3>4, <3>5 DEF ChildHeld
    <3> QED BY <1>1, <1>2, <1>3, <3>2, <3>3, <3>6
  <2> QED BY <2>3, <2>4
<1>5. ASSUME slot[w] = <<p, id>>
      PROVE  /\ childJobs[p][id] = 0 /\ child[p][id].status = "running"
             /\ \A v \in Slots : slot[v] = <<p, id>> => v = w
  BY <1>5 DEF ChildHeld
<1>6. ASSUME slot[w] = <<p, id>>, slot' = [slot EXCEPT ![w] = Free]
      PROVE  \A v \in Slots : slot'[v] # <<p, id>>
  BY <1>0, <1>5, <1>6
<1>7. CASE ChildSucceeds(w, p, id)
  <2>1. slot[w] = <<p, id>> /\ slot' = [slot EXCEPT ![w] = Free] /\ childJobs' = childJobs
    BY <1>7 DEF ChildSucceeds, queue
  <2>2. PICK out \in Outputs(p, id) :
          child' = [child EXCEPT ![p][id].status = "succeeded", ![p][id].output = out]
    BY <1>7 DEF ChildSucceeds
  <2>3. out \in Writings /\ out.agent = child[p][id].agent BY OutputsTyped
  <2>4. child'[p][id].status = "succeeded" /\ child'[p][id].output = out
    BY <2>2, <2>3, SuccessEffect
  <2>5. ChildHeld(p, id)' BY <1>5, <1>6, <2>1, ChildIdle
  <2> QED BY <1>1, <1>2, <1>3, <1>5, <2>1, <2>3, <2>4, <2>5
<1>8. CASE ChildRetries(w, p, id)
  <2>1. slot[w] = <<p, id>> /\ slot' = [slot EXCEPT ![w] = Free]
        /\ childJobs' = [childJobs EXCEPT ![p][id] = @ + 1] /\ coord' = coord
        /\ child' = [child EXCEPT ![p][id].status = "running"]
    BY <1>8 DEF ChildRetries
  <2>2. child'[p][id].status = "running" BY <1>0, <2>1 DEF ChildRow
  <2>3. childJobs'[p][id] = 1 BY <1>0, <1>5, <2>1
  <2>4. ChildHeld(p, id)' BY <1>2, <1>6, <2>1, <2>3 DEF ChildHeld
  <2> QED BY <1>1, <1>2, <1>3, <1>5, <2>1, <2>2, <2>4
<1>9. CASE ChildIsDeadLettered(w, p, id)
  <2>1. slot[w] = <<p, id>> /\ slot' = [slot EXCEPT ![w] = Free] /\ childJobs' = childJobs
        /\ child' = [child EXCEPT ![p][id].status = "failed"]
    BY <1>9 DEF ChildIsDeadLettered, queue
  <2>2. child'[p][id].status = "failed" BY <1>0, <2>1 DEF ChildRow
  <2>3. ChildHeld(p, id)' BY <1>5, <1>6, <2>1, ChildIdle
  <2> QED BY <1>1, <1>2, <1>3, <1>5, <2>1, <2>2, <2>3
<1> QED BY <1>4, <1>7, <1>8, <1>9 DEF Execute

(* A row that is there stays, and a success is final.                      *)
RowsKept == \A p \in Parents, id \in ChildIds :
  /\ child[p][id].status # "absent" => child'[p][id].status # "absent"
  /\ child[p][id].status = "succeeded" =>
       child'[p][id].status = "succeeded" /\ child'[p][id].output = child[p][id].output

LEMMA NextRowsKept ==
  ASSUME ChildrenInv, [Next]_vars
  PROVE  RowsKept
<1>0. /\ Typed /\ \A p \in Parents : OnTrack(p) /\ ChildrenTrue(p)
      /\ \A p \in Parents : \A id \in ChildIds : ChildHeld(p, id)
  BY DEF ChildrenInv, TrackInv
<1>1. CASE child' = child BY <1>1 DEF RowsKept
<1>2. ASSUME NEW p \in Parents, Thinks(p) \/ Ends(p) PROVE child' = child
  <2>1. CASE Thinks(p)
    BY <2>1, Zenon DEF Thinks, PlanTeam, PlanSingle, Sort, NobodyToAsk, SubscriptionConfirmed, Awaken,
       ReadSubtask, ReadReview, ReadRevision, ReadsFailure, AllSubtasksDone, rows
  <2>2. CASE Ends(p) BY <2>2, Zenon DEF Ends, Aggregate, AttemptFails
  <2> QED BY <1>2, <2>1, <2>2
<1>3. ASSUME NEW p \in Parents, Dispatches(p) PROVE RowsKept
  <2>1. PICK kind \in {"subtask", "review", "revision"}, id \in ChildIds, type \in AgentTypes :
          Dispatch(p, kind, id, type)
    BY <1>0, <1>3, DispatchesEffect DEF Asks
  <2>2. /\ OtherRows(p, id)
        /\ child[p][id].status # "absent" => child'[p][id] = child[p][id]
        /\ child[p][id].status = "absent" => child'[p][id].status = "queued"
    BY <1>0, <2>1, DispatchRow
  <2> QED BY <2>2 DEF RowsKept, OtherRows
<1>4. ASSUME NEW p \in Parents, RunsChild(p) PROVE RowsKept
  <2>1. coord[p].id \in ChildIds BY <1>0 DEF Typed, Locals
  <2> QED BY <1>0, <1>4, <2>1, RunsChildRow DEF RowsKept, OtherRows
<1>5. ASSUME NEW w \in Slots, NEW p \in Parents, NEW id \in ChildIds, Execute(w, p, id)
      PROVE  RowsKept
  <2>1. OtherRows(p, id) BY <1>0, <1>5, ExecuteEffect
  <2> QED BY <1>0, <1>5, <2>1, ExecuteRow DEF RowsKept, OtherRows
<1>6. CASE \E p \in Parents : Coordinate(p)
  <2>1. PICK p \in Parents : Coordinate(p) BY <1>6
  <2>2. Thinks(p) \/ Dispatches(p) \/ RunsChild(p) \/ Ends(p)
    BY <2>1, Zenon DEF Coordinate, Thinks, Dispatches, RunsChild, Ends
  <2> QED BY <1>1, <1>2, <1>3, <1>4, <2>2
<1>7. CASE \E w \in Slots, p \in Parents : Begin(w, p) BY <1>1, <1>7 DEF Begin
<1>8. CASE Crash BY <1>1, <1>8 DEF Crash, rows
<1>9. CASE UNCHANGED vars BY <1>1, <1>9 DEF vars, rows
<1> QED BY <1>5, <1>6, <1>7, <1>8, <1>9 DEF Next, Work

LEMMA ChildrenInit ==
  ASSUME Init
  PROVE  ChildrenInv
<1>1. \A p \in Parents : coord[p].pc = "none" /\ coord[p].outputs = {}
  BY DEF Init, Fresh
<1>2. \A p \in Parents, id \in ChildIds : childJobs[p][id] = 0 /\ \A w \in Slots : slot[w] # <<p, id>>
  BY SlotAssumption DEF Init
<1>3. \A p \in Parents : ChildrenTrue(p) BY <1>1 DEF ChildrenTrue, Busy
<1>4. \A p \in Parents : \A id \in ChildIds : ChildHeld(p, id) BY <1>2 DEF ChildHeld
<1> QED BY <1>3, <1>4, TrackInit DEF ChildrenInv

(* A coordinator that moves on waits for nobody, or goes on waiting.       *)
LEMMA CoordinatesChildren ==
  ASSUME ChildrenInv, RowsKept, NEW p \in Parents, Thinks(p) \/ Dispatches(p) \/ Ends(p)
  PROVE  /\ \A q \in Parents : ChildrenTrue(q)'
         /\ \A q \in Parents : \A id \in ChildIds : ChildHeld(q, id)'
<1>0. /\ Typed /\ \A q \in Parents : ParentHeld(q) /\ OnTrack(q) /\ ChildrenTrue(q)
      /\ \A q \in Parents : \A id \in ChildIds : ChildHeld(q, id)
  BY DEF ChildrenInv, TrackInv
<1>1. /\ Others(p) /\ childJobs' = childJobs
      /\ \A q \in Parents : q # p => child'[q] = child[q]
      /\ \A q \in Parents : \A id \in ChildIds : \A v \in Slots :
           slot'[v] = <<q, id>> <=> slot[v] = <<q, id>>
  <2>1. CASE Thinks(p)
    <3>1. UNCHANGED <<child, childJobs, slot>>
      BY <2>1, Zenon DEF Thinks, PlanTeam, PlanSingle, Sort, NobodyToAsk, SubscriptionConfirmed, Awaken,
         ReadSubtask, ReadReview, ReadRevision, ReadsFailure, AllSubtasksDone, rows, queue
    <3>2. Others(p) BY <1>0, <2>1, PlanEffect, WaitEffect, ReadEffect DEF Thinks
    <3> QED BY <3>1, <3>2
  <2>2. CASE Dispatches(p)
    <3>1. Others(p) /\ UNCHANGED <<childJobs, slot>> BY <1>0, <2>2, DispatchesOnTrack
    <3>2. \A q \in Parents : q # p => child'[q] = child[q]
      <4>1. PICK kind \in {"subtask", "review", "revision"}, id \in ChildIds, type \in AgentTypes :
              Dispatch(p, kind, id, type)
        BY <1>0, <2>2, DispatchesEffect DEF Asks
      <4> QED BY <1>0, <4>1 DEF Dispatch, Typed
    <3> QED BY <3>1, <3>2
  <2>3. CASE Ends(p)
    <3>1. Others(p) /\ UNCHANGED <<child, childJobs>> BY <1>0, <2>3, EndsEffect
    <3>2. PICK w \in Slots : slot[w] = p /\ slot' = [slot EXCEPT ![w] = Free]
      BY <1>0, <2>3, EndsEffect
    <3>3. \A q \in Parents : \A id \in ChildIds : <<q, id>> # Free /\ <<q, id>> # p
      <4>1. \A q \in Parents : \A id \in ChildIds : <<q, id>> \in Parents \X ChildIds OBVIOUS
      <4> QED BY <4>1, SlotAssumption
    <3>4. slot \in [Slots -> {Free} \cup Parents \cup (Parents \X ChildIds)] BY <1>0 DEF Typed
    <3> QED BY <3>1, <3>2, <3>3, <3>4
  <2> QED BY <2>1, <2>2, <2>3
<1>2. ASSUME NEW q \in Parents, q # p
      PROVE  ChildrenTrue(q)' /\ \A id \in ChildIds : ChildHeld(q, id)'
  <2>1. coord'[q] = coord[q] /\ child'[q] = child[q] /\ childJobs'[q] = childJobs[q]
    BY <1>1, <1>2 DEF Others
  <2> QED BY <1>0, <1>1, <2>1, UntouchedChildren, ChildStill
<1>3. ChildrenTrue(p)'
  <2>0. \A d \in ChildIds : child[p][d].status = "succeeded" => child'[p][d].status = "succeeded"
    BY DEF RowsKept
  <2>1. coord[p].id \in ChildIds /\ coord[p].outputs \subseteq ChildIds BY <1>0 DEF Typed, Locals
  <2>2. \A d \in coord[p].outputs : child'[p][d].status = "succeeded"
    BY <1>0, <2>0, <2>1 DEF ChildrenTrue
  <2>3. CASE Thinks(p)
    <3>1. CASE SubscriptionConfirmed(p) \/ Awaken(p)
      <4>1. /\ WorkKept(p) /\ AskKept(p)
            /\ \/ coord'[p].pc = coord[p].pc /\ coord'[p].heard = coord[p].heard
               \/ coord[p].pc = "await" /\ coord'[p].pc \in {"read", "throw", "aggregate"}
        BY <1>0, <3>1, WaitEffect DEF AfterFailure
      <4>2. child' = child BY <3>1 DEF SubscriptionConfirmed, Awaken, rows
      <4> QED BY <1>0, <4>1, <4>2 DEF ChildrenTrue, WorkKept, AskKept, Busy
    <3>2. CASE ReadSubtask(p)
      <4>1. coord'[p].pc = "next" /\ coord'[p].outputs = coord[p].outputs \cup {coord[p].id}
            /\ child[p][coord[p].id].status = "succeeded"
        BY <1>0, <3>2, ReadEffect DEF ReadsSuccess
      <4> QED BY <2>0, <2>1, <2>2, <4>1 DEF ChildrenTrue, Busy
    <3>3. CASE ~ SubscriptionConfirmed(p) /\ ~ Awaken(p) /\ ~ ReadSubtask(p)
      <4>1. coord'[p].pc \in {"sort", "throw", "next", "review", "revise", "aggregate"}
            /\ coord'[p].outputs = coord[p].outputs
        BY <1>0, <2>3, <3>3, PlanEffect, WaitEffect, ReadEffect DEF Thinks, WorkKept, AfterFailure
      <4> QED BY <2>2, <4>1 DEF ChildrenTrue, Busy
    <3> QED BY <3>1, <3>2, <3>3
  <2>4. CASE Dispatches(p)
    <3>1. PICK kind \in {"subtask", "review", "revision"}, id \in ChildIds, type \in AgentTypes :
            Dispatch(p, kind, id, type)
      BY <1>0, <2>4, DispatchesEffect DEF Asks
    <3>2. /\ WorkKept(p) /\ coord'[p].id = id /\ coord'[p].heard = "none"
          /\ coord'[p].pc = IF Async THEN "enqueue" ELSE "execute"
      BY <1>0, <3>1, DispatchEffect
    <3>3. child'[p][id].status # "absent"
      <4>1. /\ child[p][id].status # "absent" => child'[p][id] = child[p][id]
            /\ child[p][id].status = "absent" => child'[p][id].status = "queued"
        BY <1>0, <3>1, DispatchRow
      <4> QED BY <4>1
    <3> QED BY <2>2, <3>2, <3>3 DEF ChildrenTrue, WorkKept
  <2>5. CASE Ends(p)
    <3>1. coord'[p] = Fresh("none") BY <1>0, <2>5, EndsEffect
    <3>2. coord'[p].pc = "none" /\ coord'[p].outputs = {} BY <3>1 DEF Fresh
    <3> QED BY <3>2 DEF ChildrenTrue, Busy
  <2> QED BY <2>3, <2>4, <2>5
<1>4. ASSUME NEW id \in ChildIds PROVE ChildHeld(p, id)'
  <2>1. CASE SubscriptionConfirmed(p)
    <3>1. coord'[p].pc = coord[p].pc /\ coord'[p].id = coord[p].id /\ coord'[p].heard = coord[p].heard
      BY <1>0, <2>1, WaitEffect DEF AskKept
    <3>2. child' = child BY <2>1 DEF SubscriptionConfirmed, rows
    <3> QED BY <1>0, <1>1, <3>1, <3>2, ChildStill
  <2>2. CASE ~ SubscriptionConfirmed(p)
    <3>1. CASE Thinks(p)
      <4>1. coord[p].pc # "await" \/ coord[p].heard # "none"
        BY <1>0, <2>2, <3>1, PlanEffect, WaitEffect, ReadEffect DEF Thinks, ReadsSuccess
      <4> QED BY <1>0, <1>1, <4>1, NotWaitedFor, ChildIdle DEF Held
    <3>2. CASE Dispatches(p)
      <4>1. coord[p].pc # "await" BY <3>2 DEF Dispatches, DispatchSubtask, StartReview, StartRevision
      <4> QED BY <1>0, <1>1, <4>1, NotWaitedFor, ChildIdle DEF Held
    <3>3. CASE Ends(p)
      <4>1. coord[p].pc # "await" BY <1>0, <3>3, EndsEffect
      <4> QED BY <1>0, <1>1, <4>1, NotWaitedFor, ChildIdle DEF Held
    <3> QED BY <3>1, <3>2, <3>3
  <2> QED BY <2>1, <2>2
<1> QED BY <1>2, <1>3, <1>4

LEMMA RunsChildChildren ==
  ASSUME ChildrenInv, RowsKept, NEW p \in Parents, RunsChild(p)
  PROVE  /\ \A q \in Parents : ChildrenTrue(q)'
         /\ \A q \in Parents : \A id \in ChildIds : ChildHeld(q, id)'
<1>0. /\ Typed /\ \A q \in Parents : OnTrack(q) /\ ChildrenTrue(q)
      /\ \A q \in Parents : \A id \in ChildIds : ChildHeld(q, id)
  BY DEF ChildrenInv, TrackInv
<1>1. Others(p) /\ slot' = slot BY <1>0, <1>0, RunsChildOnTrack
<1>2. coord[p].id \in ChildIds /\ coord[p].outputs \subseteq ChildIds
      /\ childJobs \in [Parents -> [ChildIds -> Nat]]
      /\ child \in [Parents -> [ChildIds -> ChildRow]]
  BY <1>0 DEF Typed, Locals
<1>3. child' \in [Parents -> [ChildIds -> ChildRow]] /\ OtherRows(p, coord[p].id)
      /\ child'[p][coord[p].id].status # "absent"
      /\ (coord'[p].pc = "work" => child'[p][coord[p].id].status = "running")
  BY <1>0, RunsChildRow
<1>4. \A d \in coord[p].outputs : child'[p][d].status = "succeeded"
  BY <1>0, <1>2 DEF ChildrenTrue, RowsKept
<1>5. ChildrenTrue(p)'
  <2>1. /\ WorkKept(p) /\ AskKept(p)
        /\ \/ coord[p].pc = "enqueue" /\ coord'[p].pc = "await"
           \/ coord[p].pc \in {"execute", "work"}
              /\ coord'[p].pc \in {"read", "work", "throw", "aggregate"}
    BY <1>0, WaitEffect DEF RunsChild, AfterFailure
  <2> QED BY <1>0, <1>3, <1>4, <2>1 DEF ChildrenTrue, WorkKept, AskKept, Busy
<1>6. ASSUME NEW q \in Parents, q # p
      PROVE  ChildrenTrue(q)' /\ \A id \in ChildIds : ChildHeld(q, id)'
  <2>1. coord'[q] = coord[q] /\ \A id \in ChildIds : child'[q][id] = child[q][id]
    BY <1>1, <1>3, <1>6 DEF Others, OtherRows
  <2>2. child'[q] = child[q] BY <1>2, <1>3, <2>1
  <2>3. childJobs'[q] = childJobs[q]
    BY <1>2, <1>6 DEF RunsChild, EnqueueChild, StartInline, FinishInline, queue
  <2> QED BY <1>0, <1>1, <2>1, <2>2, <2>3, UntouchedChildren, ChildStill
<1>7. ASSUME NEW id \in ChildIds PROVE ChildHeld(p, id)'
  <2>0. coord[p].pc # "await" BY DEF RunsChild, EnqueueChild, StartInline, FinishInline
  <2>1. ~ Held(p, id) /\ childJobs[p][id] = 0 BY <1>0, <2>0, NotWaitedFor
  <2>2. CASE EnqueueChild(p)
    <3>1. childJobs' = [childJobs EXCEPT ![p][coord[p].id] = @ + 1] BY <2>2 DEF EnqueueChild
    <3>2. /\ coord[p].pc = "enqueue" /\ coord'[p].pc = "await" /\ coord'[p].id = coord[p].id
          /\ coord'[p].heard = coord[p].heard
      BY <1>0, <2>2, WaitEffect DEF AskKept, HeardKept
    <3>3. Async /\ coord[p].heard = "none"
      BY <1>0, <3>2, OrchestrationAssumption DEF ChildrenTrue
    <3>4. CASE id = coord[p].id
      <4>1. childJobs'[p][id] = 1 BY <1>2, <2>1, <3>1, <3>4
      <4> QED BY <1>1, <2>1, <3>2, <3>3, <3>4, <4>1 DEF ChildHeld, Held
    <3>5. CASE id # coord[p].id
      <4>1. childJobs'[p][id] = 0 BY <1>2, <2>1, <3>1, <3>5
      <4> QED BY <1>1, <2>1, <4>1, ChildIdle DEF Held
    <3> QED BY <3>4, <3>5
  <2>3. CASE StartInline(p) \/ FinishInline(p)
    <3>1. childJobs' = childJobs BY <2>3 DEF StartInline, FinishInline, queue
    <3> QED BY <1>1, <2>1, <3>1, ChildIdle DEF Held
  <2> QED BY <2>2, <2>3 DEF RunsChild
<1> QED BY <1>5, <1>6, <1>7

LEMMA ExecuteChildren ==
  ASSUME ChildrenInv, RowsKept, NEW w \in Slots, NEW p \in Parents, NEW id \in ChildIds,
         Execute(w, p, id)
  PROVE  /\ \A q \in Parents : ChildrenTrue(q)'
         /\ \A q \in Parents : \A j \in ChildIds : ChildHeld(q, j)'
<1>0. /\ Typed /\ \A q \in Parents : OnTrack(q) /\ ChildrenTrue(q)
      /\ \A q \in Parents : \A j \in ChildIds : ChildHeld(q, j)
  BY DEF ChildrenInv, TrackInv
<1>1. /\ child' \in [Parents -> [ChildIds -> ChildRow]] /\ OtherRows(p, id)
      /\ \A q \in Parents, j \in ChildIds : q # p \/ j # id => childJobs'[q][j] = childJobs[q][j]
      /\ Others(p) /\ PlanKept(p) /\ WorkKept(p) /\ AskKept(p) /\ coord'[p].pc = coord[p].pc
      /\ \A v \in Slots : v # w => slot'[v] = slot[v]
      /\ slot[w] \in {Free, <<p, id>>} /\ slot'[w] \in {Free, <<p, id>>}
  BY <1>0, ExecuteEffect
<1>2. /\ Held(p, id) /\ coord[p].pc = "await" /\ coord[p].id = id
      /\ child'[p][id].status # "absent" /\ ChildHeld(p, id)'
  BY <1>0, ExecuteRow
<1>3. child \in [Parents -> [ChildIds -> ChildRow]] /\ coord[p].outputs \subseteq ChildIds
  BY <1>0 DEF Typed, Locals
<1>4. \A q \in Parents, j \in ChildIds : q # p \/ j # id =>
        \A v \in Slots : slot'[v] = <<q, j>> <=> slot[v] = <<q, j>>
  <2> SUFFICES ASSUME NEW q \in Parents, NEW j \in ChildIds, q # p \/ j # id, NEW v \in Slots
               PROVE  slot'[v] = <<q, j>> <=> slot[v] = <<q, j>>
    OBVIOUS
  <2>1. <<q, j>> # <<p, id>> OBVIOUS
  <2>2. <<q, j>> \in Parents \X ChildIds OBVIOUS
  <2>3. <<q, j>> # Free BY <2>2, SlotAssumption
  <2> QED BY <1>1, <2>1, <2>3
<1>5. ASSUME NEW q \in Parents, q # p
      PROVE  ChildrenTrue(q)' /\ \A j \in ChildIds : ChildHeld(q, j)'
  <2>1. coord'[q] = coord[q] /\ \A j \in ChildIds : child'[q][j] = child[q][j]
    BY <1>1, <1>5 DEF Others, OtherRows
  <2>2. child'[q] = child[q] BY <1>1, <1>3, <2>1
  <2>3. ChildrenTrue(q)' BY <1>0, <2>1, <2>2, UntouchedChildren
  <2>4. ASSUME NEW j \in ChildIds PROVE ChildHeld(q, j)'
    BY <1>0, <1>1, <1>4, <1>5, <2>1, ChildStill
  <2> QED BY <2>3, <2>4
<1>6. ChildrenTrue(p)'
  <2>1. \A d \in coord[p].outputs : child'[p][d].status = "succeeded"
    BY <1>0, <1>3 DEF ChildrenTrue, RowsKept
  <2> QED BY <1>0, <1>1, <1>2, <2>1 DEF ChildrenTrue, WorkKept, AskKept
<1>7. ASSUME NEW j \in ChildIds, j # id PROVE ChildHeld(p, j)'
  <2>1. ~ Held(p, j) /\ childJobs[p][j] = 0 BY <1>0, <1>2, <1>7, NotWaitedFor
  <2>2. childJobs'[p][j] = 0 BY <1>1, <1>7, <2>1
  <2>3. \A v \in Slots : slot'[v] # <<p, j>> BY <1>4, <1>7, <2>1 DEF Held
  <2> QED BY <2>2, <2>3, ChildIdle
<1> QED BY <1>2, <1>5, <1>6, <1>7

LEMMA BeginChildren ==
  ASSUME ChildrenInv, NEW w \in Slots, NEW p \in Parents, Begin(w, p)
  PROVE  /\ \A q \in Parents : ChildrenTrue(q)'
         /\ \A q \in Parents : \A id \in ChildIds : ChildHeld(q, id)'
<1>0. /\ Typed /\ \A q \in Parents : ParentHeld(q) /\ ChildrenTrue(q)
      /\ \A q \in Parents : \A id \in ChildIds : ChildHeld(q, id)
  BY DEF ChildrenInv, TrackInv
<1>1. UNCHANGED <<child, childJobs>> BY DEF Begin
<1>2. coord[p].pc = "none" BY <1>0 DEF Begin, ParentHeld, Typed
<1>3. CASE IsTerminal(parent[p].status)
  <2>1. UNCHANGED <<slot, coord>> BY <1>3 DEF Begin
  <2> QED BY <1>0, <1>1, <2>1, UntouchedChildren, ChildStill
<1>4. CASE ~ IsTerminal(parent[p].status)
  <2>1. slot' = [slot EXCEPT ![w] = p] /\ coord' = [coord EXCEPT ![p] = Fresh("plan")]
        /\ slot[w] = Free
    BY <1>4 DEF Begin
  <2>2. \A q \in Parents : \A id \in ChildIds : \A v \in Slots :
          slot'[v] = <<q, id>> <=> slot[v] = <<q, id>>
    <3>1. \A q \in Parents : \A id \in ChildIds : <<q, id>> \in Parents \X ChildIds OBVIOUS
    <3>2. \A q \in Parents : \A id \in ChildIds : <<q, id>> # Free /\ <<q, id>> # p
      BY <3>1, SlotAssumption
    <3> QED BY <1>0, <2>1, <3>2 DEF Typed
  <2>3. coord'[p].pc = "plan" /\ coord'[p].outputs = {} BY <1>0, <2>1 DEF Fresh, Typed
  <2>4. ChildrenTrue(p)' BY <2>3 DEF ChildrenTrue, Busy
  <2>5. \A q \in Parents : q # p => coord'[q] = coord[q] BY <1>0, <2>1 DEF Typed
  <2>6. ASSUME NEW q \in Parents, q # p
        PROVE  ChildrenTrue(q)' /\ \A id \in ChildIds : ChildHeld(q, id)'
    BY <1>0, <1>1, <2>2, <2>5, <2>6, UntouchedChildren, ChildStill
  <2>7. ASSUME NEW id \in ChildIds PROVE ChildHeld(p, id)'
    <3>1. ~ Held(p, id) /\ childJobs[p][id] = 0 BY <1>0, <1>2, NotWaitedFor
    <3> QED BY <1>1, <2>2, <3>1, ChildIdle DEF Held
  <2> QED BY <2>4, <2>6, <2>7
<1> QED BY <1>3, <1>4

LEMMA CrashChildren ==
  ASSUME ChildrenInv, NoRedelivery, Crash
  PROVE  /\ \A q \in Parents : ChildrenTrue(q)'
         /\ \A q \in Parents : \A id \in ChildIds : ChildHeld(q, id)'
<1>0. /\ Typed /\ \A q \in Parents : ChildrenTrue(q)
      /\ \A q \in Parents : \A id \in ChildIds : ChildHeld(q, id)
  BY DEF ChildrenInv, TrackInv
<1>1. ~ Async BY <1>0 DEF NoRedelivery, Crash, Typed
<1>2. /\ slot' = [w \in Slots |-> Free] /\ coord' = [p \in Parents |-> Fresh("none")]
      /\ childJobs' = [p \in Parents |-> [id \in ChildIds |->
           childJobs[p][id] + Cardinality({w \in Slots : slot[w] = <<p, id>>})]]
  BY DEF Crash
<1>3. ASSUME NEW q \in Parents, NEW id \in ChildIds PROVE ChildHeld(q, id)'
  <2>1. ~ Held(q, id) /\ childJobs[q][id] = 0 BY <1>0, <1>1, NotWaitedFor
  <2>2. Cardinality({w \in Slots : slot[w] = <<q, id>>}) = 0
    <3>1. {w \in Slots : slot[w] = <<q, id>>} = {} BY <2>1 DEF Held
    <3> QED BY <3>1, FS_EmptySet
  <2>3. childJobs'[q][id] = 0
    <3>1. childJobs'[q][id] = childJobs[q][id] + Cardinality({w \in Slots : slot[w] = <<q, id>>})
      BY <1>2
    <3> QED BY <2>1, <2>2, <3>1
  <2>4. <<q, id>> \in Parents \X ChildIds OBVIOUS
  <2>5. \A v \in Slots : slot'[v] # <<q, id>> BY <1>2, <2>4, SlotAssumption
  <2> QED BY <2>3, <2>5, ChildIdle
<1>4. ASSUME NEW q \in Parents PROVE ChildrenTrue(q)'
  <2>1. coord'[q].pc = "none" /\ coord'[q].outputs = {} BY <1>2 DEF Fresh
  <2> QED BY <2>1 DEF ChildrenTrue, Busy
<1> QED BY <1>3, <1>4

LEMMA ChildrenNext ==
  ASSUME ChildrenInv, NoRedelivery, [Next]_vars
  PROVE  ChildrenInv'
<1>1. TrackInv' BY TrackNext DEF ChildrenInv
<1>2. RowsKept BY NextRowsKept
<1>3. /\ \A q \in Parents : ChildrenTrue(q)'
      /\ \A q \in Parents : \A id \in ChildIds : ChildHeld(q, id)'
  <2>1. CASE \E p \in Parents : Coordinate(p)
    <3>1. PICK p \in Parents : Coordinate(p) BY <2>1
    <3>2. Thinks(p) \/ Dispatches(p) \/ RunsChild(p) \/ Ends(p)
      BY <3>1, Zenon DEF Coordinate, Thinks, Dispatches, RunsChild, Ends
    <3> QED BY <1>2, <3>2, CoordinatesChildren, RunsChildChildren
  <2>2. CASE \E w \in Slots, p \in Parents : Begin(w, p) BY <2>2, BeginChildren
  <2>3. CASE \E w \in Slots, p \in Parents, id \in ChildIds : Execute(w, p, id)
    BY <1>2, <2>3, ExecuteChildren
  <2>4. CASE Crash BY <2>4, CrashChildren
  <2>5. CASE UNCHANGED vars
    <3>1. UNCHANGED <<child, childJobs, slot, coord>> BY <2>5 DEF vars, rows, queue
    <3>2. \A q \in Parents : ChildrenTrue(q)' BY <3>1, UntouchedChildren DEF ChildrenInv
    <3>3. \A q \in Parents : \A id \in ChildIds : ChildHeld(q, id)'
      BY <3>1, ChildStill DEF ChildrenInv
    <3> QED BY <3>2, <3>3
  <2> QED BY <2>1, <2>2, <2>3, <2>4, <2>5 DEF Next, Work
<1> QED BY <1>1, <1>3 DEF ChildrenInv

LEMMA ChildrenAlways ==
  ASSUME NoRedelivery
  PROVE  Spec => []ChildrenInv
<1>1. NoRedelivery OBVIOUS
<1>2. Init => ChildrenInv BY ChildrenInit
<1>3. ChildrenInv /\ [Next]_vars => ChildrenInv' BY <1>1, ChildrenNext
<1> QED BY <1>2, <1>3, PTL DEF Spec

(* Dispatching a child twice, or to a second slot, cannot happen while the *)
(* process lives: a parent that retries finds nothing of its child queued. *)
THEOREM ChildExclusiveHolds ==
  ASSUME NoRedelivery
  PROVE  Spec => []ChildExclusive
<1>1. ChildrenInv => ChildExclusive
  <2> SUFFICES ASSUME ChildrenInv, NEW p \in Parents, NEW id \in ChildIds
               PROVE  childJobs[p][id] + Cardinality({w \in Slots : slot[w] = <<p, id>>}) <= 1
    BY DEF ChildExclusive
  <2> DEFINE holding == {w \in Slots : slot[w] = <<p, id>>}
  <2>1. ChildHeld(p, id) /\ childJobs[p][id] \in Nat BY DEF ChildrenInv, TrackInv, Typed
  <2>2. CASE holding = {}
    <3>1. Cardinality(holding) = 0 BY <2>2, FS_EmptySet
    <3>2. childJobs[p][id] <= 1 BY <2>1 DEF ChildHeld
    <3> QED BY <2>1, <3>1, <3>2
  <2>3. CASE holding # {}
    <3>1. PICK w \in Slots : slot[w] = <<p, id>> BY <2>3
    <3>2. childJobs[p][id] = 0 /\ holding = {w} BY <2>1, <3>1 DEF ChildHeld
    <3>3. Cardinality(holding) = 1 BY <3>2, FS_Singleton
    <3> QED BY <3>2, <3>3
  <2> QED BY <2>2, <2>3
<1> QED BY <1>1, ChildrenAlways, PTL

(* A retry of an orchestration never executes a completed child again.     *)
THEOREM CompletedChildrenReusedHolds ==
  ASSUME NoRedelivery
  PROVE  Spec => CompletedChildrenReused
<1>1. ChildrenInv /\ [Next]_vars =>
        [\A p \in Parents, id \in ChildIds :
           child[p][id].status = "succeeded" =>
             /\ child'[p][id].status = "succeeded"
             /\ child'[p][id].output = child[p][id].output]_vars
  BY NextRowsKept DEF RowsKept
<1> QED BY <1>1, ChildrenAlways, PTL DEF Spec, CompletedChildrenReused

(* dispatchSubtask builds its context from outputs that are all there.     *)
THEOREM DependenciesReadyHolds ==
  ASSUME NoRedelivery
  PROVE  Spec => []DependenciesReady
<1>1. ChildrenInv => DependenciesReady
  <2> SUFFICES ASSUME ChildrenInv, NEW p \in Parents, coord[p].kind = "subtask",
                      coord[p].pc \in {"enqueue", "execute", "work"},
                      NEW d \in Subtask(coord[p].plan, coord[p].id).deps
               PROVE  d \in coord[p].outputs /\ child[p][d].status = "succeeded"
    BY DEF DependenciesReady
  <2> DEFINE order == coord[p].order
             n == Done(p) + 1
  <2>1. Typed /\ OnTrack(p) /\ ChildrenTrue(p) BY DEF ChildrenInv, TrackInv
  <2>2. Asking(p, {"subtask"}) BY DEF Asking, Busy
  <2>3. /\ coord[p].plan \in Plans /\ order = Order[coord[p].plan] /\ order # Rejected
        /\ Done(p) < Len(order) /\ coord[p].id = order[n].id
        /\ \A j \in 1 .. Done(p) : order[j].id \in coord[p].outputs
    BY <2>1, <2>2 DEF OnTrack, Busy
  <2>4. Done(p) \in Nat
    <3>1. coord[p].contributions \in Seq(Credits) BY <2>1 DEF Typed, Locals
    <3> QED BY <3>1, LenProperties DEF Done
  <2>5. Len(order) \in Nat
        /\ \A i \in 1 .. Len(order) : Subtask(coord[p].plan, order[i].id) = order[i]
                                      /\ order[i].deps \subseteq {order[j].id : j \in 1 .. i - 1}
    BY <2>3, OrdersWell
  <2>6. n \in 1 .. Len(order) /\ 1 .. n - 1 = 1 .. Done(p) BY <2>3, <2>4, <2>5
  <2>7. Subtask(coord[p].plan, coord[p].id) = order[n] BY <2>3, <2>5, <2>6
  <2>8. d \in {order[j].id : j \in 1 .. n - 1} BY <2>5, <2>6, <2>7
  <2>9. d \in coord[p].outputs BY <2>3, <2>6, <2>8
  <2> QED BY <2>1, <2>9 DEF ChildrenTrue
<1> QED BY <1>1, ChildrenAlways, PTL

-----------------------------------------------------------------------------
(* What an orchestrated task reports: who is credited with what, how the   *)
(* debate came to its summary, and which phase a reader sees meanwhile.    *)
(* Each property is inductive only together with what the attempt that is  *)
(* under way knows of the rows it will read.                               *)

-----------------------------------------------------------------------------
(* Steps, as one task sees them *)

(* Nothing of the task changes but what its coordinator has heard.         *)
Quiet(p) ==
  /\ PlanKept(p) /\ WorkKept(p) /\ AskKept(p) /\ coord'[p].pc = coord[p].pc
  /\ parent'[p].status = parent[p].status /\ parent'[p].result = parent[p].result

(* An attempt begins, or is lost with its process.                         *)
Renewed(p) ==
  /\ coord'[p].pc \in {"none", "plan"} /\ coord'[p].contributions = << >>
  /\ coord[p].pc = "none" \/ MaxCrashes # 0
  /\ \/ parent'[p].status = parent[p].status
     \/ parent'[p].status = "running" /\ ~ IsTerminal(parent[p].status)
  /\ parent'[p].result = parent[p].result

LEMMA StepsOf ==
  ASSUME TrackInv, [Next]_vars, NEW p \in Parents
  PROVE  \/ Quiet(p) \/ Renewed(p) \/ Ends(p)
         \/ (Thinks(p) \/ Dispatches(p) \/ RunsChild(p)) /\ parent' = parent
<1>0. Typed /\ \A q \in Parents : ParentHeld(q) /\ OnTrack(q) BY DEF TrackInv
<1>1. ASSUME coord'[p] = coord[p], parent'[p].status = parent[p].status,
             parent'[p].result = parent[p].result
      PROVE  Quiet(p)
  BY <1>1 DEF Quiet, PlanKept, WorkKept, AskKept
<1>2. ASSUME NEW q \in Parents, Coordinate(q)
      PROVE  \/ Quiet(p) \/ Ends(p)
             \/ (Thinks(p) \/ Dispatches(p) \/ RunsChild(p)) /\ parent' = parent
  <2>1. Thinks(q) \/ Dispatches(q) \/ RunsChild(q) \/ Ends(q)
    BY <1>2, Zenon DEF Coordinate, Thinks, Dispatches, RunsChild, Ends
  <2>2. CASE Thinks(q)
    <3>1. parent' = parent
      BY <2>2, Zenon DEF Thinks, PlanTeam, PlanSingle, Sort, NobodyToAsk, SubscriptionConfirmed, Awaken,
         ReadSubtask, ReadReview, ReadRevision, ReadsFailure, AllSubtasksDone, rows
    <3>2. Others(q) BY <1>0, <2>2, PlanEffect, WaitEffect, ReadEffect DEF Thinks
    <3> QED BY <1>1, <2>2, <3>1, <3>2 DEF Others
  <2>3. CASE Dispatches(q)
    <3>1. parent' = parent /\ Others(q) BY <1>0, <2>3, DispatchesOnTrack
    <3> QED BY <1>1, <2>3, <3>1 DEF Others
  <2>4. CASE RunsChild(q)
    <3>1. parent' = parent /\ Others(q) BY <1>0, <2>4, RunsChildOnTrack
    <3> QED BY <1>1, <2>4, <3>1 DEF Others
  <2>5. CASE Ends(q)
    <3>1. Others(q) /\ \A r \in Parents : r # q => parent'[r] = parent[r] BY <1>0, <2>5, EndsEffect
    <3> QED BY <1>1, <2>5, <3>1 DEF Others
  <2> QED BY <2>1, <2>2, <2>3, <2>4, <2>5
<1>3. ASSUME NEW w \in Slots, NEW q \in Parents, Begin(w, q)
      PROVE  Quiet(p) \/ Renewed(p)
  <2>1. coord \in [Parents -> Locals] /\ parent \in [Parents -> ParentRow] BY <1>0 DEF Typed
  <2>2. CASE IsTerminal(parent[q].status)
    <3>1. parent' = [parent EXCEPT ![q].attempts = @ + 1] /\ coord' = coord
      BY <1>3, <2>2 DEF Begin
    <3>2. parent'[p].status = parent[p].status /\ parent'[p].result = parent[p].result
      BY <2>1, <3>1 DEF ParentRow
    <3> QED BY <1>1, <3>1, <3>2
  <2>3. CASE ~ IsTerminal(parent[q].status)
    <3> DEFINE n == parent[q].attempts + 1
    <3>1. /\ parent' = [parent EXCEPT ![q].attempts = n, ![q].status = "running"]
          /\ coord' = [coord EXCEPT ![q] = Fresh("plan")]
      BY <1>3, <2>3 DEF Begin
    <3> HIDE DEF n
    <3>2. CASE p = q
      <4>1. coord'[p].pc = "plan" /\ coord'[p].contributions = << >>
        BY <2>1, <3>1, <3>2 DEF Fresh
      <4>2. parent'[p].status = "running" /\ parent'[p].result = parent[p].result
        BY <2>1, <3>1, <3>2 DEF ParentRow
      <4>3. coord[p].pc = "none" BY <1>0, <1>3, <3>2 DEF Begin, ParentHeld
      <4> QED BY <2>3, <3>2, <4>1, <4>2, <4>3 DEF Renewed
    <3>3. CASE p # q
      <4>1. coord'[p] = coord[p] /\ parent'[p] = parent[p] BY <2>1, <3>1, <3>3
      <4> QED BY <1>1, <4>1
    <3> QED BY <3>2, <3>3
  <2> QED BY <2>2, <2>3
<1>4. ASSUME NEW w \in Slots, NEW q \in Parents, NEW id \in ChildIds, Execute(w, q, id)
      PROVE  Quiet(p)
  <2>1. parent' = parent /\ Others(q) /\ PlanKept(q) /\ WorkKept(q) /\ AskKept(q)
        /\ coord'[q].pc = coord[q].pc
    BY <1>0, <1>4, ExecuteEffect
  <2> QED BY <1>1, <2>1 DEF Quiet, Others
<1>5. CASE Crash
  <2>1. parent' = parent /\ coord' = [q \in Parents |-> Fresh("none")] BY <1>5 DEF Crash, rows
  <2>2. coord'[p].pc = "none" /\ coord'[p].contributions = << >> BY <2>1 DEF Fresh
  <2>3. MaxCrashes # 0 BY <1>0, <1>5 DEF Crash, Typed
  <2> QED BY <2>1, <2>2, <2>3 DEF Renewed
<1>6. CASE UNCHANGED vars BY <1>1, <1>6 DEF vars, rows
<1> QED BY <1>2, <1>3, <1>4, <1>5, <1>6 DEF Next, Work

(* A row is written first when its coordinator asks for it.                *)
LEMMA RowsBorn ==
  ASSUME ChildrenInv, [Next]_vars, NEW p \in Parents, NEW id \in ChildIds,
         child[p][id].status = "absent", child'[p][id].status # "absent"
  PROVE  \E kind \in {"subtask", "review", "revision"}, type \in AgentTypes : Asks(p, kind, id, type)
<1>0. /\ Typed /\ \A q \in Parents : OnTrack(q) /\ ChildrenTrue(q)
      /\ \A q \in Parents : \A j \in ChildIds : ChildHeld(q, j)
  BY DEF ChildrenInv, TrackInv
<1>1. child' # child OBVIOUS
<1>2. ASSUME NEW q \in Parents, Coordinate(q)
      PROVE  \E kind \in {"subtask", "review", "revision"}, type \in AgentTypes : Asks(p, kind, id, type)
  <2>1. Dispatches(q) \/ RunsChild(q)
    <3>1. Thinks(q) \/ Dispatches(q) \/ RunsChild(q) \/ Ends(q)
      BY <1>2, Zenon DEF Coordinate, Thinks, Dispatches, RunsChild, Ends
    <3>2. Thinks(q) => child' = child
      BY Zenon DEF Thinks, PlanTeam, PlanSingle, Sort, NobodyToAsk, SubscriptionConfirmed, Awaken,
         ReadSubtask, ReadReview, ReadRevision, ReadsFailure, AllSubtasksDone, rows
    <3>3. Ends(q) => child' = child BY Zenon DEF Ends, Aggregate, AttemptFails
    <3> QED BY <1>1, <3>1, <3>2, <3>3
  <2>2. CASE Dispatches(q)
    <3>1. PICK kind \in {"subtask", "review", "revision"}, j \in ChildIds, type \in AgentTypes :
            Asks(q, kind, j, type)
      BY <1>0, <2>2, DispatchesEffect
    <3>2. OtherRows(q, j) BY <1>0, <3>1, DispatchRow DEF Asks
    <3>3. q = p /\ j = id BY <3>2 DEF OtherRows
    <3> QED BY <3>1, <3>3
  <2>3. CASE RunsChild(q)
    <3>1. OtherRows(q, coord[q].id) /\ coord[q].id \in ChildIds
      BY <1>0, <2>3, RunsChildRow DEF Typed, Locals
    <3>2. child[q][coord[q].id].status # "absent"
      BY <1>0, <2>3 DEF ChildrenTrue, RunsChild, EnqueueChild, StartInline, FinishInline, Busy
    <3> QED BY <3>1, <3>2 DEF OtherRows
  <2> QED BY <2>1, <2>2, <2>3
<1>3. ASSUME NEW w \in Slots, NEW q \in Parents, NEW j \in ChildIds, Execute(w, q, j)
      PROVE  FALSE
  <2>1. OtherRows(q, j) BY <1>0, <1>3, ExecuteEffect
  <2>2. child[q][j].status # "absent" BY <1>0, <1>3, ExecuteRow
  <2> QED BY <2>1, <2>2 DEF OtherRows
<1>4. (\E w \in Slots, q \in Parents : Begin(w, q)) => child' = child BY DEF Begin
<1>5. Crash => child' = child BY DEF Crash, rows
<1>6. UNCHANGED vars => child' = child BY DEF vars, rows
<1> QED BY <1>1, <1>2, <1>3, <1>4, <1>5, <1>6 DEF Next, Work

-----------------------------------------------------------------------------
(* What each child was asked as *)

AskedTyped == asked \in [Parents -> [ChildIds ->
                SUBSET [kind : {"subtask", "review", "revision"}, type : AgentTypes]]]

(* An attempt waits for a child it has asked as what it takes it for.      *)
AskRemembered(p) ==
  coord[p].pc \in Busy => [kind |-> coord[p].kind, type |-> coord[p].type] \in asked[p][coord[p].id]
AskInv == TrackInv /\ AskedTyped /\ \A p \in Parents : AskRemembered(p)
NothingForgotten == \A p \in Parents, id \in ChildIds : asked[p][id] \subseteq asked'[p][id]

LEMMA AsksRecorded ==
  ASSUME AskedTyped, NEW p \in Parents, NEW kind, NEW id \in ChildIds, NEW type,
         Dispatch(p, kind, id, type)
  PROVE  [kind |-> kind, type |-> type] \in asked'[p][id] /\ NothingForgotten
<1> DEFINE a == [kind |-> kind, type |-> type]
<1>1. asked' = [asked EXCEPT ![p][id] = @ \cup {a}] BY DEF Dispatch
<1> HIDE DEF a
<1>2. \A q \in Parents, j \in ChildIds :
        asked'[q][j] = IF q = p /\ j = id THEN asked[q][j] \cup {a} ELSE asked[q][j]
  BY <1>1 DEF AskedTyped
<1>3. a \in asked'[p][id] BY <1>2
<1> QED BY <1>2, <1>3 DEF NothingForgotten, a

LEMMA AskedNext ==
  ASSUME TrackInv, AskedTyped, [Next]_vars
  PROVE  AskedTyped' /\ NothingForgotten
<1>0. Typed /\ \A p \in Parents : OnTrack(p) BY DEF TrackInv
<1>1. CASE asked' = asked BY <1>1 DEF AskedTyped, NothingForgotten
<1>2. ASSUME NEW p \in Parents, Coordinate(p) PROVE AskedTyped' /\ NothingForgotten
  <2>1. Thinks(p) \/ Dispatches(p) \/ RunsChild(p) \/ Ends(p)
    BY <1>2, Zenon DEF Coordinate, Thinks, Dispatches, RunsChild, Ends
  <2>2. Thinks(p) => asked' = asked
    BY Zenon DEF Thinks, PlanTeam, PlanSingle, Sort, NobodyToAsk, SubscriptionConfirmed, Awaken,
       ReadSubtask, ReadReview, ReadRevision, ReadsFailure, AllSubtasksDone, rows
  <2>3. Ends(p) => asked' = asked BY Zenon DEF Ends, Aggregate, AttemptFails, rows
  <2>4. RunsChild(p) => asked' = asked
    BY Zenon DEF RunsChild, EnqueueChild, StartInline, FinishInline, rows
  <2>5. CASE Dispatches(p)
    <3>1. PICK kind \in {"subtask", "review", "revision"}, id \in ChildIds, type \in AgentTypes :
            Dispatch(p, kind, id, type)
      BY <1>0, <2>5, DispatchesEffect DEF Asks
    <3> DEFINE a == [kind |-> kind, type |-> type]
    <3>2. a \in [kind : {"subtask", "review", "revision"}, type : AgentTypes] OBVIOUS
    <3>3. asked' = [asked EXCEPT ![p][id] = @ \cup {a}] BY <3>1 DEF Dispatch
    <3> HIDE DEF a
    <3>4. AskedTyped' BY <3>2, <3>3 DEF AskedTyped
    <3> QED BY <3>1, <3>4, AsksRecorded
  <2> QED BY <1>1, <2>1, <2>2, <2>3, <2>4, <2>5
<1>3. (\E w \in Slots, p \in Parents : Begin(w, p)) => asked' = asked BY DEF Begin
<1>4. (\E w \in Slots, p \in Parents, id \in ChildIds : Execute(w, p, id)) => asked' = asked
  BY DEF Execute, TakeChild, ChildSucceeds, ChildRetries, ChildIsDeadLettered
<1>5. Crash => asked' = asked BY DEF Crash, rows
<1>6. UNCHANGED vars => asked' = asked BY DEF vars, rows
<1> QED BY <1>1, <1>2, <1>3, <1>4, <1>5, <1>6 DEF Next, Work

LEMMA AskInit ==
  ASSUME Init
  PROVE  AskInv
<1>1. \A p \in Parents : coord[p].pc = "none" BY DEF Init, Fresh
<1>2. \A p \in Parents : AskRemembered(p) BY <1>1 DEF AskRemembered, Busy
<1>3. AskedTyped BY DEF Init, AskedTyped
<1> QED BY <1>2, <1>3, TrackInit DEF AskInv

LEMMA AskNext ==
  ASSUME AskInv, [Next]_vars
  PROVE  AskInv' /\ NothingForgotten
<1>1. TrackInv /\ TrackInv' /\ AskedTyped /\ AskedTyped' /\ NothingForgotten
  BY TrackNext, AskedNext DEF AskInv
<1>2. ASSUME NEW p \in Parents PROVE AskRemembered(p)'
  <2>0. Typed /\ OnTrack(p) /\ ParentHeld(p) /\ AskRemembered(p) /\ coord[p].id \in ChildIds
    BY DEF AskInv, TrackInv, Typed, Locals
  <2>1. ASSUME AskKept(p), coord'[p].pc \in Busy => coord[p].pc \in Busy PROVE AskRemembered(p)'
    <3>1. PICK id \in ChildIds : id = coord[p].id BY <2>0
    <3>2. PICK a : a = [kind |-> coord[p].kind, type |-> coord[p].type] OBVIOUS
    <3>3. asked[p][id] \subseteq asked'[p][id] BY <1>1 DEF NothingForgotten
    <3>4. coord'[p].pc \in Busy => a \in asked'[p][id]
      BY <2>0, <2>1, <3>1, <3>2, <3>3 DEF AskRemembered
    <3>5. a = [kind |-> coord'[p].kind, type |-> coord'[p].type] /\ id = coord'[p].id
      BY <2>1, <3>1, <3>2 DEF AskKept
    <3> QED BY <3>4, <3>5 DEF AskRemembered
  <2>2. ASSUME coord'[p].pc \notin Busy PROVE AskRemembered(p)' BY <2>2 DEF AskRemembered
  <2>3. CASE Quiet(p) BY <2>1, <2>3 DEF Quiet
  <2>4. CASE Renewed(p) BY <2>2, <2>4 DEF Renewed, Busy
  <2>5. CASE Ends(p)
    <3>1. coord'[p] = Fresh("none") BY <2>0, <2>5, EndsEffect
    <3> QED BY <2>2, <3>1 DEF Fresh, Busy
  <2>6. CASE Thinks(p)
    <3>1. CASE SubscriptionConfirmed(p) \/ Awaken(p)
      <4>1. AskKept(p) /\ (coord'[p].pc = coord[p].pc \/ coord[p].pc = "await")
        BY <2>0, <3>1, WaitEffect
      <4> QED BY <2>1, <4>1 DEF Busy
    <3>2. CASE PlanTeam(p) \/ PlanSingle(p) \/ Sort(p) \/ NobodyToAsk(p)
      <4>1. coord'[p].pc \notin Busy BY <2>0, <3>2, PlanEffect DEF Busy
      <4> QED BY <2>2, <4>1
    <3>3. CASE ReadSubtask(p) \/ ReadReview(p) \/ ReadRevision(p) \/ AllSubtasksDone(p)
      <4>1. coord'[p].pc \notin Busy BY <2>0, <3>3, ReadEffect DEF Busy
      <4> QED BY <2>2, <4>1
    <3>4. CASE ReadsFailure(p)
      <4>1. coord'[p].pc \notin Busy BY <2>0, <3>4, WaitEffect DEF AfterFailure, Busy
      <4> QED BY <2>2, <4>1
    <3> QED BY <2>6, <3>1, <3>2, <3>3, <3>4 DEF Thinks
  <2>7. CASE Dispatches(p)
    <3>1. PICK kind \in {"subtask", "review", "revision"}, id \in ChildIds, type \in AgentTypes :
            Dispatch(p, kind, id, type)
      BY <2>0, <2>7, DispatchesEffect DEF Asks
    <3>2. coord'[p].kind = kind /\ coord'[p].id = id /\ coord'[p].type = type
      BY <2>0, <3>1, DispatchEffect
    <3>3. [kind |-> kind, type |-> type] \in asked'[p][id] BY <1>1, <3>1, AsksRecorded
    <3> QED BY <3>2, <3>3 DEF AskRemembered
  <2>8. CASE RunsChild(p)
    <3>1. AskKept(p) /\ coord[p].pc \in Busy BY <2>0, <2>8, WaitEffect DEF RunsChild, Busy
    <3> QED BY <2>1, <3>1
  <2> QED BY <1>1, <2>3, <2>4, <2>5, <2>6, <2>7, <2>8, StepsOf
<1> QED BY <1>1, <1>2 DEF AskInv

(* A task with a misnamed subtask stays one.                               *)
LEMMA StaysMisnamed ==
  ASSUME NothingForgotten, NEW p \in Parents, Misnamed(p)
  PROVE  Misnamed(p)'
<1>1. PICK id \in ChildIds : RoundId(id) /\ \E a \in asked[p][id] : a.kind = "subtask"
  BY DEF Misnamed
<1>2. \E a \in asked'[p][id] : a.kind = "subtask" BY <1>1 DEF NothingForgotten
<1> QED BY <1>1, <1>2 DEF Misnamed

-----------------------------------------------------------------------------
(* Rounds have names of their own *)

LEMMA RoundNames ==
  /\ DOMAIN ReviewIds = 1 .. 5 /\ DOMAIN RevisionIds = 1 .. 5
  /\ \A j, k \in 1 .. 5 :
       /\ ReviewIds[j] # RevisionIds[k]
       /\ ReviewIds[j] = ReviewIds[k] => j = k
       /\ RevisionIds[j] = RevisionIds[k] => j = k
<1>1. DOMAIN ReviewIds = 1 .. 5 /\ DOMAIN RevisionIds = 1 .. 5 BY DEF ReviewIds, RevisionIds
<1>2. /\ ReviewIds[1] = "review" /\ ReviewIds[2] = "review2" /\ ReviewIds[3] = "review3"
      /\ ReviewIds[4] = "review4" /\ ReviewIds[5] = "review5"
      /\ RevisionIds[1] = "rev1" /\ RevisionIds[2] = "rev2" /\ RevisionIds[3] = "rev3"
      /\ RevisionIds[4] = "rev4" /\ RevisionIds[5] = "rev5"
  BY DEF ReviewIds, RevisionIds
<1>3. \A k \in 1 .. 5 : k = 1 \/ k = 2 \/ k = 3 \/ k = 4 \/ k = 5 OBVIOUS
<1>4. \A j, k \in 1 .. 5 : ReviewIds[j] # RevisionIds[k] BY <1>2, <1>3
<1>5. \A j, k \in 1 .. 5 : ReviewIds[j] = ReviewIds[k] => j = k BY <1>2, <1>3
<1>6. \A j, k \in 1 .. 5 : RevisionIds[j] = RevisionIds[k] => j = k BY <1>2, <1>3
<1> QED BY <1>1, <1>4, <1>5, <1>6

LEMMA RoundsNamed ==
  ASSUME NEW k \in 1 .. DebateRounds
  PROVE  /\ k \in 1 .. 5 /\ IsReviewId(ReviewIds[k]) /\ IsRevisionId(RevisionIds[k])
         /\ ~ IsReviewId(RevisionIds[k])
<1>1. k \in 1 .. 5 BY OrchestrationAssumption
<1> QED BY <1>1, RoundNames DEF IsReviewId, IsRevisionId

(* What an attempt has contributed was done, and once its subtasks are it  *)
(* has a summary, the last of them; what a task reports is the same.       *)
Debating(p) == coord[p].pc \in {"review", "revise", "aggregate"} \/ Asking(p, {"review", "revision"})
DoneIn(p, contributions) ==
  \A i \in DOMAIN contributions : child[p][contributions[i].id].status = "succeeded"
Concludes(summary, contributions) ==
  contributions # << >> /\ summary = contributions[Len(contributions)].output

Contributed(p) ==
  /\ DoneIn(p, coord[p].contributions)
  /\ Debating(p) => Concludes(coord[p].summary, coord[p].contributions)
Reported(p) ==
  LET r == parent[p].result IN
  /\ DoneIn(p, r.contributions)
  /\ parent[p].status = "succeeded" => Concludes(r.summary, r.contributions)

AskedFor(p, k) == child[p][ReviewIds[k]].status = "succeeded" /\ child[p][ReviewIds[k]].output.rework
Revised(p, k) == child[p][RevisionIds[k]].status = "succeeded"

(* Each round stands on the one before, in the rows and in the attempt.    *)
Alternates(p) == \A k \in 1 .. DebateRounds :
  /\ child[p][RevisionIds[k]].status # "absent" => AskedFor(p, k)
  /\ k > 1 /\ child[p][ReviewIds[k]].status # "absent" => Revised(p, k - 1)
InOrder(p) ==
  /\ coord[p].pc = "revise" => AskedFor(p, coord[p].round)
  /\ coord[p].pc = "review" /\ coord[p].round > 1 => Revised(p, coord[p].round - 1)

DebateInv ==
  /\ ChildrenInv /\ AskInv
  /\ \A p \in Parents : Contributed(p) /\ Reported(p) /\ InOrder(p)
  /\ \A p \in Parents : ~ Misnamed(p) => Alternates(p)

(* A subtask that is asked for or waited for by the name of a round.       *)
LEMMA RoundNotSubtask ==
  ASSUME NEW p \in Parents, NEW id \in ChildIds, RoundId(id), ~ Misnamed(p),
         AskRemembered(p), coord[p].pc \in Busy, coord[p].id = id
  PROVE  coord[p].kind # "subtask"
<1> SUFFICES ASSUME coord[p].kind = "subtask" PROVE FALSE
  OBVIOUS
<1> DEFINE a == [kind |-> "subtask", type |-> coord[p].type]
<1>1. a \in asked[p][id] /\ a.kind = "subtask" BY DEF AskRemembered
<1> HIDE DEF a
<1> QED BY <1>1 DEF Misnamed

(* Which step writes the row of which round.                               *)
LEMMA AsksRound ==
  ASSUME TrackInv, AskedTyped, NEW p \in Parents, NEW kind, NEW id \in ChildIds, NEW type,
         Asks(p, kind, id, type), ~ Misnamed(p)'
  PROVE  /\ kind = "subtask" => ~ RoundId(id)
         /\ \A k \in 1 .. DebateRounds :
              /\ id = ReviewIds[k] =>
                   kind = "review" /\ coord[p].pc = "review" /\ coord[p].round = k
              /\ id = RevisionIds[k] =>
                   kind = "revision" /\ coord[p].pc = "revise" /\ coord[p].round = k
<1>1. kind = "subtask" => ~ RoundId(id)
  <2> DEFINE a == [kind |-> kind, type |-> type]
  <2>1. a \in asked'[p][id] /\ a.kind = kind BY AsksRecorded DEF Asks
  <2> HIDE DEF a
  <2> QED BY <2>1 DEF Misnamed
<1>2. ASSUME NEW k \in 1 .. DebateRounds
      PROVE  /\ id = ReviewIds[k] =>
                  kind = "review" /\ coord[p].pc = "review" /\ coord[p].round = k
             /\ id = RevisionIds[k] =>
                  kind = "revision" /\ coord[p].pc = "revise" /\ coord[p].round = k
  <2>1. k \in 1 .. 5 /\ IsReviewId(ReviewIds[k]) /\ IsRevisionId(RevisionIds[k]) BY RoundsNamed
  <2>2. CASE kind = "subtask" BY <1>1, <2>1, <2>2 DEF RoundId
  <2>3. CASE kind = "review"
    <3>1. coord[p].round \in 1 .. 5 /\ id = ReviewIds[coord[p].round] /\ coord[p].pc = "review"
      BY <2>3, RoundsNamed DEF Asks
    <3> QED BY <2>1, <2>3, <3>1, RoundNames
  <2>4. CASE kind = "revision"
    <3>1. coord[p].round \in 1 .. 5 /\ id = RevisionIds[coord[p].round] /\ coord[p].pc = "revise"
      BY <2>4, RoundsNamed DEF Asks
    <3> QED BY <2>1, <2>4, <3>1, RoundNames
  <2> QED BY <2>2, <2>3, <2>4 DEF Asks
<1> QED BY <1>1, <1>2

LEMMA AlternatesNext ==
  ASSUME DebateInv, [Next]_vars, NEW p \in Parents, ~ Misnamed(p)'
  PROVE  Alternates(p)'
<1>0. /\ ChildrenInv /\ TrackInv /\ AskedTyped /\ Alternates(p) /\ InOrder(p) /\ RowsKept
  <2>1. AskInv /\ ~ Misnamed(p) BY AskNext, StaysMisnamed DEF DebateInv
  <2> QED BY <2>1, NextRowsKept DEF DebateInv, ChildrenInv, AskInv
<1>1. \A k \in 1 .. DebateRounds : ReviewIds[k] \in ChildIds /\ RevisionIds[k] \in ChildIds
  BY DebateIds
<1>2. \A k \in 1 .. DebateRounds :
        (AskedFor(p, k) => AskedFor(p, k)') /\ (Revised(p, k) => Revised(p, k)')
  BY <1>0, <1>1 DEF RowsKept, AskedFor, Revised
<1>3. ASSUME NEW k \in 1 .. DebateRounds, child'[p][RevisionIds[k]].status # "absent"
      PROVE  AskedFor(p, k)'
  <2>1. CASE child[p][RevisionIds[k]].status # "absent"
    BY <1>0, <1>2, <2>1 DEF Alternates
  <2>2. CASE child[p][RevisionIds[k]].status = "absent"
    <3>1. PICK kind, type : Asks(p, kind, RevisionIds[k], type)
      BY <1>0, <1>1, <1>3, <2>2, RowsBorn
    <3>2. coord[p].pc = "revise" /\ coord[p].round = k BY <1>0, <1>1, <3>1, AsksRound
    <3> QED BY <1>0, <1>2, <3>2 DEF InOrder
  <2> QED BY <2>1, <2>2
<1>4. ASSUME NEW k \in 1 .. DebateRounds, k > 1, child'[p][ReviewIds[k]].status # "absent"
      PROVE  Revised(p, k - 1)'
  <2>0. k - 1 \in 1 .. DebateRounds BY <1>4, OrchestrationAssumption
  <2>1. CASE child[p][ReviewIds[k]].status # "absent"
    BY <1>0, <1>2, <1>4, <2>0, <2>1 DEF Alternates
  <2>2. CASE child[p][ReviewIds[k]].status = "absent"
    <3>1. PICK kind, type : Asks(p, kind, ReviewIds[k], type)
      BY <1>0, <1>1, <1>4, <2>2, RowsBorn
    <3>2. coord[p].pc = "review" /\ coord[p].round = k BY <1>0, <1>1, <3>1, AsksRound
    <3> QED BY <1>0, <1>2, <1>4, <2>0, <3>2 DEF InOrder
  <2> QED BY <2>1, <2>2
<1> QED BY <1>3, <1>4 DEF Alternates

LEMMA InOrderNext ==
  ASSUME DebateInv, [Next]_vars, NEW p \in Parents
  PROVE  InOrder(p)'
<1>0. /\ ChildrenInv /\ TrackInv /\ Typed /\ OnTrack(p) /\ OnTrack(p)' /\ InOrder(p) /\ RowsKept
  BY NextRowsKept, TrackNext DEF DebateInv, ChildrenInv, TrackInv
<1>1. \A k \in 1 .. DebateRounds : ReviewIds[k] \in ChildIds /\ RevisionIds[k] \in ChildIds
  BY DebateIds
<1>2. \A k \in 1 .. DebateRounds :
        (AskedFor(p, k) => AskedFor(p, k)') /\ (Revised(p, k) => Revised(p, k)')
  BY <1>0, <1>1 DEF RowsKept, AskedFor, Revised
<1>3. ASSUME coord'[p].pc = coord[p].pc, coord'[p].round = coord[p].round
      PROVE  InOrder(p)'
  <2>1. coord[p].pc \in {"review", "revise"} => coord[p].round \in 1 .. DebateRounds
    BY <1>0 DEF OnTrack
  <2>2. PICK k : k = coord[p].round OBVIOUS
  <2>3. coord[p].pc = "revise" => AskedFor(p, k)' BY <1>0, <1>2, <2>1, <2>2 DEF InOrder
  <2>4. coord[p].pc = "review" /\ k > 1 => Revised(p, k - 1)'
    <3>1. coord[p].pc = "review" /\ k > 1 => k - 1 \in 1 .. DebateRounds
      BY <2>1, <2>2, OrchestrationAssumption
    <3> QED BY <1>0, <1>2, <2>2, <3>1 DEF InOrder
  <2>5. coord'[p].round = k BY <1>3, <2>2
  <2>6. coord'[p].pc = "revise" => AskedFor(p, coord[p].round)' BY <1>3, <2>3, <2>5 DEF AskedFor
  <2>7. coord'[p].pc = "review" /\ coord'[p].round > 1 => Revised(p, coord[p].round - 1)'
    BY <1>3, <2>4, <2>5 DEF Revised
  <2> QED BY <2>6, <2>7 DEF InOrder
<1>4. CASE Quiet(p) BY <1>3, <1>4 DEF Quiet, WorkKept
<1>5. CASE Renewed(p) BY <1>5 DEF Renewed, InOrder
<1>6. CASE Ends(p)
  <2>1. coord'[p].pc = "none"
    <3>1. ParentHeld(p) BY <1>0 DEF TrackInv
    <3>2. coord'[p] = Fresh("none") BY <1>0, <1>6, <3>1, EndsEffect
    <3> QED BY <3>2 DEF Fresh
  <2> QED BY <2>1 DEF InOrder
<1>7. CASE Dispatches(p) \/ RunsChild(p)
  <2>1. coord'[p].pc \notin {"review", "revise"}
    <3>1. CASE Dispatches(p)
      <4>1. PICK kind \in {"subtask", "review", "revision"}, id \in ChildIds, type \in AgentTypes :
              Asks(p, kind, id, type)
        BY <1>0, <3>1, DispatchesEffect
      <4>2. coord'[p].pc = IF Async THEN "enqueue" ELSE "execute"
        BY <1>0, <4>1, DispatchEffect DEF Asks
      <4> QED BY <4>2
    <3>2. CASE RunsChild(p) BY <1>0, <3>2, WaitEffect DEF RunsChild, AfterFailure
    <3> QED BY <1>7, <3>1, <3>2
  <2> QED BY <2>1 DEF InOrder
<1>8. CASE Thinks(p)
  <2>1. CASE SubscriptionConfirmed(p) BY <1>0, <1>3, <2>1, WaitEffect DEF WorkKept
  <2>2. CASE ReadReview(p)
    <3>1. /\ WorkKept(p) /\ ReadsSuccess(p, "review")
          /\ coord'[p].pc = IF Contribution(p).output.rework THEN "revise" ELSE "aggregate"
      BY <1>0, <2>2, ReadEffect
    <3>2. Asking(p, {"review"}) BY <3>1 DEF ReadsSuccess, Asking, Busy
    <3>3. coord[p].id = ReviewIds[coord[p].round] /\ coord[p].round \in 1 .. DebateRounds
      BY <1>0, <3>2 DEF OnTrack, Asking
    <3>4. Contribution(p).output = child[p][coord[p].id].output BY <1>0, ContributionTyped
    <3>5. coord'[p].pc = "revise" => AskedFor(p, coord[p].round)
      BY <3>1, <3>3, <3>4 DEF AskedFor, ReadsSuccess
    <3>6. coord'[p].pc # "review" BY <3>1
    <3> QED BY <1>2, <3>1, <3>3, <3>5, <3>6 DEF InOrder, WorkKept
  <2>3. CASE ReadRevision(p)
    <3>1. /\ ReadsSuccess(p, "revision") /\ coord'[p].round = coord[p].round + 1
          /\ coord'[p].pc \in {"review", "aggregate"}
      BY <1>0, <2>3, ReadEffect
    <3>2. Asking(p, {"revision"}) BY <3>1 DEF ReadsSuccess, Asking, Busy
    <3>3. coord[p].id = RevisionIds[coord[p].round] /\ coord[p].round \in 1 .. DebateRounds
      BY <1>0, <3>2 DEF OnTrack, Asking
    <3>4. PICK k \in 1 .. DebateRounds : k = coord[p].round BY <3>3
    <3>5. child'[p][RevisionIds[k]].status = "succeeded"
      BY <1>2, <3>1, <3>3, <3>4 DEF Revised, ReadsSuccess
    <3>6. coord'[p].pc # "revise" /\ coord'[p].round - 1 = k
      BY <3>1, <3>4, OrchestrationAssumption
    <3> QED BY <3>5, <3>6 DEF InOrder, Revised
  <2>4. CASE AllSubtasksDone(p)
    <3>1. coord[p].pc = "next" /\ coord'[p].pc # "revise" /\ coord'[p].round = coord[p].round
      BY <1>0, <2>4, ReadEffect
    <3>2. coord[p].round = 1 BY <1>0, <3>1 DEF OnTrack
    <3> QED BY <3>1, <3>2 DEF InOrder
  <2>5. CASE \/ PlanTeam(p) \/ PlanSingle(p) \/ Sort(p) \/ NobodyToAsk(p) \/ Awaken(p)
             \/ ReadSubtask(p) \/ ReadsFailure(p)
    <3>1. coord'[p].pc \notin {"review", "revise"}
      BY <1>0, <2>5, PlanEffect, WaitEffect, ReadEffect DEF AfterFailure
    <3> QED BY <3>1 DEF InOrder
  <2> QED BY <1>8, <2>1, <2>2, <2>3, <2>4, <2>5 DEF Thinks
<1> QED BY <1>0, <1>4, <1>5, <1>6, <1>7, <1>8, StepsOf

-----------------------------------------------------------------------------
(* What is reported *)

LEMMA StillDone ==
  ASSUME Typed, RowsKept, NEW p \in Parents, NEW done \in Seq(Credits), DoneIn(p, done)
  PROVE  \A i \in DOMAIN done : child'[p][done[i].id].status = "succeeded"
<1>1. \A i \in DOMAIN done : done[i] \in Credits OBVIOUS
<1>2. \A c \in Credits : c.id \in ChildIds BY DEF Credits
<1> QED BY <1>1, <1>2 DEF DoneIn, RowsKept

LEMMA ContributedNext ==
  ASSUME DebateInv, [Next]_vars, NEW p \in Parents
  PROVE  Contributed(p)'
<1>0. /\ ChildrenInv /\ TrackInv /\ Typed /\ OnTrack(p) /\ Contributed(p) /\ RowsKept
      /\ coord[p].contributions \in Seq(Credits)
  BY NextRowsKept DEF DebateInv, ChildrenInv, TrackInv, Typed, Locals
<1>1. ASSUME coord'[p].contributions = coord[p].contributions, coord'[p].summary = coord[p].summary,
             Debating(p)' => Debating(p)
      PROVE  Contributed(p)'
  <2>1. DoneIn(p, coord[p].contributions) BY <1>0 DEF Contributed
  <2>2. PICK done \in Seq(Credits) : done = coord[p].contributions BY <1>0
  <2>3. \A i \in DOMAIN done : child'[p][done[i].id].status = "succeeded"
    BY <1>0, <2>1, <2>2, StillDone
  <2>4. coord'[p].contributions = done BY <1>1, <2>2
  <2> QED BY <1>0, <1>1, <2>3, <2>4 DEF Contributed, DoneIn
<1>2. ASSUME ReadsSuccess(p, coord[p].kind),
             coord'[p].contributions = Append(coord[p].contributions, Contribution(p)),
             Debating(p)' => coord'[p].summary = Contribution(p).output
      PROVE  Contributed(p)'
  <2>1. DoneIn(p, coord[p].contributions) BY <1>0 DEF Contributed
  <2>2. PICK done \in Seq(Credits) : done = coord[p].contributions BY <1>0
  <2>3. \A i \in DOMAIN done : child'[p][done[i].id].status = "succeeded"
    BY <1>0, <2>1, <2>2, StillDone
  <2>4. PICK c \in Credits : c = Contribution(p) /\ c.id = coord[p].id BY <1>0, ContributionTyped
  <2>5. child'[p][c.id].status = "succeeded"
    BY <1>0, <1>2, <2>4 DEF RowsKept, ReadsSuccess, Credits
  <2>6. PICK longer : longer = Append(done, c) OBVIOUS
  <2>7. /\ Len(longer) = Len(done) + 1 /\ longer[Len(longer)] = c /\ longer # << >>
        /\ DOMAIN longer = 1 .. Len(done) + 1 /\ DOMAIN done = 1 .. Len(done)
        /\ \A i \in 1 .. Len(done) : longer[i] = done[i]
    BY <2>6
  <2>8. \A i \in DOMAIN longer : child'[p][longer[i].id].status = "succeeded"
    <3> SUFFICES ASSUME NEW i \in DOMAIN longer PROVE child'[p][longer[i].id].status = "succeeded"
      OBVIOUS
    <3>1. i \in DOMAIN done \/ i = Len(longer) BY <2>7
    <3>2. i \in DOMAIN done => longer[i] = done[i] BY <2>7
    <3> QED BY <2>3, <2>5, <2>7, <3>1, <3>2
  <2>9. coord'[p].contributions = longer BY <1>2, <2>2, <2>4, <2>6
  <2>10. Debating(p)' => coord'[p].summary = c.output BY <1>2, <2>4
  <2> QED BY <2>7, <2>8, <2>9, <2>10 DEF Contributed, DoneIn, Concludes
<1>3. CASE Quiet(p) BY <1>1, <1>3 DEF Quiet, WorkKept, AskKept, Debating, Asking
<1>4. CASE coord'[p].pc \in {"none", "plan"} /\ coord'[p].contributions = << >>
  BY <1>4 DEF Contributed, DoneIn, Debating, Asking, Busy
<1>5. CASE Ends(p)
  <2>1. ParentHeld(p) BY <1>0 DEF TrackInv
  <2>2. coord'[p] = Fresh("none") BY <1>0, <1>5, <2>1, EndsEffect
  <2> QED BY <1>4, <2>2 DEF Fresh
<1>6. CASE Dispatches(p)
  <2>1. PICK kind \in {"subtask", "review", "revision"}, id \in ChildIds, type \in AgentTypes :
          Asks(p, kind, id, type)
    BY <1>0, <1>6, DispatchesEffect
  <2>2. /\ WorkKept(p) /\ coord'[p].kind = kind
        /\ coord'[p].pc = IF Async THEN "enqueue" ELSE "execute"
    BY <1>0, <2>1, DispatchEffect DEF Asks
  <2>3. kind # "subtask" => Debating(p) BY <2>1 DEF Asks, Debating
  <2>4. Debating(p)' => kind # "subtask" BY <2>2 DEF Debating, Asking
  <2> QED BY <1>1, <2>2, <2>3, <2>4 DEF WorkKept
<1>7. CASE RunsChild(p)
  <2>1. /\ WorkKept(p) /\ AskKept(p) /\ coord[p].pc \in Busy
        /\ coord'[p].pc \in Busy \cup {AfterFailure(p)}
    BY <1>0, <1>7, WaitEffect DEF RunsChild, Busy
  <2>2. coord[p].kind \in {"subtask", "review", "revision"} BY <1>0 DEF Typed, Locals
  <2>3. Debating(p)' => Debating(p)
    BY <2>1, <2>2 DEF AskKept, Debating, Asking, AfterFailure, Busy
  <2> QED BY <1>1, <2>1, <2>3 DEF WorkKept
<1>8. CASE Thinks(p)
  <2>1. CASE PlanTeam(p) \/ PlanSingle(p) \/ Sort(p) \/ NobodyToAsk(p)
    <3>1. WorkKept(p) /\ coord'[p].pc \in {"sort", "throw", "next"} BY <1>0, <2>1, PlanEffect
    <3> QED BY <1>1, <3>1 DEF WorkKept, Debating, Asking, Busy
  <2>2. CASE SubscriptionConfirmed(p) \/ Awaken(p) \/ ReadsFailure(p)
    <3>1. /\ WorkKept(p) /\ AskKept(p)
          /\ \/ coord'[p].pc = coord[p].pc
             \/ coord[p].pc \in {"await", "read"} /\ coord'[p].pc \in {"read", AfterFailure(p)}
      BY <1>0, <2>2, WaitEffect
    <3>2. coord[p].kind \in {"subtask", "review", "revision"} BY <1>0 DEF Typed, Locals
    <3>3. Debating(p)' => Debating(p)
      BY <3>1, <3>2 DEF AskKept, Debating, Asking, AfterFailure, Busy
    <3> QED BY <1>1, <3>1, <3>3 DEF WorkKept
  <2>3. CASE ReadSubtask(p)
    <3>1. /\ ReadsSuccess(p, "subtask") /\ coord'[p].pc = "next"
          /\ coord'[p].contributions = Append(coord[p].contributions, Contribution(p))
      BY <1>0, <2>3, ReadEffect
    <3> QED BY <1>2, <3>1 DEF ReadsSuccess, Debating, Asking, Busy
  <2>4. CASE ReadReview(p)
    <3>1. WorkKept(p) /\ ReadsSuccess(p, "review") BY <1>0, <2>4, ReadEffect
    <3> QED BY <1>1, <3>1 DEF WorkKept, ReadsSuccess, Debating, Asking, Busy
  <2>5. CASE ReadRevision(p)
    <3>1. /\ ReadsSuccess(p, "revision") /\ coord'[p].summary = Contribution(p).output
          /\ coord'[p].contributions = Append(coord[p].contributions, Contribution(p))
      BY <1>0, <2>5, ReadEffect
    <3> QED BY <1>2, <3>1 DEF ReadsSuccess
  <2>6. CASE AllSubtasksDone(p)
    <3>1. /\ coord[p].pc = "next" /\ Len(coord[p].contributions) = Len(coord[p].order)
          /\ coord'[p].contributions = coord[p].contributions
          /\ coord'[p].summary = coord[p].contributions[Len(coord[p].contributions)].output
      BY <1>0, <2>6, ReadEffect DEF Done
    <3>2. coord[p].plan \in Plans /\ coord[p].order = Order[coord[p].plan] /\ coord[p].order # Rejected
      BY <1>0, <3>1 DEF OnTrack
    <3>3. Len(coord[p].contributions) # 0 BY <3>1, <3>2, OrdersWell
    <3>4. PICK done \in Seq(Credits) : done = coord[p].contributions BY <1>0
    <3>5. done # << >> BY <3>3, <3>4
    <3>6. \A i \in DOMAIN done : child'[p][done[i].id].status = "succeeded"
      BY <1>0, <3>4, StillDone DEF Contributed
    <3>7. coord'[p].contributions = done /\ coord'[p].summary = done[Len(done)].output
      BY <3>1, <3>4
    <3> QED BY <3>5, <3>6, <3>7 DEF Contributed, DoneIn, Concludes
  <2> QED BY <1>8, <2>1, <2>2, <2>3, <2>4, <2>5, <2>6 DEF Thinks
<1> QED BY <1>0, <1>3, <1>4, <1>5, <1>6, <1>7, <1>8, StepsOf DEF Renewed

LEMMA ReportedNext ==
  ASSUME DebateInv, [Next]_vars, NEW p \in Parents
  PROVE  Reported(p)'
<1>0. /\ ChildrenInv /\ TrackInv /\ Typed /\ Contributed(p) /\ Reported(p) /\ RowsKept
      /\ coord[p].contributions \in Seq(Credits) /\ parent[p].result.contributions \in Seq(Credits)
      /\ parent \in [Parents -> ParentRow]
  BY NextRowsKept DEF DebateInv, ChildrenInv, TrackInv, Typed, Locals, ParentRow
<1>1. ASSUME parent'[p].result = parent[p].result,
             parent'[p].status = "succeeded" => parent[p].status = "succeeded"
      PROVE  Reported(p)'
  <2>1. DoneIn(p, parent[p].result.contributions) BY <1>0 DEF Reported
  <2>2. PICK r : r = parent[p].result OBVIOUS
  <2>3. \A i \in DOMAIN r.contributions : child'[p][r.contributions[i].id].status = "succeeded"
    BY <1>0, <2>1, <2>2, StillDone
  <2>4. parent'[p].result = r BY <1>1, <2>2
  <2> QED BY <1>0, <1>1, <2>2, <2>3, <2>4 DEF Reported, DoneIn
<1>2. CASE Quiet(p) BY <1>1, <1>2 DEF Quiet
<1>3. CASE Renewed(p) BY <1>1, <1>3 DEF Renewed
<1>4. CASE parent' = parent BY <1>1, <1>4
<1>5. CASE AttemptFails(p)
  <2>1. PICK status \in {"running", "failed"} : parent' = [parent EXCEPT ![p].status = status]
    BY <1>5 DEF AttemptFails
  <2>2. parent'[p].status = status /\ parent'[p].result = parent[p].result
    BY <1>0, <2>1 DEF ParentRow
  <2> QED BY <1>1, <2>1, <2>2
<1>6. CASE Aggregate(p)
  <2>1. PICK summary, done : summary = coord[p].summary /\ done = coord[p].contributions OBVIOUS
  <2>2. /\ coord[p].pc = "aggregate"
        /\ parent' = [parent EXCEPT ![p].status = "succeeded",
                        ![p].result = [summary |-> summary, contributions |-> done]]
    BY <1>6, <2>1 DEF Aggregate
  <2>3. parent'[p].status = "succeeded"
        /\ parent'[p].result = [summary |-> summary, contributions |-> done]
    BY <1>0, <2>2 DEF ParentRow
  <2>4. Concludes(summary, done) /\ DoneIn(p, done) BY <1>0, <2>1, <2>2 DEF Contributed, Debating
  <2>5. \A i \in DOMAIN done : child'[p][done[i].id].status = "succeeded"
    BY <1>0, <2>1, <2>4, StillDone
  <2> DEFINE r == [summary |-> summary, contributions |-> done]
  <2>6. r.summary = summary /\ r.contributions = done /\ parent'[p].result = r BY <2>3
  <2> HIDE DEF r
  <2>7. parent'[p].result.contributions = done /\ parent'[p].result.summary = summary BY <2>6
  <2> QED BY <2>4, <2>5, <2>7 DEF Reported, DoneIn, Concludes
<1> QED BY <1>0, <1>2, <1>3, <1>4, <1>5, <1>6, StepsOf DEF Ends

LEMMA DebateInit ==
  ASSUME Init
  PROVE  DebateInv
<1>1. ChildrenInv /\ AskInv BY ChildrenInit, AskInit
<1>2. ASSUME NEW p \in Parents PROVE Contributed(p) /\ Reported(p) /\ Alternates(p) /\ InOrder(p)
  <2>1. coord[p] = Fresh("none") /\ parent[p] = [status |-> "queued", attempts |-> 0, result |-> NoResult]
    BY DEF Init
  <2>2. coord[p].pc = "none" /\ coord[p].contributions = << >> BY <2>1 DEF Fresh
  <2>3. parent[p].status = "queued" /\ parent[p].result.contributions = << >> BY <2>1 DEF NoResult
  <2>4. \A id \in ChildIds : child[p][id].status = "absent" BY DEF Init, NoChild
  <2>5. Alternates(p) BY <2>4, DebateIds DEF Alternates
  <2>6. InOrder(p) BY <2>2 DEF InOrder
  <2>7. Contributed(p) BY <2>2 DEF Contributed, DoneIn, Debating, Asking, Busy
  <2>8. Reported(p) BY <2>3 DEF Reported, DoneIn
  <2> QED BY <2>5, <2>6, <2>7, <2>8
<1> QED BY <1>1, <1>2 DEF DebateInv

(* The debate goes round by round and the report shows what came of it:    *)
(* no revision without the review that asked for it, no success without    *)
(* its contributions, the last of which is the summary.  A planner may     *)
(* give a subtask the name of a round: of such a task only the latter.     *)
THEOREM DebateSoundHolds ==
  ASSUME NoRedelivery
  PROVE  Spec => []DebateSound
<1>1. Init => DebateInv BY DebateInit
<1>2. DebateInv /\ [Next]_vars => DebateInv'
  <2> SUFFICES ASSUME DebateInv, [Next]_vars PROVE DebateInv'
    OBVIOUS
  <2>1. ChildrenInv' /\ AskInv' BY ChildrenNext, AskNext DEF DebateInv
  <2>2. \A p \in Parents : Contributed(p)' BY ContributedNext
  <2>3. \A p \in Parents : Reported(p)' BY ReportedNext
  <2>4. \A p \in Parents : ~ Misnamed(p)' => Alternates(p)' BY AlternatesNext
  <2>5. \A p \in Parents : InOrder(p)' BY InOrderNext
  <2> QED BY <2>1, <2>2, <2>3, <2>4, <2>5 DEF DebateInv
<1>3. DebateInv => DebateSound
  <2> SUFFICES ASSUME DebateInv PROVE DebateSound
    OBVIOUS
  <2>1. DebateAlternates BY DEF DebateInv, DebateAlternates, Alternates, AskedFor, Revised
  <2>2. SummaryIsSynthesis BY DEF DebateInv, SummaryIsSynthesis, Reported, DoneIn, Concludes
  <2> QED BY <2>1, <2>2 DEF DebateSound
<1> QED BY <1>1, <1>2, <1>3, PTL DEF Spec

-----------------------------------------------------------------------------
(* Who is credited *)

(* A child that is queued, executed or waited for has a row.               *)
Wanted(p, id) == Held(p, id) \/ (coord[p].pc \in Busy /\ coord[p].id = id)
Rowed == \A p \in Parents, id \in ChildIds : Wanted(p, id) => child[p][id].status # "absent"

(* A row is its agent's, who was asked, and so is what it holds at last.    *)
AskedAs(p, id, type) == \E a \in asked[p][id] : a.type = type
Authored == \A p \in Parents, id \in ChildIds :
  /\ child[p][id].status # "absent" => AskedAs(p, id, child[p][id].agent)
  /\ child[p][id].status = "succeeded" => child[p][id].output.agent = child[p][id].agent

(* A contribution is its row's agent's, and was asked of the agent that    *)
(* gets the credit.                                                        *)
Credited(p, done) == \A i \in DOMAIN done :
  /\ child[p][done[i].id].status # "absent"
  /\ done[i].output.agent = child[p][done[i].id].agent
  /\ AskedAs(p, done[i].id, done[i].type)

CreditInv ==
  /\ AskInv /\ Rowed /\ Authored
  /\ \A p \in Parents : Credited(p, coord[p].contributions)
                        /\ Credited(p, parent[p].result.contributions)

LEMMA StillAsked ==
  ASSUME NothingForgotten, NEW p \in Parents, NEW id \in ChildIds, NEW type, AskedAs(p, id, type)
  PROVE  \E a \in asked'[p][id] : a.type = type
  BY DEF NothingForgotten, AskedAs

(* What a step may do to a row, as far as its author is concerned.         *)
RowsAuthored == \A p \in Parents, id \in ChildIds :
  /\ child[p][id].status # "absent" =>
       child'[p][id].status # "absent" /\ child'[p][id].agent = child[p][id].agent
  /\ child[p][id].status = "absent" /\ child'[p][id].status # "absent" =>
       /\ child'[p][id].status = "queued"
       /\ \E kind : Asks(p, kind, id, child'[p][id].agent)
  /\ child[p][id].status # "absent" /\ child'[p][id].status = "succeeded" =>
       \/ child'[p][id].output.agent = child[p][id].agent
       \/ child[p][id].status = "succeeded" /\ child'[p][id].output = child[p][id].output

(* The row a step writes, when it is there already.                        *)
LEMMA OneRowAuthored ==
  ASSUME NEW p \in Parents, NEW id \in ChildIds, OtherRows(p, id),
         child[p][id].status # "absent", child'[p][id].status # "absent",
         child'[p][id].agent = child[p][id].agent,
         \/ child'[p][id].status # "succeeded"
         \/ child'[p][id].output.agent = child[p][id].agent
         \/ child[p][id].status = "succeeded" /\ child'[p][id].output = child[p][id].output
  PROVE  RowsAuthored
  BY DEF RowsAuthored, OtherRows

LEMMA RunsChildAuthored ==
  ASSUME Typed, Rowed, NEW p \in Parents, RunsChild(p)
  PROVE  RowsAuthored
<1>1. CASE child' = child BY <1>1 DEF RowsAuthored
<1>2. PICK id \in ChildIds : id = coord[p].id BY DEF Typed, Locals
<1>3. child[p][id].status # "absent"
  BY <1>2 DEF Rowed, Wanted, Busy, RunsChild, EnqueueChild, StartInline, FinishInline
<1>4. CASE EnqueueChild(p) BY <1>1, <1>4 DEF EnqueueChild, rows
<1>5. CASE StartInline(p)
  <2>1. CASE child' = [child EXCEPT ![p][id].status = "running"]
    <3>1. "running" \in RunStatus BY DEF RunStatus
    <3>2. /\ OtherRows(p, id) /\ child'[p][id].status = "running"
          /\ child'[p][id].agent = child[p][id].agent
      BY <2>1, <3>1, StatusEffect
    <3> QED BY <1>3, <3>2, OneRowAuthored
  <2> QED BY <1>1, <1>2, <1>5, <2>1 DEF StartInline
<1>6. CASE FinishInline(p)
  <2>1. ASSUME NEW out \in Outputs(p, id),
               child' = [child EXCEPT ![p][id].status = "succeeded", ![p][id].output = out]
        PROVE  RowsAuthored
    <3>1. out \in Writings /\ out.agent = child[p][id].agent BY OutputsTyped
    <3>2. /\ OtherRows(p, id) /\ child'[p][id].status = "succeeded"
          /\ child'[p][id].agent = child[p][id].agent /\ child'[p][id].output = out
      BY <2>1, <3>1, SuccessEffect
    <3> QED BY <1>3, <3>1, <3>2, OneRowAuthored
  <2> QED BY <1>1, <1>2, <1>6, <2>1 DEF FinishInline
<1> QED BY <1>4, <1>5, <1>6 DEF RunsChild

LEMMA ExecuteAuthored ==
  ASSUME Typed, Rowed, NEW w \in Slots, NEW p \in Parents, NEW id \in ChildIds, Execute(w, p, id)
  PROVE  RowsAuthored
<1>0. child \in [Parents -> [ChildIds -> ChildRow]] /\ child[p][id] \in ChildRow
      /\ childJobs \in [Parents -> [ChildIds -> Nat]]
  BY DEF Typed
<1>1. OtherRows(p, id) /\ child'[p][id].agent = child[p][id].agent BY ExecuteEffect
<1>2. child[p][id].status # "absent"
  <2>1. Held(p, id)
    BY <1>0 DEF Held, Execute, TakeChild, ChildSucceeds, ChildRetries, ChildIsDeadLettered
  <2> QED BY <2>1 DEF Rowed, Wanted
<1>3. CASE TakeChild(w, p, id)
  <2> DEFINE n == child[p][id].attempts + 1
  <2>1. \/ child' = [child EXCEPT ![p][id].attempts = n]
        \/ child' = [child EXCEPT ![p][id].attempts = n, ![p][id].status = "running"]
    BY <1>3 DEF TakeChild
  <2> HIDE DEF n
  <2>2. \/ child'[p][id].status = child[p][id].status /\ child'[p][id].output = child[p][id].output
        \/ child'[p][id].status = "running"
    <3>1. CASE child' = [child EXCEPT ![p][id].attempts = n] BY <1>0, <3>1 DEF ChildRow
    <3>2. CASE child' = [child EXCEPT ![p][id].attempts = n, ![p][id].status = "running"]
      BY <1>0, <3>2 DEF ChildRow
    <3> QED BY <2>1, <3>1, <3>2
  <2> QED BY <1>1, <1>2, <2>2, OneRowAuthored
<1>4. CASE ChildSucceeds(w, p, id)
  <2>1. PICK out \in Outputs(p, id) :
          child' = [child EXCEPT ![p][id].status = "succeeded", ![p][id].output = out]
    BY <1>4 DEF ChildSucceeds
  <2>2. out \in Writings /\ out.agent = child[p][id].agent BY OutputsTyped
  <2>3. child'[p][id].status = "succeeded" /\ child'[p][id].output = out
    BY <2>1, <2>2, SuccessEffect
  <2> QED BY <1>1, <1>2, <2>2, <2>3, OneRowAuthored
<1>5. CASE ChildRetries(w, p, id) \/ ChildIsDeadLettered(w, p, id)
  <2>1. PICK status \in {"running", "failed"} : child' = [child EXCEPT ![p][id].status = status]
    BY <1>5 DEF ChildRetries, ChildIsDeadLettered
  <2>2. child'[p][id].status = status BY <1>0, <2>1 DEF ChildRow
  <2> QED BY <1>1, <1>2, <2>2, OneRowAuthored
<1> QED BY <1>3, <1>4, <1>5 DEF Execute

LEMMA NextAuthored ==
  ASSUME TrackInv, Rowed, [Next]_vars
  PROVE  RowsAuthored
<1>0. Typed /\ \A p \in Parents : OnTrack(p) BY DEF TrackInv
<1>1. CASE child' = child BY <1>1 DEF RowsAuthored
<1>2. ASSUME NEW p \in Parents, Coordinate(p) PROVE RowsAuthored
  <2>1. Thinks(p) \/ Dispatches(p) \/ RunsChild(p) \/ Ends(p)
    BY <1>2, Zenon DEF Coordinate, Thinks, Dispatches, RunsChild, Ends
  <2>2. Thinks(p) => child' = child
    BY Zenon DEF Thinks, PlanTeam, PlanSingle, Sort, NobodyToAsk, SubscriptionConfirmed, Awaken,
       ReadSubtask, ReadReview, ReadRevision, ReadsFailure, AllSubtasksDone, rows
  <2>3. Ends(p) => child' = child BY Zenon DEF Ends, Aggregate, AttemptFails
  <2>4. CASE Dispatches(p)
    <3>1. PICK kind \in {"subtask", "review", "revision"}, id \in ChildIds, type \in AgentTypes :
            Asks(p, kind, id, type)
      BY <1>0, <2>4, DispatchesEffect
    <3>2. /\ OtherRows(p, id)
          /\ child[p][id].status # "absent" => child'[p][id] = child[p][id]
          /\ child[p][id].status = "absent" =>
               child'[p][id].status = "queued" /\ child'[p][id].agent = type
      BY <1>0, <3>1, DispatchRow DEF Asks
    <3>3. CASE child[p][id].status # "absent" BY <3>2, <3>3, OneRowAuthored
    <3>4. CASE child[p][id].status = "absent"
      <4>1. child'[p][id].status = "queued" /\ \E k : Asks(p, k, id, child'[p][id].agent)
        BY <3>1, <3>2, <3>4
      <4> QED BY <3>2, <3>4, <4>1 DEF RowsAuthored, OtherRows
    <3> QED BY <3>3, <3>4
  <2> QED BY <1>0, <1>1, <2>1, <2>2, <2>3, <2>4, RunsChildAuthored
<1>3. CASE \E w \in Slots, p \in Parents : Begin(w, p) BY <1>1, <1>3 DEF Begin
<1>4. CASE Crash BY <1>1, <1>4 DEF Crash, rows
<1>5. CASE UNCHANGED vars BY <1>1, <1>5 DEF vars, rows
<1> QED BY <1>0, <1>2, <1>3, <1>4, <1>5, ExecuteAuthored DEF Next, Work


(* A child is wanted because it was, or because it is asked for now.       *)
LEMMA WantedBefore ==
  ASSUME TrackInv, [Next]_vars, NEW p \in Parents, NEW id \in ChildIds, Wanted(p, id)'
  PROVE  Wanted(p, id) \/ child'[p][id].status # "absent"
<1>0. /\ Typed /\ OnTrack(p)
      /\ \A q \in Parents : ParentHeld(q) /\ OnTrack(q)
      /\ slot \in [Slots -> {Free} \cup Parents \cup (Parents \X ChildIds)]
      /\ childJobs \in [Parents -> [ChildIds -> Nat]]
      /\ <<p, id>> \in Parents \X ChildIds /\ <<p, id>> # Free /\ <<p, id>> \notin Parents
  BY SlotAssumption DEF TrackInv, Typed
<1>1. ASSUME coord'[p].pc \in Busy, coord'[p].id = id
      PROVE  Wanted(p, id) \/ child'[p][id].status # "absent"
  <2>1. CASE Quiet(p) BY <1>1, <2>1 DEF Quiet, AskKept, Wanted
  <2>2. CASE Renewed(p) BY <1>1, <2>2 DEF Renewed, Busy
  <2>3. CASE Ends(p)
    <3>1. coord'[p] = Fresh("none") BY <1>0, <2>3, EndsEffect
    <3> QED BY <1>1, <3>1 DEF Fresh, Busy
  <2>4. CASE Thinks(p)
    <3>1. CASE SubscriptionConfirmed(p) \/ Awaken(p) \/ ReadsFailure(p)
      <4>1. AskKept(p) /\ (coord'[p].pc = coord[p].pc \/ coord[p].pc \in {"await", "read"})
        BY <1>0, <3>1, WaitEffect
      <4> QED BY <1>1, <4>1 DEF AskKept, Wanted, Busy
    <3>2. CASE PlanTeam(p) \/ PlanSingle(p) \/ Sort(p) \/ NobodyToAsk(p)
      <4>1. coord'[p].pc \notin Busy BY <1>0, <3>2, PlanEffect DEF Busy
      <4> QED BY <1>1, <4>1
    <3>3. CASE ReadSubtask(p) \/ ReadReview(p) \/ ReadRevision(p) \/ AllSubtasksDone(p)
      <4>1. coord'[p].pc \notin Busy BY <1>0, <3>3, ReadEffect DEF Busy
      <4> QED BY <1>1, <4>1
    <3> QED BY <2>4, <3>1, <3>2, <3>3 DEF Thinks
  <2>5. CASE Dispatches(p)
    <3>1. PICK kind \in {"subtask", "review", "revision"}, j \in ChildIds, type \in AgentTypes :
            Asks(p, kind, j, type)
      BY <1>0, <2>5, DispatchesEffect
    <3>2. j = id BY <1>0, <1>1, <3>1, DispatchEffect DEF Asks
    <3>3. child'[p][j].status # "absent"
      <4>1. Dispatch(p, kind, j, type) BY <3>1 DEF Asks
      <4>2. /\ child[p][j].status # "absent" => child'[p][j] = child[p][j]
            /\ child[p][j].status = "absent" => child'[p][j].status = "queued"
        BY <1>0, <4>1, DispatchRow, ZenonT(40)
      <4> QED BY <4>2
    <3> QED BY <3>2, <3>3
  <2>6. CASE RunsChild(p)
    <3>1. AskKept(p) /\ coord[p].pc \in Busy
      BY <1>0, <2>6, WaitEffect DEF RunsChild, Busy
    <3> QED BY <1>1, <3>1 DEF AskKept, Wanted
  <2> QED BY <2>1, <2>2, <2>3, <2>4, <2>5, <2>6, StepsOf
<1>2. ASSUME Held(p, id)' PROVE Wanted(p, id)
  <2>1. CASE childJobs' = childJobs /\ \A w \in Slots : slot'[w] = <<p, id>> => slot[w] = <<p, id>>
    BY <1>2, <2>1 DEF Held, Wanted
  <2>2. ASSUME NEW q \in Parents, Coordinate(q) PROVE Wanted(p, id)
    <3>1. CASE EnqueueChild(q)
      <4>1. /\ coord[q].pc = "enqueue" /\ slot' = slot /\ coord[q].id \in ChildIds
            /\ childJobs' = [childJobs EXCEPT ![q][coord[q].id] = @ + 1]
        BY <1>0, <3>1 DEF EnqueueChild, Typed, Locals
      <4>2. q # p \/ coord[q].id # id => childJobs'[p][id] = childJobs[p][id] BY <1>0, <4>1
      <4>3. CASE q = p /\ coord[q].id = id BY <4>1, <4>3 DEF Wanted, Busy
      <4>4. CASE q # p \/ coord[q].id # id BY <1>2, <4>1, <4>2, <4>4 DEF Held, Wanted
      <4> QED BY <4>3, <4>4
    <3>2. CASE Ends(q)
      <4>1. childJobs' = childJobs /\ \E w \in Slots : slot' = [slot EXCEPT ![w] = Free]
        BY <1>0, <3>2, EndsEffect
      <4> QED BY <1>0, <2>1, <4>1
    <3>3. CASE Thinks(q) \/ StartInline(q) \/ FinishInline(q)
      <4>1. UNCHANGED <<childJobs, slot>>
        BY <3>3, Zenon DEF Thinks, PlanTeam, PlanSingle, Sort, NobodyToAsk, SubscriptionConfirmed,
           Awaken, ReadSubtask, ReadReview, ReadRevision, ReadsFailure, AllSubtasksDone,
           StartInline, FinishInline, queue
      <4> QED BY <2>1, <4>1
    <3>4. CASE Dispatches(q)
      <4>1. UNCHANGED <<childJobs, slot>> BY <1>0, <3>4, DispatchesOnTrack
      <4> QED BY <2>1, <4>1
    <3>5. \/ Thinks(q) \/ Dispatches(q) \/ Ends(q)
          \/ EnqueueChild(q) \/ StartInline(q) \/ FinishInline(q)
      BY <2>2, Zenon DEF Coordinate, Thinks, Dispatches, Ends
    <3> QED BY <3>1, <3>2, <3>3, <3>4, <3>5
  <2>3. ASSUME NEW w \in Slots, NEW q \in Parents, Begin(w, q) PROVE Wanted(p, id)
    <3>1. childJobs' = childJobs /\ (slot' = slot \/ slot' = [slot EXCEPT ![w] = q])
      BY <2>3 DEF Begin
    <3>2. \A v \in Slots : slot'[v] = <<p, id>> => slot[v] = <<p, id>> BY <1>0, <3>1
    <3> QED BY <2>1, <3>1, <3>2
  <2>4. ASSUME NEW w \in Slots, NEW q \in Parents, NEW j \in ChildIds, Execute(w, q, j)
        PROVE  Wanted(p, id)
    <3>1. /\ q # p \/ j # id => childJobs'[p][id] = childJobs[p][id]
          /\ \A v \in Slots : v # w => slot'[v] = slot[v]
          /\ slot'[w] \in {Free, <<q, j>>}
      BY <1>0, <2>4, ExecuteEffect
    <3>2. CASE q = p /\ j = id
      <4>1. Held(p, id)
        BY <1>0, <2>4, <3>2 DEF Held, Execute, TakeChild, ChildSucceeds, ChildRetries,
           ChildIsDeadLettered
      <4> QED BY <4>1 DEF Wanted
    <3>3. CASE q # p \/ j # id
      <4>1. slot'[w] # <<p, id>> BY <1>0, <3>1, <3>3
      <4> QED BY <1>2, <3>1, <3>3, <4>1 DEF Held, Wanted
    <3> QED BY <3>2, <3>3
  <2>5. CASE Crash
    <3>1. /\ \A w \in Slots : slot'[w] = Free
          /\ childJobs'[p][id] = childJobs[p][id] + Cardinality({w \in Slots : slot[w] = <<p, id>>})
      BY <2>5 DEF Crash
    <3>2. CASE {w \in Slots : slot[w] = <<p, id>>} = {}
      <4>1. Cardinality({w \in Slots : slot[w] = <<p, id>>}) = 0 BY <3>2, FS_EmptySet
      <4>2. childJobs'[p][id] = childJobs[p][id] BY <1>0, <3>1, <4>1
      <4> QED BY <1>0, <1>2, <3>1, <4>2 DEF Held, Wanted
    <3>3. CASE {w \in Slots : slot[w] = <<p, id>>} # {} BY <3>3 DEF Held, Wanted
    <3> QED BY <3>2, <3>3
  <2>6. CASE UNCHANGED vars BY <2>1, <2>6 DEF vars, queue
  <2> QED BY <2>2, <2>3, <2>4, <2>5, <2>6 DEF Next, Work
<1> QED BY <1>1, <1>2 DEF Wanted

LEMMA RowedNext ==
  ASSUME TrackInv, Rowed, [Next]_vars
  PROVE  Rowed'
<1>1. RowsAuthored BY NextAuthored
<1>2. ASSUME NEW p \in Parents, NEW id \in ChildIds, Wanted(p, id)'
      PROVE  child'[p][id].status # "absent"
  BY <1>1, <1>2, WantedBefore DEF Rowed, RowsAuthored
<1> QED BY <1>2 DEF Rowed

LEMMA AuthoredNext ==
  ASSUME CreditInv, [Next]_vars
  PROVE  Authored'
<1>1. RowsAuthored /\ NothingForgotten /\ AskedTyped /\ Authored
  BY NextAuthored, AskNext DEF CreditInv, AskInv
<1>2. ASSUME NEW p \in Parents, NEW id \in ChildIds
      PROVE  /\ child'[p][id].status # "absent" =>
                  \E a \in asked'[p][id] : a.type = child'[p][id].agent
             /\ child'[p][id].status = "succeeded" => child'[p][id].output.agent = child'[p][id].agent
  <2>1. CASE child[p][id].status = "absent" /\ child'[p][id].status # "absent"
    <3>1. child'[p][id].status = "queued" BY <1>1, <2>1 DEF RowsAuthored
    <3>2. PICK kind, type : type = child'[p][id].agent /\ Asks(p, kind, id, type)
      BY <1>1, <2>1 DEF RowsAuthored
    <3> DEFINE a == [kind |-> kind, type |-> type]
    <3>3. a \in asked'[p][id] /\ a.type = type BY <1>1, <3>2, AsksRecorded DEF Asks
    <3> HIDE DEF a
    <3> QED BY <3>1, <3>2, <3>3
  <2>2. CASE child[p][id].status # "absent"
    <3>1. child'[p][id].status # "absent" /\ child'[p][id].agent = child[p][id].agent
      BY <1>1, <2>2 DEF RowsAuthored
    <3>2. \E a \in asked'[p][id] : a.type = child[p][id].agent
      BY <1>1, <2>2, StillAsked DEF Authored
    <3>3. child'[p][id].status = "succeeded" => child'[p][id].output.agent = child[p][id].agent
      BY <1>1, <2>2 DEF RowsAuthored, Authored
    <3> QED BY <3>1, <3>2, <3>3
  <2>3. CASE child[p][id].status = "absent" /\ child'[p][id].status = "absent" BY <2>3
  <2> QED BY <2>1, <2>2, <2>3
<1> QED BY <1>2 DEF Authored, AskedAs

(* What has been credited stays so.                                        *)
LEMMA StillCredited ==
  ASSUME RowsAuthored, NothingForgotten, NEW p \in Parents, NEW done \in Seq(Credits),
         Credited(p, done), NEW i \in DOMAIN done
  PROVE  /\ child'[p][done[i].id].status # "absent"
         /\ done[i].output.agent = child'[p][done[i].id].agent
         /\ \E a \in asked'[p][done[i].id] : a.type = done[i].type
<1>1. done[i] \in Credits OBVIOUS
<1>2. PICK id \in ChildIds, type \in AgentTypes : id = done[i].id /\ type = done[i].type
  BY <1>1 DEF Credits
<1>3. /\ child[p][id].status # "absent" /\ done[i].output.agent = child[p][id].agent
      /\ AskedAs(p, id, type)
  BY <1>2 DEF Credited
<1>4. child'[p][id].status # "absent" /\ child'[p][id].agent = child[p][id].agent
  BY <1>3 DEF RowsAuthored
<1>5. \E a \in asked'[p][id] : a.type = type BY <1>3, StillAsked
<1> QED BY <1>2, <1>3, <1>4, <1>5

(* What an attempt has contributed grows by what it reads.                 *)
LEMMA ContributionsGrow ==
  ASSUME TrackInv, [Next]_vars, NEW p \in Parents
  PROVE  \/ coord'[p].contributions \in {coord[p].contributions, << >>}
         \/ /\ coord[p].pc = "read" /\ child[p][coord[p].id].status = "succeeded"
            /\ coord'[p].contributions = Append(coord[p].contributions, Contribution(p))
<1>0. Typed /\ OnTrack(p) /\ ParentHeld(p) BY DEF TrackInv
<1>1. CASE WorkKept(p) BY <1>1 DEF WorkKept
<1>2. CASE Quiet(p) BY <1>1, <1>2 DEF Quiet
<1>3. CASE Renewed(p) BY <1>3 DEF Renewed
<1>4. CASE Ends(p)
  <2>1. coord'[p] = Fresh("none") BY <1>0, <1>4, EndsEffect
  <2> QED BY <2>1 DEF Fresh
<1>5. CASE Dispatches(p) BY <1>0, <1>1, <1>5, DispatchesEffect, DispatchEffect DEF Asks
<1>6. CASE RunsChild(p) BY <1>0, <1>1, <1>6, WaitEffect DEF RunsChild
<1>7. CASE Thinks(p)
  <2>1. CASE PlanTeam(p) \/ PlanSingle(p) \/ Sort(p) \/ NobodyToAsk(p)
    BY <1>0, <1>1, <2>1, PlanEffect
  <2>2. CASE SubscriptionConfirmed(p) \/ Awaken(p) \/ ReadsFailure(p)
    BY <1>0, <1>1, <2>2, WaitEffect
  <2>3. CASE ReadSubtask(p) \/ ReadRevision(p) BY <1>0, <2>3, ReadEffect DEF ReadsSuccess
  <2>4. CASE ReadReview(p) \/ AllSubtasksDone(p) BY <1>0, <1>1, <2>4, ReadEffect
  <2> QED BY <1>7, <2>1, <2>2, <2>3, <2>4 DEF Thinks
<1> QED BY <1>2, <1>3, <1>4, <1>5, <1>6, <1>7, StepsOf

LEMMA ResultsGrow ==
  ASSUME TrackInv, [Next]_vars, NEW p \in Parents
  PROVE  parent'[p].result.contributions
           \in {parent[p].result.contributions, coord[p].contributions}
<1>0. parent \in [Parents -> ParentRow] BY DEF TrackInv, Typed
<1>1. CASE Quiet(p) \/ Renewed(p) \/ parent' = parent BY <1>1 DEF Quiet, Renewed
<1>2. CASE AttemptFails(p)
  <2>1. PICK status : parent' = [parent EXCEPT ![p].status = status] BY <1>2 DEF AttemptFails
  <2>2. parent'[p].result = parent[p].result BY <1>0, <2>1 DEF ParentRow
  <2> QED BY <2>2
<1>3. CASE Aggregate(p)
  <2> DEFINE r == [summary |-> coord[p].summary, contributions |-> coord[p].contributions]
  <2>1. parent' = [parent EXCEPT ![p].status = "succeeded", ![p].result = r]
    BY <1>3 DEF Aggregate
  <2>2. r.contributions = coord[p].contributions OBVIOUS
  <2> HIDE DEF r
  <2>3. parent'[p].result = r BY <1>0, <2>1 DEF ParentRow
  <2> QED BY <2>2, <2>3
<1> QED BY <1>1, <1>2, <1>3, StepsOf DEF Ends

LEMMA CreditNext ==
  ASSUME CreditInv, [Next]_vars
  PROVE  CreditInv'
<1>0. /\ AskInv /\ TrackInv /\ Typed /\ Rowed /\ Authored
      /\ \A p \in Parents : Credited(p, coord[p].contributions)
                            /\ Credited(p, parent[p].result.contributions)
      /\ \A p \in Parents : AskRemembered(p)
  BY DEF CreditInv, AskInv, TrackInv
<1>1. AskInv' /\ NothingForgotten /\ Rowed' /\ Authored' /\ RowsAuthored
  BY <1>0, AskNext, RowedNext, AuthoredNext, NextAuthored
<1>2. ASSUME NEW p \in Parents, NEW done \in Seq(Credits), Credited(p, done)
      PROVE  Credited(p, done)'
  BY <1>1, <1>2, StillCredited DEF Credited, AskedAs
<1>3. ASSUME NEW p \in Parents PROVE Credited(p, coord[p].contributions)'
  <2>1. PICK done \in Seq(Credits), id \in ChildIds, type \in AgentTypes :
          done = coord[p].contributions /\ id = coord[p].id /\ type = coord[p].type
    BY <1>0 DEF Typed, Locals
  <2>2. Credited(p, done) BY <1>0, <2>1
  <2>3. CASE coord'[p].contributions = done BY <1>2, <2>2, <2>3 DEF Credited, AskedAs
  <2>4. CASE coord'[p].contributions = << >> BY <2>4 DEF Credited
  <2>5. CASE /\ coord[p].pc = "read" /\ child[p][coord[p].id].status = "succeeded"
             /\ coord'[p].contributions = Append(coord[p].contributions, Contribution(p))
    <3>1. PICK c \in Credits :
            c = Contribution(p) /\ c.id = id /\ c.type = type /\ c.output = child[p][id].output
      BY <1>0, <2>1, ContributionTyped
    <3> DEFINE a == [kind |-> coord[p].kind, type |-> type]
    <3>2. a \in asked[p][id] /\ a.type = type BY <1>0, <2>1, <2>5 DEF AskRemembered, Busy
    <3> HIDE DEF a
    <3>3. AskedAs(p, id, type) BY <3>2 DEF AskedAs
    <3>4. child[p][id].status = "succeeded" /\ c.output.agent = child[p][id].agent
      BY <1>0, <2>1, <2>5, <3>1 DEF Authored
    <3>5. PICK longer : longer = Append(done, c) OBVIOUS
    <3>6. /\ longer \in Seq(Credits)
          /\ DOMAIN longer = 1 .. Len(done) + 1 /\ DOMAIN done = 1 .. Len(done)
          /\ longer[Len(done) + 1] = c /\ \A i \in 1 .. Len(done) : longer[i] = done[i]
      BY <3>5
    <3>7. Credited(p, longer)
      <4> SUFFICES ASSUME NEW i \in DOMAIN longer
                   PROVE  /\ child[p][longer[i].id].status # "absent"
                          /\ longer[i].output.agent = child[p][longer[i].id].agent
                          /\ AskedAs(p, longer[i].id, longer[i].type)
        BY DEF Credited
      <4>1. CASE i \in 1 .. Len(done) BY <2>2, <3>6, <4>1 DEF Credited
      <4>2. CASE i = Len(done) + 1 BY <3>1, <3>3, <3>4, <3>6, <4>2
      <4> QED BY <3>6, <4>1, <4>2
    <3>8. Credited(p, longer)' BY <1>2, <3>6, <3>7
    <3>9. coord'[p].contributions = longer BY <2>1, <2>5, <3>1, <3>5
    <3> QED BY <3>8, <3>9 DEF Credited, AskedAs
  <2> QED BY <1>0, <2>1, <2>3, <2>4, <2>5, ContributionsGrow
<1>4. ASSUME NEW p \in Parents PROVE Credited(p, parent[p].result.contributions)'
  <2>1. /\ coord[p].contributions \in Seq(Credits)
        /\ parent[p].result.contributions \in Seq(Credits)
    BY <1>0 DEF Typed, Locals, ParentRow
  <2>2. PICK done \in Seq(Credits) : parent'[p].result.contributions = done /\ Credited(p, done)
    BY <1>0, <2>1, ResultsGrow
  <2>3. Credited(p, done)' BY <1>2, <2>2
  <2> QED BY <2>2, <2>3 DEF Credited, AskedAs
<1> QED BY <1>1, <1>3, <1>4 DEF CreditInv

LEMMA CreditInit ==
  ASSUME Init
  PROVE  CreditInv
<1>1. \A p \in Parents : coord[p].pc = "none" /\ coord[p].contributions = << >>
  BY DEF Init, Fresh
<1>2. \A p \in Parents : parent[p].result.contributions = << >> BY DEF Init, NoResult
<1>3. \A p \in Parents, id \in ChildIds :
        child[p][id].status = "absent" /\ childJobs[p][id] = 0 /\ \A w \in Slots : slot[w] # <<p, id>>
  BY SlotAssumption DEF Init, NoChild
<1>4. Rowed BY <1>1, <1>3 DEF Rowed, Wanted, Held, Busy
<1>5. Authored BY <1>3 DEF Authored
<1>6. \A p \in Parents : Credited(p, << >>)
  <2>1. \A i \in DOMAIN << >> : FALSE OBVIOUS
  <2> QED BY <2>1, Zenon DEF Credited
<1>7. \A p \in Parents : Credited(p, coord[p].contributions) /\ Credited(p, parent[p].result.contributions)
  BY <1>1, <1>2, <1>6, Zenon
<1>8. AskInv BY AskInit, Zenon
<1> QED BY <1>4, <1>5, <1>7, <1>8, Zenon DEF CreditInv

(* A contribution shows what the agent of its row wrote, and is credited   *)
(* to that agent unless attempts of the task gave the id to two roles -    *)
(* whatever the planner answers, crashes and is delivered twice.           *)
THEOREM AttributionHolds == Spec => []AttributionCorrect
<1>1. CreditInv => AttributionCorrect
  <2> SUFFICES ASSUME CreditInv, NEW p \in Parents, NEW done \in Seq(Credits), NEW i \in DOMAIN done,
                      done = parent[p].result.contributions
               PROVE  /\ done[i].output.agent = child[p][done[i].id].agent
                      /\ done[i].output.agent # done[i].type => Reassigned(p, done[i].id)
    BY DEF AttributionCorrect, CreditInv, AskInv, TrackInv, Typed, ParentRow
  <2>1. Authored /\ Credited(p, done) BY DEF CreditInv
  <2>2. done[i] \in Credits OBVIOUS
  <2>3. PICK id \in ChildIds : id = done[i].id BY <2>2 DEF Credits
  <2>4. /\ child[p][id].status # "absent" /\ done[i].output.agent = child[p][id].agent
        /\ AskedAs(p, id, done[i].type)
    BY <2>1, <2>3 DEF Credited
  <2>5. AskedAs(p, id, child[p][id].agent) BY <2>1, <2>4 DEF Authored
  <2>6. done[i].output.agent # done[i].type => Reassigned(p, id)
    BY <2>4, <2>5 DEF AskedAs, Reassigned
  <2> QED BY <2>3, <2>4, <2>6
<1>2. CreditInv /\ [Next]_vars => CreditInv' BY CreditNext
<1> QED BY <1>1, <1>2, CreditInit, PTL DEF Spec

-----------------------------------------------------------------------------
(* Which phase a reader sees *)

(* A round that is under way is the one the attempt waits for, or one it   *)
(* gave up as it went on to report.                                        *)
RoundsOpen(p) == \A id \in ChildIds :
  RoundId(id) /\ child[p][id].status \in Active =>
    \/ coord[p].pc \in Busy /\ coord[p].id = id
    \/ coord[p].pc = "aggregate" \/ parent[p].status = "succeeded"

(* Every row is listed.                                                    *)
RowsListed(p) == \A id \in ChildIds :
  child[p][id].status # "absent" <=> \E i \in DOMAIN born[p] : born[p][i] = id

(* Nothing pauses or cancels a child.                                      *)
ChildStatus == Active \cup {"absent", "succeeded", "failed"}

PhaseInv ==
  /\ ChildrenInv /\ AskInv
  /\ \A p \in Parents : RowsListed(p) /\ (~ Misnamed(p) => RoundsOpen(p))
  /\ \A p \in Parents : \A id \in ChildIds : child[p][id].status \in ChildStatus

(* A child becomes active while its parent waits for it.                   *)
RowsActive == \A p \in Parents, id \in ChildIds :
  \/ child'[p][id].status \in {child[p][id].status, "succeeded", "failed"}
  \/ child'[p][id].status \in Active /\ coord'[p].pc \in Busy /\ coord'[p].id = id

LEMMA NextActive ==
  ASSUME ChildrenInv, [Next]_vars
  PROVE  RowsActive
<1>0. /\ Typed /\ \A q \in Parents : OnTrack(q) /\ ChildrenTrue(q)
      /\ \A q \in Parents : \A j \in ChildIds : ChildHeld(q, j)
      /\ child \in [Parents -> [ChildIds -> ChildRow]]
  BY DEF ChildrenInv, TrackInv, Typed
<1>1. CASE child' = child BY <1>1 DEF RowsActive
<1>2. ASSUME NEW p \in Parents, NEW id \in ChildIds, OtherRows(p, id),
             \/ child'[p][id].status \in {child[p][id].status, "succeeded", "failed"}
             \/ child'[p][id].status \in Active /\ coord'[p].pc \in Busy /\ coord'[p].id = id
      PROVE  RowsActive
  BY <1>2 DEF RowsActive, OtherRows
<1>3. ASSUME NEW p \in Parents, Coordinate(p) PROVE RowsActive
  <2>1. Thinks(p) \/ Dispatches(p) \/ RunsChild(p) \/ Ends(p)
    BY <1>3, Zenon DEF Coordinate, Thinks, Dispatches, RunsChild, Ends
  <2>2. Thinks(p) => child' = child
    BY Zenon DEF Thinks, PlanTeam, PlanSingle, Sort, NobodyToAsk, SubscriptionConfirmed, Awaken,
       ReadSubtask, ReadReview, ReadRevision, ReadsFailure, AllSubtasksDone, rows
  <2>3. Ends(p) => child' = child BY Zenon DEF Ends, Aggregate, AttemptFails
  <2>4. CASE Dispatches(p)
    <3>1. PICK kind \in {"subtask", "review", "revision"}, id \in ChildIds, type \in AgentTypes :
            Dispatch(p, kind, id, type)
      BY <1>0, <2>4, DispatchesEffect DEF Asks
    <3>2. /\ OtherRows(p, id)
          /\ child[p][id].status # "absent" => child'[p][id] = child[p][id]
          /\ child[p][id].status = "absent" => child'[p][id].status = "queued"
      BY <1>0, <3>1, DispatchRow
    <3>3. coord'[p].pc \in Busy /\ coord'[p].id = id BY <1>0, <3>1, DispatchEffect DEF Busy
    <3> QED BY <1>2, <3>2, <3>3 DEF Active
  <2>5. CASE RunsChild(p)
    <3>1. PICK id \in ChildIds : id = coord[p].id BY <1>0 DEF Typed, Locals
    <3>2. OtherRows(p, id) BY <1>0, <2>5, <3>1, RunsChildRow
    <3>3. CASE EnqueueChild(p) BY <1>1, <3>3 DEF EnqueueChild, rows
    <3>4. CASE StartInline(p)
      <4>1. coord'[p].pc \in Busy /\ coord'[p].id = id
        BY <1>0, <3>1, <3>4, WaitEffect DEF AskKept, Busy
      <4>2. child'[p][id].status \in {child[p][id].status, "running", "succeeded"}
        BY <1>0, <2>5, <3>1, RunsChildRow
      <4> QED BY <1>2, <3>2, <4>1, <4>2 DEF Active
    <3>5. CASE FinishInline(p)
      <4>1. child[p][id].status = "running" BY <1>0, <3>1, <3>5 DEF ChildrenTrue, FinishInline
      <4>2. child'[p][id].status \in {"running", "succeeded"} BY <1>0, <2>5, <3>1, <4>1, RunsChildRow
      <4> QED BY <1>2, <3>2, <4>1, <4>2
    <3> QED BY <2>5, <3>3, <3>4, <3>5 DEF RunsChild
  <2> QED BY <1>1, <2>1, <2>2, <2>3, <2>4, <2>5
<1>4. ASSUME NEW w \in Slots, NEW p \in Parents, NEW id \in ChildIds, Execute(w, p, id)
      PROVE  RowsActive
  <2>1. OtherRows(p, id) /\ AskKept(p) /\ coord'[p].pc = coord[p].pc BY <1>0, <1>4, ExecuteEffect
  <2>2. coord[p].pc = "await" /\ coord[p].id = id BY <1>0, <1>4, ExecuteRow
  <2>3. coord'[p].pc \in Busy /\ coord'[p].id = id BY <2>1, <2>2 DEF AskKept, Busy
  <2>4. child'[p][id].status \in {child[p][id].status, "running", "succeeded", "failed"}
    <3>1. CASE TakeChild(w, p, id)
      <4> DEFINE n == child[p][id].attempts + 1
      <4>1. \/ child' = [child EXCEPT ![p][id].attempts = n]
            \/ child' = [child EXCEPT ![p][id].attempts = n, ![p][id].status = "running"]
        BY <3>1 DEF TakeChild
      <4> HIDE DEF n
      <4>2. CASE child' = [child EXCEPT ![p][id].attempts = n] BY <1>0, <4>2 DEF ChildRow
      <4>3. CASE child' = [child EXCEPT ![p][id].attempts = n, ![p][id].status = "running"]
        BY <1>0, <4>3 DEF ChildRow
      <4> QED BY <4>1, <4>2, <4>3
    <3>2. CASE ChildSucceeds(w, p, id)
      <4>1. PICK out \in Outputs(p, id) :
              child' = [child EXCEPT ![p][id].status = "succeeded", ![p][id].output = out]
        BY <3>2 DEF ChildSucceeds
      <4>2. out \in Writings BY <1>0, OutputsTyped
      <4> QED BY <1>0, <4>1, <4>2, SuccessEffect
    <3>3. CASE ChildRetries(w, p, id) \/ ChildIsDeadLettered(w, p, id)
      <4>1. PICK status \in {"running", "failed"} : child' = [child EXCEPT ![p][id].status = status]
        BY <3>3 DEF ChildRetries, ChildIsDeadLettered
      <4>2. child'[p][id].status = status BY <1>0, <4>1 DEF ChildRow
      <4> QED BY <4>2
    <3> QED BY <1>4, <3>1, <3>2, <3>3 DEF Execute
  <2> QED BY <1>2, <2>1, <2>3, <2>4 DEF Active
<1>5. CASE \E w \in Slots, p \in Parents : Begin(w, p) BY <1>1, <1>5 DEF Begin
<1>6. CASE Crash BY <1>1, <1>6 DEF Crash, rows
<1>7. CASE UNCHANGED vars BY <1>1, <1>7 DEF vars, rows
<1> QED BY <1>3, <1>4, <1>5, <1>6, <1>7 DEF Next, Work

(* A row is listed as it is written.                                       *)
LEMMA ListGrows ==
  ASSUME ChildrenInv, [Next]_vars, NEW p \in Parents
  PROVE  \/ born'[p] = born[p]
         \/ \E kind, type : \E id \in ChildIds :
              /\ Asks(p, kind, id, type) /\ born'[p] = Append(born[p], id)
              /\ child'[p][id].status = "queued"
<1>0. /\ Typed /\ \A q \in Parents : OnTrack(q) /\ ParentHeld(q)
      /\ born \in [Parents -> Seq(ChildIds)]
  BY DEF ChildrenInv, TrackInv, Typed
<1>1. ASSUME NEW q \in Parents, Coordinate(q), born'[p] # born[p]
      PROVE  \E kind, type : \E id \in ChildIds :
               /\ Asks(p, kind, id, type) /\ born'[p] = Append(born[p], id)
               /\ child'[p][id].status = "queued"
  <2>1. Dispatches(q)
    <3>1. Thinks(q) \/ Dispatches(q) \/ RunsChild(q) \/ Ends(q)
      BY <1>1, Zenon DEF Coordinate, Thinks, Dispatches, RunsChild, Ends
    <3>2. Thinks(q) => born' = born
      BY Zenon DEF Thinks, PlanTeam, PlanSingle, Sort, NobodyToAsk, SubscriptionConfirmed, Awaken,
         ReadSubtask, ReadReview, ReadRevision, ReadsFailure, AllSubtasksDone, rows
    <3>3. Ends(q) => born' = born BY Zenon DEF Ends, Aggregate, AttemptFails
    <3>4. RunsChild(q) => born' = born
      BY Zenon DEF RunsChild, EnqueueChild, StartInline, FinishInline, rows
    <3> QED BY <1>1, <3>1, <3>2, <3>3, <3>4
  <2>2. PICK kind \in {"subtask", "review", "revision"}, id \in ChildIds, type \in AgentTypes :
          Asks(q, kind, id, type)
    BY <1>0, <2>1, DispatchesEffect
  <2>3. Dispatch(q, kind, id, type) BY <2>2 DEF Asks
  <2>4. child[q][id].status = "absent" /\ born' = [born EXCEPT ![q] = Append(@, id)]
    BY <1>1, <2>3 DEF Dispatch
  <2>5. q = p /\ born'[p] = Append(born[p], id) BY <1>0, <1>1, <2>4
  <2>6. child'[q][id].status = "queued" BY <1>0, <2>3, <2>4, DispatchRow
  <2> QED BY <2>2, <2>5, <2>6
<1>2. (\E w \in Slots, q \in Parents : Begin(w, q)) => born' = born BY DEF Begin
<1>3. (\E w \in Slots, q \in Parents, id \in ChildIds : Execute(w, q, id)) => born' = born
  BY <1>0, ExecuteEffect
<1>4. Crash => born' = born BY DEF Crash, rows
<1>5. UNCHANGED vars => born' = born BY DEF vars, rows
<1> QED BY <1>1, <1>2, <1>3, <1>4, <1>5 DEF Next, Work

LEMMA RowsListedNext ==
  ASSUME PhaseInv, [Next]_vars, NEW p \in Parents
  PROVE  RowsListed(p)'
<1>0. /\ ChildrenInv /\ Typed /\ RowsListed(p) /\ RowsKept /\ born[p] \in Seq(ChildIds)
  BY NextRowsKept DEF PhaseInv, ChildrenInv, TrackInv, Typed
<1>1. PICK list \in Seq(ChildIds) : list = born[p] BY <1>0
<1>2. ASSUME NEW id \in ChildIds, child'[p][id].status # "absent"
      PROVE  \E i \in DOMAIN born'[p] : born'[p][i] = id
  <2>1. CASE child[p][id].status # "absent"
    <3>1. PICK i \in DOMAIN list : list[i] = id BY <1>0, <1>1, <2>1 DEF RowsListed
    <3>2. CASE born'[p] = list BY <3>1, <3>2
    <3>3. ASSUME NEW j \in ChildIds, born'[p] = Append(list, j)
          PROVE  \E k \in DOMAIN born'[p] : born'[p][k] = id
      <4>1. i \in DOMAIN Append(list, j) /\ Append(list, j)[i] = id BY <3>1
      <4> QED BY <3>3, <4>1
    <3> QED BY <1>0, <1>1, <3>2, <3>3, ListGrows
  <2>2. CASE child[p][id].status = "absent"
    <3>1. PICK kind, type : Asks(p, kind, id, type) BY <1>0, <1>2, <2>2, RowsBorn
    <3>2. born' = [born EXCEPT ![p] = Append(@, id)] BY <2>2, <3>1 DEF Asks, Dispatch
    <3>3. born'[p] = Append(list, id) BY <1>0, <1>1, <3>2 DEF Typed
    <3>4. Len(list) + 1 \in DOMAIN Append(list, id) /\ Append(list, id)[Len(list) + 1] = id OBVIOUS
    <3> QED BY <3>3, <3>4
  <2> QED BY <2>1, <2>2
<1>3. ASSUME NEW id \in ChildIds, NEW i \in DOMAIN born'[p], born'[p][i] = id
      PROVE  child'[p][id].status # "absent"
  <2>1. CASE born'[p] = list BY <1>0, <1>1, <1>3, <2>1 DEF RowsListed, RowsKept
  <2>2. ASSUME NEW j \in ChildIds, born'[p] = Append(list, j), child'[p][j].status = "queued"
        PROVE  child'[p][id].status # "absent"
    <3>1. i \in DOMAIN Append(list, j) /\ Append(list, j)[i] = id BY <1>3, <2>2
    <3>2. id = j \/ \E k \in DOMAIN list : list[k] = id
      <4>1. i = Len(list) + 1 \/ i \in 1 .. Len(list) BY <3>1
      <4> QED BY <3>1, <4>1
    <3> QED BY <1>0, <1>1, <2>2, <3>2 DEF RowsListed, RowsKept
  <2> QED BY <1>0, <1>1, <2>1, <2>2, ListGrows
<1> QED BY <1>2, <1>3 DEF RowsListed

LEMMA RoundsOpenNext ==
  ASSUME PhaseInv, MaxCrashes = 0, [Next]_vars, NEW p \in Parents, ~ Misnamed(p)'
  PROVE  RoundsOpen(p)'
<1>0. /\ ChildrenInv /\ TrackInv /\ Typed /\ RoundsOpen(p) /\ RowsActive /\ RowsKept
      /\ ParentHeld(p) /\ OnTrack(p) /\ AskRemembered(p) /\ ~ Misnamed(p)
  <2>1. AskInv /\ ~ Misnamed(p) BY AskNext, StaysMisnamed DEF PhaseInv
  <2> QED BY <2>1, NextActive, NextRowsKept DEF PhaseInv, ChildrenInv, TrackInv, AskInv
<1> SUFFICES ASSUME NEW id \in ChildIds, RoundId(id), child'[p][id].status \in Active
             PROVE  \/ coord'[p].pc \in Busy /\ coord'[p].id = id
                    \/ coord'[p].pc = "aggregate" \/ parent'[p].status = "succeeded"
  BY DEF RoundsOpen
<1>1. CASE coord'[p].pc \in Busy /\ coord'[p].id = id BY <1>1
<1>2. ASSUME ~ (coord'[p].pc \in Busy /\ coord'[p].id = id)
      PROVE  coord'[p].pc = "aggregate" \/ parent'[p].status = "succeeded"
  <2>0. child'[p][id].status = child[p][id].status
    BY <1>0, <1>2 DEF RowsActive, Active
  <2>1. \/ coord[p].pc \in Busy /\ coord[p].id = id
        \/ coord[p].pc = "aggregate" \/ parent[p].status = "succeeded"
    BY <1>0, <2>0 DEF RoundsOpen
  <2>2. parent[p].status = "succeeded" => coord[p].pc = "none" BY <1>0 DEF ParentHeld
  <2>3. CASE Quiet(p) BY <1>2, <2>1, <2>3 DEF Quiet, AskKept
  <2>4. CASE Renewed(p) BY <2>1, <2>4 DEF Renewed, Busy, IsTerminal, TerminalStates
  <2>5. CASE Ends(p)
    <3>1. coord[p].pc \in {"aggregate", "throw"} BY <1>0, <2>5, EndsEffect
    <3>2. coord[p].pc = "aggregate" BY <2>1, <2>2, <3>1 DEF Busy
    <3>3. Aggregate(p) BY <2>5, <3>2 DEF Ends, AttemptFails
    <3>4. parent'[p].status = "succeeded" BY <1>0, <3>3 DEF Aggregate, Typed, ParentRow
    <3> QED BY <3>4
  <2>6. CASE Dispatches(p)
    <3>1. PICK kind \in {"subtask", "review", "revision"}, j \in ChildIds, type \in AgentTypes :
            Asks(p, kind, j, type)
      BY <1>0, <2>6, DispatchesEffect
    <3>2. coord[p].pc \in {"next", "review", "revise"} BY <3>1 DEF Asks
    <3> QED BY <2>1, <2>2, <3>2 DEF Busy
  <2>7. CASE Thinks(p) \/ RunsChild(p)
    <3>1. CASE SubscriptionConfirmed(p) \/ EnqueueChild(p) \/ StartInline(p)
      <4>1. AskKept(p) /\ (coord[p].pc \in Busy => coord'[p].pc \in Busy)
            /\ (coord'[p].pc = coord[p].pc \/ coord[p].pc \in Busy)
            /\ parent' = parent
        BY <1>0, <3>1, WaitEffect DEF Busy, SubscriptionConfirmed, EnqueueChild, StartInline, rows
      <4> QED BY <1>2, <2>1, <2>2, <4>1 DEF AskKept, Busy
    <3>2. CASE Awaken(p) \/ FinishInline(p) \/ ReadsFailure(p)
      <4>1. AskKept(p) /\ coord[p].pc \in {"await", "work", "read"}
            /\ coord'[p].pc \in {"read", AfterFailure(p)}
        BY <1>0, <3>2, WaitEffect
      <4>2. coord[p].pc \in Busy /\ coord[p].id = id BY <2>1, <2>2, <4>1 DEF Busy
      <4>3. coord'[p].pc = AfterFailure(p) BY <1>2, <4>1, <4>2 DEF AskKept, Busy
      <4>4. coord[p].kind # "subtask" BY <1>0, <4>2, RoundNotSubtask
      <4> QED BY <4>3, <4>4 DEF AfterFailure
    <3>3. CASE ReadSubtask(p) \/ ReadReview(p) \/ ReadRevision(p)
      <4>1. coord[p].pc = "read" /\ child[p][coord[p].id].status = "succeeded"
        BY <1>0, <3>3, ReadEffect DEF ReadsSuccess
      <4> QED BY <2>0, <2>1, <2>2, <4>1 DEF Busy, Active
    <3>4. CASE PlanTeam(p) \/ PlanSingle(p) \/ Sort(p) \/ NobodyToAsk(p) \/ AllSubtasksDone(p)
      <4>1. coord[p].pc \in {"plan", "sort", "next"} BY <1>0, <3>4, PlanEffect, ReadEffect
      <4> QED BY <2>1, <2>2, <4>1 DEF Busy
    <3> QED BY <2>7, <3>1, <3>2, <3>3, <3>4 DEF Thinks, RunsChild
  <2> QED BY <1>0, <2>3, <2>4, <2>5, <2>6, <2>7, StepsOf
<1> QED BY <1>1, <1>2


LEMMA PhaseNext ==
  ASSUME PhaseInv, MaxCrashes = 0, [Next]_vars
  PROVE  PhaseInv'
<1>1. ChildrenInv' /\ AskInv' BY ChildrenNext, AskNext DEF PhaseInv, NoRedelivery
<1>2. \A p \in Parents : RowsListed(p)' /\ (~ Misnamed(p)' => RoundsOpen(p)')
  BY RoundsOpenNext, RowsListedNext
<1>3. ASSUME NEW p \in Parents, NEW id \in ChildIds PROVE child'[p][id].status \in ChildStatus
  <2>1. RowsActive /\ child[p][id].status \in ChildStatus BY NextActive DEF PhaseInv
  <2> QED BY <2>1 DEF RowsActive, ChildStatus
<1> QED BY <1>1, <1>2, <1>3 DEF PhaseInv

LEMMA PhaseInit ==
  ASSUME Init
  PROVE  PhaseInv
<1>1. \A p \in Parents : born[p] = << >> BY DEF Init
<1>2. \A p \in Parents, id \in ChildIds : child[p][id].status = "absent" BY DEF Init, NoChild
<1>3. \A p \in Parents : RoundsOpen(p) BY <1>2 DEF RoundsOpen, Active
<1>4. \A p \in Parents : RowsListed(p) BY <1>1, <1>2 DEF RowsListed
<1> QED BY <1>2, <1>3, <1>4, ChildrenInit, AskInit DEF PhaseInv, ChildStatus

(* What a reader makes of the rows of a task that is running.              *)
LEMMA RunningPhase ==
  ASSUME NEW children, children # << >>
  PROVE  DeriveTeamPhase("running", children) =
           IF ActiveRounds(children) = {} THEN "working"
           ELSE IF IsReviewId(FirstRound(children).id) THEN "reviewing" ELSE "revising"
  BY DEF DeriveTeamPhase, PhaseAtWork

LEMMA DerivedPhase ==
  ASSUME NEW list \in Seq(ChildIds), list # << >>, NEW f \in [ChildIds -> ChildStatus],
         NEW children, children = [i \in DOMAIN list |-> [id |-> list[i], status |-> f[list[i]]]],
         NEW id \in ChildIds,
         \A j \in ChildIds : RoundId(j) /\ f[j] \in Active => j = id
  PROVE  /\ ~ RoundId(id) => DeriveTeamPhase("running", children) = "working"
         /\ RoundId(id) /\ f[id] \in Active /\ (\E i \in DOMAIN list : list[i] = id) =>
              DeriveTeamPhase("running", children) =
                IF IsReviewId(id) THEN "reviewing" ELSE "revising"
<1> DEFINE rounds == ActiveRounds(children)
<1>1. DOMAIN children = DOMAIN list /\ DOMAIN list = 1 .. Len(list) /\ Len(list) \in Nat
      /\ \A i \in DOMAIN list : list[i] \in ChildIds
  OBVIOUS
<1>2. \A i \in DOMAIN list : children[i].id = list[i] /\ children[i].status = f[list[i]] OBVIOUS
<1>3. children # << >>
  <2>1. 1 \in DOMAIN children BY <1>1
  <2> QED BY <2>1
<1>4. \A i \in rounds : i \in DOMAIN list /\ list[i] = id
  BY <1>1, <1>2 DEF RoundId, ActiveRounds
<1>5. DeriveTeamPhase("running", children) =
        IF rounds = {} THEN "working"
        ELSE IF IsReviewId(FirstRound(children).id) THEN "reviewing" ELSE "revising"
  BY <1>3, RunningPhase
<1>6. ASSUME ~ RoundId(id) PROVE rounds = {}
  BY <1>1, <1>2, <1>4, <1>6 DEF RoundId, ActiveRounds
<1>7. ASSUME RoundId(id), f[id] \in Active, NEW i \in DOMAIN list, list[i] = id
      PROVE  rounds # {} /\ FirstRound(children).id = id
  <2>1. i \in rounds BY <1>1, <1>2, <1>7 DEF RoundId, ActiveRounds
  <2>2. rounds \in SUBSET Nat BY <1>1, <1>4
  <2>3. FirstRound(children) = children[CHOOSE n \in rounds : \A j \in rounds : n <= j]
    BY DEF FirstRound
  <2> HIDE DEF rounds
  <2>4. \E n \in rounds : \A j \in rounds : n <= j BY <2>1, <2>2, LeastNumber
  <2>5. (CHOOSE n \in rounds : \A j \in rounds : n <= j) \in rounds BY <2>4
  <2>6. PICK n \in rounds : FirstRound(children) = children[n] BY <2>3, <2>5
  <2>7. FirstRound(children).id = id BY <1>2, <1>4, <2>6
  <2> QED BY <2>1, <2>7
<1> HIDE DEF rounds
<1>8. ~ RoundId(id) => DeriveTeamPhase("running", children) = "working" BY <1>5, <1>6
<1>9. RoundId(id) /\ f[id] \in Active /\ (\E i \in DOMAIN list : list[i] = id) =>
        DeriveTeamPhase("running", children) = IF IsReviewId(id) THEN "reviewing" ELSE "revising"
  BY <1>5, <1>7
<1> QED BY <1>8, <1>9

(* While a child is executed the phase derived from the rows says that the *)
(* team is at work, and in which round of the debate unless a subtask has  *)
(* the name of one - as long as the process lives (deriveTeamPhase).       *)
THEOREM PhaseTruthfulHolds ==
  ASSUME MaxCrashes = 0
  PROVE  Spec => []PhaseTruthful
<1>1. Init => PhaseInv BY PhaseInit
<1>2. PhaseInv /\ [Next]_vars => PhaseInv' BY PhaseNext
<1>3. PhaseInv => PhaseTruthful
  <2> SUFFICES ASSUME PhaseInv, NEW p \in Parents, coord[p].heard = "none",
                      coord[p].pc \in {"enqueue", "await", "execute", "work"},
                      ~ IsTerminal(child[p][coord[p].id].status)
               PROVE  /\ Phase(p) \in {"working", "reviewing", "revising"}
                      /\ ~ Misnamed(p) =>
                           /\ coord[p].kind = "review" => Phase(p) = "reviewing"
                           /\ coord[p].kind = "revision" => Phase(p) = "revising"
                           /\ coord[p].kind = "subtask" => Phase(p) = "working"
    BY DEF PhaseTruthful
  <2>1. /\ TrackInv /\ Typed /\ ParentHeld(p) /\ OnTrack(p) /\ ChildrenTrue(p)
        /\ RowsListed(p) /\ AskRemembered(p) /\ (~ Misnamed(p) => RoundsOpen(p))
        /\ \A j \in ChildIds : child[p][j].status \in ChildStatus
        /\ coord[p].pc \in Busy /\ coord[p].pc # "aggregate" /\ coord[p].pc # "none"
    BY DEF PhaseInv, ChildrenInv, TrackInv, AskInv, Busy
  <2>2. parent[p].status = "running" BY <2>1 DEF ParentHeld
  <2>3. PICK id \in ChildIds : id = coord[p].id BY <2>1 DEF Typed, Locals
  <2>4. child[p][id].status \in Active
    BY <2>1, <2>3 DEF ChildrenTrue, ChildStatus, Active, IsTerminal, TerminalStates
  <2>5. ~ Misnamed(p) => \A j \in ChildIds : RoundId(j) /\ child[p][j].status \in Active => j = id
    BY <2>1, <2>2, <2>3 DEF RoundsOpen
  <2>6. PICK i \in DOMAIN born[p] : born[p][i] = id BY <2>1, <2>3, <2>4 DEF RowsListed, Active
  <2> DEFINE f == [j \in ChildIds |-> child[p][j].status]
  <2>7. PICK list \in Seq(ChildIds) : list = born[p] BY <2>1 DEF Typed
  <2>8. list # << >> /\ \A k \in DOMAIN list : list[k] \in ChildIds BY <2>6, <2>7
  <2> DEFINE children == [k \in DOMAIN list |-> [id |-> list[k], status |-> f[list[k]]]]
  <2>9. Phase(p) = DeriveTeamPhase("running", children) BY <2>2, <2>7, <2>8 DEF Phase
  <2>10. f \in [ChildIds -> ChildStatus] /\ \A j \in ChildIds : f[j] = child[p][j].status BY <2>1
  <2> HIDE DEF f
  <2>11. ASSUME ~ Misnamed(p)
         PROVE  /\ ~ RoundId(id) => Phase(p) = "working"
                /\ RoundId(id) => Phase(p) = IF IsReviewId(id) THEN "reviewing" ELSE "revising"
    <3> DEFINE seen == children
    <3> HIDE DEF seen
    <3>1. seen = [k \in DOMAIN list |-> [id |-> list[k], status |-> f[list[k]]]] BY DEF seen
    <3>2. Phase(p) = DeriveTeamPhase("running", seen) BY <2>9 DEF seen
    <3>3. f[id] \in Active /\ \A j \in ChildIds : RoundId(j) /\ f[j] \in Active => j = id
      BY <2>4, <2>5, <2>10, <2>11
    <3>4. /\ ~ RoundId(id) => DeriveTeamPhase("running", seen) = "working"
          /\ RoundId(id) /\ f[id] \in Active /\ (\E k \in DOMAIN list : list[k] = id) =>
               DeriveTeamPhase("running", seen) = IF IsReviewId(id) THEN "reviewing" ELSE "revising"
      BY <2>8, <2>10, <3>1, <3>3, DerivedPhase
    <3> QED BY <2>6, <2>7, <3>2, <3>3, <3>4
  <2>12. Phase(p) \in {"working", "reviewing", "revising"}
    <3> DEFINE seen == children
    <3>1. 1 \in DOMAIN list BY <2>8
    <3>2. seen # << >> BY <3>1
    <3> HIDE DEF seen, children
    <3>3. Phase(p) = DeriveTeamPhase("running", seen) BY <2>9 DEF seen
    <3> QED BY <3>2, <3>3, RunningPhase
  <2>13. ASSUME ~ Misnamed(p), coord[p].kind = "review" PROVE Phase(p) = "reviewing"
    <3>1. PICK k \in 1 .. DebateRounds : id = ReviewIds[k]
      BY <2>1, <2>3, <2>13 DEF OnTrack, Asking
    <3>2. IsReviewId(id) BY <3>1, RoundsNamed
    <3> QED BY <2>11, <2>13, <3>2 DEF RoundId
  <2>14. ASSUME ~ Misnamed(p), coord[p].kind = "revision" PROVE Phase(p) = "revising"
    <3>1. PICK k \in 1 .. DebateRounds : id = RevisionIds[k]
      BY <2>1, <2>3, <2>14 DEF OnTrack, Asking
    <3>2. IsRevisionId(id) /\ ~ IsReviewId(id) BY <3>1, RoundsNamed
    <3> QED BY <2>11, <2>14, <3>2 DEF RoundId
  <2>15. ASSUME ~ Misnamed(p), coord[p].kind = "subtask" PROVE Phase(p) = "working"
    <3>1. ~ RoundId(id) BY <2>1, <2>3, <2>15, RoundNotSubtask
    <3> QED BY <2>11, <2>15, <3>1
  <2> QED BY <2>12, <2>13, <2>14, <2>15
<1> QED BY <1>1, <1>2, <1>3, PTL DEF Spec

=============================================================================

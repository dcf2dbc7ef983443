------------------------------- MODULE Planner -------------------------------
(***************************************************************************)
(* Plans of an orchestrated task: what normalizePlan accepts of a model's  *)
(* JSON and in which order topoSort (Kahn) runs the subtasks.  A plan is a *)
(* sequence of [id, type, deps]; the prompt plays no role here.  Rejection *)
(* (InvalidPlanError) is the empty plan, which normalizePlan never accepts.*)
(***************************************************************************)
EXTENDS Naturals, Sequences, FiniteSets

AgentTypes == {"researcher", "writer", "analyst", "coder", "orchestrator", "reviewer"}

(* What ids look like when the model leaves one out.                       *)
DefaultIds == <<"s1", "s2", "s3", "s4", "s5">>
NoId == "(no id)"

Rejected == << >>
Ids(plan) == {plan[i].id : i \in DOMAIN plan}
(* Records in a row, whatever they say.                                    *)
IsPlan(raw) ==
  raw \in Seq([id : Ids(raw), type : {raw[i].type : i \in DOMAIN raw},
               deps : SUBSET (UNION {raw[i].deps : i \in DOMAIN raw})])
Subtask(plan, id) == plan[CHOOSE i \in DOMAIN plan : plan[i].id = id]

NormalizePlan(raw) ==
  LET named == [i \in DOMAIN raw |->
                  [raw[i] EXCEPT !.id = IF @ = NoId THEN DefaultIds[i] ELSE @]]
      accepted ==
        /\ raw # << >>
        /\ \A i \in DOMAIN raw : raw[i].type \in AgentTypes \ {"orchestrator"}
        /\ \A i, j \in DOMAIN raw : named[i].id = named[j].id => i = j
        /\ \A i \in DOMAIN raw : named[i].deps \subseteq Ids(named)
  IN IF accepted THEN named ELSE Rejected

(* The ids a condition holds of, in the order of the plan.                 *)
InPlanOrder(plan, chosen) ==
  LET listed[n \in 0 .. Len(plan)] ==
        IF n = 0 THEN << >>
        ELSE IF plan[n].id \in chosen THEN Append(listed[n - 1], plan[n].id)
        ELSE listed[n - 1]
  IN listed[Len(plan)]

(* Mutant: a dependent is queued as soon as one dependency is done.        *)
VisitEager(plan, s) ==
  IF s.queue = << >> THEN s ELSE
  LET id == Head(s.queue)
      freed == {t \in Ids(plan) : id \in Subtask(plan, t).deps}
  IN [queue    |-> Tail(s.queue) \o InPlanOrder(plan, freed),
      indegree |-> s.indegree,
      order    |-> Append(s.order, Subtask(plan, id))]

(* One turn of Kahn's loop: take the head of the queue, then queue the     *)
(* dependents that waited for it alone, in the order of the plan.          *)
Visit(plan, s) ==
  IF s.queue = << >> THEN s ELSE
  LET id == Head(s.queue)
      dependents == {t \in Ids(plan) : id \in Subtask(plan, t).deps}
      freed == {t \in dependents : s.indegree[t] = 1}
  IN [queue    |-> Tail(s.queue) \o InPlanOrder(plan, freed),
      indegree |-> [t \in Ids(plan) |->
                      IF t \in dependents THEN s.indegree[t] - 1 ELSE s.indegree[t]],
      order    |-> Append(s.order, Subtask(plan, id))]

SortStart(plan) ==
  [queue    |-> InPlanOrder(plan, {id \in Ids(plan) : Subtask(plan, id).deps = {}}),
   indegree |-> [id \in Ids(plan) |-> Cardinality(Subtask(plan, id).deps)],
   order    |-> << >>]

(* The state of the loop after each turn; a plan takes no more than it has *)
(* subtasks.                                                               *)
Turns(plan) ==
  LET turn[n \in 0 .. Len(plan)] ==
        IF n = 0 THEN SortStart(plan) ELSE Visit(plan, turn[n - 1])
  IN turn

(* Mutant: a cycle goes unnoticed; what could be sorted is run.            *)
TopoSortPartial(plan) == Turns(plan)[Len(plan)].order

TopoSort(plan) ==
  LET sorted == Turns(plan)[Len(plan)].order
  IN IF Len(sorted) = Len(plan) THEN sorted ELSE Rejected

-----------------------------------------------------------------------------
(* What sorting is about.                                                  *)

(* A plan can be executed when its subtasks can be ranked so that each one *)
(* ranks above those it depends on.                                        *)
Executable(plan) ==
  \E rank \in [Ids(plan) -> DOMAIN plan] :
    \A i \in DOMAIN plan : \A d \in plan[i].deps : rank[d] < rank[plan[i].id]

(* An order runs a plan completely, every subtask once and after all it    *)
(* depends on.                                                             *)
Executes(order, plan) ==
  /\ Len(order) = Len(plan)
  /\ {order[i] : i \in DOMAIN order} = {plan[i] : i \in DOMAIN plan}
  /\ \A i \in DOMAIN order : order[i].deps \subseteq {order[j].id : j \in 1 .. i - 1}

=============================================================================

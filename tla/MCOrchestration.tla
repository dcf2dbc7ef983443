--------------------------- MODULE MCOrchestration ---------------------------
(***************************************************************************)
(* Small organizations, plans and pools for the model checker.             *)
(***************************************************************************)
EXTENDS Orchestration

CONSTANTS p1, p2, w1, w2, w3

OneParent == {p1}
TwoParents == {p1, p2}
TwoSlots == {w1, w2}
ThreeSlots == {w1, w2, w3}

S(id, type, deps) == [id |-> id, type |-> type, deps |-> deps]

(* A chain listed out of order, so that sorting matters.                   *)
Chain == <<S("b", "writer", {"a"}), S("a", "researcher", {})>>
(* What a second answer of the model may look like: same ids, other roles. *)
Chain2 == <<S("b", "coder", {}), S("a", "writer", {"b"})>>

(* Subtasks named like a round of the debate.                              *)
OwnReview == {<<S("a", "writer", {}), S("review", "reviewer", {"a"})>>}
OwnRevision == {<<S("rev1", "writer", {}), S("a", "writer", {"rev1"})>>}

ChainAnswer == {Chain}
TwoAnswers == {Chain, Chain2}
ChainOrOwnRound == {Chain} \cup OwnReview

(* Every way two or three subtasks may depend on each other, in two of     *)
(* their orders; then what normalizePlan completes, accepts or rejects: an *)
(* id left out, an id taken twice, an unknown dependency, an agent type    *)
(* nobody has, one that may not be planned, one no agent was hired for.    *)
Pairs == {<<S("b", "writer", d), S("a", "researcher", e)>> : d, e \in SUBSET {"a", "b"}}
Triples == {<<S("b", "writer", d), S("a", "researcher", e), S(NoId, "coder", f)>> :
              d \in {{}, {"a"}, {"s3"}}, e \in {{}, {"s3"}}, f \in {{}, {"a"}, {"a", "b"}}}
Malformed == {<< >>, <<S("a", "writer", {}), S("a", "coder", {})>>, <<S("a", "writer", {"z"})>>,
              <<S("a", "wizard", {})>>, <<S("a", "orchestrator", {})>>}
Unstaffed == {<<S("a", "researcher", {}), S("c", "analyst", {"a"})>>}
AnyAnswer ==
  Pairs \cup Triples \cup Malformed \cup Unstaffed \cup OwnRevision

Everyone == AgentTypes
NoAnalyst == AgentTypes \ {"analyst"}

=============================================================================

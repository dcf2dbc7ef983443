---------------------------- MODULE Planner_proofs ----------------------------
(***************************************************************************)
(* topoSort is correct for every plan, of any length: it gives up exactly  *)
(* on the plans no order can execute, and what it returns runs every       *)
(* subtask once and after all it depends on.  The loop is a recursive      *)
(* function; what it computes is shown by induction over its turns.        *)
(***************************************************************************)
EXTENDS Planner, SequenceTheorems, Induction

-----------------------------------------------------------------------------
(* Plans as normalizePlan accepts them. *)

TasksOf(plan) == [id : Ids(plan), type : AgentTypes, deps : SUBSET Ids(plan)]

WellFormed(plan) ==
  /\ plan \in Seq(TasksOf(plan))
  /\ \A i, j \in DOMAIN plan : plan[i].id = plan[j].id => i = j

(* An id stands for one subtask, and the ids are as many as the subtasks.  *)
LEMMA IdsOfPlan ==
  ASSUME NEW plan, WellFormed(plan)
  PROVE  /\ Len(plan) \in Nat /\ DOMAIN plan = 1 .. Len(plan)
         /\ IsFiniteSet(Ids(plan)) /\ Cardinality(Ids(plan)) = Len(plan)
         /\ \A i \in DOMAIN plan : plan[i].id \in Ids(plan) /\ Subtask(plan, plan[i].id) = plan[i]
         /\ \A id \in Ids(plan) :
              /\ Subtask(plan, id) \in TasksOf(plan) /\ Subtask(plan, id).id = id
              /\ Subtask(plan, id) \in {plan[i] : i \in DOMAIN plan}
              /\ Subtask(plan, id).deps \subseteq Ids(plan)
              /\ IsFiniteSet(Subtask(plan, id).deps)
<1> USE DEF WellFormed
<1>1. Len(plan) \in Nat /\ DOMAIN plan = 1 .. Len(plan) /\ \A i \in DOMAIN plan : plan[i] \in TasksOf(plan)
  BY LenProperties, ElementOfSeq
<1>3. IsFiniteSet(Ids(plan)) /\ Cardinality(Ids(plan)) = Len(plan)
  <2> DEFINE f == [i \in 1 .. Len(plan) |-> plan[i].id]
  <2>1. f \in Bijection(1 .. Len(plan), Ids(plan))
    BY <1>1 DEF Ids, Bijection, Injection, Surjection, IsInjective
  <2>2. ExistsBijection(1 .. Len(plan), Ids(plan)) BY <2>1 DEF ExistsBijection
  <2>3. IsFiniteSet(1 .. Len(plan)) /\ Cardinality(1 .. Len(plan)) = Len(plan)
    <3>1. \A n \in Nat : IsFiniteSet(1 .. n) /\ Cardinality(1 .. n) = n BY FS_Interval
    <3> QED BY <1>1, <3>1
  <2> QED BY <2>2, <2>3, FS_Bijection
<1>4. \A i \in DOMAIN plan : plan[i].id \in Ids(plan) /\ Subtask(plan, plan[i].id) = plan[i]
  BY DEF Ids, Subtask
<1>5. ASSUME NEW id \in Ids(plan)
      PROVE  /\ Subtask(plan, id) \in TasksOf(plan) /\ Subtask(plan, id).id = id
             /\ Subtask(plan, id) \in {plan[i] : i \in DOMAIN plan}
             /\ Subtask(plan, id).deps \subseteq Ids(plan)
             /\ IsFiniteSet(Subtask(plan, id).deps)
  <2>1. PICK i \in DOMAIN plan : plan[i].id = id BY DEF Ids
  <2>2. Subtask(plan, id) = plan[i] BY <2>1, <1>4
  <2>3. plan[i].deps \subseteq Ids(plan) BY <1>1 DEF TasksOf
  <2> QED BY <1>1, <1>3, <2>1, <2>2, <2>3, FS_Subset
<1> QED BY <1>1, <1>3, <1>4, <1>5

-----------------------------------------------------------------------------
(* The sequence the plan's ids are filtered into. *)

FilteredUpTo(plan, chosen, m, g) ==
  g = [n \in 0 .. m |->
         IF n = 0 THEN << >>
         ELSE IF plan[n].id \in chosen THEN Append(g[n - 1], plan[n].id)
         ELSE g[n - 1]]

(* The recursion of InPlanOrder is defined at every length.                *)
LEMMA FilterExists ==
  ASSUME NEW plan, NEW chosen, NEW m \in Nat
  PROVE  \E g : FilteredUpTo(plan, chosen, m, g)
<1> DEFINE S == {k \in Nat : \E g : FilteredUpTo(plan, chosen, k, g)}
<1>1. 0 \in S
  <2>1. FilteredUpTo(plan, chosen, 0, [n \in 0 .. 0 |-> << >>]) BY DEF FilteredUpTo
  <2> QED BY <2>1
<1>2. ASSUME NEW k \in Nat, k \in S PROVE k + 1 \in S
  <2>1. PICK g : FilteredUpTo(plan, chosen, k, g) BY <1>2
  <2> DEFINE h == [n \in 0 .. k + 1 |->
                     IF n <= k THEN g[n]
                     ELSE IF plan[n].id \in chosen THEN Append(g[k], plan[n].id) ELSE g[k]]
  <2>2. FilteredUpTo(plan, chosen, k + 1, h)
    <3> SUFFICES ASSUME NEW n \in 0 .. k + 1
                 PROVE  h[n] = IF n = 0 THEN << >>
                               ELSE IF plan[n].id \in chosen THEN Append(h[n - 1], plan[n].id)
                               ELSE h[n - 1]
      BY DEF FilteredUpTo
    <3>1. CASE n = 0 BY <2>1, <3>1 DEF FilteredUpTo
    <3>2. CASE n \in 1 .. k
      <4>1. n - 1 \in 0 .. k /\ n \in 0 .. k /\ n # 0 BY <3>2
      <4>2. h[n] = g[n] /\ h[n - 1] = g[n - 1] BY <4>1
      <4> QED BY <2>1, <4>1, <4>2 DEF FilteredUpTo
    <3>3. CASE n = k + 1
      <4>1. n - 1 = k /\ h[n - 1] = g[k] BY <3>3
      <4> QED BY <3>3, <4>1
    <3> QED BY <3>1, <3>2, <3>3
  <2> QED BY <2>2
<1> HIDE DEF S
<1>3. m \in S BY <1>1, <1>2, NumberInduction
<1> QED BY <1>3 DEF S

(* It lists each id that is chosen once, and no other.                     *)
LEMMA FilterRight ==
  ASSUME NEW plan, WellFormed(plan), NEW chosen, chosen \subseteq Ids(plan)
  PROVE  LET q == InPlanOrder(plan, chosen)
         IN  /\ q \in Seq(Ids(plan))
             /\ {q[i] : i \in 1 .. Len(q)} = chosen
             /\ \A i, j \in 1 .. Len(q) : q[i] = q[j] => i = j
<1> DEFINE g == CHOOSE g : FilteredUpTo(plan, chosen, Len(plan), g)
           listed(n) == {plan[i].id : i \in 1 .. n} \cap chosen
           Good(n) == /\ g[n] \in Seq(Ids(plan))
                      /\ {g[n][i] : i \in 1 .. Len(g[n])} = listed(n)
                      /\ \A i, j \in 1 .. Len(g[n]) : g[n][i] = g[n][j] => i = j
           S == {n \in 0 .. Len(plan) : Good(n)}
<1>1. Len(plan) \in Nat /\ DOMAIN plan = 1 .. Len(plan)
      /\ \A i \in DOMAIN plan : plan[i].id \in Ids(plan)
  BY IdsOfPlan
<1>2. FilteredUpTo(plan, chosen, Len(plan), g) BY <1>1, FilterExists
<1>3. InPlanOrder(plan, chosen) = g[Len(plan)] BY DEF InPlanOrder, FilteredUpTo
<1> HIDE DEF g
<1>4. 0 \in S
  <2>1. g[0] = << >> BY <1>1, <1>2 DEF FilteredUpTo
  <2>2. listed(0) = {} OBVIOUS
  <2>3. << >> \in Seq(Ids(plan)) /\ Len(<< >>) = 0 BY EmptySeq
  <2> HIDE DEF listed
  <2>4. Good(0) BY <2>1, <2>2, <2>3
  <2> QED BY <1>1, <2>4
<1>5. ASSUME NEW n \in 0 .. Len(plan) - 1, n \in S PROVE n + 1 \in S
  <2> DEFINE id == plan[n + 1].id
  <2>1. n + 1 \in DOMAIN plan /\ n \in Nat /\ n + 1 \in 0 .. Len(plan) BY <1>1
  <2>2. id \in Ids(plan) BY <1>1, <2>1
  <2>3. listed(n + 1) = listed(n) \cup ({id} \cap chosen)
    <3>1. 1 .. n + 1 = 1 .. n \cup {n + 1} BY <2>1
    <3> QED BY <3>1
  <2>4. id \notin listed(n) BY <1>1, <2>1 DEF WellFormed
  <2>5. g[n + 1] = IF id \in chosen THEN Append(g[n], id) ELSE g[n]
    <3>1. n + 1 # 0 /\ (n + 1) - 1 = n BY <2>1
    <3> QED BY <1>2, <2>1, <3>1 DEF FilteredUpTo
  <2>6. Good(n) BY <1>5
  <2>7. CASE id \notin chosen
    <3>1. listed(n + 1) = listed(n) /\ g[n + 1] = g[n] BY <2>3, <2>5, <2>7
    <3> HIDE DEF listed
    <3> QED BY <2>1, <2>6, <3>1
  <2>8. CASE id \in chosen
    <3> DEFINE q == g[n]  r == Append(q, id)
    <3>1. q \in Seq(Ids(plan)) /\ {q[i] : i \in 1 .. Len(q)} = listed(n)
          /\ \A i, j \in 1 .. Len(q) : q[i] = q[j] => i = j
      BY <2>6
    <3>2. g[n + 1] = r BY <2>5, <2>8
    <3> HIDE DEF q, listed
    <3>3. r \in Seq(Ids(plan)) /\ Len(r) = Len(q) + 1 /\ Len(q) \in Nat
          /\ (\A i \in 1 .. Len(q) : r[i] = q[i]) /\ r[Len(q) + 1] = id
      BY <2>2, <3>1, AppendProperties, LenProperties
    <3> HIDE DEF r
    <3>4. 1 .. Len(r) = 1 .. Len(q) \cup {Len(q) + 1} BY <3>3
    <3>5. \A i \in 1 .. Len(q) : r[i] # id /\ r[i] \in listed(n) BY <2>4, <3>1, <3>3
    <3>6. {r[i] : i \in 1 .. Len(r)} = listed(n) \cup {id}
      <4>1. {r[i] : i \in 1 .. Len(r)} = {r[i] : i \in 1 .. Len(q)} \cup {r[Len(q) + 1]} BY <3>4
      <4>2. {r[i] : i \in 1 .. Len(q)} = {q[i] : i \in 1 .. Len(q)} BY <3>3
      <4> QED BY <3>1, <3>3, <4>1, <4>2
    <3>7. \A i, j \in 1 .. Len(r) : r[i] = r[j] => i = j BY <3>1, <3>3, <3>4, <3>5
    <3> QED BY <2>1, <2>3, <2>8, <3>2, <3>3, <3>6, <3>7
  <2> QED BY <2>7, <2>8
<1> HIDE DEF S
<1>6. Len(plan) \in S
  <2>1. \A n \in 0 .. Len(plan) - 1 : n \in S => n + 1 \in S BY <1>5
  <2>2. 0 .. Len(plan) \subseteq S BY <1>1, <1>4, <2>1, InductionUpTo
  <2> QED BY <1>1, <2>2
<1>7. Good(Len(plan)) BY <1>6 DEF S
<1>8. listed(Len(plan)) = chosen BY <1>1 DEF Ids
<1> QED BY <1>3, <1>7, <1>8

-----------------------------------------------------------------------------
(* The loop *)

Sorted(s) == {s.order[i].id : i \in 1 .. Len(s.order)}
Waiting(s) == {s.queue[i] : i \in 1 .. Len(s.queue)}
Deps(plan, id) == Subtask(plan, id).deps

SortTypeOK(plan, s) ==
  /\ s.order \in Seq(TasksOf(plan)) /\ s.queue \in Seq(Ids(plan)) /\ s.indegree \in [Ids(plan) -> Nat]
  /\ \A i \in 1 .. Len(s.order) : s.order[i] \in {plan[k] : k \in DOMAIN plan}
  /\ Waiting(s) \subseteq Ids(plan)

(* Nothing is sorted or queued twice.                                      *)
NoneTwice(s) ==
  /\ \A i, j \in 1 .. Len(s.order) : s.order[i].id = s.order[j].id => i = j
  /\ \A i, j \in 1 .. Len(s.queue) : s.queue[i] = s.queue[j] => i = j
  /\ Sorted(s) \cap Waiting(s) = {}

(* The counters count the dependencies that are not sorted yet, and what   *)
(* waits for none of them is sorted or queued.                             *)
CountersRight(plan, s) ==
  \A id \in Ids(plan) :
    /\ s.indegree[id] = Cardinality(Deps(plan, id) \ Sorted(s))
    /\ id \in Sorted(s) \cup Waiting(s) <=> Deps(plan, id) \subseteq Sorted(s)

DepsBefore(order) ==
  \A i \in 1 .. Len(order) : order[i].deps \subseteq {order[j].id : j \in 1 .. i - 1}

(* After n turns n subtasks are sorted, or none is left to be.             *)
SortInv(plan, s, n) ==
  /\ SortTypeOK(plan, s) /\ NoneTwice(s) /\ CountersRight(plan, s) /\ DepsBefore(s.order)
  /\ Len(s.order) = n \/ s.queue = << >>

LEMMA SortStarts ==
  ASSUME NEW plan, WellFormed(plan)
  PROVE  SortInv(plan, SortStart(plan), 0)
<1> DEFINE roots == {id \in Ids(plan) : Subtask(plan, id).deps = {}}
           s == SortStart(plan)
<1>1. s.order = << >> /\ Len(s.order) = 0 /\ s.order \in Seq(TasksOf(plan)) BY EmptySeq DEF SortStart
<1>2. s.queue \in Seq(Ids(plan)) /\ Waiting(s) = roots
      /\ \A i, j \in 1 .. Len(s.queue) : s.queue[i] = s.queue[j] => i = j
  <2>1. s.queue = InPlanOrder(plan, roots) BY DEF SortStart
  <2>2. roots \subseteq Ids(plan) OBVIOUS
  <2> HIDE DEF s, roots
  <2>3. /\ InPlanOrder(plan, roots) \in Seq(Ids(plan))
        /\ {InPlanOrder(plan, roots)[i] : i \in 1 .. Len(InPlanOrder(plan, roots))} = roots
        /\ \A i, j \in 1 .. Len(InPlanOrder(plan, roots)) :
             InPlanOrder(plan, roots)[i] = InPlanOrder(plan, roots)[j] => i = j
    BY <2>2, FilterRight
  <2> QED BY <2>1, <2>3 DEF Waiting
<1>3. Sorted(s) = {} BY <1>1 DEF Sorted
<1>4. \A id \in Ids(plan) : s.indegree[id] = Cardinality(Deps(plan, id)) BY DEF SortStart, Deps
<1>5. s.indegree \in [Ids(plan) -> Nat]
  <2>1. \A id \in Ids(plan) : Cardinality(Subtask(plan, id).deps) \in Nat
    BY IdsOfPlan, FS_CardinalityType
  <2> QED BY <2>1 DEF SortStart
<1> HIDE DEF s
<1>6. SortTypeOK(plan, s) BY <1>1, <1>2, <1>5 DEF SortTypeOK
<1>7. NoneTwice(s) BY <1>1, <1>2, <1>3 DEF NoneTwice
<1>8. CountersRight(plan, s)
  <2> SUFFICES ASSUME NEW id \in Ids(plan)
               PROVE  /\ s.indegree[id] = Cardinality(Deps(plan, id) \ Sorted(s))
                      /\ id \in Sorted(s) \cup Waiting(s) <=> Deps(plan, id) \subseteq Sorted(s)
    BY DEF CountersRight
  <2>1. Deps(plan, id) \ Sorted(s) = Deps(plan, id) BY <1>3
  <2> QED BY <1>2, <1>3, <1>4, <2>1 DEF Deps
<1>9. DepsBefore(s.order) BY <1>1 DEF DepsBefore
<1> QED BY <1>1, <1>6, <1>7, <1>8, <1>9 DEF SortInv, s

(* Taking the head and adding what was not there before repeats nothing.   *)
LEMMA HeadAndTail ==
  ASSUME NEW S, NEW a \in Seq(S), a # << >>
  PROVE  /\ Len(a) \in Nat \ {0} /\ Head(a) = a[1] /\ Head(a) \in S
         /\ Tail(a) \in Seq(S) /\ Len(Tail(a)) = Len(a) - 1
         /\ \A i \in 1 .. Len(a) - 1 : Tail(a)[i] = a[i + 1]
<1>1. Len(a) \in Nat \ {0} BY EmptySeq
<1>2. Head(a) = a[1] BY <1>1
<1> QED BY <1>1, <1>2, HeadTailProperties

LEMMA QueueMoves ==
  ASSUME NEW S, NEW a \in Seq(S), a # << >>, NEW b \in Seq(S),
         \A i, j \in 1 .. Len(a) : a[i] = a[j] => i = j,
         \A i, j \in 1 .. Len(b) : b[i] = b[j] => i = j,
         {a[i] : i \in 1 .. Len(a)} \cap {b[i] : i \in 1 .. Len(b)} = {}
  PROVE  LET c == Tail(a) \o b
         IN  /\ c \in Seq(S)
             /\ {c[i] : i \in 1 .. Len(c)} =
                  ({a[i] : i \in 1 .. Len(a)} \ {a[1]}) \cup {b[i] : i \in 1 .. Len(b)}
             /\ \A i, j \in 1 .. Len(c) : c[i] = c[j] => i = j
<1> DEFINE m == Len(a) - 1
           n == Len(b)
           c == Tail(a) \o b
<1>1. /\ Len(a) \in Nat \ {0} /\ Tail(a) \in Seq(S) /\ Len(Tail(a)) = m
      /\ \A i \in 1 .. m : Tail(a)[i] = a[i + 1]
  BY HeadAndTail
<1>2. m \in Nat /\ n \in Nat /\ 1 .. Len(a) = 1 .. m + 1 BY <1>1, LenProperties
<1>3. /\ c \in Seq(S) /\ Len(c) = m + n
      /\ \A i \in 1 .. m + n : c[i] = IF i <= m THEN Tail(a)[i] ELSE b[i - m]
  <2>1. /\ c \in Seq(S) /\ Len(c) = Len(Tail(a)) + Len(b)
        /\ \A i \in 1 .. Len(Tail(a)) + Len(b) :
             c[i] = IF i <= Len(Tail(a)) THEN Tail(a)[i] ELSE b[i - Len(Tail(a))]
    BY <1>1, ConcatProperties
  <2> QED BY <1>1, <2>1
<1> HIDE DEF m, n, c
<1>4. \A i \in 1 .. m : c[i] = a[i + 1] /\ i + 1 \in 1 .. m + 1 /\ i + 1 # 1
  BY <1>1, <1>2, <1>3
<1>5. \A i \in m + 1 .. m + n : c[i] = b[i - m] /\ i - m \in 1 .. n BY <1>2, <1>3
<1>6. 1 .. m + n = 1 .. m \cup m + 1 .. m + n BY <1>2
<1>7. ASSUME NEW i \in 1 .. m PROVE c[i] \in {a[k] : k \in 1 .. m + 1} \ {a[1]}
  <2>1. c[i] = a[i + 1] /\ i + 1 \in 1 .. Len(a) /\ 1 \in 1 .. Len(a) /\ i + 1 # 1
    BY <1>1, <1>2, <1>4
  <2>2. a[i + 1] # a[1] BY <2>1
  <2> QED BY <1>2, <2>1, <2>2
<1>8. \A i \in m + 1 .. m + n : c[i] \in {b[k] : k \in 1 .. n} BY <1>5
<1>9. \A k \in 1 .. m + 1 : a[k] # a[1] => \E i \in 1 .. m : c[i] = a[k]
  <2> SUFFICES ASSUME NEW k \in 1 .. m + 1, a[k] # a[1] PROVE \E i \in 1 .. m : c[i] = a[k]
    OBVIOUS
  <2>1. k - 1 \in 1 .. m /\ (k - 1) + 1 = k BY <1>2
  <2> QED BY <1>4, <2>1
<1>10. \A k \in 1 .. n : \E i \in m + 1 .. m + n : c[i] = b[k]
  <2> SUFFICES ASSUME NEW k \in 1 .. n PROVE \E i \in m + 1 .. m + n : c[i] = b[k]
    OBVIOUS
  <2>1. k + m \in m + 1 .. m + n /\ (k + m) - m = k BY <1>2
  <2> QED BY <1>5, <2>1
<1>11. {c[i] : i \in 1 .. m + n} =
         ({a[i] : i \in 1 .. m + 1} \ {a[1]}) \cup {b[i] : i \in 1 .. n}
  <2>1. \A i \in 1 .. m + n :
          c[i] \in ({a[k] : k \in 1 .. m + 1} \ {a[1]}) \cup {b[k] : k \in 1 .. n}
    BY <1>6, <1>7, <1>8
  <2>2. 1 .. m \subseteq 1 .. m + n /\ m + 1 .. m + n \subseteq 1 .. m + n BY <1>2
  <2>3. \A x \in {a[k] : k \in 1 .. m + 1} \ {a[1]} : \E i \in 1 .. m + n : c[i] = x
    BY <1>9, <2>2
  <2>4. \A x \in {b[k] : k \in 1 .. n} : \E i \in 1 .. m + n : c[i] = x BY <1>10, <2>2
  <2> DEFINE A == {a[k] : k \in 1 .. m + 1} \ {a[1]}
             B == {b[k] : k \in 1 .. n}
             C == {c[i] : i \in 1 .. m + n}
  <2>5. C \subseteq A \cup B BY <2>1
  <2>6. A \subseteq C BY <2>3
  <2>7. B \subseteq C BY <2>4
  <2> QED BY <2>5, <2>6, <2>7
<1>12. ASSUME NEW i \in 1 .. m + n, NEW j \in 1 .. m + n, c[i] = c[j] PROVE i = j
  <2>1. CASE i \in 1 .. m /\ j \in 1 .. m
    <3>1. i + 1 = j + 1 BY <1>2, <1>4, <1>12, <2>1
    <3> QED BY <3>1
  <2>2. CASE i \in m + 1 .. m + n /\ j \in m + 1 .. m + n
    <3>1. i - m = j - m BY <1>5, <1>12, <2>2 DEF n
    <3> QED BY <1>2, <2>2, <3>1
  <2>3. \A x \in 1 .. m, y \in m + 1 .. m + n : c[x] # c[y] BY <1>2, <1>7, <1>8 DEF n
  <2> QED BY <1>6, <1>12, <2>1, <2>2, <2>3
<1> QED BY <1>2, <1>3, <1>11, <1>12 DEF c, n

(* One turn.                                                               *)
LEMMA VisitKeeps ==
  ASSUME NEW plan, WellFormed(plan), NEW s, NEW n \in Nat, SortInv(plan, s, n)
  PROVE  SortInv(plan, Visit(plan, s), n + 1)
<1> DEFINE v == Visit(plan, s)
<1>1. CASE s.queue = << >> BY <1>1 DEF Visit, SortInv
<1>2. CASE s.queue # << >>
  <2> DEFINE id == Head(s.queue)
             task == Subtask(plan, id)
             freed == {t \in {t \in Ids(plan) : id \in Subtask(plan, t).deps} : s.indegree[t] = 1}
             q == InPlanOrder(plan, freed)
  <2>0. /\ s.order \in Seq(TasksOf(plan)) /\ s.queue \in Seq(Ids(plan)) /\ s.indegree \in [Ids(plan) -> Nat]
        /\ \A i \in 1 .. Len(s.order) : s.order[i] \in {plan[k] : k \in DOMAIN plan}
        /\ Waiting(s) \subseteq Ids(plan)
        /\ NoneTwice(s) /\ CountersRight(plan, s) /\ DepsBefore(s.order)
        /\ Len(s.order) = n
    BY <1>2 DEF SortInv, SortTypeOK
  <2>1. v = [queue |-> Tail(s.queue) \o q,
             indegree |-> [t \in Ids(plan) |->
               IF t \in {t_1 \in Ids(plan) : id \in Subtask(plan, t_1).deps}
               THEN s.indegree[t] - 1 ELSE s.indegree[t]],
             order |-> Append(s.order, task)]
    BY <1>2 DEF Visit
  <2>2. Len(s.queue) \in Nat \ {0} /\ Len(s.order) \in Nat /\ id = s.queue[1]
    BY <1>2, <2>0, HeadAndTail
  <2>3. id \in Ids(plan) /\ id \in Waiting(s) /\ id \notin Sorted(s)
    BY <2>0, <2>2 DEF Waiting, NoneTwice
  <2>4. task \in TasksOf(plan) /\ task.id = id /\ task \in {plan[k] : k \in DOMAIN plan}
        /\ task.deps \subseteq Sorted(s)
    BY <2>0, <2>2, <2>3, IdsOfPlan, ZenonT(40) DEF CountersRight, Deps, Waiting, NoneTwice
  <2>5. \A t \in Ids(plan) : IsFiniteSet(Deps(plan, t) \ Sorted(s))
    <3>1. \A t \in Ids(plan) : IsFiniteSet(Deps(plan, t)) BY IdsOfPlan DEF Deps
    <3> QED BY <3>1, FS_Difference
  <2>6. \A t \in Ids(plan) : t \in freed <=> Deps(plan, t) \ Sorted(s) = {id}
    <3> SUFFICES ASSUME NEW t \in Ids(plan)
                 PROVE  t \in freed <=> Deps(plan, t) \ Sorted(s) = {id}
      OBVIOUS
    <3>1. s.indegree[t] = Cardinality(Deps(plan, t) \ Sorted(s)) BY <2>0 DEF CountersRight
    <3>2. s.indegree[t] = 1 <=> \E x : Deps(plan, t) \ Sorted(s) = {x}
      BY <2>5, <3>1, FS_Singleton
    <3>3. t \in freed <=> id \in Deps(plan, t) /\ s.indegree[t] = 1 BY DEF Deps
    <3> HIDE DEF id, freed
    <3> QED BY <2>3, <3>2, <3>3
  <2>7. q \in Seq(Ids(plan)) /\ {q[i] : i \in 1 .. Len(q)} = freed /\ Len(q) \in Nat
        /\ \A i, j \in 1 .. Len(q) : q[i] = q[j] => i = j
    <3>1. freed \subseteq Ids(plan) OBVIOUS
    <3> HIDE DEF freed
    <3> QED BY <3>1, FilterRight, LenProperties
  <2> HIDE DEF id, task, freed, q, v
  <2>8. /\ v.order \in Seq(TasksOf(plan)) /\ Len(v.order) = Len(s.order) + 1
        /\ (\A i \in 1 .. Len(s.order) : v.order[i] = s.order[i])
        /\ v.order[Len(s.order) + 1] = task
    <3> DEFINE T == TasksOf(plan)
    <3>1. s.order \in Seq(T) /\ task \in T BY <2>0, <2>4
    <3>2. v.order = Append(s.order, task) BY <2>1
    <3> HIDE DEF T
    <3>3. Append(s.order, task) \in Seq(T) /\ Len(Append(s.order, task)) = Len(s.order) + 1
          /\ (\A i \in 1 .. Len(s.order) : Append(s.order, task)[i] = s.order[i])
          /\ Append(s.order, task)[Len(s.order) + 1] = task
      BY <3>1, AppendProperties
    <3>4. v.order \in Seq(T) BY <3>2, <3>3
    <3> QED BY <3>2, <3>3, <3>4 DEF T
  <2>9. 1 .. Len(v.order) = 1 .. Len(s.order) \cup {Len(s.order) + 1} BY <2>2, <2>8
  <2>10. Sorted(v) = Sorted(s) \cup {id}
    <3>1. {v.order[i].id : i \in 1 .. Len(s.order)} = Sorted(s) BY <2>8 DEF Sorted
    <3> QED BY <2>4, <2>8, <2>9, <3>1 DEF Sorted
  <2>11. freed \cap (Sorted(s) \cup Waiting(s)) = {} /\ freed \subseteq Ids(plan)
    <3>1. freed \subseteq Ids(plan) BY DEF freed
    <3>2. \A t \in freed : ~ (Deps(plan, t) \subseteq Sorted(s)) BY <2>3, <2>6, <3>1
    <3> QED BY <2>0, <3>1, <3>2 DEF CountersRight
  <2>12. /\ v.queue \in Seq(Ids(plan)) /\ Waiting(v) = (Waiting(s) \ {id}) \cup freed
         /\ \A i, j \in 1 .. Len(v.queue) : v.queue[i] = v.queue[j] => i = j
    <3>1. v.queue = Tail(s.queue) \o q BY <2>1
    <3>2. {s.queue[i] : i \in 1 .. Len(s.queue)} \cap {q[i] : i \in 1 .. Len(q)} = {}
      BY <2>7, <2>11 DEF Waiting
    <3>3. \A i, j \in 1 .. Len(s.queue) : s.queue[i] = s.queue[j] => i = j BY <2>0, <2>0 DEF NoneTwice
    <3> DEFINE w == Tail(s.queue) \o q
    <3>4. /\ w \in Seq(Ids(plan))
          /\ {w[i] : i \in 1 .. Len(w)} =
               ({s.queue[i] : i \in 1 .. Len(s.queue)} \ {s.queue[1]}) \cup {q[i] : i \in 1 .. Len(q)}
          /\ \A i, j \in 1 .. Len(w) : w[i] = w[j] => i = j
      BY <1>2, <2>0, <2>7, <3>2, <3>3, QueueMoves
    <3> HIDE DEF w
    <3>5. v.queue = w BY <3>1 DEF w
    <3>6. {w[i] : i \in 1 .. Len(w)} = (Waiting(s) \ {id}) \cup freed BY <2>2, <2>7, <3>4 DEF Waiting
    <3> QED BY <3>4, <3>5, <3>6 DEF Waiting
  <2>13. \A t \in Ids(plan) : v.indegree[t] \in Nat
                            /\ v.indegree[t] = Cardinality(Deps(plan, t) \ Sorted(v))
    <3> SUFFICES ASSUME NEW t \in Ids(plan)
                 PROVE  /\ v.indegree[t] \in Nat
                        /\ v.indegree[t] = Cardinality(Deps(plan, t) \ Sorted(v))
      OBVIOUS
    <3> DEFINE left == Deps(plan, t) \ Sorted(s)
    <3>1. Deps(plan, t) \ Sorted(v) = left \ {id} BY <2>10
    <3>2. v.indegree[t] = IF id \in Deps(plan, t) THEN s.indegree[t] - 1 ELSE s.indegree[t]
      BY <2>1 DEF Deps
    <3>3. s.indegree[t] = Cardinality(left) /\ IsFiniteSet(left) BY <2>5, <2>0 DEF CountersRight
    <3>4. id \in Deps(plan, t) <=> id \in left BY <2>3
    <3> HIDE DEF left
    <3>5. IsFiniteSet(left \ {id})
          /\ Cardinality(left \ {id}) = IF id \in left THEN Cardinality(left) - 1 ELSE Cardinality(left)
      BY <3>3, FS_RemoveElement
    <3>6. Cardinality(left \ {id}) \in Nat BY <3>5, FS_CardinalityType
    <3> QED BY <3>1, <3>2, <3>3, <3>4, <3>5, <3>6
  <2>14. SortTypeOK(plan, v)
    <3>1. \A i \in 1 .. Len(v.order) : v.order[i] \in {plan[k] : k \in DOMAIN plan}
      BY <2>0, <2>4, <2>8, <2>9
    <3>2. v.indegree \in [Ids(plan) -> Nat] BY <2>1, <2>13
    <3> QED BY <2>0, <2>8, <2>11, <2>12, <3>1, <3>2 DEF SortTypeOK
  <2>15. NoneTwice(v)
    <3>1. \A i \in 1 .. Len(s.order) : v.order[i].id \in Sorted(s) BY <2>8 DEF Sorted
    <3>2. \A i, j \in 1 .. Len(v.order) : v.order[i].id = v.order[j].id => i = j
      BY <2>3, <2>4, <2>8, <2>9, <3>1, <2>0 DEF NoneTwice
    <3> QED BY <2>3, <2>10, <2>11, <2>12, <3>2, <2>0 DEF NoneTwice
  <2>16. CountersRight(plan, v)
    <3> SUFFICES ASSUME NEW t \in Ids(plan)
                 PROVE  t \in Sorted(v) \cup Waiting(v) <=> Deps(plan, t) \subseteq Sorted(v)
      BY <2>13, <2>0 DEF CountersRight
    <3>1. t \in Sorted(v) \cup Waiting(v) <=> t \in Sorted(s) \cup Waiting(s) \cup freed
      BY <2>3, <2>10, <2>12
    <3>2. t \in Sorted(s) \cup Waiting(s) <=> Deps(plan, t) \subseteq Sorted(s) BY <2>0 DEF CountersRight
    <3> QED BY <2>3, <2>6, <2>10, <3>1, <3>2
  <2>17. DepsBefore(v.order)
    <3> SUFFICES ASSUME NEW i \in 1 .. Len(v.order)
                 PROVE  v.order[i].deps \subseteq {v.order[j].id : j \in 1 .. i - 1}
      BY DEF DepsBefore
    <3>1. CASE i \in 1 .. Len(s.order)
      <4>1. s.order[i].deps \subseteq {s.order[j].id : j \in 1 .. i - 1} BY <2>0, <3>1 DEF DepsBefore
      <4>2. \A j \in 1 .. i - 1 : v.order[j] = s.order[j] BY <2>2, <2>8, <3>1
      <4>3. v.order[i] = s.order[i] BY <2>8, <3>1
      <4> QED BY <4>1, <4>2, <4>3
    <3>2. CASE i = Len(s.order) + 1
      <4>1. i - 1 = Len(s.order) BY <2>2, <3>2
      <4>2. Sorted(s) = {v.order[j].id : j \in 1 .. i - 1} BY <2>8, <4>1 DEF Sorted
      <4>3. v.order[i] = task BY <2>8, <3>2
      <4> QED BY <2>4, <4>2, <4>3
    <3> QED BY <2>9, <3>1, <3>2
  <2>18. Len(v.order) = n + 1 BY <2>0, <2>8
  <2> QED BY <2>14, <2>15, <2>16, <2>17, <2>18 DEF v, SortInv
<1> QED BY <1>1, <1>2

-----------------------------------------------------------------------------
(* All turns *)

TurnsUpTo(plan, m, g) ==
  g = [n \in 0 .. m |-> IF n = 0 THEN SortStart(plan) ELSE Visit(plan, g[n - 1])]

(* The recursion of Turns is defined at every length.                      *)
LEMMA TurnsExist ==
  ASSUME NEW plan, NEW m \in Nat
  PROVE  \E g : TurnsUpTo(plan, m, g)
<1> DEFINE S == {k \in Nat : \E g : TurnsUpTo(plan, k, g)}
<1>1. 0 \in S
  <2>1. TurnsUpTo(plan, 0, [n \in 0 .. 0 |-> SortStart(plan)]) BY DEF TurnsUpTo
  <2> QED BY <2>1
<1>2. ASSUME NEW k \in Nat, k \in S PROVE k + 1 \in S
  <2>1. PICK g : TurnsUpTo(plan, k, g) BY <1>2
  <2> DEFINE h == [n \in 0 .. k + 1 |-> IF n <= k THEN g[n] ELSE Visit(plan, g[k])]
  <2>2. TurnsUpTo(plan, k + 1, h)
    <3> SUFFICES ASSUME NEW n \in 0 .. k + 1
                 PROVE  h[n] = IF n = 0 THEN SortStart(plan) ELSE Visit(plan, h[n - 1])
      BY DEF TurnsUpTo
    <3>1. CASE n = 0 BY <2>1, <3>1 DEF TurnsUpTo
    <3>2. CASE n \in 1 .. k
      <4>1. n - 1 \in 0 .. k /\ n \in 0 .. k /\ n # 0 BY <3>2
      <4>2. h[n] = g[n] /\ h[n - 1] = g[n - 1] BY <4>1
      <4> QED BY <2>1, <4>1, <4>2 DEF TurnsUpTo
    <3>3. CASE n = k + 1
      <4>1. n - 1 = k /\ h[n - 1] = g[k] BY <3>3
      <4> QED BY <3>3, <4>1
    <3> QED BY <3>1, <3>2, <3>3
  <2> QED BY <2>2
<1> HIDE DEF S
<1>3. m \in S BY <1>1, <1>2, NumberInduction
<1> QED BY <1>3 DEF S

LEMMA SortEnds ==
  ASSUME NEW plan, WellFormed(plan)
  PROVE  SortInv(plan, Turns(plan)[Len(plan)], Len(plan))
<1> DEFINE g == CHOOSE g : TurnsUpTo(plan, Len(plan), g)
           S == {n \in 0 .. Len(plan) : SortInv(plan, g[n], n)}
<1>1. Len(plan) \in Nat BY IdsOfPlan
<1>2. TurnsUpTo(plan, Len(plan), g) BY <1>1, TurnsExist
<1>3. Turns(plan) = g BY DEF Turns, TurnsUpTo
<1> HIDE DEF g
<1>4. 0 \in S
  <2>1. g[0] = SortStart(plan) BY <1>1, <1>2 DEF TurnsUpTo
  <2> QED BY <1>1, <2>1, SortStarts
<1>5. ASSUME NEW n \in 0 .. Len(plan) - 1, n \in S PROVE n + 1 \in S
  <2>1. n \in Nat /\ n + 1 \in 0 .. Len(plan) /\ n + 1 # 0 /\ (n + 1) - 1 = n BY <1>1
  <2>2. g[n + 1] = Visit(plan, g[n]) BY <1>2, <2>1 DEF TurnsUpTo
  <2>3. SortInv(plan, g[n + 1], n + 1) BY <1>5, <2>1, <2>2, VisitKeeps
  <2> QED BY <2>1, <2>3
<1> HIDE DEF S
<1>6. 0 .. Len(plan) \subseteq S
  <2>1. \A n \in 0 .. Len(plan) - 1 : n \in S => n + 1 \in S BY <1>5
  <2> QED BY <1>1, <1>4, <2>1, InductionUpTo
<1> QED BY <1>1, <1>3, <1>6 DEF S

(* What is not sorted at the end waits for something of its kind: below    *)
(* the lowest of it, by any ranking, there would be a lower one.           *)
LEMMA LeftoverIsCyclic ==
  ASSUME NEW plan, WellFormed(plan), NEW R, R \subseteq Ids(plan), R # {},
         \A id \in R : \E d \in Deps(plan, id) : d \in R
  PROVE  ~ Executable(plan)
<1> SUFFICES ASSUME NEW rank \in [Ids(plan) -> DOMAIN plan],
                    \A i \in DOMAIN plan : \A d \in plan[i].deps : rank[d] < rank[plan[i].id]
             PROVE  FALSE
  BY DEF Executable
<1>1. DOMAIN plan \subseteq Nat /\ \A i \in DOMAIN plan : Subtask(plan, plan[i].id) = plan[i]
  BY IdsOfPlan
<1> DEFINE ranks == {rank[id] : id \in R}
<1>2. ranks \subseteq Nat /\ ranks # {} BY <1>1
<1>3. PICK n \in ranks : \A k \in ranks : n <= k
  <2> HIDE DEF ranks
  <2> QED BY <1>2, LeastNumber
<1>4. PICK id \in R : rank[id] = n OBVIOUS
<1>5. PICK d \in Deps(plan, id) : d \in R OBVIOUS
<1>6. PICK i \in DOMAIN plan : plan[i].id = id BY DEF Ids
<1>7. Deps(plan, id) = plan[i].deps BY <1>1, <1>6 DEF Deps
<1>8. rank[d] < rank[id] BY <1>5, <1>6, <1>7
<1>9. rank[d] \in ranks /\ rank[d] \in Nat /\ n \in Nat BY <1>2, <1>5
<1>10. n <= rank[d] BY <1>3, <1>9
<1> QED BY <1>4, <1>8, <1>9, <1>10

(* topoSort of a plan normalizePlan may accept: it throws just if no order *)
(* can execute the plan, and what it returns executes it (planner.ts).     *)
THEOREM TopoSortCorrect ==
  ASSUME NEW plan, WellFormed(plan), plan # << >>
  PROVE  /\ TopoSort(plan) \in Seq(TasksOf(plan))
         /\ IF TopoSort(plan) = Rejected THEN ~ Executable(plan)
            ELSE Executes(TopoSort(plan), plan)
<1> DEFINE s == Turns(plan)[Len(plan)]
           N == Len(plan)
           order == s.order
<1>1. /\ N \in Nat /\ DOMAIN plan = 1 .. N /\ IsFiniteSet(Ids(plan)) /\ Cardinality(Ids(plan)) = N
      /\ \A i \in DOMAIN plan : plan[i].id \in Ids(plan) /\ Subtask(plan, plan[i].id) = plan[i]
  BY IdsOfPlan
<1>2. N # 0 BY LenProperties, EmptySeq DEF WellFormed
<1>3. SortInv(plan, s, N) BY SortEnds
<1>4. TopoSort(plan) = IF Len(order) = N THEN order ELSE << >> BY DEF TopoSort, Rejected
<1> HIDE DEF s, N
<1>5. /\ order \in Seq(TasksOf(plan)) /\ Len(order) \in Nat /\ DOMAIN order = 1 .. Len(order)
      /\ \A i \in 1 .. Len(order) : order[i] \in {plan[k] : k \in DOMAIN plan}
      /\ \A i, j \in 1 .. Len(order) : order[i].id = order[j].id => i = j
  BY <1>3, LenProperties DEF SortInv, SortTypeOK, NoneTwice
<1>6. Sorted(s) \subseteq Ids(plan) /\ IsFiniteSet(Sorted(s)) /\ Cardinality(Sorted(s)) = Len(order)
  <2>1. Sorted(s) \subseteq Ids(plan) BY <1>1, <1>5 DEF Sorted
  <2> DEFINE f == [i \in 1 .. Len(order) |-> order[i].id]
  <2>2. f \in Bijection(1 .. Len(order), Sorted(s))
    BY <1>5 DEF Sorted, Bijection, Injection, Surjection, IsInjective
  <2>3. ExistsBijection(1 .. Len(order), Sorted(s)) BY <2>2 DEF ExistsBijection
  <2>4. \A n \in Nat : IsFiniteSet(1 .. n) /\ Cardinality(1 .. n) = n BY FS_Interval
  <2>5. IsFiniteSet(1 .. Len(order)) /\ Cardinality(1 .. Len(order)) = Len(order) BY <1>5, <2>4
  <2> HIDE DEF order
  <2> QED BY <2>1, <2>3, <2>5, FS_Bijection
<1>7. CASE Len(order) = N
  <2>1. TopoSort(plan) = order BY <1>4, <1>7
  <2>2. order # Rejected BY <1>2, <1>7, EmptySeq DEF Rejected
  <2>3. Sorted(s) = Ids(plan) BY <1>1, <1>6, <1>7, FS_Subset
  <2>4. {order[i] : i \in DOMAIN order} = {plan[i] : i \in DOMAIN plan}
    <3>1. ASSUME NEW k \in DOMAIN plan PROVE plan[k] \in {order[i] : i \in DOMAIN order}
      <4>1. plan[k].id \in Sorted(s) BY <1>1, <2>3
      <4>2. PICK i \in 1 .. Len(order) : order[i].id = plan[k].id BY <4>1 DEF Sorted
      <4>3. PICK j \in DOMAIN plan : order[i] = plan[j] BY <1>5
      <4>4. j = k BY <4>2, <4>3 DEF WellFormed
      <4> QED BY <1>5, <4>3, <4>4
    <3> QED BY <1>5, <3>1
  <2>5. \A i \in DOMAIN order : order[i].deps \subseteq {order[j].id : j \in 1 .. i - 1}
    BY <1>3, <1>5 DEF SortInv, DepsBefore
  <2>6. Executes(order, plan) BY <1>7, <2>4, <2>5 DEF Executes, N
  <2> QED BY <1>5, <2>1, <2>2, <2>6
<1>8. CASE Len(order) # N
  <2>1. TopoSort(plan) = << >> BY <1>4, <1>8
  <2>2. s.queue = << >> BY <1>3, <1>8 DEF SortInv
  <2>3. Waiting(s) = {} BY <2>2, EmptySeq DEF Waiting
  <2> DEFINE R == Ids(plan) \ Sorted(s)
  <2>4. R # {}
    <3>1. Sorted(s) # Ids(plan) BY <1>1, <1>6, <1>8
    <3> QED BY <1>6, <3>1
  <2>5. \A id \in R : ~ (Deps(plan, id) \subseteq Sorted(s))
    BY <1>3, <2>3 DEF SortInv, CountersRight
  <2>6. \A id \in R : Deps(plan, id) \subseteq Ids(plan) BY IdsOfPlan DEF Deps
  <2>7. \A id \in R : \E d \in Deps(plan, id) : d \in R BY <2>5, <2>6
  <2>8. ~ Executable(plan) BY <2>4, <2>7, LeftoverIsCyclic
  <2> QED BY <2>1, <2>8, EmptySeq DEF Rejected
<1> QED BY <1>7, <1>8

=============================================================================

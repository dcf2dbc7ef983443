-------------------------- MODULE ChatThread_proofs --------------------------
(***************************************************************************)
(* Theorems about the chat thread of ChatThread, for any number of runs,   *)
(* of requests under way and of devices, and for any window or budget:     *)
(* prompts and history answers are never inconsistent, and replies are     *)
(* earned, once each and after their questions.                            *)
(***************************************************************************)
EXTENDS ChatThread, SequenceTheorems, TLAPS

-----------------------------------------------------------------------------
(* Windows.                                                                *)

(* t is what is left of s when some of its oldest elements are dropped.    *)
Suffix(t, s) ==
  \E k \in 0..Len(s) :
    /\ Len(t) = Len(s) - k
    /\ \A i \in 1..Len(t) : t[i] = s[i + k]

(* Dropping the k oldest elements leaves a suffix.                         *)
LEMMA DroppingLeavesSuffix ==
  ASSUME NEW s \in Seq(Messages), NEW k \in 0..Len(s), NEW t, t = SubSeq(s, k + 1, Len(s))
  PROVE  /\ t \in Seq(Messages) /\ Suffix(t, s)
         /\ Len(t) = Len(s) - k
         /\ \A i \in 1..Len(t) : t[i] = s[i + k]
<1>1. \A i \in (k + 1)..Len(s) : s[i] \in Messages
  OBVIOUS
<1>2. k + 1 \in Int /\ Len(s) \in Int
  OBVIOUS
<1>3. /\ t \in Seq(Messages)
      /\ Len(t) = IF k + 1 <= Len(s) THEN Len(s) - (k + 1) + 1 ELSE 0
      /\ \A i \in 1..(Len(s) - (k + 1) + 1) : t[i] = s[(k + 1) + i - 1]
  BY <1>1, <1>2, SubSeqProperties
<1>4. Len(t) = Len(s) - k
  BY <1>3
<1>5. \A i \in 1..Len(t) : t[i] = s[i + k]
  BY <1>3, <1>4
<1> QED BY <1>3, <1>4, <1>5 DEF Suffix

(* So do the newest messages and what follows a position.                  *)
LEMMA NewestIsSuffix ==
  ASSUME NEW s \in Seq(Messages), NEW n \in Nat
  PROVE  Newest(n, s) \in Seq(Messages) /\ Suffix(Newest(n, s), s)
<1>1. CASE Len(s) > n
  <2>1. Len(s) - n \in 0..Len(s) /\ Newest(n, s) = SubSeq(s, (Len(s) - n) + 1, Len(s))
    BY <1>1 DEF Newest
  <2> QED BY <2>1, DroppingLeavesSuffix
<1>2. CASE ~ (Len(s) > n)
  <2>1. 0 \in 0..Len(s) /\ Newest(n, s) = SubSeq(s, 0 + 1, Len(s))
    BY <1>2 DEF Newest
  <2> QED BY <2>1, DroppingLeavesSuffix
<1> QED BY <1>1, <1>2

LEMMA AfterIsSuffix ==
  ASSUME NEW s \in Seq(Messages), NEW i \in DOMAIN s
  PROVE  After(s, i) \in Seq(Messages) /\ Suffix(After(s, i), s)
<1>1. i \in 0..Len(s) /\ After(s, i) = SubSeq(s, i + 1, Len(s))
  BY DEF After
<1> QED BY <1>1, DroppingLeavesSuffix

(* A suffix holds nothing the sequence does not.                           *)
LEMMA SuffixHolds ==
  ASSUME NEW s \in Seq(Messages), NEW t \in Seq(Messages), Suffix(t, s), NEW m, In(m, t)
  PROVE  In(m, s)
<1>1. PICK k \in 0..Len(s) : /\ Len(t) = Len(s) - k
                             /\ \A i \in 1..Len(t) : t[i] = s[i + k]
  BY DEF Suffix
<1>2. PICK i \in 1..Len(t) : t[i] = m
  BY DEF In
<1>3. i + k \in 1..Len(s) /\ s[i + k] = m
  BY <1>1, <1>2
<1> QED BY <1>3 DEF In

Ordered(s) ==
  \A i, j \in DOMAIN s : (s[i].role = "agent" /\ s[j] = Question(s[i].run)) => j < i

(* A suffix that holds a question holds its reply, which is younger.       *)
LEMMA SuffixKeepsReply ==
  ASSUME NEW s \in Seq(Messages), NEW t \in Seq(Messages), Suffix(t, s), Ordered(s),
         NEW q \in Runs, In(Question(q), t), In(Reply(q), s)
  PROVE  In(Reply(q), t)
<1>1. PICK k \in 0..Len(s) : /\ Len(t) = Len(s) - k
                             /\ \A i \in 1..Len(t) : t[i] = s[i + k]
  BY DEF Suffix
<1>2. PICK i \in 1..Len(t) : t[i] = Question(q)
  BY DEF In
<1>3. PICK j \in 1..Len(s) : s[j] = Reply(q)
  BY DEF In
<1>4. i + k \in 1..Len(s) /\ s[i + k] = Question(q)
  BY <1>1, <1>2
<1>5. i + k < j
  BY <1>3, <1>4 DEF Ordered, Reply
<1>6. j - k \in 1..Len(t) /\ t[j - k] = s[j]
  BY <1>1, <1>3, <1>5
<1> QED BY <1>3, <1>6 DEF In

(* Replies are younger than their questions in a suffix, too.              *)
LEMMA SuffixOrdered ==
  ASSUME NEW s \in Seq(Messages), NEW t \in Seq(Messages), Suffix(t, s), Ordered(s)
  PROVE  Ordered(t)
<1>1. PICK k \in 0..Len(s) : /\ Len(t) = Len(s) - k
                             /\ \A i \in 1..Len(t) : t[i] = s[i + k]
  BY DEF Suffix
<1> SUFFICES ASSUME NEW i \in 1..Len(t), NEW j \in 1..Len(t),
                    t[i].role = "agent", t[j] = Question(t[i].run)
             PROVE  j < i
  BY DEF Ordered
<1>2. /\ i + k \in 1..Len(s) /\ j + k \in 1..Len(s)
      /\ t[i] = s[i + k] /\ t[j] = s[j + k]
  BY <1>1
<1>3. j + k < i + k
  BY <1>2 DEF Ordered
<1> QED BY <1>3

-----------------------------------------------------------------------------
(* Type correctness.                                                       *)

(* Backfilling keeps a sequence of messages, and adds at most one reply.   *)
LEMMA BackfillTypes ==
  ASSUME thread \in Seq(Messages), NEW r \in Runs
  PROVE  Backfilled(r) \in Seq(Messages) /\ Reported(r) \in Seq(Pendings)
<1>1. Reply(r) \in Messages /\ Question(r) \in Messages
  BY DEF Reply, Question, Messages
<1>2. Append(thread, Reply(r)) \in Seq(Messages)
  BY <1>1
<1>3. CASE row[r] \in {"queued", "failed"}
  <2>1. [run |-> r, status |-> row[r]] \in Pendings
    BY <1>3 DEF Pendings
  <2> QED BY <1>2, <2>1, <1>3 DEF Backfilled, Reported
<1>4. CASE row[r] \notin {"queued", "failed"}
  BY <1>2, <1>4 DEF Backfilled, Reported
<1> QED BY <1>3, <1>4

SendType == [pc : {"idle", "list", "backfill", "append", "create", "done", "cut"},
             todo : Seq(Messages), known : SUBSET Runs]
ReadType == [pc : {"idle", "list", "backfill", "done"}, todo : Seq(Messages),
             known : SUBSET Runs, pending : Seq(Pendings), messages : Seq(Messages)]

(* ThreadTypeOK with the two record types named.                           *)
Typed ==
  /\ thread \in Seq(Messages)
  /\ row \in [Runs -> {"absent", "queued", "succeeded", "failed"}]
  /\ sends \in [Runs -> SendType] /\ reads \in [Readers -> ReadType]
  /\ prompt \in [Runs -> Seq(Messages)]

(* A request goes on to another step, with something else left to do.      *)
LEMMA SendMoves ==
  ASSUME NEW v \in SendType, NEW t \in Seq(Messages),
         NEW p \in {"idle", "list", "backfill", "append", "create", "done", "cut"}
  PROVE  [v EXCEPT !.pc = p, !.todo = t] \in SendType
<1> QED BY DEF SendType

LEMMA InitTypes == ThreadInit => ThreadTypeOK
<1>1. NoSend \in SendType
  BY DEF NoSend, SendType
<1>2. NoRead \in ReadType
  BY DEF NoRead, ReadType
<1> QED BY <1>1, <1>2 DEF ThreadInit, ThreadTypeOK, SendType, ReadType

(* Every step keeps the types.                                             *)
LEMMA StepTypes == ThreadTypeOK /\ [ThreadNext]_threadVars => ThreadTypeOK'
<1> SUFFICES ASSUME Typed, [ThreadNext]_threadVars PROVE Typed'
  BY DEF ThreadTypeOK, Typed, SendType, ReadType
<1>a. /\ thread \in Seq(Messages)
      /\ row \in [Runs -> {"absent", "queued", "succeeded", "failed"}]
      /\ sends \in [Runs -> SendType] /\ reads \in [Readers -> ReadType]
      /\ prompt \in [Runs -> Seq(Messages)]
  BY DEF Typed
<1>c. \A n \in Nat : Newest(n, thread) \in Seq(Messages)
  BY <1>a, NewestIsSuffix
<1>1. ASSUME NEW r \in Runs, SendBegins(r) PROVE Typed'
  BY <1>a, <1>1 DEF Typed, SendBegins, SendType
<1>2. ASSUME NEW r \in Runs, SendLists(r) PROVE Typed'
  <2>1. Newest(PromptWindow, thread) \in Seq(Messages)
    BY <1>c, WindowAssumption
  <2>2. Settled(Newest(PromptWindow, thread)) \in SUBSET Runs
    BY DEF Settled
  <2>3. [pc |-> "backfill", todo |-> Newest(PromptWindow, thread),
         known |-> Settled(Newest(PromptWindow, thread))] \in SendType
    BY <2>1, <2>2 DEF SendType
  <2> QED BY <1>a, <1>2, <2>3 DEF Typed, SendLists
<1>3. ASSUME NEW r \in Runs, SendBackfills(r) PROVE Typed'
  <2>1. PICK i \in DOMAIN sends[r].todo :
          /\ thread' = Backfilled(sends[r].todo[i].run)
          /\ sends' = [sends EXCEPT ![r].todo = After(@, i)]
    BY <1>3 DEF SendBackfills
  <2>2. sends[r] \in SendType /\ sends[r].todo \in Seq(Messages)
    BY <1>a DEF SendType
  <2>3. After(sends[r].todo, i) \in Seq(Messages)
    BY <2>2, AfterIsSuffix
  <2>4. sends[r].todo[i] \in Messages
    BY <2>2
  <2>5. thread' \in Seq(Messages)
    <3>1. sends[r].todo[i].run \in Runs
      BY <2>4 DEF Messages
    <3> QED BY <1>a, <2>1, <3>1, BackfillTypes
  <2>6. sends' \in [Runs -> SendType]
    <3>1. [sends[r] EXCEPT !.todo = After(sends[r].todo, i)] \in SendType
      BY <2>2, <2>3 DEF SendType
    <3> QED BY <1>a, <2>1, <3>1
  <2> QED BY <1>a, <1>3, <2>5, <2>6 DEF Typed, SendBackfills
<1>4. ASSUME NEW r \in Runs, SendRelists(r) PROVE Typed'
  <2> DEFINE fresh == Newest(PromptWindow, thread)
  <2>1. fresh \in Seq(Messages)
    BY <1>c, WindowAssumption
  <2>2. PICK n \in 0..Len(fresh) : prompt' = [prompt EXCEPT ![r] = Newest(n, fresh)]
    BY <1>4 DEF SendRelists
  <2>3. Newest(n, fresh) \in Seq(Messages)
    BY <2>1, NewestIsSuffix
  <2>4. << >> \in Seq(Messages)
    OBVIOUS
  <2>5. sends' \in [Runs -> SendType]
    <3>1. [sends[r] EXCEPT !.pc = "append", !.todo = << >>] \in SendType
      BY <1>a, <2>4, SendMoves
    <3>2. sends' = [sends EXCEPT ![r] = [sends[r] EXCEPT !.pc = "append", !.todo = << >>]]
      BY <1>a, <1>4 DEF SendRelists, SendType
    <3> QED BY <1>a, <3>1, <3>2
  <2> QED BY <1>a, <1>4, <2>2, <2>3, <2>5 DEF Typed, SendRelists
<1>5. ASSUME NEW r \in Runs, SendAppends(r) PROVE Typed'
  <2>1. Question(r) \in Messages
    BY DEF Question, Messages
  <2>2. thread' \in Seq(Messages)
    BY <1>a, <1>5, <2>1 DEF SendAppends
  <2>3. sends' \in [Runs -> SendType]
    BY <1>a, <1>5 DEF SendAppends, SendType
  <2> QED BY <1>a, <1>5, <2>2, <2>3 DEF Typed, SendAppends
<1>6. ASSUME NEW r \in Runs, SendCreatesRun(r) PROVE Typed'
  BY <1>a, <1>6 DEF Typed, SendCreatesRun, SendType
<1>7. ASSUME NEW r \in Runs, SendFails(r) PROVE Typed'
  <2>1. << >> \in Seq(Messages)
    OBVIOUS
  <2>2. [sends[r] EXCEPT !.pc = "cut", !.todo = << >>] \in SendType
    BY <1>a, <2>1, SendMoves
  <2>3. sends' = [sends EXCEPT ![r] = [sends[r] EXCEPT !.pc = "cut", !.todo = << >>]]
    BY <1>a, <1>7 DEF SendFails, SendType
  <2> QED BY <1>a, <1>7, <2>2, <2>3 DEF Typed, SendFails
<1>8. ASSUME NEW d \in Readers, ReadBegins(d) PROVE Typed'
  BY <1>a, <1>8 DEF Typed, ReadBegins, ReadType
<1>9. ASSUME NEW d \in Readers, ReadLists(d) PROVE Typed'
  <2> DEFINE history == Newest(HistoryWindow, thread)
             known == {r \in Runs : In(Question(r), history) /\ row[r] # "absent"}
  <2>1. history \in Seq(Messages) /\ known \in SUBSET Runs
    BY <1>c, WindowAssumption
  <2>2. reads' = [reads EXCEPT ![d].pc = "backfill", ![d].todo = history, ![d].known = known]
    BY <1>9 DEF ReadLists
  <2> HIDE DEF history, known
  <2>3. reads' \in [Readers -> ReadType]
    <3>1. [reads[d] EXCEPT !.pc = "backfill", !.todo = history, !.known = known] \in ReadType
      BY <1>a, <2>1 DEF ReadType
    <3>2. reads' = [reads EXCEPT ![d] =
                      [reads[d] EXCEPT !.pc = "backfill", !.todo = history, !.known = known]]
      BY <1>a, <2>2 DEF ReadType
    <3> QED BY <1>a, <3>1, <3>2
  <2> QED BY <1>a, <1>9, <2>3 DEF Typed, ReadLists
<1>10. ASSUME NEW d \in Readers, ReadBackfills(d) PROVE Typed'
  <2>1. PICK i \in DOMAIN reads[d].todo :
          /\ thread' = Backfilled(reads[d].todo[i].run)
          /\ reads' = [reads EXCEPT ![d].todo = After(@, i),
                                    ![d].pending = @ \o Reported(reads[d].todo[i].run)]
    BY <1>10 DEF ReadBackfills
  <2>2. /\ reads[d] \in ReadType /\ reads[d].todo \in Seq(Messages)
        /\ reads[d].pending \in Seq(Pendings)
    BY <1>a DEF ReadType
  <2>3. After(reads[d].todo, i) \in Seq(Messages)
    BY <2>2, AfterIsSuffix
  <2>4. reads[d].todo[i] \in Messages
    BY <2>2
  <2>5. thread' \in Seq(Messages) /\ Reported(reads[d].todo[i].run) \in Seq(Pendings)
    <3>1. reads[d].todo[i].run \in Runs
      BY <2>4 DEF Messages
    <3> QED BY <1>a, <2>1, <3>1, BackfillTypes
  <2>6. reads[d].pending \o Reported(reads[d].todo[i].run) \in Seq(Pendings)
    BY <2>2, <2>5
  <2>7. reads' \in [Readers -> ReadType]
    <3> DEFINE new == [reads[d] EXCEPT !.todo = After(reads[d].todo, i),
                          !.pending = reads[d].pending \o Reported(reads[d].todo[i].run)]
    <3>1. new \in ReadType
      BY <2>2, <2>3, <2>6 DEF ReadType
    <3>2. reads' = [reads EXCEPT ![d] = new]
      BY <1>a, <2>1 DEF ReadType
    <3> QED BY <1>a, <3>1, <3>2
  <2> QED BY <1>a, <1>10, <2>5, <2>7 DEF Typed, ReadBackfills
<1>11. ASSUME NEW d \in Readers, ReadRelists(d) PROVE Typed'
  <2>1. Newest(HistoryWindow, thread) \in Seq(Messages) /\ << >> \in Seq(Messages)
    BY <1>c, WindowAssumption
  <2>2. reads' \in [Readers -> ReadType]
    <3> DEFINE new == [reads[d] EXCEPT !.pc = "done", !.todo = << >>,
                                       !.messages = Newest(HistoryWindow, thread)]
    <3>1. new \in ReadType
      BY <1>a, <2>1 DEF ReadType
    <3>2. reads' = [reads EXCEPT ![d] = new]
      BY <1>a, <1>11 DEF ReadRelists, ReadType
    <3> QED BY <1>a, <3>1, <3>2
  <2> QED BY <1>a, <1>11, <2>2 DEF Typed, ReadRelists
<1>12. ASSUME NEW d \in Readers, ReadEnds(d) PROVE Typed'
  <2>1. NoRead \in ReadType
    BY DEF NoRead, ReadType
  <2> QED BY <1>a, <1>12, <2>1 DEF Typed, ReadEnds
<1>13. ASSUME Clear PROVE Typed'
  BY <1>a, <1>13 DEF Typed, Clear
<1>14. ASSUME NEW r \in Runs, RunEnds(r) \/ RunReopens(r) PROVE Typed'
  BY <1>a, <1>14 DEF Typed, RunEnds, RunReopens
<1>15. ASSUME UNCHANGED threadVars PROVE Typed'
  BY <1>a, <1>15 DEF Typed, threadVars
<1> QED BY <1>1, <1>2, <1>3, <1>4, <1>5, <1>6, <1>7, <1>8, <1>9, <1>10, <1>11, <1>12,
           <1>13, <1>14, <1>15 DEF ThreadNext, Serve

(* Types, whatever requests arrive and however they interleave.            *)
THEOREM ThreadTypeCorrect == ThreadSpec => []ThreadTypeOK
<1> QED BY InitTypes, StepTypes, PTL DEF ThreadSpec

-----------------------------------------------------------------------------
(* The inductive invariant.                                                *)

(* A question of s whose reply s lacks: a loop over s still gets to it.    *)
Owed(s, q) == In(Question(q), s) /\ ~ In(Reply(q), s)
Answered(q) == In(Question(q), thread) => In(Reply(q), thread)
IsReported(d, q) == \E i \in DOMAIN reads[d].pending : reads[d].pending[i].run = q

(* A run's row is there once the request that asked for it is through.     *)
RowsMatch == \A r \in Runs : row[r] = "absent" <=> sends[r].pc # "done"

(* A question is stored by the request that asks it, once.                 *)
Asked == \A r \in Runs : In(Question(r), thread) => sends[r].pc \in {"create", "done", "cut"}

(* What a request found settled, or under way, stays so.                   *)
KnownSettled ==
  /\ \A r \in Runs : \A q \in sends[r].known : row[q] = "succeeded"
  /\ \A d \in Readers : \A q \in reads[d].known : row[q] # "absent"

NoPromptYet == \A r \in Runs : sends[r].pc \in {"idle", "list", "backfill"} => prompt[r] = << >>

(* While a request backfills, a run it knows is answered or still ahead    *)
(* (or, in a history request, reported).                                   *)
SendBacklog ==
  \A r \in Runs : sends[r].pc = "backfill" =>
    \A q \in sends[r].known : Answered(q) \/ Owed(sends[r].todo, q)
ReadBacklog ==
  \A d \in Readers : reads[d].pc = "backfill" =>
    \A q \in reads[d].known : Answered(q) \/ Owed(reads[d].todo, q) \/ IsReported(d, q)

PromptComplete ==
  \A r \in Runs : \A q \in sends[r].known : In(Question(q), prompt[r]) => In(Reply(q), prompt[r])

IInv ==
  /\ ThreadTypeOK /\ RowsMatch /\ Asked /\ RepliesEarned /\ KnownSettled
  /\ NoPromptYet /\ SendBacklog /\ ReadBacklog /\ PromptComplete /\ HistoryAccounts

LEMMA InitHolds == ThreadInit => IInv
<1> SUFFICES ASSUME ThreadInit PROVE IInv
  OBVIOUS
<1>1. ThreadTypeOK
  BY InitTypes
<1>2. \A m : ~ In(m, << >>)
  BY DEF In
<1>3. RowsMatch /\ Asked /\ RepliesEarned /\ KnownSettled /\ NoPromptYet
  BY <1>2 DEF ThreadInit, NoSend, NoRead, RowsMatch, Asked, RepliesEarned, KnownSettled,
              NoPromptYet
<1>4. SendBacklog /\ ReadBacklog /\ PromptComplete /\ HistoryAccounts
  BY <1>2 DEF ThreadInit, NoSend, NoRead, SendBacklog, ReadBacklog, PromptComplete,
              HistoryAccounts
<1> QED BY <1>1, <1>3, <1>4 DEF IInv

(* What Append adds, and where.                                            *)
LEMMA InAppend ==
  ASSUME NEW s \in Seq(Messages), NEW x \in Messages, NEW m
  PROVE  In(m, Append(s, x)) <=> (In(m, s) \/ m = x)
<1>1. /\ Len(Append(s, x)) = Len(s) + 1
      /\ \A i \in 1..Len(s) : Append(s, x)[i] = s[i]
      /\ Append(s, x)[Len(s) + 1] = x
  OBVIOUS
<1>2. DOMAIN s = 1..Len(s) /\ DOMAIN Append(s, x) = 1..(Len(s) + 1)
  BY <1>1
<1> QED BY <1>1, <1>2 DEF In

(* What a step may do to the rows ...                                      *)
LEMMA RowMoves ==
  ASSUME IInv, [ThreadNext]_threadVars
  PROVE  \A q \in Runs : /\ row[q] = "succeeded" => row'[q] = "succeeded"
                         /\ row[q] # "absent" => row'[q] # "absent"
<1>1. row \in [Runs -> {"absent", "queued", "succeeded", "failed"}]
  BY DEF IInv, ThreadTypeOK
<1>2. ASSUME NEW r \in Runs, SendCreatesRun(r)
      PROVE  row[r] = "absent" /\ row' = [row EXCEPT ![r] = "queued"]
  BY <1>2 DEF SendCreatesRun, IInv, RowsMatch
<1>3. ASSUME NEW r \in Runs, RunEnds(r) \/ RunReopens(r)
      PROVE  row[r] \notin {"absent", "succeeded"} /\
             \E s \in {"queued", "succeeded", "failed"} : row' = [row EXCEPT ![r] = s]
  BY <1>3 DEF RunEnds, RunReopens
<1>4. \/ row' = row
      \/ \E r \in Runs : SendCreatesRun(r) \/ RunEnds(r) \/ RunReopens(r)
  BY DEF ThreadNext, Serve, threadVars, SendBegins, SendLists, SendBackfills, SendRelists,
         SendAppends, SendFails, ReadBegins, ReadLists, ReadBackfills, ReadRelists,
         ReadEnds, Clear
<1> QED BY <1>1, <1>2, <1>3, <1>4

(* ... and to the thread.                                                  *)
Refilled(q) == thread' = Append(thread, Reply(q)) /\ row[q] = "succeeded"
               /\ ~ In(Reply(q), thread)
LEMMA ThreadMoves ==
  ASSUME IInv, [ThreadNext]_threadVars
  PROVE  \/ thread' = thread
         \/ thread' = << >>
         \/ \E q \in Runs : Refilled(q)
         \/ \E r \in Runs : SendAppends(r)
<1>1. ASSUME NEW i, NEW s \in Seq(Messages), i \in DOMAIN s
      PROVE  s[i].run \in Runs
  <2>1. s[i] \in Messages
    BY <1>1
  <2> QED BY <2>1 DEF Messages
<1>2. ASSUME NEW r \in Runs, SendBackfills(r)
      PROVE  thread' = thread \/ \E q \in Runs : Refilled(q)
  <2>1. PICK i \in DOMAIN sends[r].todo : thread' = Backfilled(sends[r].todo[i].run)
    BY <1>2 DEF SendBackfills
  <2>2. sends[r].todo[i].run \in Runs
    BY <1>1 DEF IInv, ThreadTypeOK
  <2> QED BY <2>1, <2>2 DEF Backfilled, Refilled
<1>3. ASSUME NEW d \in Readers, ReadBackfills(d)
      PROVE  thread' = thread \/ \E q \in Runs : Refilled(q)
  <2>1. PICK i \in DOMAIN reads[d].todo : thread' = Backfilled(reads[d].todo[i].run)
    BY <1>3 DEF ReadBackfills
  <2>2. reads[d].todo[i].run \in Runs
    BY <1>1 DEF IInv, ThreadTypeOK
  <2> QED BY <2>1, <2>2 DEF Backfilled, Refilled
<1>4. \/ thread' = thread
      \/ thread' = << >>
      \/ \E r \in Runs : SendBackfills(r) \/ SendAppends(r)
      \/ \E d \in Readers : ReadBackfills(d)
  BY DEF ThreadNext, Serve, threadVars, SendBegins, SendLists, SendRelists, SendCreatesRun,
         SendFails, ReadBegins, ReadLists, ReadRelists, ReadEnds, Clear, RunEnds, RunReopens
<1> QED BY <1>2, <1>3, <1>4

(* The run of a question that has a row stays answered once it is.         *)
LEMMA AnsweredStays ==
  ASSUME IInv, [ThreadNext]_threadVars, NEW q \in Runs, row[q] # "absent"
  PROVE  Answered(q) => Answered(q)'
<1>1. thread \in Seq(Messages) /\ Question(q) \in Messages
  BY DEF IInv, ThreadTypeOK, Question, Messages
<1>2. \A p \in Runs : Reply(p) \in Messages /\ Question(p) \in Messages /\ Reply(p) # Question(q)
  BY DEF Reply, Question, Messages
<1>3. CASE thread' = << >>
  BY <1>3 DEF Answered, In
<1>4. CASE thread' = thread
  BY <1>4 DEF Answered
<1>5. ASSUME NEW p \in Runs, Refilled(p) PROVE Answered(q) => Answered(q)'
  BY <1>1, <1>2, <1>5, InAppend DEF Answered, Refilled
<1>6. ASSUME NEW p \in Runs, SendAppends(p) PROVE Answered(q) => Answered(q)'
  <2>1. p # q
    BY <1>6 DEF SendAppends, IInv, RowsMatch
  <2>2. Question(p) # Question(q)
    BY <2>1 DEF Question
  <2> QED BY <1>1, <1>2, <1>6, <2>2, InAppend DEF Answered, SendAppends
<1> QED BY <1>3, <1>4, <1>5, <1>6, ThreadMoves

-----------------------------------------------------------------------------
(* Every part of it is kept by every step.                                 *)

(* A run gets its row in the step that ends its request.                   *)
LEMMA RowsMatchKept == IInv /\ [ThreadNext]_threadVars => RowsMatch'
<1> SUFFICES ASSUME IInv, [ThreadNext]_threadVars PROVE RowsMatch'
  OBVIOUS
<1>1. /\ row \in [Runs -> {"absent", "queued", "succeeded", "failed"}]
      /\ sends \in [Runs -> SendType] /\ RowsMatch
  BY DEF IInv, ThreadTypeOK, SendType
<1>2. ASSUME NEW r \in Runs, SendCreatesRun(r) PROVE RowsMatch'
  BY <1>1, <1>2 DEF RowsMatch, SendCreatesRun, SendType
<1>3. ASSUME NEW r \in Runs, RunEnds(r) \/ RunReopens(r) PROVE RowsMatch'
  BY <1>1, <1>3 DEF RowsMatch, RunEnds, RunReopens
<1>4. ASSUME NEW r \in Runs,
             SendBegins(r) \/ SendLists(r) \/ SendRelists(r) \/ SendAppends(r) \/ SendFails(r)
      PROVE  RowsMatch'
  BY <1>1, <1>4 DEF RowsMatch, SendBegins, SendLists, SendRelists, SendAppends, SendFails,
                    SendType
<1>5. ASSUME NEW r \in Runs, SendBackfills(r) PROVE RowsMatch'
  BY <1>1, <1>5 DEF RowsMatch, SendBackfills, SendType
<1>6. CASE UNCHANGED <<row, sends>>
  BY <1>1, <1>6 DEF RowsMatch
<1>7. \/ UNCHANGED <<row, sends>>
      \/ \E r \in Runs : \/ SendCreatesRun(r) \/ RunEnds(r) \/ RunReopens(r) \/ SendBegins(r)
                         \/ SendLists(r) \/ SendRelists(r) \/ SendAppends(r) \/ SendFails(r)
                         \/ SendBackfills(r)
  BY DEF ThreadNext, Serve, threadVars, ReadBegins, ReadLists, ReadBackfills, ReadRelists,
         ReadEnds, Clear
<1> QED BY <1>2, <1>3, <1>4, <1>5, <1>6, <1>7

(* A request that has stored its question stays past that point.           *)
LEMMA PcMoves ==
  ASSUME IInv, [ThreadNext]_threadVars, NEW r \in Runs,
         sends[r].pc \in {"create", "done", "cut"}
  PROVE  sends'[r].pc \in {"create", "done", "cut"}
<1>1. sends \in [Runs -> SendType]
  BY DEF IInv, ThreadTypeOK, SendType
<1>2. ASSUME NEW p \in Runs,
             SendBegins(p) \/ SendLists(p) \/ SendRelists(p) \/ SendAppends(p) \/ SendFails(p)
               \/ SendCreatesRun(p)
      PROVE  sends'[r].pc \in {"create", "done", "cut"}
  BY <1>1, <1>2 DEF SendBegins, SendLists, SendRelists, SendAppends, SendFails,
                    SendCreatesRun, SendType
<1>3. ASSUME NEW p \in Runs, SendBackfills(p) PROVE sends'[r].pc \in {"create", "done", "cut"}
  BY <1>1, <1>3 DEF SendBackfills, SendType
<1>4. \/ UNCHANGED sends
      \/ \E p \in Runs : \/ SendBegins(p) \/ SendLists(p) \/ SendRelists(p) \/ SendAppends(p)
                         \/ SendFails(p) \/ SendCreatesRun(p) \/ SendBackfills(p)
  BY DEF ThreadNext, Serve, threadVars, ReadBegins, ReadLists, ReadBackfills, ReadRelists,
         ReadEnds, Clear, RunEnds, RunReopens
<1> QED BY <1>2, <1>3, <1>4

LEMMA AskedKept == IInv /\ [ThreadNext]_threadVars => Asked'
<1> SUFFICES ASSUME IInv, [ThreadNext]_threadVars, NEW r \in Runs, In(Question(r), thread')
             PROVE  sends'[r].pc \in {"create", "done", "cut"}
  BY DEF Asked, In
<1>1. thread \in Seq(Messages) /\ sends \in [Runs -> SendType]
  BY DEF IInv, ThreadTypeOK, SendType
<1>2. \A p \in Runs : Reply(p) \in Messages /\ Question(p) \in Messages /\ Reply(p) # Question(r)
  BY DEF Reply, Question, Messages
<1>3. CASE In(Question(r), thread)
  BY <1>3, PcMoves DEF IInv, Asked
<1>4. CASE ~ In(Question(r), thread)
  <2>1. thread' # << >> /\ thread' # thread
    BY <1>4 DEF In
  <2>2. ASSUME NEW q \in Runs, Refilled(q) PROVE FALSE
    BY <1>1, <1>2, <1>4, <2>2, InAppend DEF Refilled
  <2>3. PICK p \in Runs : SendAppends(p)
    BY <2>1, <2>2, ThreadMoves
  <2>4. Question(r) = Question(p)
    BY <1>1, <1>2, <1>4, <2>3, InAppend DEF SendAppends
  <2>5. p = r
    BY <2>4 DEF Question
  <2> QED BY <1>1, <2>3, <2>5 DEF SendAppends, SendType
<1> QED BY <1>3, <1>4

(* A reply is added once, of a run that succeeded; and by then its         *)
(* question is not still to come.                                          *)
LEMMA RepliesKept == IInv /\ [ThreadNext]_threadVars => RepliesEarned'
<1> SUFFICES ASSUME IInv, [ThreadNext]_threadVars PROVE RepliesEarned'
  OBVIOUS
<1>1. thread \in Seq(Messages) /\ RepliesEarned
  BY DEF IInv, ThreadTypeOK
<1>2. \A i \in DOMAIN thread : thread[i] \in Messages /\ thread[i].run \in Runs
  <2>1. \A i \in DOMAIN thread : thread[i] \in Messages
    BY <1>1
  <2> QED BY <2>1 DEF Messages
<1>3. \A q \in Runs : row[q] = "succeeded" => row'[q] = "succeeded"
  BY RowMoves
<1>4. CASE thread' = thread
  BY <1>1, <1>2, <1>3, <1>4 DEF RepliesEarned
<1>5. CASE thread' = << >>
  BY <1>5 DEF RepliesEarned
<1>6. ASSUME NEW x \in Messages, thread' = Append(thread, x), ~ In(x, thread),
             x.role = "agent" => row[x.run] = "succeeded",
             x.role = "user" => \A i \in DOMAIN thread : thread[i] # Reply(x.run)
      PROVE  RepliesEarned'
  <2>1. /\ DOMAIN thread = 1..Len(thread) /\ DOMAIN thread' = 1..(Len(thread) + 1)
        /\ \A i \in 1..Len(thread) : thread'[i] = thread[i]
        /\ thread'[Len(thread) + 1] = x
    BY <1>1, <1>6
  <2>2. x.run \in Runs
    BY DEF Messages
  <2> SUFFICES ASSUME NEW i \in 1..(Len(thread) + 1), NEW j \in 1..(Len(thread) + 1)
               PROVE  /\ thread'[i] = thread'[j] => i = j
                      /\ thread'[i].role = "agent" => row'[thread'[i].run] = "succeeded"
                      /\ (thread'[i].role = "agent" /\ thread'[j] = Question(thread'[i].run))
                           => j < i
    BY <2>1 DEF RepliesEarned
  <2>3. CASE i \in 1..Len(thread) /\ j \in 1..Len(thread)
    BY <1>1, <1>2, <1>3, <2>1, <2>3 DEF RepliesEarned
  <2>4. CASE i \in 1..Len(thread) /\ j = Len(thread) + 1
    <3>1. thread'[i] # thread'[j]
      BY <1>6, <2>1, <2>4 DEF In
    <3>2. thread'[i].role = "agent" => row'[thread'[i].run] = "succeeded"
      BY <1>1, <1>2, <1>3, <2>1, <2>4 DEF RepliesEarned
    <3>3. ASSUME thread'[i].role = "agent", thread'[j] = Question(thread'[i].run) PROVE FALSE
      <4>1. x = Question(thread[i].run) /\ thread[i].role = "agent" /\ i \in DOMAIN thread
        BY <2>1, <2>4, <3>3
      <4>2. x.role = "user" /\ x.run = thread[i].run
        BY <4>1 DEF Question
      <4>3. thread[i] = Reply(x.run)
        BY <1>2, <4>1, <4>2 DEF Reply, Messages
      <4> QED BY <1>6, <4>1, <4>2, <4>3
    <3> QED BY <3>1, <3>2, <3>3
  <2>5. CASE i = Len(thread) + 1 /\ j \in 1..Len(thread)
    <3>1. thread'[i] # thread'[j]
      BY <1>6, <2>1, <2>5 DEF In
    <3>2. thread'[i].role = "agent" => row'[thread'[i].run] = "succeeded"
      BY <1>3, <1>6, <2>1, <2>2, <2>5
    <3>3. j < i
      BY <1>1, <2>5
    <3> QED BY <3>1, <3>2, <3>3
  <2>6. CASE i = Len(thread) + 1 /\ j = Len(thread) + 1
    <3>1. thread'[i].role = "agent" => row'[thread'[i].run] = "succeeded"
      BY <1>3, <1>6, <2>1, <2>2, <2>6
    <3>2. ~ (thread'[i].role = "agent" /\ thread'[j] = Question(thread'[i].run))
      BY <2>6 DEF Question
    <3> QED BY <2>6, <3>1, <3>2
  <2> QED BY <2>3, <2>4, <2>5, <2>6
<1>7. ASSUME NEW q \in Runs, Refilled(q) PROVE RepliesEarned'
  <2>1. Reply(q) \in Messages /\ Reply(q).role = "agent" /\ Reply(q).run = q
    BY DEF Reply, Messages
  <2> QED BY <1>6, <1>7, <2>1 DEF Refilled
<1>8. ASSUME NEW r \in Runs, SendAppends(r) PROVE RepliesEarned'
  <2>1. /\ Question(r) \in Messages /\ Question(r).role = "user" /\ Question(r).run = r
        /\ Reply(r).role = "agent" /\ Reply(r).run = r
    BY DEF Question, Reply, Messages
  <2>2. ~ In(Question(r), thread)
    BY <1>8 DEF SendAppends, IInv, Asked
  <2>3. row[r] = "absent"
    BY <1>8 DEF SendAppends, IInv, RowsMatch
  <2>4. \A i \in DOMAIN thread : thread[i] # Reply(r)
    BY <1>1, <2>1, <2>3 DEF RepliesEarned
  <2> QED BY <1>6, <1>8, <2>1, <2>2, <2>4 DEF SendAppends
<1> QED BY <1>4, <1>5, <1>7, <1>8, ThreadMoves

(* Succeeded is final, and a run is never without a row again; a request   *)
(* learns about runs from their rows.                                      *)
LEMMA KnownKept == IInv /\ [ThreadNext]_threadVars => KnownSettled'
<1> SUFFICES ASSUME IInv, [ThreadNext]_threadVars PROVE KnownSettled'
  OBVIOUS
<1>1. /\ sends \in [Runs -> SendType] /\ reads \in [Readers -> ReadType] /\ KnownSettled
  BY DEF IInv, ThreadTypeOK, SendType, ReadType
<1>2. /\ \A q \in Runs : /\ row[q] = "succeeded" => row'[q] = "succeeded"
                         /\ row[q] # "absent" => row'[q] # "absent"
  BY RowMoves
<1>3. /\ \A r \in Runs : sends[r].known \subseteq Runs
      /\ \A d \in Readers : reads[d].known \subseteq Runs
  BY <1>1 DEF SendType, ReadType
<1>4. \A r \in Runs : \A q \in sends'[r].known : row'[q] = "succeeded"
  <2>1. ASSUME NEW p \in Runs, SendLists(p) PROVE  \A r \in Runs : \A q \in sends'[r].known : row'[q] = "succeeded"
    <3>1. sends' = [sends EXCEPT ![p] = [pc |-> "backfill", todo |-> Newest(PromptWindow, thread),
                                        known |-> Settled(Newest(PromptWindow, thread))]]
      BY <2>1 DEF SendLists
    <3>2. \A q \in Settled(Newest(PromptWindow, thread)) : q \in Runs /\ row[q] = "succeeded"
      BY DEF Settled
    <3> QED BY <1>1, <1>2, <1>3, <3>1, <3>2 DEF KnownSettled
  <2>2. ASSUME NEW p \in Runs,
               \/ SendBegins(p) \/ SendRelists(p) \/ SendAppends(p) \/ SendFails(p)
               \/ SendCreatesRun(p)
        PROVE  \A r \in Runs : sends'[r].known = sends[r].known
    <3> SUFFICES ASSUME NEW r \in Runs PROVE sends'[r].known = sends[r].known
      OBVIOUS
    <3>1. sends[p] \in SendType
      BY <1>1
    <3>2. PICK x : \/ sends' = [sends EXCEPT ![p].pc = x]
                   \/ sends' = [sends EXCEPT ![p].pc = x, ![p].todo = << >>]
      BY <2>2 DEF SendBegins, SendRelists, SendAppends, SendFails, SendCreatesRun
    <3>3. sends'[p].known = sends[p].known
      BY <1>1, <3>1, <3>2 DEF SendType
    <3>4. CASE r # p
      BY <1>1, <3>2, <3>4
    <3> QED BY <3>3, <3>4
  <2>3. ASSUME NEW p \in Runs, SendBackfills(p)
        PROVE  \A r \in Runs : sends'[r].known = sends[r].known
    BY <1>1, <2>3 DEF SendBackfills, SendType
  <2>4. \/ UNCHANGED sends
        \/ \E p \in Runs : \/ SendBegins(p) \/ SendLists(p) \/ SendRelists(p) \/ SendAppends(p)
                           \/ SendFails(p) \/ SendCreatesRun(p) \/ SendBackfills(p)
    BY DEF ThreadNext, Serve, threadVars, ReadBegins, ReadLists, ReadBackfills, ReadRelists,
           ReadEnds, Clear, RunEnds, RunReopens
  <2> QED BY <1>1, <1>2, <1>3, <2>1, <2>2, <2>3, <2>4 DEF KnownSettled
<1>5. \A d \in Readers : \A q \in reads'[d].known : row'[q] # "absent"
  <2>1. ASSUME NEW e \in Readers, ReadLists(e) PROVE  \A d \in Readers : \A q \in reads'[d].known : row'[q] # "absent"
    <3> DEFINE known == {r \in Runs : In(Question(r), Newest(HistoryWindow, thread))
                                      /\ row[r] # "absent"}
    <3>1. \A q \in known : q \in Runs /\ row[q] # "absent"
      OBVIOUS
    <3>2. \A d \in Readers : reads'[d].known = IF d = e THEN known ELSE reads[d].known
      BY <1>1, <2>1 DEF ReadLists, ReadType
    <3> HIDE DEF known
    <3> QED BY <1>1, <1>2, <1>3, <3>1, <3>2 DEF KnownSettled
  <2>2. ASSUME NEW e \in Readers, ReadBegins(e) \/ ReadRelists(e)
        PROVE  \A d \in Readers : reads'[d].known = reads[d].known
    <3>1. CASE ReadBegins(e)
      BY <1>1, <3>1 DEF ReadBegins, ReadType
    <3>2. CASE ReadRelists(e)
      <4>1. reads' = [reads EXCEPT ![e].pc = "done", ![e].todo = << >>,
                                   ![e].messages = Newest(HistoryWindow, thread)]
        BY <3>2 DEF ReadRelists
      <4> QED BY <1>1, <4>1 DEF ReadType
    <3> QED BY <2>2, <3>1, <3>2
  <2>3. ASSUME NEW e \in Readers, ReadBackfills(e)
        PROVE  \A d \in Readers : reads'[d].known = reads[d].known
    BY <1>1, <2>3 DEF ReadBackfills, ReadType
  <2>4. ASSUME NEW e \in Readers, ReadEnds(e)
        PROVE  \A d \in Readers : reads'[d].known \subseteq reads[d].known
    BY <1>1, <2>4 DEF ReadEnds, NoRead
  <2>5. \/ UNCHANGED reads
        \/ \E e \in Readers : \/ ReadLists(e) \/ ReadBegins(e) \/ ReadRelists(e)
                              \/ ReadBackfills(e) \/ ReadEnds(e)
    BY DEF ThreadNext, Serve, threadVars, SendBegins, SendLists, SendBackfills, SendRelists,
           SendAppends, SendCreatesRun, SendFails, Clear, RunEnds, RunReopens
  <2> QED BY <1>1, <1>2, <1>3, <2>1, <2>2, <2>3, <2>4, <2>5 DEF KnownSettled
<1> QED BY <1>4, <1>5 DEF KnownSettled

LEMMA NoPromptKept == IInv /\ [ThreadNext]_threadVars => NoPromptYet'
<1> SUFFICES ASSUME IInv, [ThreadNext]_threadVars PROVE NoPromptYet'
  OBVIOUS
<1>1. /\ sends \in [Runs -> SendType] /\ prompt \in [Runs -> Seq(Messages)] /\ NoPromptYet
  BY DEF IInv, ThreadTypeOK, SendType
<1>2. ASSUME NEW p \in Runs,
             SendBegins(p) \/ SendLists(p) \/ SendAppends(p) \/ SendFails(p) \/ SendCreatesRun(p)
      PROVE  NoPromptYet'
  BY <1>1, <1>2, ZenonT(40)
     DEF SendBegins, SendLists, SendAppends, SendFails, SendCreatesRun, SendType, NoPromptYet
<1>3. ASSUME NEW p \in Runs, SendBackfills(p) PROVE NoPromptYet'
  BY <1>1, <1>3 DEF SendBackfills, SendType, NoPromptYet
<1>4. ASSUME NEW p \in Runs, SendRelists(p) PROVE NoPromptYet'
  <2>1. sends'[p].pc = "append" /\ \A r \in Runs : r # p => sends'[r] = sends[r]
    BY <1>1, <1>4 DEF SendRelists, SendType
  <2>2. \A r \in Runs : r # p => prompt'[r] = prompt[r]
    BY <1>1, <1>4 DEF SendRelists
  <2> QED BY <1>1, <2>1, <2>2 DEF NoPromptYet
<1>5. CASE UNCHANGED <<sends, prompt>>
  BY <1>1, <1>5 DEF NoPromptYet
<1>6. \/ UNCHANGED <<sends, prompt>>
      \/ \E p \in Runs : \/ SendBegins(p) \/ SendLists(p) \/ SendRelists(p) \/ SendAppends(p)
                         \/ SendFails(p) \/ SendCreatesRun(p) \/ SendBackfills(p)
  BY DEF ThreadNext, Serve, threadVars, ReadBegins, ReadLists, ReadBackfills, ReadRelists,
         ReadEnds, Clear, RunEnds, RunReopens
<1> QED BY <1>2, <1>3, <1>4, <1>5, <1>6

(* A loop that stops at the first open question has passed none over: what *)
(* it owed it still owes, or is at.                                        *)
LEMMA LoopGoesOn ==
  ASSUME NEW s \in Seq(Messages), NEW i \in DOMAIN s, FirstOpen(s, i),
         NEW q \in Runs, Owed(s, q)
  PROVE  s[i].run = q \/ Owed(After(s, i), q)
<1>1. PICK j \in 1..Len(s) : s[j] = Question(q)
  BY DEF Owed, In
<1>2. Open(s, j)
  BY <1>1 DEF Owed, Open, Question
<1>3. i \in 1..Len(s) /\ ~ (j < i)
  <2>1. j < i => j \in 1..(i - 1)
    OBVIOUS
  <2> QED BY <1>2, <2>1 DEF FirstOpen
<1>4. CASE j = i
  BY <1>1, <1>4 DEF Question
<1>5. CASE j # i
  <2>1. ~ In(Reply(q), After(s, i))
    BY AfterIsSuffix, SuffixHolds DEF Owed
  <2>2. /\ Len(After(s, i)) = Len(s) - i
        /\ \A m \in 1..Len(After(s, i)) : After(s, i)[m] = s[m + i]
    BY <1>3, DroppingLeavesSuffix DEF After
  <2>3. j - i \in 1..Len(After(s, i)) /\ (j - i) + i = j
    BY <1>3, <1>5, <2>2
  <2>4. After(s, i)[j - i] = s[j]
    BY <2>2, <2>3
  <2>6. After(s, i) \in Seq(Messages)
    BY AfterIsSuffix
  <2>7. In(Question(q), After(s, i))
    BY <1>1, <2>3, <2>4, <2>6 DEF In
  <2> QED BY <2>1, <2>7 DEF Owed
<1> QED BY <1>4, <1>5

(* A loop that is over owes nothing.                                       *)
LEMMA LoopIsOver ==
  ASSUME NEW s, NoneOpen(s), NEW q \in Runs
  PROVE  ~ Owed(s, q)
<1> QED BY DEF NoneOpen, Open, Owed, In, Question

(* How a request comes to be backfilling.                                  *)
LEMMA SendCases ==
  ASSUME IInv, [ThreadNext]_threadVars, NEW r \in Runs, sends'[r].pc = "backfill"
  PROVE  sends'[r] = sends[r] \/ SendLists(r) \/ SendBackfills(r)
<1>1. sends \in [Runs -> SendType]
  BY DEF IInv, ThreadTypeOK, SendType
<1>2. ASSUME NEW p \in Runs, SendLists(p) \/ SendBackfills(p)
      PROVE  sends'[r] = sends[r] \/ SendLists(r) \/ SendBackfills(r)
  <2>1. CASE p = r
    BY <1>2, <2>1
  <2>2. CASE p # r
    BY <1>1, <1>2, <2>2 DEF SendLists, SendBackfills
  <2> QED BY <2>1, <2>2
<1>3. ASSUME NEW p \in Runs,
             \/ SendBegins(p) \/ SendRelists(p) \/ SendAppends(p) \/ SendFails(p)
             \/ SendCreatesRun(p)
      PROVE  sends'[r] = sends[r]
  <2>1. PICK x \in {"list", "append", "create", "cut", "done"} :
           \/ sends' = [sends EXCEPT ![p].pc = x]
           \/ sends' = [sends EXCEPT ![p].pc = x, ![p].todo = << >>]
    BY <1>3 DEF SendBegins, SendRelists, SendAppends, SendFails, SendCreatesRun
  <2>2. sends[p] \in SendType
    BY <1>1
  <2>3. sends'[p].pc = x
    BY <1>1, <2>1, <2>2 DEF SendType
  <2>4. p # r
    BY <2>3
  <2> QED BY <1>1, <2>1, <2>4
<1>4. \/ UNCHANGED sends
      \/ \E p \in Runs : \/ SendBegins(p) \/ SendLists(p) \/ SendRelists(p) \/ SendAppends(p)
                         \/ SendFails(p) \/ SendCreatesRun(p) \/ SendBackfills(p)
  BY DEF ThreadNext, Serve, threadVars, ReadBegins, ReadLists, ReadBackfills, ReadRelists,
         ReadEnds, Clear, RunEnds, RunReopens
<1> QED BY <1>2, <1>3, <1>4

LEMMA ReadCases ==
  ASSUME IInv, [ThreadNext]_threadVars, NEW d \in Readers,
         reads'[d].pc \in {"backfill", "done"}
  PROVE  reads'[d] = reads[d] \/ ReadLists(d) \/ ReadBackfills(d) \/ ReadRelists(d)
<1>1. reads \in [Readers -> ReadType]
  BY DEF IInv, ThreadTypeOK, ReadType
<1>2. ASSUME NEW e \in Readers, ReadLists(e) \/ ReadBackfills(e) \/ ReadRelists(e), e # d
      PROVE  reads'[d] = reads[d]
  BY <1>1, <1>2 DEF ReadLists, ReadBackfills, ReadRelists
<1>3. ASSUME NEW e \in Readers, ReadBegins(e) PROVE reads'[d] = reads[d]
  BY <1>1, <1>3 DEF ReadBegins, ReadType
<1>4. ASSUME NEW e \in Readers, ReadEnds(e) PROVE reads'[d] = reads[d]
  BY <1>1, <1>4 DEF ReadEnds, NoRead
<1>5. \/ UNCHANGED reads
      \/ \E e \in Readers : \/ ReadLists(e) \/ ReadBegins(e) \/ ReadRelists(e)
                            \/ ReadBackfills(e) \/ ReadEnds(e)
  BY DEF ThreadNext, Serve, threadVars, SendBegins, SendLists, SendBackfills, SendRelists,
         SendAppends, SendCreatesRun, SendFails, Clear, RunEnds, RunReopens
<1> QED BY <1>2, <1>3, <1>4, <1>5

(* Backfilling a run that is known to have succeeded leaves it answered.   *)
LEMMA BackfillAnswers ==
  ASSUME IInv, NEW q \in Runs, row[q] = "succeeded", thread' = Backfilled(q)
  PROVE  Answered(q)'
<1>1. thread \in Seq(Messages) /\ Reply(q) \in Messages
  BY DEF IInv, ThreadTypeOK, Reply, Messages
<1>2. In(Reply(q), thread')
  BY <1>1, InAppend DEF Backfilled
<1> QED BY <1>2 DEF Answered, In

LEMMA SendBacklogKept == IInv /\ [ThreadNext]_threadVars => SendBacklog'
<1> SUFFICES ASSUME IInv, [ThreadNext]_threadVars, NEW r \in Runs,
                    sends'[r].pc = "backfill", NEW q \in sends'[r].known
             PROVE  Answered(q)' \/ Owed(sends'[r].todo, q)
  BY DEF SendBacklog
<1>1. thread \in Seq(Messages) /\ sends \in [Runs -> SendType] /\ sends[r] \in SendType
  BY DEF IInv, ThreadTypeOK, SendType
<1>2. CASE sends'[r] = sends[r]
  <2>1. q \in Runs /\ row[q] = "succeeded"
    BY <1>1, <1>2 DEF IInv, KnownSettled, SendType
  <2>2. Answered(q) \/ Owed(sends[r].todo, q)
    BY <1>2 DEF IInv, SendBacklog
  <2> QED BY <1>2, <2>1, <2>2, AnsweredStays
<1>3. CASE SendLists(r)
  <2> DEFINE history == Newest(PromptWindow, thread)
  <2>1. sends'[r].todo = history /\ sends'[r].known = Settled(history) /\ thread' = thread
    BY <1>1, <1>3 DEF SendLists
  <2>2. q \in Runs /\ In(Question(q), history)
    BY <2>1 DEF Settled
  <2>3. history \in Seq(Messages) /\ Suffix(history, thread)
    BY <1>1, NewestIsSuffix, WindowAssumption
  <2>4. In(Reply(q), history) => In(Reply(q), thread)
    BY <1>1, <2>3, SuffixHolds
  <2>5. In(Reply(q), thread) => Answered(q)'
    BY <2>1 DEF Answered
  <2> QED BY <2>1, <2>2, <2>4, <2>5 DEF Owed
<1>4. CASE SendBackfills(r)
  <2>1. PICK i \in DOMAIN sends[r].todo :
          /\ FirstOpen(sends[r].todo, i)
          /\ thread' = Backfilled(sends[r].todo[i].run)
          /\ sends' = [sends EXCEPT ![r].todo = After(@, i)]
    BY <1>4 DEF SendBackfills
  <2>2. /\ sends'[r].todo = After(sends[r].todo, i) /\ sends'[r].known = sends[r].known
        /\ sends[r].todo \in Seq(Messages)
    BY <1>1, <2>1 DEF SendType
  <2>3. q \in Runs /\ row[q] = "succeeded"
    BY <1>1, <2>2 DEF IInv, KnownSettled, SendType
  <2>4. Answered(q) \/ Owed(sends[r].todo, q)
    BY <1>4, <2>2 DEF IInv, SendBacklog, SendBackfills
  <2>5. CASE Answered(q)
    BY <2>3, <2>5, AnsweredStays
  <2>6. CASE Owed(sends[r].todo, q)
    <3>1. sends[r].todo[i].run = q \/ Owed(After(sends[r].todo, i), q)
      BY <2>1, <2>2, <2>3, <2>6, LoopGoesOn
    <3> QED BY <2>1, <2>2, <2>3, <3>1, BackfillAnswers
  <2> QED BY <2>4, <2>5, <2>6
<1> QED BY <1>2, <1>3, <1>4, SendCases

(* What a list held it holds when more is added, and what was added.       *)
LEMMA ConcatHolds ==
  ASSUME NEW s \in Seq(Pendings), NEW t \in Seq(Pendings), NEW u, u = s \o t
  PROVE  /\ \A k \in DOMAIN s : k \in DOMAIN u /\ u[k] = s[k]
         /\ Len(t) = 1 => Len(s) + 1 \in DOMAIN u /\ u[Len(s) + 1] = t[1]
<1>1. /\ u \in Seq(Pendings) /\ Len(u) = Len(s) + Len(t)
      /\ \A i \in 1..(Len(s) + Len(t)) : u[i] = IF i <= Len(s) THEN s[i] ELSE t[i - Len(s)]
  BY ConcatProperties
<1>2. DOMAIN u = 1..(Len(s) + Len(t)) /\ DOMAIN s = 1..Len(s)
  BY <1>1
<1>3. Len(s) \in Nat /\ Len(t) \in Nat
  OBVIOUS
<1>4. ASSUME NEW k \in DOMAIN s PROVE k \in DOMAIN u /\ u[k] = s[k]
  BY <1>1, <1>2, <1>3, <1>4
<1>5. ASSUME Len(t) = 1 PROVE Len(s) + 1 \in DOMAIN u /\ u[Len(s) + 1] = t[1]
  <2>1. Len(s) + 1 \in 1..(Len(s) + Len(t)) /\ ~ (Len(s) + 1 <= Len(s))
        /\ Len(s) + 1 - Len(s) = 1
    BY <1>3, <1>5
  <2> QED BY <1>1, <1>2, <2>1
<1> QED BY <1>4, <1>5

(* A run a history request knows is answered by the backfill or reported.  *)
LEMMA ReadBacklogKept == IInv /\ [ThreadNext]_threadVars => ReadBacklog'
<1> SUFFICES ASSUME IInv, [ThreadNext]_threadVars, NEW d \in Readers,
                    reads'[d].pc = "backfill", NEW q \in reads'[d].known
             PROVE  Answered(q)' \/ Owed(reads'[d].todo, q) \/ IsReported(d, q)'
  BY DEF ReadBacklog
<1>1. thread \in Seq(Messages) /\ reads \in [Readers -> ReadType] /\ reads[d] \in ReadType
  BY DEF IInv, ThreadTypeOK, ReadType
<1>2. CASE reads'[d] = reads[d]
  <2>1. q \in Runs /\ row[q] # "absent"
    BY <1>1, <1>2 DEF IInv, KnownSettled, ReadType
  <2>2. Answered(q) \/ Owed(reads[d].todo, q) \/ IsReported(d, q)
    BY <1>2 DEF IInv, ReadBacklog
  <2>3. IsReported(d, q) => IsReported(d, q)'
    BY <1>2 DEF IsReported
  <2> QED BY <1>2, <2>1, <2>2, <2>3, AnsweredStays
<1>3. CASE ReadLists(d)
  <2> DEFINE history == Newest(HistoryWindow, thread)
             known == {r \in Runs : In(Question(r), history) /\ row[r] # "absent"}
  <2>1. reads'[d].todo = history /\ reads'[d].known = known /\ thread' = thread
    BY <1>1, <1>3 DEF ReadLists, ReadType
  <2>2. q \in Runs /\ In(Question(q), history)
    BY <2>1
  <2>3. history \in Seq(Messages) /\ Suffix(history, thread)
    BY <1>1, NewestIsSuffix, WindowAssumption
  <2>4. In(Reply(q), history) => In(Reply(q), thread)
    BY <1>1, <2>3, SuffixHolds
  <2>5. In(Reply(q), thread) => Answered(q)'
    BY <2>1 DEF Answered
  <2> QED BY <2>1, <2>2, <2>4, <2>5 DEF Owed
<1>4. CASE ReadBackfills(d)
  <2>1. PICK i \in DOMAIN reads[d].todo :
          /\ FirstOpen(reads[d].todo, i)
          /\ thread' = Backfilled(reads[d].todo[i].run)
          /\ reads' = [reads EXCEPT ![d].todo = After(@, i),
                                    ![d].pending = @ \o Reported(reads[d].todo[i].run)]
    BY <1>4 DEF ReadBackfills
  <2>2. /\ reads'[d].todo = After(reads[d].todo, i) /\ reads'[d].known = reads[d].known
        /\ reads'[d].pending = reads[d].pending \o Reported(reads[d].todo[i].run)
        /\ reads[d].todo \in Seq(Messages) /\ reads[d].pending \in Seq(Pendings)
    BY <1>1, <2>1 DEF ReadType
  <2>3. q \in Runs /\ row[q] # "absent"
    BY <1>1, <2>2 DEF IInv, KnownSettled, ReadType
  <2>4. Answered(q) \/ Owed(reads[d].todo, q) \/ IsReported(d, q)
    BY <1>4, <2>2 DEF IInv, ReadBacklog, ReadBackfills
  <2>5. CASE Answered(q)
    BY <2>3, <2>5, AnsweredStays
  <2>6. reads[d].todo[i] \in Messages
    BY <2>2
  <2>7. /\ reads[d].todo[i].run \in Runs
        /\ Reported(reads[d].todo[i].run) \in Seq(Pendings)
    BY <1>1, <2>6, BackfillTypes DEF Messages
  <2>8. CASE IsReported(d, q)
    <3>1. PICK k \in DOMAIN reads[d].pending : reads[d].pending[k].run = q
      BY <2>8 DEF IsReported
    <3>2. k \in DOMAIN reads'[d].pending /\ reads'[d].pending[k] = reads[d].pending[k]
      BY <2>2, <2>7, ConcatHolds
    <3> QED BY <3>1, <3>2 DEF IsReported
  <2>9. CASE Owed(reads[d].todo, q)
    <3>1. reads[d].todo[i].run = q \/ Owed(After(reads[d].todo, i), q)
      BY <2>1, <2>2, <2>3, <2>9, LoopGoesOn
    <3>2. CASE reads[d].todo[i].run = q /\ row[q] = "succeeded"
      BY <2>1, <2>3, <3>2, BackfillAnswers
    <3>3. CASE reads[d].todo[i].run = q /\ row[q] # "succeeded"
      <4>1. Reported(q) = <<[run |-> q, status |-> row[q]]>>
        BY <2>3, <3>3 DEF Reported, IInv, ThreadTypeOK
      <4> DEFINE k == Len(reads[d].pending) + 1
      <4>2. Len(Reported(q)) = 1 /\ Reported(q)[1].run = q
        BY <4>1
      <4>3. k \in DOMAIN reads'[d].pending /\ reads'[d].pending[k] = Reported(q)[1]
        BY <2>2, <2>7, <3>3, <4>2, ConcatHolds
      <4> QED BY <4>2, <4>3 DEF IsReported
    <3> QED BY <2>2, <3>1, <3>2, <3>3
  <2> QED BY <2>4, <2>5, <2>8, <2>9
<1>5. CASE ReadRelists(d)
  BY <1>1, <1>5 DEF ReadRelists, ReadType
<1> QED BY <1>2, <1>3, <1>4, <1>5, ReadCases

(* The prompt is cut from the thread when nothing is owed any more.        *)
LEMMA PromptKept == IInv /\ [ThreadNext]_threadVars => PromptComplete'
<1> SUFFICES ASSUME IInv, [ThreadNext]_threadVars, NEW r \in Runs, NEW q \in sends'[r].known,
                    In(Question(q), prompt'[r])
             PROVE  In(Reply(q), prompt'[r])
  BY DEF PromptComplete, In
<1>1. /\ thread \in Seq(Messages) /\ sends \in [Runs -> SendType] /\ sends[r] \in SendType
      /\ prompt \in [Runs -> Seq(Messages)]
  BY DEF IInv, ThreadTypeOK, SendType
<1>2. CASE sends'[r].known = sends[r].known /\ prompt'[r] = prompt[r]
  BY <1>2 DEF IInv, PromptComplete
<1>3. ASSUME NEW p \in Runs, SendLists(p), p = r PROVE FALSE
  <2>1. prompt'[r] = << >>
    BY <1>3 DEF SendLists, IInv, NoPromptYet
  <2> QED BY <2>1 DEF In
<1>4. CASE SendRelists(r)
  <2> DEFINE fresh == Newest(PromptWindow, thread)
  <2>1. fresh \in Seq(Messages) /\ Suffix(fresh, thread)
    BY <1>1, NewestIsSuffix, WindowAssumption
  <2>2. PICK n \in 0..Len(fresh) : prompt' = [prompt EXCEPT ![r] = Newest(n, fresh)]
    BY <1>4 DEF SendRelists
  <2> DEFINE quoted == Newest(n, fresh)
  <2>3. quoted \in Seq(Messages) /\ Suffix(quoted, fresh)
    BY <2>1, NewestIsSuffix
  <2>4. prompt'[r] = quoted
    BY <1>1, <2>2
  <2> HIDE DEF fresh, quoted
  <2>5. sends'[r].known = sends[r].known
    <3>1. sends' = [sends EXCEPT ![r].pc = "append", ![r].todo = << >>]
      BY <1>4 DEF SendRelists
    <3> QED BY <1>1, <3>1 DEF SendType
  <2>6. q \in Runs
    BY <1>1, <2>5 DEF SendType
  <2>7. Ordered(thread) /\ Ordered(fresh)
    BY <1>1, <2>1, SuffixOrdered DEF IInv, RepliesEarned, Ordered
  <2>8. In(Question(q), fresh) /\ In(Question(q), thread)
    BY <1>1, <2>1, <2>3, <2>4, SuffixHolds
  <2>9. ~ Owed(sends[r].todo, q)
    BY <1>4, <2>6, LoopIsOver DEF SendRelists
  <2>10. In(Reply(q), thread)
    BY <1>4, <2>5, <2>8, <2>9 DEF SendRelists, IInv, SendBacklog, Answered
  <2>11. In(Reply(q), fresh)
    BY <1>1, <2>1, <2>6, <2>7, <2>8, <2>10, SuffixKeepsReply
  <2> QED BY <2>1, <2>3, <2>4, <2>6, <2>7, <2>11, SuffixKeepsReply
<1>5. ASSUME NEW p \in Runs, SendLists(p) \/ SendRelists(p), p # r
      PROVE  sends'[r].known = sends[r].known /\ prompt'[r] = prompt[r]
  <2>1. CASE SendLists(p)
    BY <1>1, <1>5, <2>1 DEF SendLists
  <2>2. CASE SendRelists(p)
    <3>1. PICK m : prompt' = [prompt EXCEPT ![p] = m]
      BY <2>2 DEF SendRelists
    <3> QED BY <1>1, <1>5, <2>2, <3>1 DEF SendRelists
  <2> QED BY <1>5, <2>1, <2>2
<1>6. ASSUME NEW p \in Runs, SendBegins(p) \/ SendAppends(p) \/ SendFails(p) \/ SendCreatesRun(p)
      PROVE  sends'[r].known = sends[r].known /\ prompt'[r] = prompt[r]
  <2>1. PICK x : \/ sends' = [sends EXCEPT ![p].pc = x]
                 \/ sends' = [sends EXCEPT ![p].pc = x, ![p].todo = << >>]
    BY <1>6 DEF SendBegins, SendAppends, SendFails, SendCreatesRun
  <2>2. sends[p] \in SendType
    BY <1>1
  <2>3. sends'[p].known = sends[p].known
    BY <1>1, <2>1, <2>2 DEF SendType
  <2>4. sends'[r].known = sends[r].known
    <3>1. CASE p # r
      BY <1>1, <2>1, <3>1
    <3> QED BY <2>3, <3>1
  <2>5. prompt' = prompt
    BY <1>6 DEF SendBegins, SendAppends, SendFails, SendCreatesRun
  <2> QED BY <2>4, <2>5
<1>7. ASSUME NEW p \in Runs, SendBackfills(p)
      PROVE  sends'[r].known = sends[r].known /\ prompt'[r] = prompt[r]
  BY <1>1, <1>7 DEF SendBackfills, SendType
<1>8. \/ UNCHANGED <<sends, prompt>>
      \/ \E p \in Runs : \/ SendBegins(p) \/ SendLists(p) \/ SendRelists(p) \/ SendAppends(p)
                         \/ SendFails(p) \/ SendCreatesRun(p) \/ SendBackfills(p)
  BY DEF ThreadNext, Serve, threadVars, ReadBegins, ReadLists, ReadBackfills, ReadRelists,
         ReadEnds, Clear, RunEnds, RunReopens
<1>9. UNCHANGED <<sends, prompt>> => sends'[r].known = sends[r].known /\ prompt'[r] = prompt[r]
  OBVIOUS
<1> QED BY <1>2, <1>3, <1>4, <1>5, <1>6, <1>7, <1>8, <1>9

(* So is the answer to a history request.                                  *)
LEMMA HistoryKept == IInv /\ [ThreadNext]_threadVars => HistoryAccounts'
<1> SUFFICES ASSUME IInv, [ThreadNext]_threadVars, NEW d \in Readers, NEW q \in Runs,
                    reads'[d].pc = "done", q \in reads'[d].known,
                    In(Question(q), reads'[d].messages)
             PROVE  In(Reply(q), reads'[d].messages) \/ IsReported(d, q)'
  BY DEF HistoryAccounts, IsReported, In
<1>1. thread \in Seq(Messages) /\ reads \in [Readers -> ReadType] /\ reads[d] \in ReadType
  BY DEF IInv, ThreadTypeOK, ReadType
<1>2. CASE reads'[d] = reads[d]
  BY <1>2 DEF IInv, HistoryAccounts, IsReported
<1>3. CASE ReadLists(d) \/ ReadBackfills(d)
  <2>1. CASE ReadLists(d)
    BY <1>1, <2>1 DEF ReadLists, ReadType
  <2>2. CASE ReadBackfills(d)
    BY <1>1, <2>2 DEF ReadBackfills, ReadType
  <2> QED BY <1>3, <2>1, <2>2
<1>4. CASE ReadRelists(d)
  <2> DEFINE final == Newest(HistoryWindow, thread)
  <2>1. final \in Seq(Messages) /\ Suffix(final, thread)
    BY <1>1, NewestIsSuffix, WindowAssumption
  <2>2. reads' = [reads EXCEPT ![d].pc = "done", ![d].todo = << >>, ![d].messages = final]
    BY <1>4 DEF ReadRelists
  <2> HIDE DEF final
  <2>3. /\ reads'[d].messages = final /\ reads'[d].known = reads[d].known
        /\ reads'[d].pending = reads[d].pending
    BY <1>1, <2>2 DEF ReadType
  <2>4. In(Question(q), thread)
    BY <1>1, <2>1, <2>3, SuffixHolds
  <2>5. ~ Owed(reads[d].todo, q)
    BY <1>4, LoopIsOver DEF ReadRelists
  <2>6. In(Reply(q), thread) \/ IsReported(d, q)
    BY <1>4, <2>3, <2>4, <2>5 DEF ReadRelists, IInv, ReadBacklog, Answered
  <2>7. IsReported(d, q) => IsReported(d, q)'
    BY <2>3 DEF IsReported
  <2>8. Ordered(thread)
    BY DEF IInv, RepliesEarned, Ordered
  <2> QED BY <1>1, <2>1, <2>3, <2>6, <2>7, <2>8, SuffixKeepsReply
<1> QED BY <1>2, <1>3, <1>4, ReadCases

-----------------------------------------------------------------------------
LEMMA InvariantKept == IInv /\ [ThreadNext]_threadVars => IInv'
<1> SUFFICES ASSUME IInv, [ThreadNext]_threadVars PROVE IInv'
  OBVIOUS
<1>1. ThreadTypeOK'
  BY StepTypes DEF IInv
<1> QED BY <1>1, RowsMatchKept, AskedKept, RepliesKept, KnownKept, NoPromptKept,
           SendBacklogKept, ReadBacklogKept, PromptKept, HistoryKept DEF IInv

(* The parts hold of every thread, whatever requests arrive.               *)
THEOREM ThreadInvariant == ThreadSpec => []IInv
<1> QED BY InitHolds, InvariantKept, PTL DEF ThreadSpec

(* A prompt that quotes a question the request found answered (stored and  *)
(* its run succeeded) quotes the reply too (sendChatMessage).              *)
THEOREM PromptsSeeReplies == ThreadSpec => []PromptSeesReplies
<1>1. IInv => PromptSeesReplies
  BY DEF IInv, PromptComplete, PromptSeesReplies
<1> QED BY <1>1, ThreadInvariant, PTL

(* A history answer leaves no question it knew a run of unaccounted for    *)
(* (getChatHistory).                                                       *)
THEOREM HistoryIsComplete == ThreadSpec => []HistoryAccounts
<1>1. IInv => HistoryAccounts
  BY DEF IInv
<1> QED BY <1>1, ThreadInvariant, PTL

(* Replies are stored once, for runs that succeeded, after their question  *)
(* (backfillChatReplies, appendChatMessage).                               *)
THEOREM RepliesAreEarned == ThreadSpec => []RepliesEarned
<1>1. IInv => RepliesEarned
  BY DEF IInv
<1> QED BY <1>1, ThreadInvariant, PTL

(* Both together, for every reader of the thread.                          *)
THEOREM ThreadIsSound == ThreadSpec => []ThreadSound
<1>1. IInv => ThreadSound
  BY DEF IInv, ThreadSound
<1> QED BY <1>1, ThreadInvariant, PTL

=============================================================================

----------------------------- MODULE ChatThread -----------------------------
(***************************************************************************)
(* The personal chat of one organization with one agent, as the server     *)
(* keeps it.  A question is stored, a run is created for it, and the reply *)
(* is not written by whoever executes the run: it is filled in later, from *)
(* the run's output, by the next request that happens to list the thread.  *)
(* Every await of a request is a step of its own.                          *)
(*                                                                         *)
(* A message is identified by its role and its run (the unique index of    *)
(* the table); what it says is abstracted to its weight in the prompt's    *)
(* budget.  Runs are executed by the execution plane, of which only the    *)
(* status of the row is visible here.                                      *)
(***************************************************************************)
EXTENDS Naturals, Sequences, FiniteSets

CONSTANTS
  Runs,           \* run identifiers; a question and its run share one
  Readers,        \* history requests that may be under way at a time
  PromptWindow,   \* messages of the thread a prompt may quote
  HistoryWindow,  \* messages a history request lists
  PromptBudget,   \* weight of the messages a prompt may quote
  Long            \* the runs whose reply weighs 2, every other message weighs 1

ASSUME WindowAssumption ==
  /\ PromptWindow \in Nat \ {0}
  /\ HistoryWindow \in Nat \ {0}
  /\ PromptBudget \in Nat
  /\ Long \subseteq Runs

VARIABLES
  thread,    \* the stored messages, in the order of their insertion
  row,       \* status of each run's row; "queued" stands for all that is not final
  sends,     \* for each run, the request that stores its question
  reads,     \* for each reader, the history request it serves
  prompt     \* for each run, the messages its prompt quotes

threadVars == <<thread, row, sends, reads, prompt>>

Question(r) == [role |-> "user", run |-> r]
Reply(r) == [role |-> "agent", run |-> r]
Messages == [role : {"user", "agent"}, run : Runs]
Pendings == [run : Runs, status : {"queued", "failed"}]

In(m, s) == \E i \in DOMAIN s : s[i] = m

(* The newest n messages of a thread, oldest first.                        *)
Newest(n, s) == SubSeq(s, IF Len(s) > n THEN Len(s) - n + 1 ELSE 1, Len(s))

Weight(s) ==
  Len(s) + Cardinality({i \in DOMAIN s : s[i].role = "agent" /\ s[i].run \in Long})

(* The newest n messages of s fit and one more would not: the loop stops   *)
(* at the first message that does not fit.                                 *)
Fits(n, s) ==
  /\ Weight(Newest(n, s)) <= PromptBudget
  /\ n < Len(s) => Weight(Newest(n + 1, s)) > PromptBudget

(* The questions of a listing without a reply in it; the loop over the     *)
(* listing stops at the first of them, or is over.  (A reply is younger    *)
(* than its question: what the loop has passed holds no reply to the rest.)*)
Open(s, i) == s[i].role = "user" /\ ~ In(Reply(s[i].run), s)
FirstOpen(s, i) == i \in DOMAIN s /\ Open(s, i) /\ \A k \in 1..(i - 1) : ~ Open(s, k)
NoneOpen(s) == \A i \in DOMAIN s : ~ Open(s, i)
After(s, i) == SubSeq(s, i + 1, Len(s))

Settled(s) == {r \in Runs : In(Question(r), s) /\ row[r] = "succeeded"}
NoSend == [pc |-> "idle", todo |-> << >>, known |-> {}]
NoRead == [pc |-> "idle", todo |-> << >>, known |-> {}, pending |-> << >>, messages |-> << >>]

ThreadInit ==
  /\ thread = << >>
  /\ row = [r \in Runs |-> "absent"]
  /\ sends = [r \in Runs |-> NoSend]
  /\ reads = [d \in Readers |-> NoRead]
  /\ prompt = [r \in Runs |-> << >>]

-----------------------------------------------------------------------------
(* Mutant: an insert without the unique index.                             *)
BackfilledAgain(r) ==
  IF row[r] = "succeeded" THEN Append(thread, Reply(r)) ELSE thread

(* One iteration of the backfill over the runs a request still has to look *)
(* at: a succeeded run gets its reply unless another request was faster, a *)
(* question without a row is passed over, anything else is reported.       *)
Backfilled(r) ==
  IF row[r] = "succeeded" /\ ~ In(Reply(r), thread)
  THEN Append(thread, Reply(r)) ELSE thread

Reported(r) ==
  IF row[r] \in {"queued", "failed"} THEN <<[run |-> r, status |-> row[r]]>> ELSE << >>

-----------------------------------------------------------------------------
(* sendChatMessage.                                                        *)

SendBegins(r) ==
  /\ sends[r].pc = "idle"
  /\ sends' = [sends EXCEPT ![r].pc = "list"]
  /\ UNCHANGED <<thread, row, reads, prompt>>

SendLists(r) ==
  /\ sends[r].pc = "list"
  /\ LET history == Newest(PromptWindow, thread)
     IN sends' = [sends EXCEPT ![r] = [pc |-> "backfill", todo |-> history,
                                       known |-> Settled(history)]]
  /\ UNCHANGED <<thread, row, reads, prompt>>

SendBackfills(r) ==
  /\ sends[r].pc = "backfill"
  /\ \E i \in DOMAIN sends[r].todo :
       /\ FirstOpen(sends[r].todo, i)
       /\ thread' = Backfilled(sends[r].todo[i].run)
       /\ sends' = [sends EXCEPT ![r].todo = After(@, i)]
  /\ UNCHANGED <<row, reads, prompt>>

(* Mutant: the backfill is not awaited.                                    *)
SendRelistsEarly(r) ==
  /\ sends[r].pc = "backfill"
  /\ LET fresh == Newest(PromptWindow, thread)
     IN \E n \in 0..Len(fresh) :
          Fits(n, fresh) /\ prompt' = [prompt EXCEPT ![r] = Newest(n, fresh)]
  /\ sends' = [sends EXCEPT ![r].pc = "append", ![r].todo = << >>]
  /\ UNCHANGED <<thread, row, reads>>

(* The thread is listed again, so that the prompt sees what was filled in. *)
SendRelists(r) ==
  /\ sends[r].pc = "backfill" /\ NoneOpen(sends[r].todo)
  /\ LET fresh == Newest(PromptWindow, thread)
     IN \E n \in 0..Len(fresh) :
          Fits(n, fresh) /\ prompt' = [prompt EXCEPT ![r] = Newest(n, fresh)]
  /\ sends' = [sends EXCEPT ![r].pc = "append", ![r].todo = << >>]
  /\ UNCHANGED <<thread, row, reads>>

SendAppends(r) ==
  /\ sends[r].pc = "append"
  /\ thread' = Append(thread, Question(r))
  /\ sends' = [sends EXCEPT ![r].pc = "create"]
  /\ UNCHANGED <<row, reads, prompt>>

SendCreatesRun(r) ==
  /\ sends[r].pc = "create"
  /\ row' = [row EXCEPT ![r] = "queued"]
  /\ sends' = [sends EXCEPT ![r].pc = "done"]
  /\ UNCHANGED <<thread, reads, prompt>>

(* The request fails between two of its awaits: nothing is rolled back.    *)
SendFails(r) ==
  /\ sends[r].pc \in {"list", "backfill", "append", "create"}
  /\ sends' = [sends EXCEPT ![r].pc = "cut", ![r].todo = << >>]
  /\ UNCHANGED <<thread, row, reads, prompt>>

-----------------------------------------------------------------------------
(* getChatHistory.                                                         *)

ReadBegins(d) ==
  /\ reads[d].pc = "idle"
  /\ reads' = [reads EXCEPT ![d].pc = "list"]
  /\ UNCHANGED <<thread, row, sends, prompt>>

ReadLists(d) ==
  /\ reads[d].pc = "list"
  /\ LET history == Newest(HistoryWindow, thread)
     IN reads' = [reads EXCEPT ![d].pc = "backfill", ![d].todo = history,
                               ![d].known = {r \in Runs : In(Question(r), history) /\ row[r] # "absent"}]
  /\ UNCHANGED <<thread, row, sends, prompt>>

ReadBackfills(d) ==
  /\ reads[d].pc = "backfill"
  /\ \E i \in DOMAIN reads[d].todo :
       LET r == reads[d].todo[i].run
       IN /\ FirstOpen(reads[d].todo, i)
          /\ thread' = Backfilled(r)
          /\ reads' = [reads EXCEPT ![d].todo = After(@, i), ![d].pending = @ \o Reported(r)]
  /\ UNCHANGED <<row, sends, prompt>>

(* Mutant: the backfill is not awaited.                                    *)
ReadRelistsEarly(d) ==
  /\ reads[d].pc = "backfill"
  /\ reads' = [reads EXCEPT ![d].pc = "done", ![d].todo = << >>,
                            ![d].messages = Newest(HistoryWindow, thread)]
  /\ UNCHANGED <<thread, row, sends, prompt>>

ReadRelists(d) ==
  /\ reads[d].pc = "backfill" /\ NoneOpen(reads[d].todo)
  /\ reads' = [reads EXCEPT ![d].pc = "done", ![d].todo = << >>,
                            ![d].messages = Newest(HistoryWindow, thread)]
  /\ UNCHANGED <<thread, row, sends, prompt>>

(* The caller has the answer.                                              *)
ReadEnds(d) ==
  /\ reads[d].pc = "done"
  /\ reads' = [reads EXCEPT ![d] = NoRead]
  /\ UNCHANGED <<thread, row, sends, prompt>>

-----------------------------------------------------------------------------
(* clearChatHistory: one DELETE.                                           *)
Clear ==
  /\ thread # << >>
  /\ thread' = << >>
  /\ UNCHANGED <<row, sends, reads, prompt>>

(* The execution plane ends a run; a failed one may be re-opened.          *)
RunEnds(r) ==
  /\ row[r] = "queued"
  /\ \E s \in {"succeeded", "failed"} : row' = [row EXCEPT ![r] = s]
  /\ UNCHANGED <<thread, sends, reads, prompt>>

RunReopens(r) ==
  /\ row[r] = "failed"
  /\ row' = [row EXCEPT ![r] = "queued"]
  /\ UNCHANGED <<thread, sends, reads, prompt>>

Serve ==
  \/ \E r \in Runs : \/ SendLists(r) \/ SendBackfills(r) \/ SendRelists(r)
                     \/ SendAppends(r) \/ SendCreatesRun(r)
  \/ \E d \in Readers : ReadLists(d) \/ ReadBackfills(d) \/ ReadRelists(d)

(* Any number of devices that ask for anything at any time.                *)
ThreadNext ==
  \/ Serve
  \/ \E r \in Runs : SendBegins(r) \/ SendFails(r) \/ RunEnds(r) \/ RunReopens(r)
  \/ \E d \in Readers : ReadBegins(d) \/ ReadEnds(d)
  \/ Clear

ThreadSpec == ThreadInit /\ [][ThreadNext]_threadVars

-----------------------------------------------------------------------------
ThreadTypeOK ==
  /\ thread \in Seq(Messages)
  /\ row \in [Runs -> {"absent", "queued", "succeeded", "failed"}]
  /\ sends \in [Runs -> [pc : {"idle", "list", "backfill", "append", "create", "done", "cut"},
                         todo : Seq(Messages), known : SUBSET Runs]]
  /\ reads \in [Readers -> [pc : {"idle", "list", "backfill", "done"}, todo : Seq(Messages),
                            known : SUBSET Runs, pending : Seq(Pendings),
                            messages : Seq(Messages)]]
  /\ prompt \in [Runs -> Seq(Messages)]

(* A prompt never quotes a question without the answer that was there when *)
(* the message was sent: the model is not asked to go on from a dialog     *)
(* that looks unanswered (sendChatMessage backfills "first, so the prompt  *)
(* sees them"), however requests interleave and whatever the budget cuts.  *)
PromptSeesReplies ==
  \A r, q \in Runs :
    /\ row[r] # "absent" /\ q \in sends[r].known
    /\ In(Question(q), prompt[r])
    => In(Reply(q), prompt[r])

(* A history answer accounts for every question that had a run when it was *)
(* asked for: the reply is in it, or the run is reported as pending, so    *)
(* the caller knows what to poll (getChatHistory).                         *)
HistoryAccounts ==
  \A d \in Readers, q \in Runs :
    /\ reads[d].pc = "done" /\ q \in reads[d].known
    /\ In(Question(q), reads[d].messages)
    => \/ In(Reply(q), reads[d].messages)
       \/ \E i \in DOMAIN reads[d].pending : reads[d].pending[i].run = q

(* The thread holds a message once, however many requests fill it in at    *)
(* the same time, and a reply only of a run that succeeded and, the run    *)
(* having been asked for by it, after its question (backfillChatReplies:   *)
(* "idempotent ... crash- and race-safe").                                 *)
RepliesEarned ==
  \A i, j \in DOMAIN thread :
    /\ thread[i] = thread[j] => i = j
    /\ thread[i].role = "agent" => row[thread[i].run] = "succeeded"
    /\ (thread[i].role = "agent" /\ thread[j] = Question(thread[i].run)) => j < i

(* The thread and what is answered from it: a history request accounts for *)
(* every question, a stored reply is earned.                               *)
ThreadSound == HistoryAccounts /\ RepliesEarned

(* What is cleared stays cleared: no reply comes back to a thread whose    *)
(* questions were deleted (clearChatThread: "the server replays history    *)
(* into the prompt").  A backfill that listed before the clear breaks it.  *)
ClearedStaysCleared ==
  \A i \in DOMAIN thread :
    thread[i].role = "agent" => In(Question(thread[i].run), thread)

=============================================================================

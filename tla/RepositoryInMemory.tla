------------------------- MODULE RepositoryInMemory -------------------------
(***************************************************************************)
(* The repository the tests run on, as the abstract specification of the   *)
(* port: maps in insertion order, every call one step.  'answer' is what   *)
(* the last call returned.  RepositoryPrisma is shown to act like it.      *)
(***************************************************************************)
EXTENDS Naturals, Sequences, FiniteSets

CONSTANTS
  Runs,        \* run ids
  Staff,       \* agents; each has one thread
  AgentOf,     \* the agent of each run
  ParentOf,    \* the task of each child run, None for the others
  States,      \* statuses callers write
  Patches,     \* the columns callers write beside the status
  Emoji,
  RunLimits,   \* caps of run listings, 0 for none
  ChatLimits,  \* caps of chat listings
  None,        \* undefined
  MaxCount     \* bound: attempts and letters of a run

VARIABLES
  made,      \* runs in the order of their creation
  content,   \* the columns of each run
  letters,   \* how many dead letters of each run are listed
  thread,    \* the messages of each agent, in order
  reactions, \* of each message
  answer

vars == <<made, content, letters, thread, reactions, answer>>

Columns == {"status", "attempts", "output", "error"}
Messages == [role : {"user", "agent"}, run : Runs]
NewRun == [status |-> "queued", attempts |-> 0, output |-> None, error |-> None]

Created == {made[i] : i \in DOMAIN made}
InThread(a) == {thread[a][i] : i \in DOMAIN thread[a]}

(* The elements of s that are in S, in their order.                        *)
Those(s, S) ==
  LET at == {i \in DOMAIN s : s[i] \in S}
      Nth(n) == CHOOSE i \in at : Cardinality({j \in at : j <= i}) = n
  IN [n \in 1..Cardinality(at) |-> s[Nth(n)]]

(* slice(-limit).                                                          *)
Newest(s, limit) == IF limit >= Len(s) THEN s ELSE SubSeq(s, Len(s) - limit + 1, Len(s))

Init ==
  /\ made = << >>
  /\ content = [r \in Runs |-> NewRun]
  /\ letters = [r \in Runs |-> 0]
  /\ thread = [a \in Staff |-> << >>]
  /\ reactions = [m \in Messages |-> None]
  /\ answer = <<"done">>

-----------------------------------------------------------------------------
(* Runs.  createRun's answer is not looked at by anybody.                  *)

CreateRun(r) ==
  /\ made' = IF r \in Created THEN made ELSE Append(made, r)
  /\ answer' = <<"done">>
  /\ UNCHANGED <<content, letters, thread, reactions>>

GetRun(r) ==
  /\ answer' = IF r \in Created THEN <<"run", r, content[r]>> ELSE <<"null">>
  /\ UNCHANGED <<made, content, letters, thread, reactions>>

(* { ...run, ...patch, status }: an undefined of the patch is written too. *)
UpdateRunStatus(r, status, patch) ==
  /\ IF r \in Created
     THEN /\ content' = [content EXCEPT ![r] = [c \in Columns |->
                           IF c = "status" THEN status
                           ELSE IF c \in DOMAIN patch THEN patch[c] ELSE content[r][c]]]
          /\ answer' = <<"done">>
     ELSE answer' = <<"throws">> /\ UNCHANGED content
  /\ UNCHANGED <<made, letters, thread, reactions>>

IncrementRunAttempts(r) ==
  /\ content[r].attempts < MaxCount
  /\ IF r \in Created
     THEN /\ content' = [content EXCEPT ![r].attempts = @ + 1]
          /\ answer' = <<"attempts", r, content[r].attempts + 1>>
     ELSE answer' = <<"throws">> /\ UNCHANGED content
  /\ UNCHANGED <<made, letters, thread, reactions>>

(* The columns of the runs of a list.                                      *)
Shown(s) == [r \in {q \in Runs : \E i \in DOMAIN s : s[i] = q} |-> content[r]]

ListChildRuns(parent) ==
  LET children == Those(made, {r \in Runs : ParentOf[r] = parent}) IN
  /\ answer' = <<"runs", children, Shown(children)>>
  /\ UNCHANGED <<made, content, letters, thread, reactions>>

ListRunsByOrg(whose, limit) ==
  LET all == Those(made, {r \in Runs : AgentOf[r] \in whose})
      rows == IF limit > 0 THEN Newest(all, limit) ELSE all
  IN
  /\ answer' = <<"runs", rows, Shown(rows)>>
  /\ UNCHANGED <<made, content, letters, thread, reactions>>

-----------------------------------------------------------------------------
(* Dead letters.                                                           *)

RecordDeadLetter(r) ==
  /\ letters[r] < MaxCount
  /\ letters' = [letters EXCEPT ![r] = @ + 1]
  /\ answer' = <<"done">>
  /\ UNCHANGED <<made, content, thread, reactions>>

ListDeadLetters ==
  /\ answer' = <<"letters", letters>>
  /\ UNCHANGED <<made, content, letters, thread, reactions>>

MarkDeadLetterRequeued(r) ==
  /\ letters' = [letters EXCEPT ![r] = 0]
  /\ answer' = <<"done">>
  /\ UNCHANGED <<made, content, thread, reactions>>

-----------------------------------------------------------------------------
(* Chat.  A question is appended with the id of a run that is new.         *)

AppendChatMessage(a, r) ==
  LET m == [role |-> "user", run |-> r] IN
  /\ AgentOf[r] = a /\ m \notin InThread(a)
  /\ thread' = [thread EXCEPT ![a] = Append(@, m)]
  /\ answer' = <<"message", m>>
  /\ UNCHANGED <<made, content, letters, reactions>>

AppendChatReplyIfAbsent(a, r) ==
  LET m == [role |-> "agent", run |-> r] IN
  /\ AgentOf[r] = a
  /\ thread' = IF m \in InThread(a) THEN thread ELSE [thread EXCEPT ![a] = Append(@, m)]
  /\ answer' = <<IF m \in InThread(a) THEN "false" ELSE "true">>
  /\ UNCHANGED <<made, content, letters, reactions>>

ListChatMessages(a, limit) ==
  LET kept == Newest(thread[a], limit) IN
  /\ answer' = <<"messages", [i \in 1..Len(kept) |-> <<kept[i], reactions[kept[i]]>>]>>
  /\ UNCHANGED <<made, content, letters, thread, reactions>>

ClearChatMessages(a) ==
  /\ thread' = [thread EXCEPT ![a] = << >>]
  /\ reactions' = [m \in Messages |-> IF m \in InThread(a) THEN None ELSE reactions[m]]
  /\ answer' = <<"cleared", Len(thread[a])>>
  /\ UNCHANGED <<made, content, letters>>

Toggled(had, e) ==
  LET set == IF had = None THEN {} ELSE had
  IN IF e \in set THEN set \ {e} ELSE set \cup {e}

ToggleChatReaction(a, m, e) ==
  /\ IF m \in InThread(a)
     THEN /\ reactions' = [reactions EXCEPT ![m] = Toggled(@, e)]
          /\ answer' = <<"message", m, Toggled(reactions[m], e)>>
     ELSE answer' = <<"null">> /\ UNCHANGED reactions
  /\ UNCHANGED <<made, content, letters, thread>>

-----------------------------------------------------------------------------
RunCall ==
  \/ \E r \in Runs : \/ CreateRun(r) \/ GetRun(r) \/ IncrementRunAttempts(r)
                     \/ ListChildRuns(r)
                     \/ \E s \in States, p \in Patches : UpdateRunStatus(r, s, p)
  \/ \E whose \in SUBSET Staff, limit \in RunLimits : ListRunsByOrg(whose, limit)

LetterCall ==
  \/ \E r \in Runs : MarkDeadLetterRequeued(r) \/ RecordDeadLetter(r)
  \/ ListDeadLetters

ChatCall ==
  \E a \in Staff :
    \/ \E r \in Runs : AppendChatMessage(a, r) \/ AppendChatReplyIfAbsent(a, r)
    \/ \E limit \in ChatLimits : ListChatMessages(a, limit)
    \/ ClearChatMessages(a)
    \/ \E m \in Messages, e \in Emoji : ToggleChatReaction(a, m, e)

Next == LetterCall \/ RunCall \/ ChatCall

Spec == Init /\ [][Next]_vars

=============================================================================

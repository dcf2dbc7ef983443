-------------------------- MODULE RepositoryPrisma --------------------------
(***************************************************************************)
(* The repository of production: tables in Postgres, null where a column   *)
(* was never written, a dead letter kept and marked, a reaction in two     *)
(* statements.  For the calls the program makes it acts like the in-memory *)
(* repository its tests run on (repo.prisma.ts, repo.inMemory.ts), but for *)
(* what the patch of a requeue means to take off and leaves.               *)
(***************************************************************************)
EXTENDS Naturals, Sequences, FiniteSets

CONSTANTS Runs, Staff, AgentOf, ParentOf, States, Patches, Emoji,
          RunLimits, ChatLimits, None, MaxCount,   \* as in RepositoryInMemory
          Null                                     \* the database's

(* What the callers patch: an output or an error that is there, and the    *)
(* attempts: 0, error: undefined of a requeue.                             *)
ASSUME PatchesAssumption ==
  \A p \in Patches :
    /\ DOMAIN p \subseteq {"output", "error", "attempts"}
    /\ "output" \in DOMAIN p => p.output \notin {None, Null}
    /\ "error" \in DOMAIN p => p.error # Null
    /\ "attempts" \in DOMAIN p => p.attempts = 0
ASSUME LimitsAssumption ==
  RunLimits \subseteq Nat /\ ChatLimits \subseteq Nat \ {0} /\ MaxCount \in Nat
ASSUME NullAssumption == None # Null /\ \A s \in SUBSET Emoji : s \notin {None, Null}

VARIABLES
  made,      \* runs by createdAt
  content,   \* their columns
  kept,      \* history: the attempts a patch was to take off, and if it was to clear the error
  open,      \* dead letters of each run with requeuedAt null
  requeued,  \* and with a date
  thread,    \* the messages of each agent by createdAt
  reactions, \* of each message
  toggling,  \* a reaction between its two statements
  answer     \* of the last call

repoVars == <<made, content, kept, open, requeued, thread, reactions, toggling, answer>>

Undefined(v) == IF v = Null THEN None ELSE v
MapRun(row) == [c \in DOMAIN row |-> IF c \in {"output", "error"} THEN Undefined(row[c]) ELSE row[c]]

(* A row, and an answer, as they were if those patches were applied.       *)
AsPatched(r, row) ==
  [c \in DOMAIN row |-> IF c = "attempts" THEN row[c] - kept[r].attempts
                       ELSE IF c = "error" /\ kept[r].error = "cleared" THEN None
                       ELSE MapRun(row)[c]]

Answered ==
  IF answer[1] = "run" THEN <<"run", answer[2], AsPatched(answer[2], answer[3])>>
  ELSE IF answer[1] = "attempts" THEN <<"attempts", answer[2], answer[3] - kept[answer[2]].attempts>>
  ELSE IF answer[1] = "runs"
  THEN <<"runs", answer[2], [r \in DOMAIN answer[3] |-> AsPatched(r, answer[3][r])]>>
  ELSE answer

Tested == INSTANCE RepositoryInMemory
  WITH content <- [r \in Runs |-> AsPatched(r, content[r])],
       answer <- Answered,
       letters <- open,
       reactions <- [m \in [role : {"user", "agent"}, run : Runs] |-> Undefined(reactions[m])]

Messages == Tested!Messages
NoToggle == [message |-> None, emoji |-> None, next |-> {}]

RepoInit ==
  /\ made = << >>
  /\ content = [r \in Runs |-> [status |-> "queued", attempts |-> 0,
                                output |-> Null, error |-> Null]]
  /\ kept = [r \in Runs |-> [attempts |-> 0, error |-> "written"]]
  /\ open = [r \in Runs |-> 0]
  /\ requeued = [r \in Runs |-> 0]
  /\ thread = [a \in Staff |-> << >>]
  /\ reactions = [m \in Messages |-> Null]
  /\ toggling = NoToggle
  /\ answer = <<"done">>

runVars == <<made, content, kept>>
letterVars == <<open, requeued>>
chatVars == <<thread, reactions, toggling>>

Found(r) == \E i \in DOMAIN made : made[i] = r
InThread(a, m) == \E i \in DOMAIN thread[a] : thread[a][i] = m
Descending(s) == [i \in 1..Len(s) |-> s[Len(s) + 1 - i]]

(* Mutant: the oldest are taken.                                           *)
TakeOldest(s, limit) == IF limit < Len(s) THEN SubSeq(s, 1, limit) ELSE s

(* orderBy createdAt desc, take, reverse().                                *)
TakeNewest(s, limit) ==
  LET rows == Descending(s) IN
  Descending(IF limit < Len(s) THEN SubSeq(rows, 1, limit) ELSE rows)

-----------------------------------------------------------------------------
CreateRun(r) ==
  /\ made' = IF Found(r) THEN made ELSE Append(made, r)
  /\ answer' = <<"done">>
  /\ UNCHANGED <<content, kept, letterVars, chatVars>>

GetRun(r) ==
  /\ answer' = IF Found(r) THEN <<"run", r, MapRun(content[r])>> ELSE <<"null">>
  /\ UNCHANGED <<runVars, letterVars, chatVars>>

(* The columns of the patch that are written, and what it leaves.          *)
Written(patch) == {c \in DOMAIN patch \cap {"output", "error"} : patch[c] # None}

Left(r, patch) ==
  [attempts |-> IF "attempts" \in DOMAIN patch THEN content[r].attempts ELSE kept[r].attempts,
   error |-> IF "error" \notin DOMAIN patch THEN kept[r].error
             ELSE IF patch.error = None THEN "cleared" ELSE "written"]

UpdateRunStatus(r, status, patch) ==
  /\ IF Found(r)
     THEN /\ content' = [content EXCEPT ![r] = [c \in Tested!Columns |->
                           IF c = "status" THEN status
                           ELSE IF c \in Written(patch) THEN patch[c] ELSE content[r][c]]]
          /\ kept' = [kept EXCEPT ![r] = Left(r, patch)]
          /\ answer' = <<"done">>
     ELSE answer' = <<"throws">> /\ UNCHANGED <<content, kept>>
  /\ UNCHANGED <<made, letterVars, chatVars>>

IncrementRunAttempts(r) ==
  /\ content[r].attempts < MaxCount
  /\ IF Found(r)
     THEN /\ content' = [content EXCEPT ![r].attempts = @ + 1]
          /\ answer' = <<"attempts", r, content'[r].attempts>>
     ELSE answer' = <<"throws">> /\ UNCHANGED content
  /\ UNCHANGED <<made, kept, letterVars, chatVars>>

Mapped(s) == [r \in {q \in Runs : \E i \in DOMAIN s : s[i] = q} |-> MapRun(content[r])]

ListChildRuns(parent) ==
  LET children == Tested!Those(made, {r \in Runs : ParentOf[r] = parent}) IN
  /\ answer' = <<"runs", children, Mapped(children)>>
  /\ UNCHANGED <<runVars, letterVars, chatVars>>

ListRunsByOrg(whose, limit) ==
  LET all == Tested!Those(made, {r \in Runs : AgentOf[r] \in whose})
      rows == TakeNewest(all, IF limit > 0 THEN limit ELSE Len(all))
  IN
  /\ answer' = <<"runs", rows, Mapped(rows)>>
  /\ UNCHANGED <<runVars, letterVars, chatVars>>

-----------------------------------------------------------------------------
RecordDeadLetter(r) ==
  /\ open[r] + requeued[r] < MaxCount
  /\ open' = [open EXCEPT ![r] = @ + 1]
  /\ answer' = <<"done">>
  /\ UNCHANGED <<requeued, runVars, chatVars>>

ListDeadLetters ==
  /\ answer' = <<"letters", open>>
  /\ UNCHANGED <<runVars, letterVars, chatVars>>

MarkDeadLetterRequeued(r) ==
  /\ open' = [open EXCEPT ![r] = 0]
  /\ requeued' = [requeued EXCEPT ![r] = @ + open[r]]
  /\ answer' = <<"done">>
  /\ UNCHANGED <<runVars, chatVars>>

-----------------------------------------------------------------------------
AppendChatMessage(a, r) ==
  LET m == [role |-> "user", run |-> r] IN
  /\ AgentOf[r] = a /\ ~ InThread(a, m)
  /\ thread' = [thread EXCEPT ![a] = Append(@, m)]
  /\ answer' = <<"message", m>>
  /\ UNCHANGED <<reactions, toggling, runVars, letterVars>>

(* The insert, or the unique index on run and role refuses it.             *)
AppendChatReplyIfAbsent(a, r) ==
  LET m == [role |-> "agent", run |-> r] IN
  /\ AgentOf[r] = a
  /\ \/ /\ ~ InThread(a, m)
        /\ thread' = [thread EXCEPT ![a] = Append(@, m)]
        /\ answer' = <<"true">>
     \/ /\ InThread(a, m)
        /\ answer' = <<"false">>
        /\ UNCHANGED thread
  /\ UNCHANGED <<reactions, toggling, runVars, letterVars>>

ListChatMessages(a, limit) ==
  LET rows == TakeNewest(thread[a], limit) IN
  /\ answer' = <<"messages", [i \in 1..Len(rows) |-> <<rows[i], Undefined(reactions[rows[i]])>>]>>
  /\ UNCHANGED <<runVars, letterVars, chatVars>>

(* Toggles and clears that come between the two statements of a toggle are *)
(* the business of module Reactions; here they come one at a time.          *)
ClearChatMessages(a) ==
  /\ toggling = NoToggle
  /\ thread' = [thread EXCEPT ![a] = << >>]
  /\ reactions' = [m \in Messages |-> IF InThread(a, m) THEN Null ELSE reactions[m]]
  /\ answer' = <<"cleared", Len(thread[a])>>
  /\ UNCHANGED <<toggling, runVars, letterVars>>

ToggleReads(a, m, e) ==
  /\ toggling = NoToggle
  /\ LET set == IF reactions[m] = Null THEN {} ELSE reactions[m]
         next == IF e \in set THEN set \ {e} ELSE set \cup {e}
     IN IF InThread(a, m)
        THEN toggling' = [message |-> m, emoji |-> e, next |-> next] /\ UNCHANGED answer
        ELSE answer' = <<"null">> /\ UNCHANGED toggling
  /\ UNCHANGED <<thread, reactions, runVars, letterVars>>

ToggleWrites ==
  /\ toggling # NoToggle
  /\ reactions' = [reactions EXCEPT ![toggling.message] = toggling.next]
  /\ answer' = <<"message", toggling.message, toggling.next>>
  /\ toggling' = NoToggle
  /\ UNCHANGED <<thread, runVars, letterVars>>

-----------------------------------------------------------------------------
RunCall ==
  \/ \E r \in Runs : \/ CreateRun(r) \/ GetRun(r) \/ IncrementRunAttempts(r)
                     \/ ListChildRuns(r)
                     \/ \E s \in States, p \in Patches : UpdateRunStatus(r, s, p)
  \/ \E whose \in SUBSET Staff, limit \in RunLimits : ListRunsByOrg(whose, limit)

LetterCall ==
  \/ \E r \in Runs : RecordDeadLetter(r) \/ MarkDeadLetterRequeued(r)
  \/ ListDeadLetters

ChatCall ==
  \/ \E a \in Staff :
       \/ \E r \in Runs : AppendChatMessage(a, r) \/ AppendChatReplyIfAbsent(a, r)
       \/ \E limit \in ChatLimits : ListChatMessages(a, limit)
       \/ ClearChatMessages(a)
       \/ \E m \in Messages, e \in Emoji : ToggleReads(a, m, e)
  \/ ToggleWrites

RepoNext == RunCall \/ LetterCall \/ ChatCall

RepoSpec == RepoInit /\ [][RepoNext]_repoVars

(* Whatever the tests see of the in-memory repository, production sees of  *)
(* Prisma's: the same rows, the same order under every cap, the same       *)
(* letters, the same answers, call by call.  One thing differs, and no     *)
(* more than this: after a requeue, whose patch the in-memory repository   *)
(* applies (repo.inMemory.ts: { ...run, ...patch }) and Prisma's does not  *)
(* write, the attempts of before count on and the error of before shows    *)
(* until another one is written.                                           *)
PrismaActsAsTested == Tested!Spec

=============================================================================

------------------------------ MODULE AgentLoop ------------------------------
(***************************************************************************)
(* The inside of one execution of executeRun: the conversation with the    *)
(* model, turn by turn, the masking of personal data around it, the tools  *)
(* the model calls, and the trace of steps that every attempt writes over  *)
(* the trace of the attempt before.  ExecutionPlane has the statuses       *)
(* around it; here an attempt is over when it throws or dies, and the run  *)
(* is done when nothing puts it back to running any more.                  *)
(*                                                                         *)
(* A text is the set of what matters in it: secrets, masking tokens (the   *)
(* number of the token), and Word for everything else.  No text of the     *)
(* outside contains a masking token literally.                             *)
(***************************************************************************)
EXTENDS SequencesExt

CONSTANTS
  Secrets,        \* what the patterns of the masker match
  Tools,          \* registered tools
  Allowed,        \* the agent's allow-list, {} for every tool
  CallLists,      \* the lists of tool calls a model may answer with
  MaxIterations,  \* turns of one attempt
  MaxTries,       \* bound: attempts
  KeepsCreated    \* Prisma's upsert: on a retry a row keeps role, tool and input

ASSUME LoopAssumption ==
  /\ {MaxIterations, MaxTries} \subseteq Nat \ {0}
  /\ KeepsCreated \in BOOLEAN
  /\ IsFiniteSet(Secrets) /\ Secrets \cap Nat = {}

VARIABLES
  task,    \* the text of the run's prompt
  trace,   \* the rows of the run's steps, in the order of their index
  final,   \* the output of the run, << >> before there is one
  tries,   \* attempts begun
  at,      \* where the attempt is
  known,   \* its masking tokens: the secret each of them stands for
  talk,    \* its messages
  turn,    \* its turns
  reply,   \* the model's last answer: text and calls to make
  held,    \* the row of a tool call that is to be written
  said,    \* history: the rows the last attempt begun has written
  answered,\* history: the attempt that stored the answer, 0: none
  spent,   \* history: answers of the model, each the tokens of one
  sent     \* history: what providers have been shown

loopVars == <<task, trace, final, tries, at, known, talk, turn, reply, held, said, answered, spent, sent>>
attemptVars == <<known, talk, turn, reply, held>>

Word == 0
Tokens == 1 .. Cardinality(Secrets)
Blank == << >>
Said(text) == [role |-> "assistant", name |-> Blank, input |-> {}, output |-> text, tokens |-> 1]

Nothing == [text |-> {}, calls |-> << >>]

LoopInit ==
  /\ task \in {{Word} \cup s : s \in SUBSET Secrets}
  /\ trace = << >> /\ final = Blank /\ tries = 0 /\ at = "idle" /\ sent = {}
  /\ known = << >> /\ talk = << >> /\ turn = 0 /\ said = << >> /\ held = Said({})
  /\ reply = Nothing /\ spent = 0 /\ answered = 0

-----------------------------------------------------------------------------
(* RegexPiiMasker: a secret keeps the token it was given first.            *)

Learn(tokens, text) == tokens \o SetToSeq((text \cap Secrets) \ Range(tokens))

Mask(tokens, text) ==
  {IF a \in Secrets THEN CHOOSE n \in DOMAIN tokens : tokens[n] = a ELSE a : a \in text}

Unmask(tokens, text) ==
  {IF a \in DOMAIN tokens THEN tokens[a] ELSE a : a \in text}

(* Mutant: the update leaves the tokens out.                               *)
KeptTokens(old, row) == [old EXCEPT !.output = row.output]

(* appendStep: an upsert by index, which the attempt counts up.  A tool's  *)
(* row has no tokens, and what is undefined is not written over.           *)
Kept(old, row) ==
  [old EXCEPT !.output = row.output, !.tokens = IF row.tokens = 0 THEN old.tokens ELSE row.tokens]
Upserted(rows, index, row) ==
  IF index > Len(rows) THEN Append(rows, row)
  ELSE [rows EXCEPT ![index] = IF KeepsCreated THEN Kept(@, row) ELSE row]

(* What the metrics say a run has cost: the sum over its rows.             *)
Burn(rows) ==
  LET sum[n \in 0 .. Len(rows)] == IF n = 0 THEN 0 ELSE sum[n - 1] + rows[n].tokens
  IN sum[Len(rows)]

(* Mutant: the index only counts turns.                                    *)
WriteByTurn(row) ==
  /\ trace' = Upserted(trace, turn + 1, row)
  /\ said' = Append(said, row)

Write(row) ==
  /\ trace' = Upserted(trace, Len(said) + 1, row)
  /\ said' = Append(said, row)

-----------------------------------------------------------------------------
BeginAttempt ==
  /\ at \in {"idle", "over"} /\ tries < MaxTries
  /\ tries' = tries + 1 /\ at' = "ask"
  /\ talk' = <<task>> /\ said' = << >>
  /\ UNCHANGED <<task, trace, final, known, turn, reply, held, answered, spent, sent>>

(* Mutant: only the prompt is masked, what tools return goes out as it is. *)
AskUnmasked ==
  /\ at = "ask" /\ turn < MaxIterations
  /\ known' = Learn(known, task)
  /\ sent' = sent \cup Mask(known', task) \cup UNION {talk[i] : i \in DOMAIN talk \ {1}}
  /\ at' = "wait"
  /\ UNCHANGED <<task, trace, final, tries, talk, turn, reply, held, said, answered, spent>>

(* Everything said so far is masked anew for every turn; in which order    *)
(* the secrets that are new in it get their tokens is not told apart.      *)
Ask ==
  /\ at = "ask" /\ turn < MaxIterations
  /\ known' = Learn(known, UNION Range(talk))
  /\ sent' = sent \cup UNION {Mask(known', talk[i]) : i \in DOMAIN talk}
  /\ at' = "wait"
  /\ UNCHANGED <<task, trace, final, tries, talk, turn, reply, held, said, answered, spent>>

(* The model says nothing, or something with all it was shown.             *)
ModelReplies ==
  /\ at = "wait"
  /\ \E text \in {{}, {Word} \cup DOMAIN known}, calls \in CallLists :
       reply' = [text |-> text, calls |-> calls]
  /\ at' = "log" /\ spent' = spent + 1
  /\ UNCHANGED <<task, trace, final, tries, known, talk, turn, held, said, answered, sent>>

(* The turn is written down; without calls it is the answer, and an empty  *)
(* answer is an error.                                                     *)
LogTurn ==
  LET text == Unmask(known, reply.text)
  IN /\ at = "log"
     /\ Write(Said(text))
     /\ turn' = turn + 1
     /\ talk' = IF reply.calls # << >> /\ text # {} THEN Append(talk, text) ELSE talk
     /\ at' = IF reply.calls # << >> THEN "tool" ELSE IF text = {} THEN "empty" ELSE "succeed"
     /\ UNCHANGED <<task, final, tries, known, reply, held, answered, spent, sent>>

(* A tool is called with what the model wrote, tokens and all; it returns  *)
(* what it was given or what it finds.                                     *)
RunTool ==
  LET name == Head(reply.calls)
  IN /\ at = "tool" /\ (Allowed = {} \/ name \in Allowed)
     /\ name \in Tools
     /\ LET input == {Word} \cup DOMAIN known
        IN \E result \in {input} \cup {{Word, s} : s \in Secrets} :
             held' = [role |-> "tool", name |-> name, input |-> input,
                       output |-> result, tokens |-> 0]
     /\ at' = "logTool"
     /\ UNCHANGED <<task, trace, final, tries, known, talk, turn, reply, said, answered, spent, sent>>

LogTool ==
  /\ at = "logTool"
  /\ Write(held)
  /\ talk' = Append(talk, held.output)
  /\ reply' = [reply EXCEPT !.calls = Tail(@)]
  /\ at' = IF Len(reply.calls) = 1 THEN "ask" ELSE "tool"
  /\ held' = Said({})
  /\ UNCHANGED <<task, final, tries, known, turn, answered, spent, sent>>

Succeed ==
  /\ at = "succeed"
  /\ final' = <<Unmask(known, reply.text)>> /\ answered' = tries
  /\ at' = "close"
  /\ UNCHANGED <<task, trace, tries, attemptVars, said, spent, sent>>

(* The audit record and the memory are written, or the process dies before *)
(* they are: a run that is found succeeded is not executed again.          *)
Closes ==
  /\ at = "close"
  /\ at' = "done"
  /\ UNCHANGED <<task, trace, final, tries, attemptVars, said, answered, spent, sent>>

(* A call fails, the process dies, the answer is empty, the tool unknown   *)
(* or not the agent's, the turns are used up; or the answer is stored and  *)
(* what is written after it throws, which puts the run back to running and *)
(* leaves the answer where it is.                                          *)
AttemptEnds ==
  /\ at \notin {"idle", "over", "done"}
  /\ at' = "over"
  /\ known' = << >> /\ talk' = << >> /\ turn' = 0 /\ held' = Said({})
  /\ reply' = Nothing
  /\ UNCHANGED <<task, trace, final, tries, said, answered, spent, sent>>

LoopNext ==
  \/ BeginAttempt \/ Ask \/ ModelReplies \/ LogTurn \/ RunTool \/ LogTool \/ Succeed
  \/ Closes \/ AttemptEnds

-----------------------------------------------------------------------------
(* Wherever an attempt is, or where it ended, the rows up to its last step *)
(* hold its own outputs, whatever earlier attempts left there, and what it *)
(* stored as the run's answer is what the last of them says: also when it  *)
(* threw after that, until another attempt is begun (runtime.ts counts the *)
(* index in two places and relies on the upsert of appendStep).            *)
TraceOfAttempt ==
  /\ Len(trace) >= Len(said)
  /\ \A i \in DOMAIN said : trace[i].output = said[i].output
  /\ final # Blank /\ answered = tries => said # << >> /\ final = <<trace[Len(said)].output>>

(* No provider is shown a secret, over any number of turns with whatever   *)
(* tools return, and nobody who reads the assistant's steps or the answer  *)
(* meets a token (pii.ts: "un-masked on the way back").                    *)
MaskedOutsideOnly ==
  /\ sent \cap Secrets = {}
  /\ \A i \in DOMAIN said : said[i].role = "assistant" => said[i].output \cap Tokens = {}
  /\ final # Blank => final[1] \cap Tokens = {}

(* The tokens reported for a run are tokens it has spent, and at least     *)
(* those of the attempt that wrote last, whatever rows of earlier attempts *)
(* it wrote over or left (metrics.ts: "metrics derived from the Run/Step   *)
(* trace").                                                                *)
BurnAccounted == Burn(trace) <= spent /\ Burn(said) <= Burn(trace)

(* It does not report all of them: a row written over takes its tokens     *)
(* along, and an answer that was never written down is not counted.        *)
BurnIsSpent == final # Blank => Burn(trace) = spent

(* Not so for the calls the model makes: their inputs are handed over and  *)
(* stored with the tokens in them (runtime.ts:268).                        *)
ToolsSeeOriginals ==
  \A i \in DOMAIN said : said[i].role = "tool" => said[i].input \cap Tokens = {}

(* Nor is the trace one attempt's: with Prisma's repository the rows keep  *)
(* the roles of the attempt that made them, with either a longer attempt   *)
(* leaves its end behind.                                                  *)
TraceIsOfOneAttempt == final # Blank => trace = said

(* And the answer need not be the trace's: what is written after it throws,*)
(* the run is executed again over the same rows, and until (or unless) the *)
(* new attempt succeeds the old answer stands beside the new rows.         *)
AnswerIsOfTheTrace == final # Blank => \E i \in DOMAIN trace : trace[i].output = final[1]

=============================================================================

------------------------------- MODULE ModelCli -------------------------------
(***************************************************************************)
(* The child processes of Agent OS, each with a time limit, pipes that are *)
(* read as data arrives, and one promise: the model's command line, tried  *)
(* with a stream of lines first when somebody listens and with one         *)
(* buffered answer after that, and the sandbox that runs an agent's        *)
(* program.                                                                *)
(*                                                                         *)
(* What a process writes is a sequence of pieces.  Of the stream, a piece  *)
(* is a line: its kind decides what it may contribute to the answer, and   *)
(* it may be without text.  Outputs are below the 64 KiB at which the      *)
(* subprocess sandbox stops collecting them.                               *)
(*                                                                         *)
(* There are two sandboxes.  In the subprocess one the child is `timeout`, *)
(* which kills its whole process group, the program with it.  In the other *)
(* the child is the client `docker run`: what Node kills is the client,    *)
(* and the program belongs to the daemon.                                  *)
(***************************************************************************)
EXTENDS Naturals, Sequences, Functions

CONSTANTS
  MaxPieces    \* bound: pieces a process writes

ASSUME CliAssumption == MaxPieces \in Nat

VARIABLES
  stage,    \* what is awaited: "none", "stream", "buffer", "box", "settled"
  settled,  \* how: by which process, with which pieces, or with none
  proc,     \* for each role, its process, pipes and timer
  heard,    \* what the lines of the stream that were handled have left
  sandbox,  \* which sandbox the process has: "subprocess", "docker"
  program   \* the program inside the box: "none", "running", "over"

boxVars == <<sandbox, program>>
cliVars == <<stage, settled, proc, heard, boxVars>>

Roles == {"stream", "buffer", "box"}
Lines == [kind : {"delta", "assistant", "result"}, full : BOOLEAN]
Output == [kind |-> "out", full |-> TRUE]

NoProcess == [phase |-> "none", code |-> "none", wrote |-> << >>, read |-> 0,
              torn |-> FALSE, timer |-> FALSE]
Pending == [by |-> "none", text |-> << >>, late |-> FALSE]

(* A text is the number of the line it came with; 0 is the empty text.     *)
Unsaid == [result |-> 0, assistant |-> 0, streamed |-> << >>]

CliInit ==
  /\ stage = "none" /\ settled = Pending /\ proc = [r \in Roles |-> NoProcess]
  /\ heard = Unsaid /\ sandbox \in {"subprocess", "docker"} /\ program = "none"

Unread(r) == Len(proc[r].wrote) - proc[r].read

(* handleLine: a result and a message replace the one before, even by an   *)
(* empty text; a delta is added.                                           *)
Handled(line, i) ==
  LET text == IF line.full THEN i ELSE 0
  IN CASE line.kind = "result" -> [heard EXCEPT !.result = text]
       [] line.kind = "assistant" -> [heard EXCEPT !.assistant = text]
       [] OTHER -> IF line.full THEN [heard EXCEPT !.streamed = Append(@, i)] ELSE heard

(* The answer of a stream: resultText || assistantText || streamedText.    *)
Answer(said) == IF said.result # 0 THEN <<said.result>>
                ELSE IF said.assistant # 0 THEN <<said.assistant>> ELSE said.streamed

Spawned(r) == [proc EXCEPT ![r] = [NoProcess EXCEPT !.phase = "running", !.timer = TRUE]]

-----------------------------------------------------------------------------
(* complete: streaming only if there is a sink for the tokens.             *)
Complete(sink) ==
  /\ stage = "none"
  /\ stage' = IF sink THEN "stream" ELSE "buffer"
  /\ proc' = Spawned(stage')
  /\ UNCHANGED <<settled, heard, boxVars>>

(* The sandbox of code_exec.                                               *)
RunProgram ==
  /\ stage = "none"
  /\ stage' = "box"
  /\ proc' = Spawned("box") /\ program' = "running"
  /\ UNCHANGED <<settled, heard, sandbox>>

(* What becomes of the promise when the process of a role gives up: the    *)
(* stream falls back to the buffered call, the others settle.  A promise   *)
(* that is settled already does not change.                                *)
GivesUp(r, after) ==
  IF stage # r THEN UNCHANGED <<stage, settled>> /\ proc' = after
  ELSE IF r = "stream"
       THEN /\ stage' = "buffer"
            /\ proc' = [after EXCEPT !["buffer"] = Spawned("buffer")["buffer"]]
            /\ UNCHANGED settled
       ELSE stage' = "settled" /\ settled' = Pending /\ proc' = after

Answers(r, text, late, after) ==
  IF stage # r THEN UNCHANGED <<stage, settled>> /\ proc' = after
  ELSE /\ stage' = "settled" /\ proc' = after
       /\ settled' = [by |-> r, text |-> text, late |-> late]

-----------------------------------------------------------------------------
(* The process.                                                            *)

Writes(r) ==
  /\ proc[r].phase = "running" /\ Len(proc[r].wrote) < MaxPieces
  /\ \E piece \in IF r = "stream" THEN Lines ELSE {Output} :
       proc' = [proc EXCEPT ![r].wrote = Append(@, piece)]
  /\ UNCHANGED <<stage, settled, heard, boxVars>>

(* The program of a box is over with its child, which waits for it.        *)
Ends(r) == program' = (IF r = "box" THEN "over" ELSE program) /\ UNCHANGED sandbox

(* It exits; the last line of a stream may lack its end.  A program that   *)
(* has used up its processor time is killed, and `timeout` dies as it did. *)
Exits(r) ==
  /\ proc[r].phase = "running"
  /\ \E code \in {"ok", "error", "killed"}, torn \in BOOLEAN :
       /\ torn => r = "stream" /\ Unread(r) > 0
       /\ code = "killed" => r = "box" /\ sandbox = "subprocess"
       /\ proc' = [proc EXCEPT ![r].phase = "exited", ![r].code = code, ![r].torn = torn]
  /\ Ends(r) /\ UNCHANGED <<stage, settled, heard>>

(* It cannot be started: the 'error' event.  The timer is cleared.         *)
SpawnFails(r) ==
  /\ proc[r].phase = "running" /\ proc[r].wrote = << >>
  /\ LET after == [proc EXCEPT ![r].phase = "closed", ![r].code = "error", ![r].timer = FALSE]
     IN IF r = "box" THEN Answers(r, << >>, FALSE, after) ELSE GivesUp(r, after)
  /\ Ends(r) /\ UNCHANGED heard

(* A container whose client was killed comes to its end.                   *)
ContainerEnds ==
  /\ program = "running" /\ proc["box"].phase # "running"
  /\ program' = "over" /\ UNCHANGED <<stage, settled, proc, heard, sandbox>>

-----------------------------------------------------------------------------
(* The parent.                                                             *)

(* A piece is taken from the pipe; an unfinished line waits for the end.   *)
Reads(r) ==
  /\ Unread(r) > 0 /\ (proc[r].torn => Unread(r) > 1)
  /\ proc' = [proc EXCEPT ![r].read = @ + 1]
  /\ heard' = IF r = "stream" THEN Handled(proc[r].wrote[proc[r].read + 1], proc[r].read + 1) ELSE heard
  /\ UNCHANGED <<stage, settled, boxVars>>

(* Mutant: 'exit' is taken for 'close'.                                    *)
Undrained(r) == proc[r].phase = "exited"

(* The process has exited and its pipes are drained: 'close'.              *)
Drained(r) == Unread(r) = (IF proc[r].torn THEN 1 ELSE 0)

(* A last line without its end is handled now.                             *)
StreamCloses ==
  /\ proc["stream"].phase = "exited" /\ Drained("stream")
  /\ heard' = IF Unread("stream") = 0 THEN heard
              ELSE Handled(proc["stream"].wrote[proc["stream"].read + 1], proc["stream"].read + 1)
  /\ LET after == [proc EXCEPT !["stream"].phase = "closed", !["stream"].timer = FALSE,
                               !["stream"].read = @ + (IF Unread("stream") = 0 THEN 0 ELSE 1)]
     IN IF proc["stream"].code = "ok" /\ Answer(heard') # << >>
        THEN Answers("stream", Answer(heard'), FALSE, after)
        ELSE GivesUp("stream", after)
  /\ UNCHANGED boxVars

BufferCloses ==
  /\ proc["buffer"].phase = "exited" /\ Drained("buffer")
  /\ LET after == [proc EXCEPT !["buffer"].phase = "closed", !["buffer"].timer = FALSE]
     IN IF proc["buffer"].code = "ok"
        THEN Answers("buffer", SubSeq(proc["buffer"].wrote, 1, proc["buffer"].read), FALSE, after)
        ELSE GivesUp("buffer", after)
  /\ UNCHANGED <<heard, boxVars>>

(* A program's end is a result whatever its exit code; one that was killed *)
(* is reported as timed out.                                               *)
BoxCloses ==
  /\ proc["box"].phase = "exited" /\ Drained("box")
  /\ Answers("box", SubSeq(proc["box"].wrote, 1, proc["box"].read), proc["box"].code = "killed",
             [proc EXCEPT !["box"].phase = "closed", !["box"].timer = FALSE])
  /\ UNCHANGED <<heard, boxVars>>

(* A limit is reached: the child is killed, if it still runs.              *)
Struck(r) == [proc EXCEPT ![r].timer = FALSE, ![r].phase = IF @ = "running" THEN "exited" ELSE @,
                          ![r].code = IF @ = "none" THEN "killed" ELSE @]

(* The limit of a model call: the promise is rejected without waiting for  *)
(* the child's end.                                                        *)
CallTimesOut(r) ==
  /\ r \in {"stream", "buffer"} /\ proc[r].timer
  /\ GivesUp(r, Struck(r))
  /\ UNCHANGED <<heard, boxVars>>

(* The limit of a program, for whose end the promise waits.  `timeout`     *)
(* only lives as long as the program, and takes it along.                  *)
GroupTimesOut ==
  /\ sandbox = "subprocess" /\ proc["box"].phase = "running"
  /\ proc' = Struck("box") /\ program' = "over"
  /\ UNCHANGED <<stage, settled, heard, sandbox>>

(* Node's timer kills the client of a container; the container runs on.    *)
ClientTimesOut ==
  /\ sandbox = "docker" /\ proc["box"].timer
  /\ proc' = Struck("box")
  /\ UNCHANGED <<stage, settled, heard, boxVars>>

CliNext ==
  \/ \E sink \in BOOLEAN : Complete(sink)
  \/ RunProgram
  \/ \E r \in Roles : Writes(r) \/ Exits(r) \/ SpawnFails(r) \/ Reads(r) \/ CallTimesOut(r)
  \/ StreamCloses \/ BufferCloses \/ BoxCloses \/ GroupTimesOut \/ ClientTimesOut \/ ContainerEnds

-----------------------------------------------------------------------------
(* The text of the last line of a kind, 0 if it has none or there is none. *)
LastIs(text, lines, kind) ==
  LET of == {i \in DOMAIN lines : lines[i].kind = kind}
  IN IF text = 0 THEN \A i \in of : lines[i].full => \E j \in of : j > i
     ELSE text \in of /\ lines[text].full /\ \A j \in of : j <= text

(* Said exactly what lines say: their last result, their last message, and *)
(* every delta once and in order.                                          *)
SaysExactly(said, lines) ==
  /\ LastIs(said.result, lines, "result") /\ LastIs(said.assistant, lines, "assistant")
  /\ Range(said.streamed) = {i \in DOMAIN lines : lines[i].kind = "delta" /\ lines[i].full}
  /\ \A a, b \in DOMAIN said.streamed : a < b => said.streamed[a] < said.streamed[b]

(* When a call has settled, no child of it runs on and no timer will       *)
(* strike later; an answer is the whole answer of a process that ended     *)
(* well - of a stream, the text of all it wrote by the order of authority; *)
(* a program is said to have timed out just if its child was killed - and  *)
(* the program is over too, unless it is a container whose client was -    *)
(* whichever of exit, data, end of the pipes, and limit came first.        *)
SettledCleanly ==
  stage = "settled" =>
    /\ \A r \in Roles : proc[r].phase # "running" /\ ~ proc[r].timer
    /\ settled.by \in {"stream", "buffer"} => proc[settled.by].code = "ok"
    /\ settled.by = "stream" => SaysExactly(heard, proc["stream"].wrote) /\ settled.text = Answer(heard)
    /\ settled.by \in {"buffer", "box"} => settled.text = proc[settled.by].wrote
    /\ settled.late <=> settled.by = "box" /\ proc["box"].code = "killed"
    /\ program = "running" => sandbox = "docker" /\ settled.late

(* What the wall-clock limit is for: a program that timed out does not run *)
(* on.  It does, in a container whose client was killed.                   *)
NothingRunsOn == stage = "settled" => program # "running"

(* The one thing that may come late: tokens of a stream whose time was up  *)
(* are still passed on while the buffered call works, or after its answer. *)
NoLateTokens == [][\A r \in Roles : proc'[r].read # proc[r].read => stage = r]_cliVars

=============================================================================

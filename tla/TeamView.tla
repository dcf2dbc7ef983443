------------------------------- MODULE TeamView -------------------------------
(***************************************************************************)
(* The panel of the page that follows one team task: submitting, polling   *)
(* the task's phase until it is over, the event stream beside it, opening  *)
(* another task from the list, reloading.  Polls cannot be called back     *)
(* once they are sent, and one variable holds the id of the timer.         *)
(*                                                                         *)
(* Of the phases, what matters is whether the task goes on.                *)
(***************************************************************************)
EXTENDS Naturals, FiniteSetsExt

CONSTANTS
  Tasks,
  MaxPolls   \* bound: polls on the way or waiting at a time

VARIABLES
  status,    \* of each task: "none", "running", "succeeded", "failed"
  post,      \* the task that is being submitted, {} for none
  stored,    \* the task the browser remembers over reloads
  wanted,    \* the task last asked for
  panel,     \* the phase and the result it shows, and whether Go can be pressed
  polls,     \* polls: number, task, and what became of them
  timer,     \* the number in teamPollTimer, 0 once that timer is gone
  stream,    \* the task whose events are streamed, and whether anybody hears them
  clean      \* history: nothing of another task was there when wanted was asked for

panelVars == <<status, post, stored, wanted, panel, polls, timer, stream, clean>>

Over == {"succeeded", "failed"}
Fresh == [phase |-> "none", of |-> {}, result |-> {}, go |-> TRUE]
Closed == [of |-> {}, live |-> FALSE, event |-> "none"]

PanelInit ==
  /\ status = [t \in Tasks |-> "none"] /\ post = {} /\ stored = {} /\ wanted = {}
  /\ panel = Fresh /\ polls = {} /\ timer = 0 /\ stream = Closed /\ clean = TRUE

-----------------------------------------------------------------------------
Poll(id, t, got) == [id |-> id, of |-> t, got |-> got]
FreeId(ps) == Min((1 .. MaxPolls) \ {p.id : p \in ps})
(* What is left of the polls when the timer the page knows of is cleared.  *)
Cleared(ps) == {p \in ps : ~ (p.got = "timer" /\ p.id = timer)}

(* pollTeam, called for a task by the user's doing.                        *)
PollTeam(t) ==
  LET rest == Cleared(polls)
  IN /\ Cardinality(rest) < MaxPolls
     /\ polls' = rest \cup {Poll(FreeId(rest), t, "asked")}
     /\ timer' = 0
     /\ wanted' = {t} /\ stored' = {t}

(* Nothing of another task is on its way or on the screen.                 *)
Alone(t, ps, shown, streamed) ==
  /\ \A p \in ps : p.of = t
  /\ shown \subseteq {t} /\ streamed \subseteq {t}

-----------------------------------------------------------------------------
(* The form clears the panel and closes the stream, polls go on.           *)
Submit(t) ==
  /\ panel.go /\ post = {} /\ status[t] = "none"
  /\ post' = {t} /\ wanted' = {}
  /\ panel' = [Fresh EXCEPT !.go = FALSE]
  /\ stream' = Closed
  /\ UNCHANGED <<status, stored, polls, timer, clean>>

Accepted(t) ==
  /\ t \in post
  /\ post' = {}
  /\ status' = [status EXCEPT ![t] = "running"]
  /\ PollTeam(t)
  /\ stream' = [Closed EXCEPT !.of = {t}]
  /\ clean' = Alone(t, Cleared(polls), panel.result, {})
  /\ UNCHANGED panel

(* The server answers with an error, or the connection is lost: then the   *)
(* handler throws and the button stays as it is.                           *)
Refused ==
  /\ post # {}
  /\ post' = {}
  /\ \E lost \in BOOLEAN : panel' = [panel EXCEPT !.go = ~ lost]
  /\ UNCHANGED <<status, stored, wanted, polls, timer, stream, clean>>

(* From the list of tasks; the result on the screen stays.                 *)
OpenTask(t) ==
  /\ post = {} /\ status[t] # "none"
  /\ PollTeam(t)
  /\ clean' = Alone(t, Cleared(polls), panel.result, stream.of)
  /\ UNCHANGED <<status, post, panel, stream>>

(* What was being submitted may have been created all the same.            *)
Reload ==
  /\ \/ UNCHANGED status
     \/ \E t \in post : status' = [status EXCEPT ![t] = "running"]
  /\ post' = {} /\ panel' = Fresh /\ stream' = Closed /\ timer' = 0 /\ clean' = TRUE
  /\ wanted' = stored
  /\ polls' = {Poll(1, t, "asked") : t \in stored}
  /\ UNCHANGED stored

-----------------------------------------------------------------------------
(* The server answers a poll with the run as it is, with an error, or not. *)
PollAnswered(p) ==
  /\ p.got = "asked"
  /\ \E got \in {status[p.of], "error", "lost"} :
       polls' = (polls \ {p}) \cup {[p EXCEPT !.got = got]}
  /\ UNCHANGED <<status, post, stored, wanted, panel, timer, stream, clean>>

Rearmed(p) ==
  /\ polls' = (polls \ {p}) \cup {[p EXCEPT !.got = "timer"]}
  /\ timer' = p.id

(* Mutant: a lost answer is not asked for again.                           *)
PollForgotten(p) ==
  /\ p.got = "lost"
  /\ polls' = polls \ {p}
  /\ UNCHANGED <<status, post, stored, wanted, panel, timer, stream, clean>>

(* A lost answer is asked for again.                                       *)
PollLost(p) ==
  /\ p.got = "lost"
  /\ Rearmed(p)
  /\ UNCHANGED <<status, post, stored, wanted, panel, stream, clean>>

(* An error has no phase, and nothing more is done about it.               *)
PollRejected(p) ==
  /\ p.got = "error"
  /\ polls' = polls \ {p}
  /\ clean' = (clean /\ {p.of} # wanted)
  /\ UNCHANGED <<status, post, stored, wanted, panel, timer, stream>>

(* The answer is shown, whatever the panel is about by now; a result that  *)
(* is on the screen already stays.                                         *)
PollShown(p) ==
  /\ p.got \in {"running"} \cup Over
  /\ panel' = [panel EXCEPT !.phase = p.got, !.of = {p.of},
                            !.result = IF p.got = "succeeded" /\ @ = {} THEN {p.of} ELSE @]
  /\ IF p.got = "running" THEN Rearmed(p) ELSE polls' = polls \ {p} /\ UNCHANGED timer
  /\ UNCHANGED <<status, post, stored, wanted, stream, clean>>

(* A timer fires: pollTeam clears whichever timer the page knows of.       *)
TimerFires(p) ==
  /\ p.got = "timer"
  /\ polls' = (Cleared(polls) \ {p}) \cup {[p EXCEPT !.got = "asked"]}
  /\ timer' = 0
  /\ UNCHANGED <<status, post, stored, wanted, panel, stream, clean>>

-----------------------------------------------------------------------------
(* The stream: events are for those who listen when they are published.    *)
StreamOpens ==
  /\ stream.of # {} /\ ~ stream.live
  /\ stream' = [stream EXCEPT !.live = TRUE]
  /\ UNCHANGED <<status, post, stored, wanted, panel, polls, timer, clean>>

(* The browser opens it again by itself.                                   *)
StreamDrops ==
  /\ stream.live
  /\ stream' = [stream EXCEPT !.live = FALSE]
  /\ UNCHANGED <<status, post, stored, wanted, panel, polls, timer, clean>>

TaskEnds(t) ==
  /\ status[t] = "running"
  /\ \E s \in Over :
       /\ status' = [status EXCEPT ![t] = s]
       /\ stream' = IF t \in stream.of /\ stream.live THEN [stream EXCEPT !.event = s] ELSE stream
  /\ UNCHANGED <<post, stored, wanted, panel, polls, timer, clean>>

(* The result of a success is fetched, which may fail, before Go is back.  *)
EventArrives ==
  /\ stream.event # "none"
  /\ \/ /\ panel' = [panel EXCEPT !.go = TRUE,
                                  !.result = IF stream.event = "succeeded" THEN stream.of ELSE @]
        /\ stream' = Closed
     \/ /\ stream.event = "succeeded"
        /\ stream' = [stream EXCEPT !.event = "none"]
        /\ UNCHANGED panel
  /\ UNCHANGED <<status, post, stored, wanted, polls, timer, clean>>

PanelNext ==
  \/ \E t \in Tasks : Submit(t) \/ Accepted(t) \/ OpenTask(t) \/ TaskEnds(t)
  \/ Refused \/ Reload \/ StreamOpens \/ StreamDrops \/ EventArrives
  \/ \E p \in polls : \/ PollAnswered(p) \/ PollLost(p) \/ PollRejected(p) \/ PollShown(p)
                      \/ TimerFires(p)

-----------------------------------------------------------------------------
(* A task the user asked for is followed to its end: a poll of it is under *)
(* way or waits for its timer, or the panel shows how it ended, with its   *)
(* result if it succeeded - through lost answers, missed events, reloads   *)
(* and tasks opened in between ("closing the tab loses nothing").  This    *)
(* leaves out a server that answers a poll with an error, and a task asked *)
(* for while polls, events or the result of another one were still there.  *)
PanelFollows ==
  \A t \in wanted : clean =>
    \/ \E p \in polls : p.of = t
    \/ /\ status[t] \in Over /\ panel.phase = status[t] /\ panel.of = {t}
       /\ status[t] = "succeeded" => panel.result = {t}

(* Without the last exception it does not hold: the answer of an old poll  *)
(* arms a timer of its own, and when that fires it clears the new task's;  *)
(* nor does it without the first.                                          *)
PollGoesOn ==
  \A t \in wanted : status[t] = "running" => \E p \in polls : p.of = t

(* Go does not always come back: it waits for an event, which may be       *)
(* published before the stream is open, or while it is opened again.       *)
GoComesBack ==
  (\A t \in Tasks : status[t] # "running") /\ polls = {} /\ post = {} /\ stream.event = "none"
  => panel.go

=============================================================================

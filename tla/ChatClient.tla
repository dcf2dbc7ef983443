----------------------------- MODULE ChatClient -----------------------------
(***************************************************************************)
(* One browser tab on the personal chat.  The tab keeps the thread as an   *)
(* array of bubbles; the poll of a run, the stream of its tokens, the      *)
(* typewriter and the request that sends a question each remember the      *)
(* INDEX of the bubble they will write to, while a history answer replaces *)
(* the whole array.  The server is ChatThread.                             *)
(*                                                                         *)
(* Answers of GET /runs/:id and POST /runs/:id/retry are acted on in the   *)
(* step that reads the row; sending, loading and clearing answer later     *)
(* than they act.  At most one history request per reader is under way.    *)
(***************************************************************************)
EXTENDS ChatThread

CONSTANTS
  MaxEvents,   \* bound: how often the user leaves, opens, retries or clears, or a send fails
  Streaming,   \* tokens of a running run reach the tab
  NoRun        \* no run

ASSUME TabAssumption ==
  Runs \subseteq Nat /\ NoRun \notin Runs /\ MaxEvents \in Nat /\ Streaming \in BOOLEAN

VARIABLES
  bubbles,     \* chatThreads[aid]
  awaiting,    \* for each run, the index the sender of its question holds, 0: none
  polls,       \* pollRun loops under way, as [run, idx]; a token stream goes with each
  typing,      \* typewriters under way, as [run, idx], one per index
  open,        \* the tab shows this agent's thread
  clearing,    \* a DELETE is unanswered
  events,      \* bounded by MaxEvents
  overlapped,  \* history: something was done before the tab had come to rest
  lost         \* history: requests whose answer was lost, with the bubble in this array

clientVars == <<bubbles, awaiting, polls, typing, open, clearing, events, overlapped, lost>>
vars == <<threadVars, clientVars>>

Note == [role |-> "note", run |-> NoRun]
Tokens(r) == [role |-> "tokens", run |-> r]

Bubble(side, text, state, retry) ==
  [side |-> side, text |-> text, state |-> state, retry |-> retry, streamed |-> FALSE]
Waiting == Bubble("them", Note, "pending", NoRun)
Failed(r) == Bubble("them", Note, "failed", r)
Shown(m) == Bubble(IF m.role = "user" THEN "me" ELSE "them", m, "plain", NoRun)

(* What a history answer turns into.                                       *)
Rendered(messages, pending) ==
  [i \in DOMAIN messages |-> Shown(messages[i])] \o
  [i \in DOMAIN pending |-> IF pending[i].status = "failed"
                            THEN Failed(pending[i].run) ELSE Waiting]

(* Nothing of the tab is under way and no bubble is of its own making.     *)
AtRest ==
  /\ polls = {} /\ typing = {} /\ ~ clearing
  /\ \A r \in Runs : awaiting[r] = 0
  /\ \A d \in Readers : reads[d].pc = "idle"
  /\ \A i \in DOMAIN bubbles : bubbles[i].state = "plain"

(* The tab opens on an empty thread, with no cache of an earlier visit.    *)
ClientInit ==
  /\ ThreadInit
  /\ bubbles = << >>
  /\ awaiting = [r \in Runs |-> 0]
  /\ polls = {} /\ typing = {}
  /\ open = TRUE /\ clearing = FALSE /\ events = 0 /\ overlapped = FALSE /\ lost = {}

Event ==
  /\ events < MaxEvents
  /\ events' = events + 1

Sees(i) == i \in DOMAIN bubbles
Without(handles, i) == {h \in handles : h.idx # i}
Handle(r, i) == [run |-> r, idx |-> i]

-----------------------------------------------------------------------------
(* selectAgent, or a click that leaves for another agent's thread.         *)
SelectAgent(d) ==
  /\ Event
  /\ open' = TRUE
  /\ ReadBegins(d)
  /\ overlapped' = (overlapped \/ ~ AtRest)
  /\ UNCHANGED <<bubbles, awaiting, polls, typing, clearing, lost>>

Leave ==
  /\ Event
  /\ open
  /\ open' = FALSE
  /\ UNCHANGED <<threadVars, bubbles, awaiting, polls, typing, clearing, overlapped, lost>>

(* Mutant: only the first unfinished run is resumed.                       *)
LoadResumesOne(d) ==
  /\ ReadEnds(d)
  /\ LET answer == reads[d]
         shown == Len(answer.messages)
         unfinished == {k \in DOMAIN answer.pending : answer.pending[k].status = "queued"}
     IN /\ bubbles' = Rendered(answer.messages, answer.pending)
        /\ polls' = polls \cup {Handle(answer.pending[i].run, shown + i) :
                                  i \in {k \in unfinished : \A j \in unfinished : k <= j}}
  /\ lost' = {}
  /\ UNCHANGED <<awaiting, typing, open, clearing, events, overlapped>>

(* The answer of a history request replaces the array, whatever holds an   *)
(* index into the old one, and resumes every unfinished run.               *)
LoadReturns(d) ==
  /\ ReadEnds(d)
  /\ LET answer == reads[d]
         shown == Len(answer.messages)
         resumed == {Handle(answer.pending[i].run, shown + i) :
                       i \in {k \in DOMAIN answer.pending : answer.pending[k].status = "queued"}}
     IN /\ bubbles' = Rendered(answer.messages, answer.pending)
        /\ polls' = polls \cup resumed
  /\ lost' = {}
  /\ UNCHANGED <<awaiting, typing, open, clearing, events, overlapped>>

(* The form's submit handler, up to its await and after it.  Run ids are   *)
(* random; they are numbered here in the order of the questions.           *)
Submit(r) ==
  /\ open /\ \A q \in Runs : q < r => sends[q].pc # "idle"
  /\ SendBegins(r)
  /\ bubbles' = bubbles \o <<Shown(Question(r)), Waiting>>
  /\ awaiting' = [awaiting EXCEPT ![r] = Len(bubbles) + 2]
  /\ overlapped' = (overlapped \/ ~ AtRest)
  /\ UNCHANGED <<polls, typing, open, clearing, events, lost>>

(* Mutant: the stream is opened, and no poll.                              *)
SubmitReturnsUnpolled(r) ==
  /\ awaiting[r] # 0 /\ sends[r].pc = "done"
  /\ awaiting' = [awaiting EXCEPT ![r] = 0]
  /\ UNCHANGED <<threadVars, bubbles, polls, typing, open, clearing, events, overlapped, lost>>

(* An index past the end of the array throws before the poll is started.   *)
SubmitReturns(r) ==
  /\ awaiting[r] # 0 /\ sends[r].pc = "done"
  /\ awaiting' = [awaiting EXCEPT ![r] = 0]
  /\ LET i == awaiting[r]
     IN IF Sees(i)
        THEN polls' = polls \cup {Handle(r, i)}
        ELSE UNCHANGED polls
  /\ UNCHANGED <<threadVars, bubbles, typing, open, clearing, events, overlapped, lost>>

SubmitRefused(r) ==
  /\ awaiting[r] # 0 /\ sends[r].pc = "cut"
  /\ bubbles' = IF Sees(awaiting[r]) THEN [bubbles EXCEPT ![awaiting[r]] = Failed(NoRun)] ELSE bubbles
  /\ awaiting' = [awaiting EXCEPT ![r] = 0]
  /\ UNCHANGED <<threadVars, polls, typing, open, clearing, events, overlapped, lost>>

(* The connection breaks under the request, which the server may not have  *)
(* seen, may be at work on, or may have answered: fetch rejects, nothing   *)
(* catches it, and the handler ends; the server goes on as it was.         *)
SubmitLost(r) ==
  /\ awaiting[r] # 0
  /\ awaiting' = [awaiting EXCEPT ![r] = 0]
  /\ lost' = lost \cup {Handle(r, awaiting[r])}
  /\ UNCHANGED <<threadVars, bubbles, polls, typing, open, clearing, events, overlapped>>

-----------------------------------------------------------------------------
(* setReply: the reply appears at once over streamed tokens, and through   *)
(* the typewriter otherwise.                                               *)
SetReply(r, i) ==
  IF ~ Sees(i) THEN UNCHANGED <<bubbles, typing>>
  ELSE IF bubbles[i].streamed
       THEN /\ bubbles' = [bubbles EXCEPT ![i] = Shown(Reply(r))]
            /\ typing' = Without(typing, i)
       ELSE /\ bubbles' = [bubbles EXCEPT ![i] = Bubble("them", Note, "plain", NoRun)]
            /\ typing' = Without(typing, i) \cup {Handle(r, i)}

PollSucceeds(h) ==
  /\ row[h.run] = "succeeded"
  /\ SetReply(h.run, h.idx)
  /\ polls' = polls \ {h}
  /\ IF open THEN \E d \in Readers : ReadBegins(d) ELSE UNCHANGED threadVars
  /\ UNCHANGED <<awaiting, open, clearing, events, overlapped, lost>>

PollFails(h) ==
  /\ row[h.run] = "failed"
  /\ bubbles' = IF Sees(h.idx) THEN [bubbles EXCEPT ![h.idx] = Failed(h.run)] ELSE bubbles
  /\ polls' = polls \ {h}
  /\ UNCHANGED <<threadVars, awaiting, typing, open, clearing, events, overlapped, lost>>

(* Not final yet: the status line goes to the bubble at the index.         *)
PollWaits(h) ==
  /\ row[h.run] = "queued" /\ Sees(h.idx)
  /\ bubbles' = [bubbles EXCEPT ![h.idx].text = Note]
  /\ UNCHANGED <<threadVars, awaiting, polls, typing, open, clearing, events, overlapped, lost>>

(* A token is appended to whatever the bubble at the index shows.  Streams *)
(* are opened with the polls and for the same bubbles; that a newer stream *)
(* at an index closes the older one is left out.                           *)
TokenArrives(h) ==
  /\ Streaming /\ row[h.run] = "queued" /\ Sees(h.idx)
  /\ bubbles' = [bubbles EXCEPT ![h.idx].text = Tokens(h.run), ![h.idx].streamed = TRUE,
                                ![h.idx].state = IF @ = "pending" /\ ~ bubbles[h.idx].streamed
                                                 THEN "plain" ELSE @]
  /\ UNCHANGED <<threadVars, awaiting, polls, typing, open, clearing, events, overlapped, lost>>

(* The typewriter's ticks, taken together.                                 *)
Types(h) ==
  /\ Sees(h.idx)
  /\ bubbles' = [bubbles EXCEPT ![h.idx].text = Reply(h.run)]
  /\ typing' = typing \ {h}
  /\ UNCHANGED <<threadVars, awaiting, polls, open, clearing, events, overlapped, lost>>

-----------------------------------------------------------------------------
(* retryChat: the server re-opens the run if it is still failed, and the   *)
(* tab polls again whatever it answered.                                   *)
RetryChat(i) ==
  /\ Event
  /\ open /\ Sees(i) /\ bubbles[i].state = "failed" /\ bubbles[i].retry # NoRun
  /\ LET r == bubbles[i].retry
     IN /\ bubbles' = [bubbles EXCEPT ![i] = Waiting]
        /\ RunReopens(r) \/ (row[r] # "failed" /\ UNCHANGED threadVars)
        /\ polls' = polls \cup {Handle(r, i)}
  /\ UNCHANGED <<awaiting, typing, open, clearing, overlapped, lost>>

(* clearChatThread: the array is emptied when the server has answered.     *)
ClearChat ==
  /\ Event
  /\ open /\ ~ clearing
  /\ clearing' = TRUE
  /\ Clear
  /\ overlapped' = (overlapped \/ ~ AtRest)
  /\ UNCHANGED <<bubbles, awaiting, polls, typing, open, lost>>

ClearReturns ==
  /\ clearing
  /\ clearing' = FALSE
  /\ bubbles' = << >> /\ lost' = {}
  /\ UNCHANGED <<threadVars, awaiting, polls, typing, open, events, overlapped>>

-----------------------------------------------------------------------------
Server ==
  \/ /\ Serve \/ \E r \in Runs : RunEnds(r)
     /\ UNCHANGED clientVars
  \/ /\ Event /\ \E r \in Runs : SendFails(r)
     /\ UNCHANGED <<bubbles, awaiting, polls, typing, open, clearing, overlapped, lost>>

Page ==
  \/ \E d \in Readers : LoadReturns(d)
  \/ \E r \in Runs : SubmitReturns(r) \/ SubmitRefused(r) \/ SubmitLost(r)
  \/ \E h \in polls : PollSucceeds(h) \/ PollFails(h) \/ PollWaits(h) \/ TokenArrives(h)
  \/ \E h \in typing : Types(h)
  \/ ClearReturns

User ==
  \/ \E d \in Readers : SelectAgent(d)
  \/ \E r \in Runs : Submit(r)
  \/ \E i \in DOMAIN bubbles : RetryChat(i)
  \/ Leave \/ ClearChat

Next == Server \/ Page \/ User

Spec == ClientInit /\ [][Next]_vars

(* The server answers, runs end, the page's timers and handlers run; the   *)
(* user owes nothing, and a request need not fail.                         *)
Fairness ==
  /\ \A r \in Runs :
       /\ WF_vars((SendLists(r) \/ SendBackfills(r) \/ SendRelists(r) \/ SendAppends(r)
                    \/ SendCreatesRun(r) \/ RunEnds(r)) /\ UNCHANGED clientVars)
       /\ WF_vars(SubmitReturns(r) \/ SubmitRefused(r) \/ SubmitLost(r))
       /\ WF_vars(\E h \in typing : h.run = r /\ Types(h))
       /\ WF_vars(\E h \in polls : h.run = r /\ (PollSucceeds(h) \/ PollFails(h)))
  /\ \A d \in Readers :
       /\ WF_vars((ReadLists(d) \/ ReadBackfills(d) \/ ReadRelists(d)) /\ UNCHANGED clientVars)
       /\ WF_vars(LoadReturns(d))
  /\ WF_vars(ClearReturns)

FairSpec == Spec /\ Fairness

-----------------------------------------------------------------------------
(* The user's own messages stay what they are on the screen: nothing that  *)
(* holds an index into the array writes to a bubble of the user's.         *)
QuestionsIntact ==
  \A i \in DOMAIN bubbles : bubbles[i].side = "me" => bubbles[i].text.role = "user"

(* When everything the tab started has ended, and the user always waited   *)
(* for that, every question on the screen has its own answer below it.     *)
AnswersUnderQuestions ==
  AtRest /\ ~ overlapped =>
    \A i \in DOMAIN bubbles : bubbles[i].side = "me" =>
      /\ i < Len(bubbles)
      /\ bubbles[i + 1].text = Reply(bubbles[i].text.run)

(* A bubble that says it waits has somebody who will write to it: a poll   *)
(* or the request itself ("no silent giving up").  The one bubble that may *)
(* wait alone is that of a request whose answer was lost, until the array  *)
(* is replaced.                                                            *)
WaitingIsWorkedOn ==
  \A i \in DOMAIN bubbles : bubbles[i].state = "pending" =>
    \/ \E h \in polls : h.idx = i
    \/ \E r \in Runs : awaiting[r] = i
    \/ \E h \in lost : h.idx = i

(* A question the server took is answered on the screen, by its reply or   *)
(* by an honest failure, if the user stays and waits and the answer to the *)
(* request arrives.                                                        *)
AnswerShows ==
  \A r \in Runs :
    (sends[r].pc = "done" /\ awaiting[r] # 0) ~>
      \/ \E i \in DOMAIN bubbles : bubbles[i].text = Reply(r) \/ bubbles[i].state = "failed"
      \/ ~ open \/ overlapped
      \/ \E h \in lost : h.run = r

=============================================================================

-------------------------- MODULE ChatClient_proofs --------------------------
(***************************************************************************)
(* Theorems about the tab of ChatClient, for any number of questions and   *)
(* of history requests under way, any windows, and any number of events.   *)
(***************************************************************************)
EXTENDS ChatClient, ChatThread_proofs

-----------------------------------------------------------------------------
(* Types.                                                                  *)

Texts == [role : {"user", "agent", "tokens", "note"}, run : Runs \cup {NoRun}]
Bubbles ==
  [side : {"me", "them"}, text : Texts, state : {"plain", "pending", "failed"},
   retry : Runs \cup {NoRun}, streamed : BOOLEAN]
Handles == [run : Runs, idx : Nat \ {0}]

ClientTypeOK ==
  /\ bubbles \in Seq(Bubbles)
  /\ awaiting \in [Runs -> Nat]
  /\ polls \subseteq Handles /\ typing \subseteq Handles /\ lost \subseteq Handles
  /\ open \in BOOLEAN /\ clearing \in BOOLEAN /\ overlapped \in BOOLEAN
  /\ events \in Nat

LEMMA TextTypes ==
  /\ Note \in Texts
  /\ \A r \in Runs : Tokens(r) \in Texts /\ Question(r) \in Texts /\ Reply(r) \in Texts
  /\ Messages \subseteq Texts
BY DEF Note, Tokens, Question, Reply, Texts, Messages

LEMMA BubbleTypes ==
  /\ Waiting \in Bubbles
  /\ Bubble("them", Note, "plain", NoRun) \in Bubbles
  /\ \A r \in Runs \cup {NoRun} : Failed(r) \in Bubbles
  /\ \A m \in Messages : Shown(m) \in Bubbles
BY TextTypes DEF Waiting, Failed, Shown, Bubble, Bubbles, Texts

LEMMA BubbleSays ==
  /\ Waiting.state = "pending" /\ Waiting.side = "them" /\ Waiting.retry = NoRun
  /\ \A r : Failed(r).state = "failed" /\ Failed(r).side = "them" /\ Failed(r).retry = r
  /\ \A m : /\ Shown(m).state = "plain" /\ Shown(m).text = m
            /\ Shown(m).side = IF m.role = "user" THEN "me" ELSE "them"
BY DEF Waiting, Failed, Shown, Bubble

(* One bubble is written over.                                             *)
LEMMA BubbleWritten ==
  ASSUME NEW S, NEW s \in Seq(S), NEW i \in DOMAIN s, NEW b \in S
  PROVE  /\ [s EXCEPT ![i] = b] \in Seq(S)
         /\ Len([s EXCEPT ![i] = b]) = Len(s)
         /\ DOMAIN [s EXCEPT ![i] = b] = DOMAIN s
         /\ [s EXCEPT ![i] = b][i] = b
         /\ \A j \in DOMAIN s \ {i} : [s EXCEPT ![i] = b][j] = s[j]
OBVIOUS

(* What tokens make of a bubble.                                           *)
Fed(b, r) ==
  [b EXCEPT !.text = Tokens(r), !.streamed = TRUE,
            !.state = IF b.state = "pending" /\ ~ b.streamed THEN "plain" ELSE b.state]

LEMMA FedBubble ==
  ASSUME NEW b \in Bubbles, NEW r \in Runs
  PROVE  /\ Fed(b, r) \in Bubbles /\ Fed(b, r).side = b.side /\ Fed(b, r).retry = b.retry
         /\ Fed(b, r).state \in {b.state, "plain"}
BY TextTypes DEF Fed, Bubbles

LEMMA Retold ==
  ASSUME NEW b \in Bubbles, NEW t \in Texts
  PROVE  /\ [b EXCEPT !.text = t] \in Bubbles /\ [b EXCEPT !.text = t].text = t
         /\ [b EXCEPT !.text = t].side = b.side /\ [b EXCEPT !.text = t].state = b.state
         /\ [b EXCEPT !.text = t].retry = b.retry
BY DEF Bubbles

(* The actions that write one bubble, said with whole bubbles.             *)
LEMMA TokenWrites ==
  ASSUME ClientTypeOK, NEW h, TokenArrives(h)
  PROVE  /\ h.idx \in DOMAIN bubbles
         /\ bubbles' = [bubbles EXCEPT ![h.idx] = Fed(bubbles[h.idx], h.run)]
BY DEF TokenArrives, Sees, Fed, ClientTypeOK

LEMMA WaitsWrites ==
  ASSUME ClientTypeOK, NEW h, PollWaits(h)
  PROVE  /\ h.idx \in DOMAIN bubbles
         /\ bubbles' = [bubbles EXCEPT ![h.idx] = [bubbles[h.idx] EXCEPT !.text = Note]]
BY DEF PollWaits, Sees, ClientTypeOK

LEMMA TypesWrites ==
  ASSUME ClientTypeOK, NEW h, Types(h)
  PROVE  /\ h.idx \in DOMAIN bubbles
         /\ bubbles' = [bubbles EXCEPT ![h.idx] = [bubbles[h.idx] EXCEPT !.text = Reply(h.run)]]
BY DEF Types, Sees, ClientTypeOK

(* A history answer turns into a bubble for each message and each run      *)
(* reported.                                                               *)
LEMMA RenderedIs ==
  ASSUME NEW messages \in Seq(Messages), NEW pending \in Seq(Pendings)
  PROVE  /\ Rendered(messages, pending) \in Seq(Bubbles)
         /\ Len(Rendered(messages, pending)) = Len(messages) + Len(pending)
         /\ \A i \in 1 .. Len(messages) : Rendered(messages, pending)[i] = Shown(messages[i])
         /\ \A i \in 1 .. Len(pending) :
              Rendered(messages, pending)[Len(messages) + i] =
                IF pending[i].status = "failed" THEN Failed(pending[i].run) ELSE Waiting
<1> DEFINE first == [i \in DOMAIN messages |-> Shown(messages[i])]
           second == [i \in DOMAIN pending |-> IF pending[i].status = "failed"
                                               THEN Failed(pending[i].run) ELSE Waiting]
<1>1. first \in Seq(Bubbles) /\ Len(first) = Len(messages)
  BY BubbleTypes
<1>2. \A i \in DOMAIN pending : pending[i].run \in Runs
  <2>1. \A i \in DOMAIN pending : pending[i] \in Pendings
    OBVIOUS
  <2> QED BY <2>1 DEF Pendings
<1>3. second \in Seq(Bubbles) /\ Len(second) = Len(pending)
  BY <1>2, BubbleTypes
<1>4. /\ \A i \in 1 .. Len(messages) : first[i] = Shown(messages[i])
      /\ \A i \in 1 .. Len(pending) : second[i] = IF pending[i].status = "failed"
                                                  THEN Failed(pending[i].run) ELSE Waiting
  OBVIOUS
<1>5. Rendered(messages, pending) = first \o second
  BY DEF Rendered
<1> HIDE DEF first, second
<1> DEFINE both == first \o second
<1>6. /\ both \in Seq(Bubbles) /\ Len(both) = Len(messages) + Len(pending)
      /\ \A i \in 1 .. Len(messages) + Len(pending) :
           both[i] = IF i <= Len(messages) THEN first[i] ELSE second[i - Len(messages)]
  <2>1. /\ both \in Seq(Bubbles) /\ Len(both) = Len(first) + Len(second)
        /\ \A i \in 1 .. Len(first) + Len(second) :
             both[i] = IF i <= Len(first) THEN first[i] ELSE second[i - Len(first)]
    BY <1>1, <1>3, ConcatProperties
  <2> HIDE DEF both
  <2> QED BY <1>1, <1>3, <2>1
<1>7. Len(messages) \in Nat /\ Len(pending) \in Nat
  BY LenProperties
<1> HIDE DEF both
<1>8. \A i \in 1 .. Len(messages) : both[i] = first[i]
  BY <1>6, <1>7
<1>9. ASSUME NEW i \in 1 .. Len(pending) PROVE both[Len(messages) + i] = second[i]
  <2>1. /\ Len(messages) + i \in 1 .. Len(messages) + Len(pending)
        /\ ~ (Len(messages) + i <= Len(messages)) /\ (Len(messages) + i) - Len(messages) = i
    BY <1>7
  <2> QED BY <1>6, <2>1, Zenon
<1>10. both = Rendered(messages, pending)
  BY <1>5 DEF both
<1> QED BY <1>4, <1>6, <1>8, <1>9, <1>10

LEMMA TabInitTypes == ClientInit => ClientTypeOK
<1> SUFFICES ASSUME ClientInit PROVE ClientTypeOK
  OBVIOUS
<1>1. bubbles \in Seq(Bubbles)
  BY DEF ClientInit
<1>2. awaiting \in [Runs -> Nat]
  BY DEF ClientInit
<1>3. polls \subseteq Handles /\ typing \subseteq Handles /\ lost \subseteq Handles
  BY DEF ClientInit
<1>4. open \in BOOLEAN /\ clearing \in BOOLEAN /\ overlapped \in BOOLEAN /\ events \in Nat
  BY DEF ClientInit
<1> QED BY <1>1, <1>2, <1>3, <1>4 DEF ClientTypeOK

(* Polls, typewriters and history answers name runs and bubbles.           *)
LEMMA HandleIs ==
  ASSUME ClientTypeOK, NEW h \in polls \cup typing
  PROVE  h = Handle(h.run, h.idx) /\ h.run \in Runs /\ h.idx \in Nat \ {0} /\ h \in Handles
BY DEF ClientTypeOK, Handles, Handle

LEMMA HandleType ==
  ASSUME NEW r \in Runs, NEW i \in Nat \ {0}
  PROVE  Handle(r, i) \in Handles /\ Handle(r, i).run = r /\ Handle(r, i).idx = i
BY DEF Handle, Handles

LEMMA ReadTypes ==
  ASSUME ThreadTypeOK, NEW d \in Readers
  PROVE  reads[d].messages \in Seq(Messages) /\ reads[d].pending \in Seq(Pendings)
BY DEF ThreadTypeOK

LEMMA LoadTypes ==
  ASSUME ThreadTypeOK, ClientTypeOK, NEW d \in Readers, LoadReturns(d)
  PROVE  bubbles' \in Seq(Bubbles) /\ polls' \subseteq Handles
<1> DEFINE m == reads[d].messages
           p == reads[d].pending
           resumed == {Handle(p[i].run, Len(m) + i) : i \in {k \in DOMAIN p : p[k].status = "queued"}}
<1>1. m \in Seq(Messages) /\ p \in Seq(Pendings)
  BY ReadTypes
<1>2. bubbles' = Rendered(m, p) /\ polls' = polls \cup resumed
  BY DEF LoadReturns
<1>3. ASSUME NEW i \in DOMAIN p PROVE Handle(p[i].run, Len(m) + i) \in Handles
  <2>1. p[i] \in Pendings
    BY <1>1
  <2>2. p[i].run \in Runs
    BY <2>1 DEF Pendings
  <2>3. Len(m) \in Nat /\ i \in 1 .. Len(p) /\ Len(p) \in Nat
    BY <1>1, LenProperties
  <2> HIDE DEF m, p
  <2>4. Len(m) + i \in Nat \ {0}
    BY <2>3
  <2> QED BY <2>2, <2>4, HandleType
<1>4. resumed \subseteq Handles
  BY <1>3
<1> HIDE DEF m, p, resumed
<1>5. Rendered(m, p) \in Seq(Bubbles)
  BY <1>1, RenderedIs, Zenon
<1>6. polls \subseteq Handles
  BY DEF ClientTypeOK
<1> QED BY <1>2, <1>4, <1>5, <1>6

LEMMA TabStepTypes == ThreadTypeOK /\ ClientTypeOK /\ [Next]_vars => ClientTypeOK'
<1> SUFFICES ASSUME ThreadTypeOK, ClientTypeOK, [Next]_vars PROVE ClientTypeOK'
  OBVIOUS
<1>1. CASE UNCHANGED clientVars
  BY <1>1 DEF clientVars, ClientTypeOK
<1>2. CASE \E r \in Runs : Event /\ SendFails(r) /\ UNCHANGED <<bubbles, awaiting, polls, typing, open, clearing, overlapped, lost>>
  BY <1>2 DEF Event, ClientTypeOK
<1>3. ASSUME NEW d \in Readers, LoadReturns(d) PROVE ClientTypeOK'
  BY <1>3, LoadTypes DEF LoadReturns, ClientTypeOK
<1>4. ASSUME NEW r \in Runs, SubmitReturns(r) PROVE ClientTypeOK'
  <2>1. awaiting' \in [Runs -> Nat] /\ awaiting[r] \in Nat \ {0}
    BY <1>4 DEF SubmitReturns, ClientTypeOK
  <2>2. polls' \subseteq polls \cup {Handle(r, awaiting[r])}
    BY <1>4 DEF SubmitReturns
  <2>3. polls' \subseteq Handles
    BY <2>1, <2>2, HandleType DEF ClientTypeOK
  <2> QED BY <1>4, <2>1, <2>3 DEF SubmitReturns, ClientTypeOK
<1>5. ASSUME NEW r \in Runs, SubmitRefused(r) \/ SubmitLost(r) PROVE ClientTypeOK'
  <2>0. lost' \subseteq Handles
    <3>1. awaiting[r] \in Nat \ {0}
      BY <1>5 DEF SubmitRefused, SubmitLost, ClientTypeOK
    <3>2. lost' \subseteq lost \cup {Handle(r, awaiting[r])}
      BY <1>5 DEF SubmitRefused, SubmitLost
    <3> QED BY <3>1, <3>2, HandleType DEF ClientTypeOK
  <2>1. awaiting' \in [Runs -> Nat]
    BY <1>5 DEF SubmitRefused, SubmitLost, ClientTypeOK
  <2>2. bubbles' \in Seq(Bubbles)
    <3>1. CASE UNCHANGED bubbles
      BY <3>1 DEF ClientTypeOK
    <3>2. CASE Sees(awaiting[r]) /\ bubbles' = [bubbles EXCEPT ![awaiting[r]] = Failed(NoRun)]
      BY <3>2, BubbleTypes, BubbleWritten DEF Sees, ClientTypeOK
    <3> QED BY <1>5, <3>1, <3>2 DEF SubmitRefused, SubmitLost
  <2> QED BY <1>5, <2>0, <2>1, <2>2 DEF SubmitRefused, SubmitLost, ClientTypeOK
<1>6. ASSUME NEW h \in polls, PollSucceeds(h) PROVE ClientTypeOK'
  <2>1. h.run \in Runs /\ h.idx \in Nat \ {0} /\ h \in Handles /\ Handle(h.run, h.idx) \in Handles
    BY HandleIs, HandleType
  <2>2. bubbles' \in Seq(Bubbles) /\ typing' \subseteq Handles
    <3>1. CASE UNCHANGED <<bubbles, typing>>
      BY <3>1 DEF ClientTypeOK
    <3>2. ASSUME NEW b \in Bubbles, Sees(h.idx), bubbles' = [bubbles EXCEPT ![h.idx] = b]
          PROVE  bubbles' \in Seq(Bubbles)
      BY <3>2, BubbleWritten DEF Sees, ClientTypeOK
    <3>3. Shown(Reply(h.run)) \in Bubbles
      BY <2>1, BubbleTypes DEF Reply, Messages
    <3>4. SetReply(h.run, h.idx)
      BY <1>6 DEF PollSucceeds
    <3>5. CASE Sees(h.idx) /\ bubbles[h.idx].streamed
      BY <3>2, <3>3, <3>4, <3>5 DEF SetReply, Without, ClientTypeOK
    <3>6. CASE Sees(h.idx) /\ ~ bubbles[h.idx].streamed
      BY <2>1, <3>2, <3>4, <3>6, BubbleTypes DEF SetReply, Without, ClientTypeOK
    <3> QED BY <3>1, <3>4, <3>5, <3>6 DEF SetReply
  <2> QED BY <1>6, <2>2 DEF PollSucceeds, ClientTypeOK
<1>7. ASSUME NEW h \in polls, PollFails(h) PROVE ClientTypeOK'
  <2>1. Failed(h.run) \in Bubbles
    BY HandleIs, BubbleTypes
  <2>2. bubbles' \in Seq(Bubbles)
    <3>1. CASE UNCHANGED bubbles
      BY <3>1 DEF ClientTypeOK
    <3>2. CASE Sees(h.idx) /\ bubbles' = [bubbles EXCEPT ![h.idx] = Failed(h.run)]
      BY <2>1, <3>2, BubbleWritten DEF Sees, ClientTypeOK
    <3> QED BY <1>7, <3>1, <3>2 DEF PollFails
  <2> QED BY <1>7, <2>2 DEF PollFails, ClientTypeOK
<1>8. ASSUME NEW h \in polls, PollWaits(h) PROVE ClientTypeOK'
  <2>1. h.idx \in DOMAIN bubbles /\ bubbles[h.idx] \in Bubbles
    <3>1. h.idx \in DOMAIN bubbles
      BY <1>8, WaitsWrites
    <3> QED BY <3>1 DEF ClientTypeOK
  <2>2. [bubbles[h.idx] EXCEPT !.text = Note] \in Bubbles
    BY <2>1, Retold, TextTypes
  <2>3. bubbles' \in Seq(Bubbles)
    <3>1. bubbles' = [bubbles EXCEPT ![h.idx] = [bubbles[h.idx] EXCEPT !.text = Note]]
      BY <1>8, WaitsWrites, Zenon
    <3>2. bubbles \in Seq(Bubbles)
      BY Zenon DEF ClientTypeOK
    <3>3. \A b \in Bubbles : [bubbles EXCEPT ![h.idx] = b] \in Seq(Bubbles)
      BY <2>1, <3>2, BubbleWritten
    <3> QED BY <2>2, <3>1, <3>3, Zenon
  <2> QED BY <1>8, <2>3 DEF PollWaits, ClientTypeOK
<1>9. ASSUME NEW h \in polls, TokenArrives(h) PROVE ClientTypeOK'
  <2>1. h.idx \in DOMAIN bubbles /\ bubbles[h.idx] \in Bubbles
    <3>1. h.idx \in DOMAIN bubbles
      BY <1>9, TokenWrites
    <3> QED BY <3>1 DEF ClientTypeOK
  <2>2. Fed(bubbles[h.idx], h.run) \in Bubbles
    BY <2>1, FedBubble, HandleIs
  <2>3. bubbles' \in Seq(Bubbles)
    <3>1. bubbles' = [bubbles EXCEPT ![h.idx] = Fed(bubbles[h.idx], h.run)]
      BY <1>9, TokenWrites, Zenon
    <3>2. bubbles \in Seq(Bubbles)
      BY Zenon DEF ClientTypeOK
    <3>3. \A b \in Bubbles : [bubbles EXCEPT ![h.idx] = b] \in Seq(Bubbles)
      BY <2>1, <3>2, BubbleWritten
    <3> QED BY <2>2, <3>1, <3>3, Zenon
  <2> QED BY <1>9, <2>3 DEF TokenArrives, ClientTypeOK
<1>10. ASSUME NEW h \in typing, Types(h) PROVE ClientTypeOK'
  <2>1. h.idx \in DOMAIN bubbles /\ bubbles[h.idx] \in Bubbles
    <3>1. h.idx \in DOMAIN bubbles
      BY <1>10, TypesWrites
    <3> QED BY <3>1 DEF ClientTypeOK
  <2>2. [bubbles[h.idx] EXCEPT !.text = Reply(h.run)] \in Bubbles
    BY <2>1, Retold, TextTypes, HandleIs
  <2>3. bubbles' \in Seq(Bubbles)
    <3>1. bubbles' = [bubbles EXCEPT ![h.idx] = [bubbles[h.idx] EXCEPT !.text = Reply(h.run)]]
      BY <1>10, TypesWrites, Zenon
    <3>2. bubbles \in Seq(Bubbles)
      BY Zenon DEF ClientTypeOK
    <3>3. \A b \in Bubbles : [bubbles EXCEPT ![h.idx] = b] \in Seq(Bubbles)
      BY <2>1, <3>2, BubbleWritten
    <3> QED BY <2>2, <3>1, <3>3, Zenon
  <2> QED BY <1>10, <2>3 DEF Types, ClientTypeOK
<1>11. CASE ClearReturns
  <2>1. clearing' \in BOOLEAN
    BY <1>11, Zenon DEF ClearReturns
  <2> QED BY <1>11, <2>1 DEF ClearReturns, ClientTypeOK
<1>12. ASSUME NEW d \in Readers, SelectAgent(d) PROVE ClientTypeOK'
  BY <1>12 DEF SelectAgent, Event, ClientTypeOK
<1>13. ASSUME NEW r \in Runs, Submit(r) PROVE ClientTypeOK'
  <2>1. Question(r) \in Messages
    BY DEF Question, Messages
  <2>2. Shown(Question(r)) \in Bubbles /\ Waiting \in Bubbles
    BY <2>1, BubbleTypes
  <2>3. bubbles' \in Seq(Bubbles)
    BY <1>13, <2>2 DEF Submit, ClientTypeOK
  <2>4. awaiting' \in [Runs -> Nat]
    BY <1>13 DEF Submit, ClientTypeOK
  <2> QED BY <1>13, <2>3, <2>4 DEF Submit, ClientTypeOK
<1>14. ASSUME NEW i \in DOMAIN bubbles, RetryChat(i) PROVE ClientTypeOK'
  <2>1. bubbles[i] \in Bubbles /\ i \in Nat \ {0}
    BY DEF ClientTypeOK
  <2>2. bubbles[i].retry \in Runs
    BY <1>14, <2>1 DEF RetryChat, Bubbles
  <2>3. bubbles' \in Seq(Bubbles)
    BY <1>14, BubbleTypes, BubbleWritten DEF RetryChat, ClientTypeOK
  <2>4. polls' \subseteq Handles
    BY <1>14, <2>1, <2>2, HandleType DEF RetryChat, ClientTypeOK
  <2> QED BY <1>14, <2>3, <2>4 DEF RetryChat, Event, ClientTypeOK
<1>15. CASE Leave
  <2>1. open' \in BOOLEAN
    BY <1>15, Zenon DEF Leave
  <2> QED BY <1>15, <2>1 DEF Leave, Event, ClientTypeOK
<1>16. CASE ClearChat
  BY <1>16 DEF ClearChat, Event, ClientTypeOK
<1> QED BY <1>1, <1>2, <1>3, <1>4, <1>5, <1>6, <1>7, <1>8, <1>9, <1>10, <1>11, <1>12, <1>13, <1>14,
           <1>15, <1>16 DEF Next, Server, Page, User, vars

-----------------------------------------------------------------------------
(* Whatever the tab does, the server's thread only moves as ChatThread     *)
(* says, so all that is proved of the thread holds beneath the tab.        *)
LEMMA TabMovesThread == ClientTypeOK /\ [Next]_vars => [ThreadNext]_threadVars
<1> SUFFICES ASSUME ClientTypeOK, [Next]_vars PROVE [ThreadNext]_threadVars
  OBVIOUS
<1>1. CASE UNCHANGED vars
  BY <1>1 DEF vars
<1>2. CASE Server
  BY <1>2 DEF Server, ThreadNext
<1>3. CASE Page
  <2>1. ASSUME NEW d \in Readers, LoadReturns(d) PROVE ThreadNext
    BY <2>1 DEF LoadReturns, ThreadNext
  <2>2. ASSUME NEW h \in polls, PollSucceeds(h) PROVE [ThreadNext]_threadVars
    BY <2>2 DEF PollSucceeds, ThreadNext
  <2>3. ASSUME NEW h, PollFails(h) \/ PollWaits(h) \/ TokenArrives(h) \/ Types(h) PROVE UNCHANGED threadVars
    BY <2>3 DEF PollFails, PollWaits, TokenArrives, Types
  <2>4. ASSUME NEW r \in Runs, SubmitReturns(r) \/ SubmitRefused(r) \/ SubmitLost(r)
        PROVE  UNCHANGED threadVars
    BY <2>4 DEF SubmitReturns, SubmitRefused, SubmitLost
  <2>5. ClearReturns => UNCHANGED threadVars
    BY DEF ClearReturns
  <2> QED BY <1>3, <2>1, <2>2, <2>3, <2>4, <2>5 DEF Page
<1>4. CASE User
  <2>1. ASSUME NEW d \in Readers, SelectAgent(d) PROVE ThreadNext
    BY <2>1 DEF SelectAgent, ThreadNext
  <2>2. ASSUME NEW r \in Runs, Submit(r) PROVE ThreadNext
    BY <2>2 DEF Submit, ThreadNext
  <2>3. Leave => UNCHANGED threadVars
    BY DEF Leave
  <2>4. ClearChat => ThreadNext
    BY DEF ClearChat, ThreadNext
  <2>5. ASSUME NEW i \in DOMAIN bubbles, RetryChat(i) PROVE [ThreadNext]_threadVars
    <3>1. bubbles[i] \in Bubbles
      BY DEF ClientTypeOK
    <3>2. bubbles[i].retry \in Runs
      BY <2>5, <3>1 DEF RetryChat, Bubbles
    <3> QED BY <2>5, <3>2 DEF RetryChat, ThreadNext
  <2> QED BY <1>4, <2>1, <2>2, <2>3, <2>4, <2>5 DEF User
<1> QED BY <1>1, <1>2, <1>3, <1>4 DEF Next

(* What the tab is, and what is beneath it.                                *)
LEMMA TabTypes == Spec => [](ClientTypeOK /\ IInv)
<1>1. ClientInit => ClientTypeOK /\ IInv
  BY TabInitTypes, InitHolds DEF ClientInit
<1>2. ClientTypeOK /\ IInv /\ [Next]_vars => (ClientTypeOK /\ IInv)'
  BY TabStepTypes, TabMovesThread, InvariantKept DEF IInv
<1> QED BY <1>1, <1>2, PTL DEF Spec

(* The tab's server is the server of ChatThread: step by step, beneath     *)
(* whatever the tab does.                                                  *)
THEOREM TabActsOnThread == Spec => ThreadSpec
<1>1. ClientInit => ThreadInit
  BY DEF ClientInit
<1> QED BY <1>1, TabTypes, TabMovesThread, PTL DEF Spec, ThreadSpec

(* While a tab sends, loads, retries and clears, a prompt that quotes an   *)
(* answered question quotes its answer (sendChatMessage's backfill).       *)
THEOREM TabPromptsSeeReplies == Spec => []PromptSeesReplies
<1> QED BY TabActsOnThread, PromptsSeeReplies, PTL

(* Meanwhile a history answer accounts for every question, and the thread  *)
(* holds a reply once, after its question (getChatHistory's backfill).     *)
THEOREM TabThreadIsSound == Spec => []ThreadSound
<1> QED BY TabActsOnThread, ThreadIsSound, PTL

-----------------------------------------------------------------------------
(* Who writes to a bubble that says it waits.                              *)

(* A request is only ever sent once, and one that was cut off stays so.    *)
LEMMA PcOnward ==
  ASSUME IInv, [ThreadNext]_threadVars, NEW r \in Runs
  PROVE  /\ sends'[r].pc = "idle" => sends[r].pc = "idle"
         /\ sends[r].pc = "cut" => sends'[r].pc = "cut"
<1>1. sends \in [Runs -> SendType]
  BY DEF IInv, ThreadTypeOK, SendType
<1>2. ASSUME NEW p \in Runs,
             SendBegins(p) \/ SendLists(p) \/ SendRelists(p) \/ SendAppends(p) \/ SendFails(p)
               \/ SendCreatesRun(p)
      PROVE  /\ sends'[r].pc = "idle" => sends[r].pc = "idle"
             /\ sends[r].pc = "cut" => sends'[r].pc = "cut"
  BY <1>1, <1>2 DEF SendBegins, SendLists, SendRelists, SendAppends, SendFails,
                    SendCreatesRun, SendType
<1>3. ASSUME NEW p \in Runs, SendBackfills(p) PROVE sends'[r].pc = sends[r].pc
  BY <1>1, <1>3 DEF SendBackfills, SendType
<1>4. \/ UNCHANGED sends
      \/ \E p \in Runs : \/ SendBegins(p) \/ SendLists(p) \/ SendRelists(p) \/ SendAppends(p)
                         \/ SendFails(p) \/ SendCreatesRun(p) \/ SendBackfills(p)
  BY DEF ThreadNext, Serve, threadVars, ReadBegins, ReadLists, ReadBackfills, ReadRelists,
         ReadEnds, Clear, RunEnds, RunReopens
<1> QED BY <1>2, <1>3, <1>4

(* Nobody waits for the answer to a request that was not sent.             *)
NoneAwaited == \A r \in Runs : sends[r].pc = "idle" => awaiting[r] = 0

LEMMA NoneAwaitedKept ==
  ClientTypeOK /\ IInv /\ NoneAwaited /\ [Next]_vars => NoneAwaited'
<1> SUFFICES ASSUME ClientTypeOK, IInv, NoneAwaited, [Next]_vars, NEW r \in Runs, sends'[r].pc = "idle"
             PROVE  awaiting'[r] = 0
  BY DEF NoneAwaited
<1>1. sends[r].pc = "idle"
  BY PcOnward, TabMovesThread
<1>2. awaiting \in [Runs -> Nat] /\ awaiting[r] = 0
  BY <1>1 DEF NoneAwaited, ClientTypeOK
<1>3. ASSUME NEW q \in Runs, SubmitReturns(q) \/ SubmitRefused(q) \/ SubmitLost(q)
      PROVE  awaiting' = [awaiting EXCEPT ![q] = 0]
  BY <1>3 DEF SubmitReturns, SubmitRefused, SubmitLost
<1>4. ASSUME NEW q \in Runs, Submit(q) PROVE q # r /\ \E n : awaiting' = [awaiting EXCEPT ![q] = n]
  <2>1. sends' = [sends EXCEPT ![q].pc = "list"]
    BY <1>4 DEF Submit, SendBegins
  <2>2. sends \in [Runs -> SendType]
    BY DEF IInv, ThreadTypeOK, SendType
  <2>3. sends'[q].pc = "list"
    BY <2>1, <2>2 DEF SendType
  <2> QED BY <1>4, <2>3 DEF Submit
<1>5. \/ UNCHANGED awaiting
      \/ \E q \in Runs : SubmitReturns(q) \/ SubmitRefused(q) \/ SubmitLost(q) \/ Submit(q)
  BY DEF Next, Server, Page, User, vars, clientVars, LoadReturns, PollSucceeds, PollFails, PollWaits,
         TokenArrives, Types, ClearReturns, SelectAgent, RetryChat, Leave, ClearChat
<1> QED BY <1>2, <1>3, <1>4, <1>5

(* A bubble and who will write to it.                                      *)
Minded(i) ==
  \/ \E h \in polls : h.idx = i
  \/ \E r \in Runs : awaiting[r] = i
  \/ \E h \in lost : h.idx = i

(* A bubble whose state does not turn to waiting is minded as before, if   *)
(* nobody gave it up.                                                      *)
LEMMA StillMinded ==
  ASSUME WaitingIsWorkedOn, NEW i \in DOMAIN bubbles, bubbles[i].state = "pending",
         polls \subseteq polls', \A r \in Runs : awaiting'[r] = awaiting[r],
         lost \subseteq lost'
  PROVE  Minded(i)'
BY DEF WaitingIsWorkedOn, Minded

LEMMA WaitingKept ==
  ClientTypeOK /\ IInv /\ NoneAwaited /\ WaitingIsWorkedOn /\ [Next]_vars => WaitingIsWorkedOn'
<1> SUFFICES ASSUME ClientTypeOK, IInv, NoneAwaited, WaitingIsWorkedOn, [Next]_vars,
                    NEW i \in DOMAIN bubbles', bubbles'[i].state = "pending"
             PROVE  Minded(i)'
  BY DEF WaitingIsWorkedOn, Minded
<1> USE DEF Sees
<1>2. /\ bubbles \in Seq(Bubbles) /\ \A j \in DOMAIN bubbles : bubbles[j] \in Bubbles
      /\ awaiting \in [Runs -> Nat]
  BY DEF ClientTypeOK
<1>3. CASE UNCHANGED <<bubbles, polls, awaiting, lost>>
  BY <1>3, StillMinded
<1>4. ASSUME NEW d \in Readers, LoadReturns(d) PROVE Minded(i)'
  <2> DEFINE m == reads[d].messages
             p == reads[d].pending
  <2>1. m \in Seq(Messages) /\ p \in Seq(Pendings)
    BY ReadTypes DEF IInv
  <2>2. /\ bubbles' = Rendered(m, p)
        /\ \A k \in DOMAIN p : p[k].status = "queued" => Handle(p[k].run, Len(m) + k) \in polls'
    BY <1>4 DEF LoadReturns
  <2> HIDE DEF m, p
  <2>3. i \in 1 .. Len(m) + Len(p)
    BY <2>1, <2>2, RenderedIs
  <2>4. i \notin 1 .. Len(m)
    <3>1. ASSUME i \in 1 .. Len(m) PROVE FALSE
      <4>1. bubbles'[i] = Shown(m[i])
        BY <2>1, <2>2, <3>1, RenderedIs
      <4> QED BY <4>1, BubbleSays
    <3> QED BY <3>1
  <2>5. PICK k \in 1 .. Len(p) : i = Len(m) + k
    <3>1. i - Len(m) \in 1 .. Len(p) /\ i = Len(m) + (i - Len(m))
      BY <2>1, <2>3, <2>4
    <3> QED BY <3>1
  <2>6. p[k] \in Pendings
    BY <2>1
  <2>7. p[k].status # "failed"
    <3>1. bubbles'[i] = IF p[k].status = "failed" THEN Failed(p[k].run) ELSE Waiting
      BY <2>1, <2>2, <2>5, RenderedIs
    <3> QED BY <3>1, BubbleSays
  <2>8. Handle(p[k].run, i) \in polls'
    BY <2>1, <2>2, <2>5, <2>6, <2>7 DEF Pendings
  <2> QED BY <2>8 DEF Minded, Handle
<1>5. ASSUME NEW r \in Runs, SubmitReturns(r) PROVE Minded(i)'
  <2>1. CASE awaiting[r] = i
    <3>1. Handle(r, i) \in polls'
      BY <1>5, <2>1 DEF SubmitReturns
    <3> QED BY <3>1 DEF Minded, Handle
  <2>2. CASE awaiting[r] # i
    BY <1>2, <1>5, <2>2 DEF SubmitReturns, WaitingIsWorkedOn, Minded
  <2> QED BY <2>1, <2>2
<1>6. ASSUME NEW r \in Runs, SubmitRefused(r) PROVE Minded(i)'
  <2>1. /\ bubbles' = IF Sees(awaiting[r]) THEN [bubbles EXCEPT ![awaiting[r]] = Failed(NoRun)] ELSE bubbles
        /\ awaiting' = [awaiting EXCEPT ![r] = 0] /\ UNCHANGED <<polls, lost>>
    BY <1>6 DEF SubmitRefused
  <2>2. Failed(NoRun) \in Bubbles /\ Failed(NoRun).state # "pending"
    BY BubbleTypes, BubbleSays
  <2>3. i \in DOMAIN bubbles /\ i # awaiting[r] /\ bubbles[i].state = "pending"
    BY <1>2, <2>1, <2>2
  <2> QED BY <1>2, <2>1, <2>3 DEF WaitingIsWorkedOn, Minded
<1>18. ASSUME NEW r \in Runs, SubmitLost(r) PROVE Minded(i)'
  <2>1. /\ bubbles' = bubbles /\ polls' = polls /\ awaiting' = [awaiting EXCEPT ![r] = 0]
        /\ lost' = lost \cup {Handle(r, awaiting[r])}
    BY <1>18 DEF SubmitLost
  <2>2. CASE awaiting[r] = i
    <3>1. Handle(r, i) \in lost' /\ Handle(r, i).idx = i
      BY <2>1, <2>2 DEF Handle
    <3> QED BY <3>1, Zenon DEF Minded
  <2>3. CASE awaiting[r] # i
    BY <1>2, <2>1, <2>3 DEF WaitingIsWorkedOn, Minded
  <2> QED BY <2>2, <2>3
<1>7. ASSUME NEW h \in polls, NEW b \in Bubbles, b.state # "pending", polls' = polls \ {h}, UNCHANGED <<awaiting, lost>>,
             bubbles' = bubbles \/ bubbles' = [bubbles EXCEPT ![h.idx] = b],
             h.idx \in DOMAIN bubbles => bubbles' = [bubbles EXCEPT ![h.idx] = b]
      PROVE  Minded(i)'
  <2>1. i \in DOMAIN bubbles
    BY <1>2, <1>7
  <2>2. i # h.idx
    BY <1>2, <1>7, <2>1
  <2>3. bubbles[i].state = "pending"
    BY <1>2, <1>7, <2>1, <2>2
  <2> QED BY <1>7, <2>1, <2>2, <2>3 DEF WaitingIsWorkedOn, Minded
<1>8. ASSUME NEW h \in polls, PollSucceeds(h) PROVE Minded(i)'
  <2>1. Shown(Reply(h.run)) \in Bubbles /\ Shown(Reply(h.run)).state # "pending"
    <3>1. Reply(h.run) \in Messages
      BY HandleIs DEF Reply, Messages
    <3> QED BY <3>1, BubbleTypes DEF Shown, Bubble
  <2>2. Bubble("them", Note, "plain", NoRun) \in Bubbles /\ Bubble("them", Note, "plain", NoRun).state # "pending"
    BY BubbleTypes DEF Bubble
  <2>3. SetReply(h.run, h.idx) /\ polls' = polls \ {h} /\ UNCHANGED <<awaiting, lost>>
    BY <1>8 DEF PollSucceeds
  <2>4. CASE Sees(h.idx) /\ bubbles[h.idx].streamed
    <3>1. bubbles' = [bubbles EXCEPT ![h.idx] = Shown(Reply(h.run))]
      BY <2>3, <2>4 DEF SetReply
    <3> QED BY <1>7, <2>1, <2>3, <3>1
  <2>5. CASE ~ (Sees(h.idx) /\ bubbles[h.idx].streamed)
    <3>1. \/ h.idx \notin DOMAIN bubbles /\ bubbles' = bubbles
          \/ bubbles' = [bubbles EXCEPT ![h.idx] = Bubble("them", Note, "plain", NoRun)]
      BY <2>3, <2>5 DEF SetReply
    <3> QED BY <1>7, <2>2, <2>3, <3>1
  <2> QED BY <2>4, <2>5
<1>9. ASSUME NEW h \in polls, PollFails(h) PROVE Minded(i)'
  <2>1. Failed(h.run) \in Bubbles /\ Failed(h.run).state # "pending"
    BY HandleIs, BubbleTypes DEF Failed, Bubble
  <2>2. /\ polls' = polls \ {h} /\ UNCHANGED <<awaiting, lost>>
        /\ bubbles' = IF Sees(h.idx) THEN [bubbles EXCEPT ![h.idx] = Failed(h.run)] ELSE bubbles
    BY <1>9 DEF PollFails
  <2> QED BY <1>7, <2>1, <2>2
<1>10. ASSUME NEW j \in DOMAIN bubbles, NEW b \in Bubbles, bubbles' = [bubbles EXCEPT ![j] = b],
              b.state \in {bubbles[j].state, "plain"}, UNCHANGED <<polls, awaiting, lost>>
       PROVE  Minded(i)'
  <2>1. i \in DOMAIN bubbles /\ bubbles[i].state = "pending"
    BY <1>2, <1>10
  <2> QED BY <1>10, <2>1, StillMinded
<1>11. ASSUME NEW h \in polls, PollWaits(h) PROVE Minded(i)'
  <2>1. h.idx \in DOMAIN bubbles
    BY <1>11, WaitsWrites
  <2>2. bubbles' = [bubbles EXCEPT ![h.idx] = [bubbles[h.idx] EXCEPT !.text = Note]]
    BY <1>11, WaitsWrites
  <2>3. /\ [bubbles[h.idx] EXCEPT !.text = Note] \in Bubbles
        /\ [bubbles[h.idx] EXCEPT !.text = Note].state = bubbles[h.idx].state
    BY <1>2, <2>1, Retold, TextTypes
  <2>4. UNCHANGED <<polls, awaiting, lost>>
    BY <1>11 DEF PollWaits
  <2> QED BY <1>10, <2>1, <2>2, <2>3, <2>4
<1>12. ASSUME NEW h \in polls, TokenArrives(h) PROVE Minded(i)'
  <2>1. h.idx \in DOMAIN bubbles
    BY <1>12, TokenWrites
  <2>2. bubbles' = [bubbles EXCEPT ![h.idx] = Fed(bubbles[h.idx], h.run)]
    BY <1>12, TokenWrites
  <2>3. /\ Fed(bubbles[h.idx], h.run) \in Bubbles
        /\ Fed(bubbles[h.idx], h.run).state \in {bubbles[h.idx].state, "plain"}
    BY <1>2, <2>1, FedBubble, HandleIs
  <2>4. UNCHANGED <<polls, awaiting, lost>>
    BY <1>12 DEF TokenArrives
  <2> QED BY <1>10, <2>1, <2>2, <2>3, <2>4
<1>13. ASSUME NEW h \in typing, Types(h) PROVE Minded(i)'
  <2>1. h.idx \in DOMAIN bubbles
    BY <1>13, TypesWrites
  <2>2. bubbles' = [bubbles EXCEPT ![h.idx] = [bubbles[h.idx] EXCEPT !.text = Reply(h.run)]]
    BY <1>13, TypesWrites
  <2>3. /\ [bubbles[h.idx] EXCEPT !.text = Reply(h.run)] \in Bubbles
        /\ [bubbles[h.idx] EXCEPT !.text = Reply(h.run)].state = bubbles[h.idx].state
    BY <1>2, <2>1, Retold, TextTypes, HandleIs
  <2>4. UNCHANGED <<polls, awaiting, lost>>
    BY <1>13 DEF Types
  <2> QED BY <1>10, <2>1, <2>2, <2>3, <2>4
<1>14. CASE ClearReturns
  BY <1>14 DEF ClearReturns
<1>15. ASSUME NEW r \in Runs, Submit(r) PROVE Minded(i)'
  <2>1. /\ bubbles' = bubbles \o <<Shown(Question(r)), Waiting>>
        /\ awaiting' = [awaiting EXCEPT ![r] = Len(bubbles) + 2]
        /\ polls' = polls /\ lost' = lost
    BY <1>15 DEF Submit
  <2>2. awaiting[r] = 0
    BY <1>15 DEF Submit, SendBegins, NoneAwaited
  <2>3. /\ \A j \in 1 .. Len(bubbles) : bubbles'[j] = bubbles[j]
        /\ bubbles'[Len(bubbles) + 1] = Shown(Question(r))
        /\ DOMAIN bubbles' = 1 .. Len(bubbles) + 2
    BY <1>2, <2>1
  <2>4. CASE i \in 1 .. Len(bubbles)
    <3>1. i \in DOMAIN bubbles /\ bubbles[i].state = "pending" /\ i # 0
      BY <1>2, <2>3, <2>4
    <3> QED BY <1>2, <2>1, <2>2, <3>1 DEF WaitingIsWorkedOn, Minded
  <2>5. CASE i = Len(bubbles) + 1
    BY <2>3, <2>5, BubbleSays
  <2>6. CASE i = Len(bubbles) + 2
    <3>1. awaiting'[r] = i
      BY <1>2, <2>1, <2>6
    <3> QED BY <3>1 DEF Minded
  <2> QED BY <1>2, <2>3, <2>4, <2>5, <2>6
<1>16. ASSUME NEW j \in DOMAIN bubbles, RetryChat(j) PROVE Minded(i)'
  <2>1. /\ bubbles' = [bubbles EXCEPT ![j] = Waiting] /\ UNCHANGED <<awaiting, lost>>
        /\ polls' = polls \cup {Handle(bubbles[j].retry, j)}
    BY <1>16 DEF RetryChat
  <2>2. CASE i = j
    <3>1. Handle(bubbles[j].retry, j) \in polls' /\ Handle(bubbles[j].retry, j).idx = i
      BY <2>1, <2>2 DEF Handle
    <3> QED BY <3>1 DEF Minded
  <2>3. CASE i # j
    <3>1. i \in DOMAIN bubbles /\ bubbles[i].state = "pending"
      BY <1>2, <2>1, <2>3
    <3> QED BY <2>1, <3>1, StillMinded
  <2> QED BY <2>2, <2>3
<1>17. \/ UNCHANGED <<bubbles, polls, awaiting, lost>>
       \/ Page
       \/ \E r \in Runs : Submit(r)
       \/ \E j \in DOMAIN bubbles : RetryChat(j)
  BY DEF Next, Server, User, vars, clientVars, SelectAgent, Leave, ClearChat
<1> QED BY <1>3, <1>4, <1>5, <1>6, <1>18, <1>8, <1>9, <1>11, <1>12, <1>13, <1>14, <1>15, <1>16, <1>17 DEF Page

(* A bubble that says it waits has a poll or the request itself to write   *)
(* to it, unless it is that of a request whose answer was lost: whatever   *)
(* history answers replace the array in between (ui.ts's pollRun,          *)
(* loadChatHistory, submit).                                               *)
THEOREM WaitingBubblesAreWorkedOn == Spec => []WaitingIsWorkedOn
<1>1. ClientInit => NoneAwaited /\ WaitingIsWorkedOn
  BY DEF ClientInit, NoneAwaited, WaitingIsWorkedOn
<1> QED BY <1>1, NoneAwaitedKept, WaitingKept, TabTypes, PTL DEF Spec

-----------------------------------------------------------------------------
(* The tab while the user waits for it.                                    *)

Size == Len(bubbles)
OpenEnd(s) == s # << >> /\ s[Len(s)].role = "user"
(* Every question but one at the end has its reply right after it.         *)
Paired(s) == \A i \in 1 .. Len(s) - 1 : s[i].role = "user" => s[i + 1] = Reply(s[i].run)
(* Of the first n bubbles, each question is answered by the next one.      *)
AnsweredIn(n) ==
  \A i \in 1 .. n : bubbles[i].side = "me" => i < n /\ bubbles[i + 1].text = Reply(bubbles[i].text.run)
(* The screen goes back as far as a history answer would, which is n       *)
(* messages longer than the thread.                                        *)
Covers(n) == Size >= HistoryWindow \/ Size >= Len(thread) + n

Settling(r) ==
  row[r] \in {"absent", "succeeded"} /\ sends[r].pc \in {"idle", "done"} /\ awaiting[r] = 0
ReadsIdle == \A d \in Readers : reads[d].pc = "idle"

(* A history request that is under way reports nothing, and will fill in   *)
(* the last question's reply if that is missing.                           *)
ReadSound(d) ==
  /\ reads[d].pending = << >>
  /\ reads[d].pc = "backfill" =>
       /\ \A i \in DOMAIN reads[d].todo : In(reads[d].todo[i], thread)
       /\ OpenEnd(thread) => In(thread[Len(thread)], reads[d].todo)
  /\ reads[d].pc = "done" =>
       ~ OpenEnd(thread) /\ reads[d].messages = Newest(HistoryWindow, thread)

(* A typewriter writes the last reply, in the last bubble or past the end. *)
TypingSound ==
  \A h \in typing :
    /\ h.idx >= Size /\ thread # << >> /\ thread[Len(thread)].run = h.run
    /\ h.idx = Size /\ Size > 1 /\ bubbles[Size - 1].side = "me" => bubbles[Size - 1].text.run = h.run
TypingLast == \E h \in typing : h.idx = Size

(* All that was asked is answered, and on the screen but for a reply that  *)
(* is being typed.                                                         *)
Screen ==
  /\ \A i \in 1 .. Size : bubbles[i].state = "plain"
  /\ Size > 0 => bubbles[Size].side = "them"
  /\ \A i \in 1 .. Size - 1 :
       bubbles[i].side = "me" => \/ bubbles[i + 1].text = Reply(bubbles[i].text.run)
                                 \/ i + 1 = Size /\ TypingLast

Quiet ==
  /\ polls = {} /\ Screen /\ TypingSound
  /\ \A r \in Runs : Settling(r)
  /\ \A d \in Readers : ReadSound(d)
  /\ open /\ ReadsIdle => ~ OpenEnd(thread)
  /\ clearing => thread = << >> /\ typing = {} /\ ReadsIdle
  /\ Covers(0) /\ (OpenEnd(thread) => Covers(1))

(* One question is under way, the one at the end of the screen.            *)
ScreenOf(r) ==
  /\ Size >= 2 /\ bubbles[Size - 1] = Shown(Question(r)) /\ bubbles[Size].side = "them"
  /\ \A i \in 1 .. Size - 2 : bubbles[i].state = "plain"
  /\ AnsweredIn(Size - 2)
Alone(r) ==
  /\ typing = {} /\ ~ clearing
  /\ \A d \in Readers : reads[d].pc = "idle" /\ reads[d].pending = << >>
  /\ \A q \in Runs \ {r} : Settling(q)
Held(r) ==
  /\ polls \subseteq {Handle(r, Size)} /\ awaiting[r] \in {0, Size}
  /\ awaiting[r] # 0 => polls = {} /\ bubbles[Size].state = "pending"

(* Its bubble waits and nobody polls for it: the request is unanswered, or *)
(* its answer was lost.                                                    *)
Unpolled == polls = {} /\ bubbles[Size].state = "pending"

Asking(r) ==
  /\ sends[r].pc \in {"list", "backfill", "append"} /\ Unpolled
  /\ ~ OpenEnd(thread) /\ Covers(2)
  /\ sends[r].pc = "backfill" => NoneOpen(sends[r].todo)
Stored(r) ==
  /\ sends[r].pc = "create" /\ Unpolled
  /\ thread # << >> /\ thread[Len(thread)] = Question(r) /\ Covers(1)
Running(r) ==
  /\ sends[r].pc = "done" /\ row[r] \in {"queued", "succeeded", "failed"}
  /\ thread # << >> /\ thread[Len(thread)] = Question(r) /\ Covers(1)
  /\ polls # {} \/ bubbles[Size].state # "plain"
  /\ bubbles[Size].state = "failed" => bubbles[Size].retry = r
GivenUp(r) ==
  /\ sends[r].pc = "cut" /\ polls = {} /\ bubbles[Size].state # "plain"
  /\ bubbles[Size].state = "failed" => bubbles[Size].retry = NoRun

Flying(r) ==
  /\ ScreenOf(r) /\ Alone(r) /\ Held(r)
  /\ Asking(r) \/ Stored(r) \/ Running(r) \/ GivenUp(r)

Waited == Paired(thread) /\ (Quiet \/ \E r \in Runs : Flying(r))
Calm == ~ overlapped => Waited

-----------------------------------------------------------------------------
(* Threads that are paired.                                                *)

LEMMA MessageIs ==
  ASSUME NEW s \in Seq(Messages), NEW i \in DOMAIN s
  PROVE  /\ s[i] \in Messages /\ s[i].run \in Runs /\ s[i].role \in {"user", "agent"}
         /\ s[i].role = "user" => s[i] = Question(s[i].run)
<1>1. s[i] \in Messages
  OBVIOUS
<1> QED BY <1>1 DEF Messages, Question

LEMMA NewestIs ==
  ASSUME NEW s \in Seq(Messages), NEW n \in Nat \ {0}
  PROVE  \E k \in 0 .. Len(s) :
           /\ Newest(n, s) \in Seq(Messages)
           /\ Len(Newest(n, s)) = Len(s) - k
           /\ Len(Newest(n, s)) = IF Len(s) > n THEN n ELSE Len(s)
           /\ \A i \in 1 .. Len(s) - k : Newest(n, s)[i] = s[i + k]
<1>1. CASE Len(s) > n
  <2>1. Len(s) - n \in 0 .. Len(s) /\ Newest(n, s) = SubSeq(s, (Len(s) - n) + 1, Len(s))
    BY <1>1 DEF Newest
  <2>2. /\ Newest(n, s) \in Seq(Messages) /\ Len(Newest(n, s)) = Len(s) - (Len(s) - n)
        /\ \A i \in 1 .. Len(Newest(n, s)) : Newest(n, s)[i] = s[i + (Len(s) - n)]
    BY <2>1, DroppingLeavesSuffix
  <2> DEFINE k == Len(s) - n
  <2>3. k \in 0 .. Len(s) /\ Len(Newest(n, s)) = Len(s) - k
    BY <2>1, <2>2
  <2>4. Len(Newest(n, s)) = IF Len(s) > n THEN n ELSE Len(s)
    BY <1>1, <2>2
  <2>5. \A i \in 1 .. Len(s) - k : Newest(n, s)[i] = s[i + k]
    BY <2>2, <2>3
  <2> HIDE DEF k
  <2> QED BY <2>2, <2>3, <2>4, <2>5
<1>2. CASE ~ (Len(s) > n)
  <2>1. 0 \in 0 .. Len(s) /\ Newest(n, s) = SubSeq(s, 0 + 1, Len(s))
    BY <1>2 DEF Newest
  <2>2. /\ Newest(n, s) \in Seq(Messages) /\ Len(Newest(n, s)) = Len(s) - 0
        /\ \A i \in 1 .. Len(Newest(n, s)) : Newest(n, s)[i] = s[i + 0]
    BY <2>1, DroppingLeavesSuffix
  <2> DEFINE Shift(k) ==
        /\ Newest(n, s) \in Seq(Messages) /\ Len(Newest(n, s)) = Len(s) - k
        /\ Len(Newest(n, s)) = IF Len(s) > n THEN n ELSE Len(s)
        /\ \A i \in 1 .. Len(s) - k : Newest(n, s)[i] = s[i + k]
  <2>3. Shift(0)
    BY <1>2, <2>2
  <2> QED BY <2>1, <2>3
<1> QED BY <1>1, <1>2

(* So are their windows, and they end the same way.                        *)
LEMMA WindowPaired ==
  ASSUME NEW s \in Seq(Messages), NEW n \in Nat \ {0}, Paired(s)
  PROVE  /\ Newest(n, s) \in Seq(Messages) /\ Paired(Newest(n, s))
         /\ Len(Newest(n, s)) = IF Len(s) > n THEN n ELSE Len(s)
         /\ s # << >> => Newest(n, s) # << >> /\ Newest(n, s)[Len(Newest(n, s))] = s[Len(s)]
         /\ OpenEnd(Newest(n, s)) => OpenEnd(s)
         /\ \A i \in DOMAIN Newest(n, s) : In(Newest(n, s)[i], s)
<1> DEFINE t == Newest(n, s)
<1>1. PICK k \in 0 .. Len(s) :
        /\ t \in Seq(Messages) /\ Len(t) = Len(s) - k /\ Len(t) = IF Len(s) > n THEN n ELSE Len(s)
        /\ \A i \in 1 .. Len(s) - k : t[i] = s[i + k]
  BY NewestIs
<1> HIDE DEF t
<1>2. Paired(t)
  <2> SUFFICES ASSUME NEW i \in 1 .. Len(t) - 1, t[i].role = "user" PROVE t[i + 1] = Reply(t[i].run)
    BY DEF Paired
  <2>1. i \in 1 .. Len(s) - k /\ i + 1 \in 1 .. Len(s) - k /\ i + k \in 1 .. Len(s) - 1
    BY <1>1
  <2>2. t[i] = s[i + k] /\ t[i + 1] = s[(i + k) + 1]
    BY <1>1, <2>1
  <2> QED BY <2>1, <2>2 DEF Paired
<1>3. s # << >> => t # << >> /\ t[Len(t)] = s[Len(s)]
  BY <1>1
<1>4. OpenEnd(t) => OpenEnd(s)
  <2>1. t # << >> => s # << >>
    BY <1>1
  <2> QED BY <1>3, <2>1 DEF OpenEnd
<1>5. \A i \in DOMAIN t : In(t[i], s)
  <2> SUFFICES ASSUME NEW i \in DOMAIN t PROVE In(t[i], s)
    OBVIOUS
  <2>1. i + k \in DOMAIN s /\ t[i] = s[i + k]
    BY <1>1
  <2> QED BY <2>1 DEF In
<1> QED BY <1>1, <1>2, <1>3, <1>4, <1>5 DEF t

(* Only the question at the end lacks its reply.                           *)
LEMMA PairedReply ==
  ASSUME NEW s \in Seq(Messages), Paired(s), NEW q \in Runs, In(Question(q), s), ~ In(Reply(q), s)
  PROVE  OpenEnd(s) /\ s[Len(s)] = Question(q)
<1>1. PICK i \in DOMAIN s : s[i] = Question(q)
  BY DEF In
<1>2. s[i].role = "user" /\ s[i].run = q
  BY <1>1 DEF Question
<1>3. CASE i \in 1 .. Len(s) - 1
  <2>1. s[i + 1] = Reply(q) /\ i + 1 \in DOMAIN s
    BY <1>2, <1>3 DEF Paired
  <2> QED BY <2>1 DEF In
<1>4. CASE i = Len(s)
  BY <1>1, <1>2, <1>4 DEF OpenEnd
<1> QED BY <1>3, <1>4

LEMMA PairedClosed ==
  ASSUME NEW s \in Seq(Messages), Paired(s), ~ OpenEnd(s)
  PROVE  NoneOpen(s)
<1> SUFFICES ASSUME NEW i \in DOMAIN s, Open(s, i) PROVE FALSE
  BY DEF NoneOpen
<1>1. s[i] = Question(s[i].run) /\ s[i].run \in Runs
  BY MessageIs DEF Open
<1>2. In(Question(s[i].run), s) /\ ~ In(Reply(s[i].run), s)
  BY <1>1 DEF Open, In
<1> QED BY <1>1, <1>2, PairedReply

(* A reply is never older than its question.                               *)
LEMMA LastUnanswered ==
  ASSUME IInv, NEW q \in Runs, thread # << >>, thread[Len(thread)] = Question(q)
  PROVE  ~ In(Reply(q), thread)
<1> SUFFICES ASSUME NEW i \in DOMAIN thread, thread[i] = Reply(q) PROVE FALSE
  BY DEF In
<1>1. thread \in Seq(Messages) /\ Len(thread) \in DOMAIN thread
  BY DEF IInv, ThreadTypeOK
<1>2. thread[i].role = "agent" /\ thread[i].run = q
  BY DEF Reply
<1>3. Len(thread) < i
  BY <1>1, <1>2 DEF IInv, RepliesEarned
<1> QED BY <1>1, <1>3

LEMMA PairedAppend ==
  ASSUME NEW s \in Seq(Messages), NEW m \in Messages, Paired(s),
         OpenEnd(s) => m = Reply(s[Len(s)].run)
  PROVE  /\ Append(s, m) \in Seq(Messages) /\ Paired(Append(s, m))
         /\ Len(Append(s, m)) = Len(s) + 1 /\ Append(s, m) # << >>
         /\ Append(s, m)[Len(Append(s, m))] = m
         /\ \A x : In(x, s) => In(x, Append(s, m))
<1> DEFINE t == Append(s, m)
<1>1. /\ t \in Seq(Messages) /\ Len(t) = Len(s) + 1 /\ t[Len(s) + 1] = m
      /\ \A i \in 1 .. Len(s) : t[i] = s[i]
  OBVIOUS
<1> HIDE DEF t
<1>2. Paired(t)
  <2> SUFFICES ASSUME NEW i \in 1 .. Len(t) - 1, t[i].role = "user" PROVE t[i + 1] = Reply(t[i].run)
    BY DEF Paired
  <2>1. i \in 1 .. Len(s) /\ t[i] = s[i]
    BY <1>1
  <2>2. CASE i = Len(s)
    <3>1. s # << >>
      BY <2>1
    <3> QED BY <1>1, <2>1, <2>2, <3>1 DEF OpenEnd
  <2>3. CASE i # Len(s)
    <3>1. i \in 1 .. Len(s) - 1 /\ t[i + 1] = s[i + 1]
      BY <1>1, <2>1, <2>3
    <3> QED BY <2>1, <3>1 DEF Paired
  <2> QED BY <2>2, <2>3
<1>3. \A x : In(x, s) => In(x, t)
  BY <1>1 DEF In
<1>4. t # << >>
  BY <1>1
<1> QED BY <1>1, <1>2, <1>3, <1>4 DEF t

(* In a quiet tab whatever was asked and is in the thread has succeeded.   *)
LEMMA SettledRows ==
  ASSUME IInv, NEW q \in Runs, Settling(q), In(Question(q), thread)
  PROVE  row[q] = "succeeded"
BY DEF IInv, Asked, RowsMatch, Settling

-----------------------------------------------------------------------------
(* The quiet tab, step by step.                                            *)

(* What is left of a listing after one of its messages.                    *)
LEMMA AfterLeaves ==
  ASSUME NEW s \in Seq(Messages), NEW i \in DOMAIN s
  PROVE  /\ After(s, i) \in Seq(Messages) /\ Len(After(s, i)) = Len(s) - i
         /\ \A j \in 1 .. Len(After(s, i)) : After(s, i)[j] = s[j + i]
         /\ i \in 1 .. Len(s)
<1>1. i \in 0 .. Len(s) /\ i \in 1 .. Len(s) /\ After(s, i) = SubSeq(s, i + 1, Len(s))
  BY DEF After
<1> DEFINE t == SubSeq(s, i + 1, Len(s))
<1>2. t \in Seq(Messages) /\ Len(t) = Len(s) - i /\ \A j \in 1 .. Len(t) : t[j] = s[j + i]
  BY <1>1, DroppingLeavesSuffix
<1> HIDE DEF t
<1> QED BY <1>1, <1>2 DEF t

(* Nothing of the tab and no row or request to send changes.               *)
LEMMA QuietReads ==
  ASSUME IInv, Paired(thread), Quiet, UNCHANGED clientVars, NEW d \in Readers,
         ReadLists(d) \/ ReadBackfills(d) \/ ReadRelists(d)
  PROVE  Paired(thread)' /\ Quiet'
<1>1. /\ thread \in Seq(Messages) /\ reads \in [Readers -> ReadType] /\ reads[d] \in ReadType
      /\ reads[d].todo \in Seq(Messages)
  BY DEF IInv, ThreadTypeOK, ReadType
<1>2. HistoryWindow \in Nat \ {0}
  BY WindowAssumption
<1>3. /\ UNCHANGED <<row, sends, awaiting, bubbles, polls, typing, open, clearing>>
      /\ reads[d].pc # "idle" /\ reads'[d].pc # "idle" /\ ~ clearing
  <2>1. UNCHANGED <<row, sends>> /\ reads[d].pc # "idle"
    BY DEF ReadLists, ReadBackfills, ReadRelists
  <2>2. reads'[d].pc # "idle"
    <3>1. CASE ReadLists(d)
      BY <1>1, <3>1 DEF ReadLists, ReadType
    <3>2. CASE ReadBackfills(d)
      BY <1>1, <3>2 DEF ReadBackfills, ReadType
    <3>3. CASE ReadRelists(d)
      BY <1>1, <3>3 DEF ReadRelists, ReadType
    <3> QED BY <3>1, <3>2, <3>3
  <2> QED BY <2>1, <2>2 DEF clientVars, Quiet, ReadsIdle
<1>4. ASSUME NEW e \in Readers \ {d} PROVE reads'[e] = reads[e]
  BY <1>1 DEF ReadLists, ReadBackfills, ReadRelists
<1>5. \A r \in Runs : Settling(r)' /\ Settling(r)
  BY <1>3 DEF Quiet, Settling
<1>6. ASSUME thread' = thread, ReadSound(d)' PROVE Paired(thread)' /\ Quiet'
  <2>1. \A e \in Readers : ReadSound(e)'
    BY <1>4, <1>6 DEF Quiet, ReadSound
  <2>2. Screen' /\ TypingSound'
    BY <1>3, <1>6 DEF Quiet, Screen, TypingSound, TypingLast, Size
  <2>3. Covers(0)' /\ (OpenEnd(thread) => Covers(1))'
    BY <1>3, <1>6 DEF Quiet, Covers, Size
  <2> QED BY <1>3, <1>5, <1>6, <2>1, <2>2, <2>3 DEF Quiet, ReadsIdle
<1>7. CASE ReadLists(d)
  <2> DEFINE t == Newest(HistoryWindow, thread)
  <2>1. /\ \A i \in DOMAIN t : In(t[i], thread)
        /\ OpenEnd(thread) => In(thread[Len(thread)], t)
    <3>1. /\ t \in Seq(Messages) /\ \A i \in DOMAIN t : In(t[i], thread)
          /\ thread # << >> => t # << >> /\ t[Len(t)] = thread[Len(thread)]
      BY <1>1, <1>2, WindowPaired
    <3> HIDE DEF t
    <3>2. t # << >> => Len(t) \in DOMAIN t
      BY <3>1
    <3> QED BY <3>1, <3>2 DEF OpenEnd, In
  <2>2. thread' = thread /\ reads'[d].pc = "backfill" /\ reads'[d].todo = t
        /\ reads'[d].pending = reads[d].pending
    BY <1>1, <1>7 DEF ReadLists, ReadType
  <2> HIDE DEF t
  <2>3. ReadSound(d)'
    BY <2>1, <2>2 DEF ReadSound, Quiet
  <2> QED BY <1>6, <2>2, <2>3
<1>8. CASE ReadRelists(d)
  <2>1. /\ thread' = thread /\ reads'[d].pc = "done" /\ reads'[d].pending = reads[d].pending
        /\ reads'[d].messages = Newest(HistoryWindow, thread)
    BY <1>1, <1>8 DEF ReadRelists, ReadType
  <2>2. ASSUME OpenEnd(thread) PROVE FALSE
    <3> DEFINE p == thread[Len(thread)].run
               todo == reads[d].todo
    <3>1. Len(thread) \in DOMAIN thread
      BY <1>1, <2>2 DEF OpenEnd
    <3>2. thread[Len(thread)] = Question(p) /\ p \in Runs
      BY <1>1, <2>2, <3>1, MessageIs DEF OpenEnd
    <3>3. ~ In(Reply(p), thread)
      BY <2>2, <3>2, LastUnanswered DEF OpenEnd
    <3>4. In(Question(p), todo) /\ \A i \in DOMAIN todo : In(todo[i], thread)
      BY <1>8, <2>2, <3>2 DEF ReadRelists, Quiet, ReadSound
    <3> HIDE DEF todo, p
    <3>5. ~ In(Reply(p), todo)
      BY <3>3, <3>4 DEF In
    <3>6. PICK j \in DOMAIN todo : todo[j] = Question(p)
      BY <3>4 DEF In
    <3>7. Open(todo, j)
      BY <3>5, <3>6 DEF Open, Question
    <3> QED BY <1>8, <3>7 DEF ReadRelists, NoneOpen, todo
  <2>3. ReadSound(d)'
    BY <2>1, <2>2 DEF ReadSound, Quiet
  <2> QED BY <1>6, <2>1, <2>3
<1>9. CASE ReadBackfills(d)
  <2> DEFINE todo == reads[d].todo
  <2>1. PICK i \in DOMAIN todo :
          /\ FirstOpen(todo, i) /\ thread' = Backfilled(todo[i].run)
          /\ reads' = [reads EXCEPT ![d].todo = After(@, i), ![d].pending = @ \o Reported(todo[i].run)]
    BY <1>9 DEF ReadBackfills
  <2> DEFINE q == todo[i].run
  <2>2. todo[i] = Question(q) /\ q \in Runs /\ Question(q) \in Messages /\ Reply(q) \in Messages
    <3>1. todo[i] = Question(q) /\ q \in Runs
      BY <1>1, <2>1, MessageIs DEF FirstOpen, Open
    <3> QED BY <3>1 DEF Question, Reply, Messages
  <2>3. reads[d].pc = "backfill" /\ \A k \in DOMAIN todo : In(todo[k], thread)
    BY <1>9 DEF ReadBackfills, Quiet, ReadSound
  <2>4. row[q] = "succeeded"
    BY <1>5, <2>2, <2>3, SettledRows
  <2>5. /\ reads'[d].pc = "backfill" /\ reads'[d].todo = After(todo, i)
        /\ reads'[d].pending = reads[d].pending \o << >>
    BY <1>1, <2>1, <2>3, <2>4 DEF Reported, ReadType
  <2>6. reads'[d].pending = << >>
    <3>1. reads[d].pending = << >>
      BY DEF Quiet, ReadSound
    <3> QED BY <2>5, <3>1
  <2> HIDE DEF q
  <2>7. todo \in Seq(Messages) /\ todo = reads[d].todo
    BY <1>1
  <2> HIDE DEF todo
  <2>8. /\ After(todo, i) \in Seq(Messages) /\ Len(After(todo, i)) = Len(todo) - i
        /\ \A j \in 1 .. Len(After(todo, i)) : After(todo, i)[j] = todo[j + i]
        /\ i \in 1 .. Len(todo)
    BY <2>7, AfterLeaves
  <2>9. \A j \in DOMAIN After(todo, i) : In(After(todo, i)[j], thread)
    <3> SUFFICES ASSUME NEW j \in DOMAIN After(todo, i) PROVE In(After(todo, i)[j], thread)
      OBVIOUS
    <3>1. j \in 1 .. Len(After(todo, i))
      BY <2>8
    <3>2. After(todo, i)[j] = todo[j + i] /\ j + i \in DOMAIN todo
      BY <2>7, <2>8, <3>1
    <3> QED BY <2>3, <3>2
  <2>10. CASE In(Reply(q), thread)
    <3>1. thread' = thread
      BY <2>1, <2>2, <2>10 DEF Backfilled, q
    <3>2. ASSUME OpenEnd(thread) PROVE In(thread[Len(thread)], After(todo, i))
      <4> DEFINE p == thread[Len(thread)].run
      <4>1. Len(thread) \in DOMAIN thread
        BY <1>1, <3>2 DEF OpenEnd
      <4>2. thread[Len(thread)] = Question(p) /\ p \in Runs
        BY <1>1, <3>2, <4>1, MessageIs DEF OpenEnd
      <4>3. ~ In(Reply(p), thread)
        BY <3>2, <4>2, LastUnanswered DEF OpenEnd
      <4> HIDE DEF p
      <4>4. p # q
        BY <2>10, <4>3
      <4>5. PICK j \in DOMAIN todo : todo[j] = Question(p)
        BY <2>3, <2>7, <3>2, <4>2 DEF Quiet, ReadSound, In
      <4>6. Open(todo, j)
        BY <2>3, <4>3, <4>5 DEF Open, Question, In
      <4>7. j >= i
        BY <2>1, <2>7, <4>6 DEF FirstOpen, todo
      <4>8. j # i
        BY <2>2, <4>4, <4>5 DEF Question
      <4>9. j - i \in 1 .. Len(After(todo, i)) /\ (j - i) + i = j
        <5>1. Len(todo) \in Nat /\ j \in 1 .. Len(todo)
          BY <2>7, LenProperties
        <5>2. Len(After(todo, i)) = Len(todo) - i /\ i \in 1 .. Len(todo)
          BY <2>8, Zenon
        <5> QED BY <4>7, <4>8, <5>1, <5>2
      <4>10. After(todo, i)[j - i] = Question(p)
        BY <2>8, <4>5, <4>9
      <4>11. j - i \in DOMAIN After(todo, i)
        BY <2>8, <4>9
      <4> QED BY <4>2, <4>10, <4>11 DEF In
    <3>3. ReadSound(d)'
      BY <2>5, <2>6, <2>9, <3>1, <3>2 DEF ReadSound
    <3> QED BY <1>6, <3>1, <3>3
  <2>11. CASE ~ In(Reply(q), thread)
    <3>1. In(Question(q), thread)
      BY <2>2, <2>3
    <3>2. OpenEnd(thread) /\ thread[Len(thread)] = Question(q)
      BY <1>1, <2>2, <2>11, <3>1, PairedReply
    <3>3. thread' = Append(thread, Reply(q))
      BY <2>1, <2>2, <2>4, <2>11 DEF Backfilled, q
    <3>4. thread[Len(thread)].run = q
      BY <3>2 DEF Question
    <3>5. /\ thread' \in Seq(Messages) /\ Paired(thread') /\ Len(thread') = Len(thread) + 1
          /\ thread' # << >> /\ thread'[Len(thread')] = Reply(q)
          /\ \A x : In(x, thread) => In(x, thread')
      BY <1>1, <2>2, <3>3, <3>4, PairedAppend
    <3>6. ~ OpenEnd(thread')
      BY <3>5 DEF OpenEnd, Reply
    <3>7. ReadSound(d)'
      BY <2>5, <2>6, <2>9, <3>5, <3>6 DEF ReadSound
    <3>8. ASSUME NEW e \in Readers \ {d} PROVE ReadSound(e)'
      <4>1. reads[e].pc # "done"
        BY <3>2 DEF Quiet, ReadSound
      <4>2. ReadSound(e)
        BY DEF Quiet
      <4> QED BY <1>4, <3>5, <3>6, <4>1, <4>2 DEF ReadSound
    <3>9. Screen'
      BY <1>3 DEF Quiet, Screen, TypingLast, Size
    <3>10. TypingSound'
      <4>1. thread'[Len(thread')].run = thread[Len(thread)].run
        BY <3>4, <3>5 DEF Reply
      <4> QED BY <1>3, <3>5, <4>1 DEF Quiet, TypingSound, Size
    <3>11. Covers(0)' /\ ~ OpenEnd(thread)'
      <4>1. Covers(1)
        BY <3>2 DEF Quiet
      <4> QED BY <1>1, <1>3, <3>5, <3>6, <4>1 DEF Covers, Size
    <3> QED BY <1>3, <1>5, <3>5, <3>7, <3>8, <3>9, <3>10, <3>11 DEF Quiet, ReadsIdle
  <2> QED BY <2>10, <2>11
<1> QED BY <1>7, <1>8, <1>9

(* A history answer: the screen becomes the end of the thread.             *)
LEMMA QuietLoads ==
  ASSUME IInv, ClientTypeOK, Paired(thread), Quiet, NEW d \in Readers, LoadReturns(d)
  PROVE  Paired(thread)' /\ Quiet'
<1> DEFINE m == reads[d].messages
<1>1. /\ thread \in Seq(Messages) /\ reads \in [Readers -> ReadType] /\ reads[d] \in ReadType
  BY DEF IInv, ThreadTypeOK, ReadType
<1>2. /\ reads[d].pc = "done" /\ ~ OpenEnd(thread) /\ m = Newest(HistoryWindow, thread)
      /\ reads[d].pending = << >> /\ ~ clearing
  BY DEF LoadReturns, ReadEnds, Quiet, ReadSound, ReadsIdle
<1>3. /\ m \in Seq(Messages) /\ Paired(m) /\ ~ OpenEnd(m)
      /\ Len(m) = IF Len(thread) > HistoryWindow THEN HistoryWindow ELSE Len(thread)
      /\ thread # << >> => m # << >> /\ m[Len(m)] = thread[Len(thread)]
  BY <1>1, <1>2, WindowPaired, WindowAssumption
<1>4. /\ UNCHANGED <<thread, row, sends, awaiting, typing, open, clearing>>
      /\ reads' = [reads EXCEPT ![d] = NoRead]
      /\ bubbles' = Rendered(m, << >>) /\ polls' = polls
  <2>1. polls' = polls \cup {Handle(reads[d].pending[i].run, Len(m) + i) :
                               i \in {k \in DOMAIN reads[d].pending : reads[d].pending[k].status = "queued"}}
    BY DEF LoadReturns
  <2>2. polls' = polls
    BY <1>2, <2>1
  <2>3. /\ UNCHANGED <<thread, row, sends, awaiting, typing, open, clearing>>
        /\ reads' = [reads EXCEPT ![d] = NoRead] /\ bubbles' = Rendered(m, reads[d].pending)
    BY DEF LoadReturns, ReadEnds
  <2> QED BY <1>2, <2>2, <2>3
<1> HIDE DEF m
<1>5. /\ Size' = Len(m)
      /\ \A i \in 1 .. Len(m) : bubbles'[i] = Shown(m[i])
  <2>1. << >> \in Seq(Pendings) /\ Len(<< >>) = 0
    OBVIOUS
  <2>2. /\ Len(Rendered(m, << >>)) = Len(m) + 0
        /\ \A i \in 1 .. Len(m) : Rendered(m, << >>)[i] = Shown(m[i])
    BY <1>3, <2>1, RenderedIs
  <2> QED BY <1>3, <1>4, <2>2 DEF Size
<1>6. \A i \in 1 .. Len(m) : /\ bubbles'[i].state = "plain" /\ bubbles'[i].text = m[i]
                             /\ bubbles'[i].side = IF m[i].role = "user" THEN "me" ELSE "them"
  BY <1>5, BubbleSays
<1>7. Screen'
  <2>1. Len(m) > 0 => bubbles'[Len(m)].side = "them"
    BY <1>3, <1>6 DEF OpenEnd
  <2>2. ASSUME NEW i \in 1 .. Len(m) - 1, bubbles'[i].side = "me"
        PROVE  bubbles'[i + 1].text = Reply(bubbles'[i].text.run)
    <3>1. i \in 1 .. Len(m) /\ i + 1 \in 1 .. Len(m)
      BY <1>3
    <3>2. m[i].role = "user"
      BY <1>6, <2>2, <3>1
    <3> QED BY <1>3, <1>6, <3>1, <3>2 DEF Paired
  <2> QED BY <1>5, <1>6, <2>1, <2>2 DEF Screen
<1>8. Size >= Len(m)
  BY <1>1, <1>3, WindowAssumption DEF Quiet, Covers, Size, ClientTypeOK
<1>9. TypingSound'
  <2> SUFFICES ASSUME NEW h \in typing
               PROVE  /\ h.idx >= Len(m) /\ thread # << >> /\ thread[Len(thread)].run = h.run
                      /\ h.idx = Len(m) /\ Len(m) > 1 /\ bubbles'[Len(m) - 1].side = "me" =>
                           bubbles'[Len(m) - 1].text.run = h.run
    BY <1>4, <1>5 DEF TypingSound
  <2>1. h.idx >= Size /\ thread # << >> /\ thread[Len(thread)].run = h.run /\ h.idx \in Nat
    BY HandleIs DEF Quiet, TypingSound
  <2>2. h.idx >= Len(m)
    BY <1>3, <1>8, <2>1 DEF Size, ClientTypeOK
  <2>3. ASSUME Len(m) > 1, bubbles'[Len(m) - 1].side = "me" PROVE bubbles'[Len(m) - 1].text.run = h.run
    <3>1. Len(m) - 1 \in 1 .. Len(m) - 1 /\ Len(m) - 1 \in 1 .. Len(m) /\ (Len(m) - 1) + 1 = Len(m)
      BY <1>3, <2>3
    <3>2. m[Len(m) - 1].role = "user"
      BY <1>6, <2>3, <3>1
    <3>3. m[Len(m)] = Reply(m[Len(m) - 1].run)
      BY <1>3, <3>1, <3>2 DEF Paired
    <3>4. m[Len(m)].run = m[Len(m) - 1].run
      BY <3>3 DEF Reply
    <3> QED BY <1>3, <1>6, <2>1, <3>1, <3>4
  <2> QED BY <2>1, <2>2, <2>3
<1>10. Covers(0)'
  BY <1>1, <1>3, <1>4, <1>5, WindowAssumption DEF Covers
<1>11. \A e \in Readers : ReadSound(e)'
  <2>1. \A e \in Readers \ {d} : reads'[e] = reads[e]
    BY <1>1, <1>4
  <2>2. reads'[d] = NoRead
    BY <1>1, <1>4
  <2> QED BY <1>4, <2>1, <2>2 DEF Quiet, ReadSound, NoRead
<1> QED BY <1>2, <1>4, <1>7, <1>9, <1>10, <1>11 DEF Quiet, Settling

(* The typewriter ends.                                                    *)
LEMMA QuietTypes ==
  ASSUME IInv, ClientTypeOK, Paired(thread), Quiet, NEW h \in typing, Types(h)
  PROVE  Paired(thread)' /\ Quiet'
<1>1. bubbles \in Seq(Bubbles) /\ \A i \in 1 .. Size : bubbles[i] \in Bubbles
  BY DEF ClientTypeOK, Size
<1>2. h.idx \in 1 .. Size
  <2>1. h.idx \in DOMAIN bubbles
    BY TypesWrites
  <2>2. DOMAIN bubbles = 1 .. Size
    BY <1>1 DEF Size
  <2> QED BY <2>1, <2>2
<1>3. h.idx = Size /\ Size \in Nat
  BY <1>1, <1>2 DEF Quiet, TypingSound, Size
<1> DEFINE b == [bubbles[Size] EXCEPT !.text = Reply(h.run)]
<1>4. b \in Bubbles /\ b.text = Reply(h.run) /\ b.side = bubbles[Size].side /\ b.state = bubbles[Size].state
  BY <1>1, <1>2, <1>3, Retold, TextTypes, HandleIs
<1>5. bubbles' = [bubbles EXCEPT ![Size] = b]
  BY <1>3, TypesWrites
<1>6. UNCHANGED <<threadVars, awaiting, polls, open, clearing>> /\ typing' = typing \ {h}
  BY DEF Types
<1> HIDE DEF b
<1>7. Size' = Size /\ bubbles'[Size] = b /\ \A i \in 1 .. Size - 1 : bubbles'[i] = bubbles[i]
  BY <1>1, <1>2, <1>3, <1>4, <1>5 DEF Size
<1>8. Screen'
  <2>1. \A i \in 1 .. Size : bubbles'[i].state = "plain"
    BY <1>3, <1>4, <1>7 DEF Quiet, Screen
  <2>2. bubbles'[Size].side = "them"
    BY <1>2, <1>3, <1>4, <1>7 DEF Quiet, Screen
  <2>3. ASSUME NEW i \in 1 .. Size - 1, bubbles'[i].side = "me"
        PROVE  bubbles'[i + 1].text = Reply(bubbles'[i].text.run)
    <3>1. bubbles'[i] = bubbles[i] /\ bubbles[i].side = "me"
      BY <1>7, <2>3
    <3>2. CASE i + 1 = Size
      <4>1. i = Size - 1 /\ Size > 1
        BY <1>3, <3>2
      <4>2. bubbles[i].text.run = h.run
        BY <1>3, <3>1, <4>1 DEF Quiet, TypingSound
      <4> QED BY <1>4, <1>7, <3>1, <3>2, <4>2
    <3>3. CASE i + 1 # Size
      <4>1. i + 1 \in 1 .. Size - 1
        BY <1>3, <3>3
      <4> QED BY <1>7, <3>1, <3>3, <4>1 DEF Quiet, Screen
    <3> QED BY <3>2, <3>3
  <2> QED BY <1>7, <2>1, <2>2, <2>3 DEF Screen
<1>9. TypingSound'
  <2>1. Size > 1 => bubbles'[Size - 1] = bubbles[Size - 1]
    BY <1>3, <1>7
  <2>2. thread' = thread
    BY <1>6 DEF threadVars
  <2> QED BY <1>6, <1>7, <2>1, <2>2 DEF Quiet, TypingSound
<1>10. typing # {} /\ ~ clearing
  BY DEF Quiet
<1> QED BY <1>6, <1>7, <1>8, <1>9, <1>10 DEF Quiet, Settling, ReadsIdle, ReadSound, Covers, threadVars

(* The answer to a clear.                                                  *)
LEMMA QuietCleared ==
  ASSUME IInv, ClientTypeOK, Paired(thread), Quiet, ClearReturns
  PROVE  Paired(thread)' /\ Quiet'
<1>1. /\ thread = << >> /\ typing = {} /\ ReadsIdle
      /\ UNCHANGED <<threadVars, awaiting, polls, typing, open>> /\ bubbles' = << >> /\ ~ clearing'
  BY DEF ClearReturns, Quiet
<1>2. Size' = 0 /\ ~ OpenEnd(thread) /\ Len(thread) = 0
  BY <1>1 DEF Size, OpenEnd
<1>3. Screen' /\ TypingSound'
  BY <1>1, <1>2 DEF Screen, TypingSound
<1>4. Covers(0)'
  <2>1. thread' = thread
    BY <1>1 DEF threadVars
  <2> QED BY <1>2, <2>1 DEF Covers
<1> QED BY <1>1, <1>2, <1>3, <1>4 DEF Quiet, Settling, ReadsIdle, ReadSound, threadVars

(* The user opens the thread, leaves it or clears it, the tab being at     *)
(* rest.                                                                   *)
LEMMA QuietOpens ==
  ASSUME IInv, ClientTypeOK, Paired(thread), Quiet, AtRest, NEW d \in Readers, SelectAgent(d)
  PROVE  Paired(thread)' /\ Quiet'
<1>1. /\ reads[d].pc = "idle" /\ reads' = [reads EXCEPT ![d].pc = "list"]
      /\ UNCHANGED <<thread, row, sends, bubbles, awaiting, polls, typing, clearing>>
  BY DEF SelectAgent, ReadBegins
<1>2. ~ clearing
  BY DEF AtRest
<1>3. reads \in [Readers -> ReadType]
  BY DEF IInv, ThreadTypeOK, ReadType
<1>4. /\ reads'[d].pc = "list" /\ reads'[d].pending = reads[d].pending
      /\ \A e \in Readers \ {d} : reads'[e] = reads[e]
  BY <1>1, <1>3 DEF ReadType
<1>5. \A e \in Readers : ReadSound(e)'
  BY <1>1, <1>4 DEF Quiet, ReadSound
<1>6. ~ ReadsIdle'
  BY <1>4 DEF ReadsIdle
<1>7. Screen' /\ TypingSound'
  BY <1>1 DEF Quiet, Screen, TypingSound, TypingLast, Size
<1> QED BY <1>1, <1>2, <1>5, <1>6, <1>7 DEF Quiet, Settling, Covers, Size

LEMMA QuietLeaves ==
  ASSUME Paired(thread), Quiet, Leave
  PROVE  Paired(thread)' /\ Quiet'
<1>1. UNCHANGED <<threadVars, bubbles, awaiting, polls, typing, clearing>> /\ ~ open'
  BY DEF Leave
<1>2. Screen' /\ TypingSound'
  BY <1>1 DEF Quiet, Screen, TypingSound, TypingLast, Size, threadVars
<1> QED BY <1>1, <1>2 DEF Quiet, Settling, ReadsIdle, ReadSound, Covers, Size, threadVars

LEMMA QuietClears ==
  ASSUME IInv, ClientTypeOK, Paired(thread), Quiet, AtRest, ClearChat
  PROVE  Paired(thread)' /\ Quiet'
<1>1. /\ thread' = << >> /\ typing = {} /\ ReadsIdle /\ \A d \in Readers : reads[d].pc = "idle"
      /\ UNCHANGED <<row, sends, reads, bubbles, awaiting, polls, typing, open>>
  BY DEF ClearChat, Clear, AtRest, ReadsIdle
<1>2. Len(thread') = 0 /\ ~ OpenEnd(thread')
  BY <1>1 DEF OpenEnd
<1>3. Screen' /\ TypingSound'
  BY <1>1 DEF Quiet, Screen, TypingSound, TypingLast, Size
<1>4. Covers(0)'
  <2>1. Size \in Nat
    BY DEF ClientTypeOK, Size
  <2> QED BY <1>1, <1>2, <2>1 DEF Covers, Size
<1>5. Paired(thread')
  BY <1>2 DEF Paired
<1> QED BY <1>1, <1>2, <1>3, <1>4, <1>5 DEF Quiet, Settling, ReadsIdle, ReadSound


(* A question is asked: from here on it is the one under way.              *)
LEMMA QuietSubmits ==
  ASSUME IInv, ClientTypeOK, Paired(thread), Quiet, AtRest, NEW r \in Runs, Submit(r)
  PROVE  Paired(thread)' /\ Flying(r)'
<1>1. /\ bubbles \in Seq(Bubbles) /\ awaiting \in [Runs -> Nat] /\ sends \in [Runs -> SendType]
      /\ Size \in Nat /\ thread \in Seq(Messages)
  BY DEF ClientTypeOK, IInv, ThreadTypeOK, SendType, Size
<1>2. /\ open /\ sends' = [sends EXCEPT ![r].pc = "list"]
      /\ bubbles' = bubbles \o <<Shown(Question(r)), Waiting>>
      /\ awaiting' = [awaiting EXCEPT ![r] = Size + 2]
      /\ UNCHANGED <<thread, row, reads, polls, typing, clearing>>
  BY DEF Submit, SendBegins, Size
<1>3. /\ Size' = Size + 2 /\ \A i \in 1 .. Size : bubbles'[i] = bubbles[i]
      /\ bubbles'[Size + 1] = Shown(Question(r)) /\ bubbles'[Size + 2] = Waiting
  BY <1>1, <1>2 DEF Size
<1>4. /\ sends'[r].pc = "list" /\ awaiting'[r] = Size + 2
      /\ \A q \in Runs \ {r} : sends'[q] = sends[q] /\ awaiting'[q] = awaiting[q]
  BY <1>1, <1>2 DEF SendType
<1>5. /\ polls = {} /\ typing = {} /\ ~ clearing /\ ReadsIdle
      /\ \A d \in Readers : reads[d].pc = "idle" /\ reads[d].pending = << >>
  BY DEF AtRest, ReadsIdle, Quiet, ReadSound
<1>6. ScreenOf(r)'
  <2>1. ASSUME NEW i \in 1 .. Size, bubbles'[i].side = "me"
        PROVE  i < Size /\ bubbles'[i + 1].text = Reply(bubbles'[i].text.run)
    <3>1. bubbles[i].side = "me" /\ i # Size
      BY <1>1, <1>3, <2>1 DEF Quiet, Screen
    <3>2. i \in 1 .. Size - 1 /\ i + 1 \in 1 .. Size
      BY <1>1, <3>1
    <3>3. bubbles[i + 1].text = Reply(bubbles[i].text.run)
      BY <1>5, <3>1, <3>2 DEF Quiet, Screen, TypingLast
    <3>4. bubbles'[i] = bubbles[i] /\ bubbles'[i + 1] = bubbles[i + 1] /\ i < Size
      BY <1>1, <1>3, <3>2
    <3> QED BY <3>3, <3>4
  <2>2. /\ Size' - 2 = Size /\ Size' - 1 = Size + 1 /\ Size' >= 2
    BY <1>1, <1>3
  <2>3. /\ bubbles'[Size' - 1] = Shown(Question(r)) /\ bubbles'[Size'].side = "them"
        /\ \A i \in 1 .. Size' - 2 : bubbles'[i].state = "plain"
    BY <1>3, <2>2, BubbleSays DEF Quiet, Screen
  <2>4. AnsweredIn(Size - 2)'
    BY <2>1, <2>2 DEF AnsweredIn
  <2> QED BY <2>2, <2>3, <2>4 DEF ScreenOf
<1>7. Alone(r)'
  BY <1>2, <1>4, <1>5 DEF Quiet, Alone, Settling
<1>8. Held(r)'
  BY <1>2, <1>3, <1>4, <1>5, BubbleSays DEF Held
<1>9. Asking(r)'
  <2>1. ~ OpenEnd(thread)
    BY <1>2, <1>5 DEF Quiet
  <2>2. Covers(2)'
    <3>1. Covers(0) /\ HistoryWindow \in Nat
      BY WindowAssumption DEF Quiet
    <3> QED BY <1>1, <1>2, <1>3, <3>1 DEF Covers
  <2>3. Unpolled'
    BY <1>2, <1>3, <1>5, BubbleSays DEF Unpolled
  <2> QED BY <1>1, <1>2, <1>4, <2>1, <2>2, <2>3 DEF Asking
<1> QED BY <1>2, <1>6, <1>7, <1>8, <1>9 DEF Flying

-----------------------------------------------------------------------------
(* The question under way, step by step.                                   *)

(* The tab is not at rest before it is answered.                           *)
LEMMA FlyingIsNoRest ==
  ASSUME ClientTypeOK, NEW r \in Runs, Flying(r)
  PROVE  ~ AtRest
<1>1. Size \in DOMAIN bubbles /\ Size \in Nat
  BY DEF Flying, ScreenOf, Size, ClientTypeOK
<1> QED BY <1>1 DEF Flying, Asking, Stored, Unpolled, Running, GivenUp, AtRest

(* Only its own request and its own run are under way.                     *)
LEMMA OnlyOne ==
  ASSUME NEW r \in Runs, Flying(r), NEW q \in Runs \ {r}
  PROVE  /\ ~ SendLists(q) /\ ~ SendBackfills(q) /\ ~ SendRelists(q) /\ ~ SendAppends(q)
         /\ ~ SendCreatesRun(q) /\ ~ RunEnds(q) /\ ~ SendFails(q)
         /\ ~ SubmitReturns(q) /\ ~ SubmitRefused(q) /\ ~ SubmitLost(q)
<1>1. Settling(q)
  BY DEF Flying, Alone
<1> QED BY <1>1 DEF Settling, SendLists, SendBackfills, SendRelists, SendAppends, SendCreatesRun, RunEnds,
                    SendFails, SubmitReturns, SubmitRefused, SubmitLost

(* The server serves it.                                                   *)
LEMMA FlyingServes ==
  ASSUME IInv, ClientTypeOK, Paired(thread), NEW r \in Runs, Flying(r), UNCHANGED clientVars,
         SendLists(r) \/ SendBackfills(r) \/ SendRelists(r) \/ SendAppends(r) \/ SendCreatesRun(r) \/ RunEnds(r)
  PROVE  Paired(thread)' /\ Flying(r)'
<1>1. /\ sends \in [Runs -> SendType] /\ thread \in Seq(Messages)
      /\ row \in [Runs -> {"absent", "queued", "succeeded", "failed"}] /\ HistoryWindow \in Nat
  BY WindowAssumption DEF IInv, ThreadTypeOK, SendType
<1>2. UNCHANGED <<bubbles, awaiting, polls, typing, open, clearing, reads>>
  BY DEF clientVars, SendLists, SendBackfills, SendRelists, SendAppends, SendCreatesRun, RunEnds
<1>3. ASSUME NEW q \in Runs \ {r} PROVE sends'[q] = sends[q] /\ row'[q] = row[q]
  <2>1. CASE SendBackfills(r)
    BY <1>1, <2>1 DEF SendBackfills
  <2>2. CASE RunEnds(r)
    BY <1>1, <2>2 DEF RunEnds
  <2> QED BY <1>1, <2>1, <2>2 DEF SendLists, SendRelists, SendAppends, SendCreatesRun
<1>4. ScreenOf(r)' /\ Held(r)'
  BY <1>2 DEF Flying, ScreenOf, Held, AnsweredIn, Size
<1>5. Alone(r)'
  BY <1>2, <1>3 DEF Flying, Alone, Settling
<1>6. CASE SendLists(r)
  <2>1. Asking(r)
    BY <1>6 DEF SendLists, Flying, Asking, Stored, Unpolled, Running, GivenUp
  <2>2. thread' = thread /\ sends'[r].pc = "backfill" /\ sends'[r].todo = Newest(PromptWindow, thread)
    BY <1>1, <1>6 DEF SendLists
  <2>3. NoneOpen(Newest(PromptWindow, thread))
    <3> DEFINE t == Newest(PromptWindow, thread)
    <3>1. t \in Seq(Messages) /\ Paired(t) /\ (OpenEnd(t) => OpenEnd(thread))
      BY <1>1, WindowPaired, WindowAssumption
    <3> HIDE DEF t
    <3>2. NoneOpen(t)
      BY <2>1, <3>1, PairedClosed DEF Asking
    <3> QED BY <3>2 DEF t
  <2>4. Asking(r)'
    BY <1>2, <2>1, <2>2, <2>3 DEF Asking, Unpolled, Covers, Size
  <2> QED BY <1>4, <1>5, <2>2, <2>4 DEF Flying
<1>7. CASE SendBackfills(r)
  <2>1. Asking(r) /\ sends[r].pc = "backfill"
    BY <1>7 DEF SendBackfills, Flying, Asking, Stored, Unpolled, Running, GivenUp
  <2> QED BY <1>7, <2>1 DEF SendBackfills, Asking, NoneOpen, FirstOpen
<1>8. CASE SendRelists(r)
  <2>1. Asking(r)
    BY <1>8 DEF SendRelists, Flying, Asking, Stored, Unpolled, Running, GivenUp
  <2>2. thread' = thread /\ sends'[r].pc = "append"
    BY <1>1, <1>8 DEF SendRelists, SendType
  <2>3. Asking(r)'
    BY <1>2, <2>1, <2>2 DEF Asking, Unpolled, Covers, Size
  <2> QED BY <1>4, <1>5, <2>2, <2>3 DEF Flying
<1>9. CASE SendAppends(r)
  <2>1. Asking(r)
    BY <1>9 DEF SendAppends, Flying, Asking, Stored, Unpolled, Running, GivenUp
  <2>2. thread' = Append(thread, Question(r)) /\ sends'[r].pc = "create"
    BY <1>1, <1>9 DEF SendAppends, SendType
  <2>3. Question(r) \in Messages
    BY DEF Question, Messages
  <2>4. /\ Paired(thread') /\ Len(thread') = Len(thread) + 1 /\ thread' # << >>
        /\ thread'[Len(thread')] = Question(r)
    BY <1>1, <2>1, <2>2, <2>3, PairedAppend DEF Asking
  <2>5. Covers(1)'
    <3>1. Covers(2) /\ Size \in Nat /\ Size' = Size
      BY <1>2, <2>1 DEF Asking, Size, ClientTypeOK
    <3> QED BY <1>1, <2>4, <3>1 DEF Covers
  <2>6. Stored(r)'
    BY <1>2, <2>1, <2>2, <2>4, <2>5 DEF Asking, Stored, Unpolled, Size
  <2> QED BY <1>4, <1>5, <2>4, <2>6 DEF Flying
<1>10. CASE SendCreatesRun(r)
  <2>1. Stored(r)
    BY <1>10 DEF SendCreatesRun, Flying, Asking, Stored, Unpolled, Running, GivenUp
  <2>2. thread' = thread /\ sends'[r].pc = "done" /\ row'[r] = "queued"
    BY <1>1, <1>10 DEF SendCreatesRun, SendType
  <2>3. bubbles[Size].state = "pending"
    BY <2>1 DEF Stored, Unpolled
  <2>4. Running(r)'
    BY <1>2, <2>1, <2>2, <2>3 DEF Stored, Running, Covers, Size
  <2> QED BY <1>4, <1>5, <2>2, <2>4 DEF Flying
<1>11. CASE RunEnds(r)
  <2>1. thread' = thread /\ sends' = sends /\ row'[r] \in {"succeeded", "failed"}
    BY <1>1, <1>11 DEF RunEnds
  <2>2. Asking(r) => Asking(r)'
    BY <1>2, <2>1 DEF Asking, Unpolled, Covers, Size
  <2>3. Stored(r) => Stored(r)'
    BY <1>2, <2>1 DEF Stored, Unpolled, Covers, Size
  <2>4. Running(r) => Running(r)'
    BY <1>2, <2>1 DEF Running, Covers, Size
  <2>5. GivenUp(r) => GivenUp(r)'
    BY <1>2, <2>1 DEF GivenUp, Size
  <2> QED BY <1>4, <1>5, <2>1, <2>2, <2>3, <2>4, <2>5 DEF Flying
<1> QED BY <1>6, <1>7, <1>8, <1>9, <1>10, <1>11


(* A request that fails leaves a bubble the tab will give up.              *)
LEMMA FlyingFails ==
  ASSUME IInv, Paired(thread), NEW r \in Runs, Flying(r), SendFails(r),
         UNCHANGED <<bubbles, awaiting, polls, typing, open, clearing, overlapped, lost>>
  PROVE  Paired(thread)' /\ Flying(r)'
<1>1. sends \in [Runs -> SendType]
  BY DEF IInv, ThreadTypeOK, SendType
<1>2. /\ UNCHANGED <<thread, row, reads>> /\ sends'[r].pc = "cut"
      /\ \A q \in Runs \ {r} : sends'[q] = sends[q]
  BY <1>1 DEF SendFails, SendType
<1>3. Asking(r) \/ Stored(r)
  BY DEF SendFails, Flying, Running, GivenUp
<1>4. polls = {} /\ bubbles[Size].state = "pending"
  BY <1>3 DEF Asking, Stored, Unpolled
<1>5. ScreenOf(r)' /\ Held(r)' /\ GivenUp(r)'
  BY <1>2, <1>4 DEF Flying, ScreenOf, Held, AnsweredIn, GivenUp, Size
<1>6. Alone(r)'
  BY <1>2 DEF Flying, Alone, Settling
<1> QED BY <1>2, <1>5, <1>6 DEF Flying

(* Only the last bubble is written.                                        *)
LEMMA LastWritten ==
  ASSUME ClientTypeOK, NEW r \in Runs, ScreenOf(r), NEW b \in Bubbles, b.side = "them",
         bubbles' = [bubbles EXCEPT ![Size] = b]
  PROVE  ScreenOf(r)' /\ Size' = Size /\ bubbles'[Size] = b /\ bubbles'[Size - 1] = Shown(Question(r))
<1>1. Size \in DOMAIN bubbles /\ Size \in Nat /\ bubbles \in Seq(Bubbles) /\ DOMAIN bubbles = 1 .. Size
  BY DEF ScreenOf, Size, ClientTypeOK
<1>2. Size' = Size /\ bubbles'[Size] = b /\ \A j \in 1 .. Size - 1 : bubbles'[j] = bubbles[j]
  <2>1. /\ Len(bubbles') = Len(bubbles) /\ bubbles'[Size] = b
        /\ \A j \in DOMAIN bubbles \ {Size} : bubbles'[j] = bubbles[j]
    BY <1>1, BubbleWritten
  <2>2. \A j \in 1 .. Size - 1 : j \in DOMAIN bubbles \ {Size}
    BY <1>1
  <2> QED BY <2>1, <2>2 DEF Size
<1>3. /\ Size' >= 2 /\ bubbles'[Size - 1] = Shown(Question(r)) /\ bubbles'[Size].side = "them"
      /\ \A i \in 1 .. Size - 2 : bubbles'[i].state = "plain"
  BY <1>1, <1>2 DEF ScreenOf
<1>4. ASSUME NEW i \in 1 .. Size - 2, bubbles'[i].side = "me"
      PROVE  i < Size - 2 /\ bubbles'[i + 1].text = Reply(bubbles'[i].text.run)
  <2>1. bubbles'[i] = bubbles[i]
    BY <1>1, <1>2
  <2>2. i < Size - 2 /\ bubbles[i + 1].text = Reply(bubbles[i].text.run)
    BY <1>4, <2>1 DEF ScreenOf, AnsweredIn
  <2>3. bubbles'[i + 1] = bubbles[i + 1]
    BY <1>1, <1>2, <2>2
  <2> QED BY <2>1, <2>2, <2>3
<1>5. AnsweredIn(Size - 2)'
  BY <1>2, <1>4 DEF AnsweredIn
<1> QED BY <1>2, <1>3, <1>5 DEF ScreenOf

(* The request answers, is refused or breaks.                              *)
LEMMA FlyingReturns ==
  ASSUME IInv, ClientTypeOK, Paired(thread), NEW r \in Runs, Flying(r),
         SubmitReturns(r) \/ SubmitRefused(r) \/ SubmitLost(r)
  PROVE  Paired(thread)' /\ Flying(r)'
<1>1. /\ awaiting[r] = Size /\ polls = {} /\ bubbles[Size].state = "pending"
      /\ awaiting \in [Runs -> Nat] /\ Size \in Nat
  BY DEF SubmitReturns, SubmitRefused, SubmitLost, Flying, Held, ClientTypeOK, Size
<1>2. /\ UNCHANGED <<thread, row, sends, reads, typing, clearing>>
      /\ awaiting' = [awaiting EXCEPT ![r] = 0]
  BY DEF SubmitReturns, SubmitRefused, SubmitLost, threadVars
<1>3. awaiting'[r] = 0 /\ \A q \in Runs \ {r} : awaiting'[q] = awaiting[q]
  BY <1>1, <1>2
<1>4. Alone(r)'
  BY <1>2, <1>3 DEF Flying, Alone, Settling
<1>5. CASE SubmitReturns(r)
  <2>1. Sees(awaiting[r])
    BY <1>1 DEF Flying, ScreenOf, Sees, Size, ClientTypeOK
  <2>2. polls' = {Handle(r, Size)} /\ bubbles' = bubbles
    BY <1>1, <1>5, <2>1 DEF SubmitReturns
  <2>3. Running(r)
    BY <1>5 DEF SubmitReturns, Flying, Asking, Stored, Unpolled, GivenUp
  <2>4. Running(r)'
    BY <1>1, <1>2, <2>2, <2>3 DEF Running, Covers, Size
  <2>5. ScreenOf(r)' /\ Held(r)'
    BY <1>3, <2>2 DEF Flying, ScreenOf, Held, AnsweredIn, Size
  <2> QED BY <1>2, <1>4, <2>4, <2>5 DEF Flying
<1>6. CASE SubmitRefused(r)
  <2>1. GivenUp(r) /\ polls' = polls
    BY <1>6 DEF SubmitRefused, Flying, Asking, Stored, Unpolled, Running
  <2>2. CASE bubbles' = bubbles
    <3>1. ScreenOf(r)' /\ Held(r)' /\ GivenUp(r)'
      BY <1>2, <1>3, <2>1, <2>2 DEF Flying, ScreenOf, Held, AnsweredIn, GivenUp, Size
    <3> QED BY <1>2, <1>4, <3>1 DEF Flying
  <2>3. CASE bubbles' = [bubbles EXCEPT ![Size] = Failed(NoRun)]
    <3>1. Failed(NoRun) \in Bubbles
      BY BubbleTypes
    <3>2. ScreenOf(r)' /\ Size' = Size /\ bubbles'[Size] = Failed(NoRun)
      BY <2>3, <3>1, LastWritten, BubbleSays DEF Flying
    <3>3. Held(r)' /\ GivenUp(r)'
      BY <1>1, <1>2, <1>3, <2>1, <3>2, BubbleSays DEF Held, GivenUp
    <3> QED BY <1>2, <1>4, <3>2, <3>3 DEF Flying
  <2> QED BY <1>1, <1>6, <2>2, <2>3 DEF SubmitRefused
<1>7. CASE SubmitLost(r)
  <2>1. bubbles' = bubbles /\ polls' = polls
    BY <1>7 DEF SubmitLost
  <2>2. ScreenOf(r)' /\ Held(r)' /\ Size' = Size
    BY <1>3, <2>1 DEF Flying, ScreenOf, Held, AnsweredIn, Size
  <2>3. Asking(r) => Asking(r)'
    BY <1>2, <2>1 DEF Asking, Unpolled, Covers, Size
  <2>4. Stored(r) => Stored(r)'
    BY <1>2, <2>1 DEF Stored, Unpolled, Covers, Size
  <2>5. Running(r) => Running(r)'
    BY <1>2, <2>1 DEF Running, Covers, Size
  <2>6. GivenUp(r) => GivenUp(r)'
    BY <1>2, <2>1 DEF GivenUp, Size
  <2> QED BY <1>2, <1>4, <2>2, <2>3, <2>4, <2>5, <2>6 DEF Flying
<1> QED BY <1>5, <1>6, <1>7

(* Its poll is the only one, and the run has its row.                      *)
LEMMA ItsPoll ==
  ASSUME ClientTypeOK, NEW r \in Runs, Flying(r), NEW h \in polls
  PROVE  /\ h = Handle(r, Size) /\ h.run = r /\ h.idx = Size /\ polls = {h}
         /\ awaiting[r] = 0 /\ Running(r) /\ Sees(h.idx)
<1>1. h = Handle(r, Size) /\ polls = {h} /\ awaiting[r] = 0
  BY DEF Flying, Held
<1>2. Running(r)
  BY <1>1 DEF Flying, Asking, Stored, Unpolled, GivenUp
<1>3. Sees(Size)
  BY DEF Flying, ScreenOf, Sees, Size, ClientTypeOK
<1> QED BY <1>1, <1>2, <1>3 DEF Handle

(* The run failed, goes on, or streams.                                    *)
LEMMA FlyingPolls ==
  ASSUME IInv, ClientTypeOK, Paired(thread), NEW r \in Runs, Flying(r), NEW h \in polls,
         PollFails(h) \/ PollWaits(h) \/ TokenArrives(h)
  PROVE  Paired(thread)' /\ Flying(r)'
<1>1. /\ h.run = r /\ h.idx = Size /\ polls = {Handle(r, Size)}
      /\ awaiting[r] = 0 /\ Running(r) /\ Sees(Size)
  BY ItsPoll
<1>2. UNCHANGED <<threadVars, thread, row, sends, reads, awaiting, typing, clearing>>
  BY DEF PollFails, PollWaits, TokenArrives, threadVars
<1>3. Alone(r)'
  BY <1>2 DEF Flying, Alone, Settling
<1>4. bubbles[Size] \in Bubbles /\ bubbles[Size].side = "them"
  <2>1. Size \in DOMAIN bubbles /\ bubbles \in Seq(Bubbles)
    BY <1>1 DEF Sees, ClientTypeOK
  <2> QED BY <2>1 DEF Flying, ScreenOf
<1>5. ASSUME NEW b \in Bubbles, b.side = "them", bubbles' = [bubbles EXCEPT ![Size] = b],
             polls' \subseteq polls, polls' # {} \/ b.state = "failed",
             b.state = "failed" => b.retry = r
      PROVE  Paired(thread)' /\ Flying(r)'
  <2>1. ScreenOf(r)' /\ Size' = Size /\ bubbles'[Size] = b
    BY <1>5, LastWritten DEF Flying
  <2>2. Held(r)'
    BY <1>1, <1>2, <1>5, <2>1 DEF Held
  <2>3. Running(r)'
    BY <1>1, <1>2, <1>5, <2>1 DEF Running, Covers
  <2> QED BY <1>2, <1>3, <2>1, <2>2, <2>3 DEF Flying
<1>6. CASE PollFails(h)
  <2>1. bubbles' = [bubbles EXCEPT ![Size] = Failed(r)] /\ polls' \subseteq polls
    BY <1>1, <1>6 DEF PollFails
  <2>2. Failed(r) \in Bubbles
    BY BubbleTypes
  <2> QED BY <1>5, <2>1, <2>2, BubbleSays
<1>7. CASE PollWaits(h)
  <2> DEFINE b == [bubbles[Size] EXCEPT !.text = Note]
  <2>1. b \in Bubbles /\ b.side = "them" /\ b.state = bubbles[Size].state /\ b.retry = bubbles[Size].retry
    BY <1>4, Retold, TextTypes
  <2>2. bubbles' = [bubbles EXCEPT ![Size] = b]
    BY <1>1, <1>7, WaitsWrites
  <2>3. polls' = polls /\ polls # {}
    BY <1>1, <1>7 DEF PollWaits
  <2> HIDE DEF b
  <2> QED BY <1>1, <1>5, <2>1, <2>2, <2>3 DEF Running
<1>8. CASE TokenArrives(h)
  <2> DEFINE b == Fed(bubbles[Size], r)
  <2>1. b \in Bubbles /\ b.side = "them" /\ b.state \in {bubbles[Size].state, "plain"} /\ b.retry = bubbles[Size].retry
    BY <1>4, FedBubble
  <2>2. bubbles' = [bubbles EXCEPT ![Size] = b]
    BY <1>1, <1>8, TokenWrites
  <2>3. polls' = polls /\ polls # {}
    BY <1>1, <1>8 DEF TokenArrives
  <2> HIDE DEF b
  <2>4. b.state = "failed" => b.retry = r
    BY <1>1, <2>1 DEF Running
  <2> QED BY <1>5, <2>1, <2>2, <2>3, <2>4
<1> QED BY <1>6, <1>7, <1>8

(* It succeeded: the tab is quiet again but for the typewriter.            *)
LEMMA FlyingLands ==
  ASSUME IInv, ClientTypeOK, Paired(thread), NEW r \in Runs, Flying(r), NEW h \in polls, PollSucceeds(h)
  PROVE  Paired(thread)' /\ Quiet'
<1>1. /\ h = Handle(r, Size) /\ h.run = r /\ h.idx = Size /\ polls = {h}
      /\ awaiting[r] = 0 /\ Running(r) /\ Sees(Size)
  BY ItsPoll
<1>2. /\ row[r] = "succeeded" /\ polls' = {} /\ typing = {} /\ ~ clearing /\ Size \in Nat /\ Size >= 2
      /\ UNCHANGED <<thread, row, sends, awaiting, open, clearing>>
  BY <1>1 DEF PollSucceeds, Flying, Alone, ReadBegins, threadVars, ScreenOf, Size, ClientTypeOK
<1>3. /\ \A d \in Readers : reads'[d].pc \in {"idle", "list"} /\ reads'[d].pending = << >>
      /\ open => ~ ReadsIdle'
  <2>1. reads \in [Readers -> ReadType]
    BY DEF IInv, ThreadTypeOK, ReadType
  <2>2. \A d \in Readers : reads[d].pc = "idle" /\ reads[d].pending = << >>
    BY DEF Flying, Alone
  <2>3. CASE open
    <3>1. PICK d \in Readers : reads' = [reads EXCEPT ![d].pc = "list"]
      BY <2>3 DEF PollSucceeds, ReadBegins
    <3>2. reads'[d].pc = "list" /\ reads'[d].pending = reads[d].pending /\ \A e \in Readers \ {d} : reads'[e] = reads[e]
      BY <2>1, <3>1 DEF ReadType
    <3> QED BY <2>2, <3>2 DEF ReadsIdle
  <2>4. CASE ~ open
    <3>1. reads' = reads
      BY <2>4 DEF PollSucceeds, threadVars
    <3> QED BY <2>2, <2>4, <3>1
  <2> QED BY <2>3, <2>4
<1>4. \A q \in Runs : Settling(q)'
  <2>1. Settling(r)'
    BY <1>1, <1>2 DEF Running, Settling
  <2>2. \A q \in Runs \ {r} : Settling(q)'
    BY <1>2 DEF Flying, Alone, Settling
  <2> QED BY <2>1, <2>2
<1>5. \A d \in Readers : ReadSound(d)'
  BY <1>3 DEF ReadSound
<1>6. Covers(0) /\ Covers(1) /\ HistoryWindow \in Nat /\ Len(thread) \in Nat
  BY <1>1, <1>2, WindowAssumption DEF Running, Covers, IInv, ThreadTypeOK
<1>7. ASSUME NEW b \in Bubbles, b.side = "them", b.state = "plain", bubbles' = [bubbles EXCEPT ![Size] = b],
             typing' \subseteq {h}, b.text = Reply(r) \/ h \in typing'
      PROVE  Screen' /\ TypingSound' /\ Size' = Size
  <2>1. ScreenOf(r)' /\ Size' = Size /\ bubbles'[Size] = b /\ bubbles'[Size - 1] = Shown(Question(r))
    BY <1>7, LastWritten DEF Flying
  <2>2. /\ bubbles'[Size - 1].state = "plain" /\ bubbles'[Size - 1].text = Question(r) /\ bubbles'[Size - 1].text.run = r
    BY <2>1, BubbleSays DEF Question
  <2>3. h \in typing' => TypingLast'
    BY <1>1, <2>1 DEF TypingLast
  <2>4. \A i \in 1 .. Size : bubbles'[i].state = "plain"
    <3>1. \A i \in 1 .. Size - 2 : bubbles'[i].state = "plain"
      BY <2>1 DEF ScreenOf
    <3>2. \A i \in 1 .. Size : i \in 1 .. Size - 2 \/ i = Size - 1 \/ i = Size
      BY <1>2
    <3> QED BY <1>7, <2>1, <2>2, <3>1, <3>2
  <2>5. ASSUME NEW i \in 1 .. Size - 1, bubbles'[i].side = "me"
        PROVE  bubbles'[i + 1].text = Reply(bubbles'[i].text.run) \/ (i + 1 = Size /\ TypingLast')
    <3>1. CASE i \in 1 .. Size - 2
      BY <2>1, <2>5, <3>1 DEF ScreenOf, AnsweredIn
    <3>2. CASE i = Size - 1
      BY <1>2, <1>7, <2>1, <2>2, <2>3, <3>2
    <3> QED BY <1>2, <3>1, <3>2
  <2>6. Screen'
    BY <1>7, <2>1, <2>4, <2>5 DEF Screen
  <2>7. thread # << >> /\ thread[Len(thread)].run = r
    BY <1>1 DEF Running, Question
  <2>8. TypingSound'
    BY <1>1, <1>2, <1>7, <2>1, <2>2, <2>7 DEF TypingSound
  <2> QED BY <2>1, <2>6, <2>8
<1>8. SetReply(r, Size)
  BY <1>1 DEF PollSucceeds
<1>9. Screen' /\ TypingSound' /\ Size' = Size
  <2>1. CASE bubbles[Size].streamed
    <3>1. bubbles' = [bubbles EXCEPT ![Size] = Shown(Reply(r))] /\ typing' \subseteq {h}
      BY <1>1, <1>2, <1>8, <2>1 DEF SetReply, Without
    <3>2. Reply(r) \in Messages /\ Reply(r).role # "user"
      BY DEF Reply, Messages
    <3> QED BY <1>7, <3>1, <3>2, BubbleTypes, BubbleSays
  <2>2. CASE ~ bubbles[Size].streamed
    <3> DEFINE b == Bubble("them", Note, "plain", NoRun)
    <3>1. bubbles' = [bubbles EXCEPT ![Size] = b] /\ typing' = {h}
      BY <1>1, <1>2, <1>8, <2>2 DEF SetReply, Without
    <3>2. b \in Bubbles /\ b.side = "them" /\ b.state = "plain"
      BY BubbleTypes DEF Bubble
    <3> HIDE DEF b
    <3> QED BY <1>7, <3>1, <3>2
  <2> QED BY <2>1, <2>2
<1>10. Covers(0)' /\ Covers(1)'
  BY <1>2, <1>6, <1>9 DEF Covers
<1> QED BY <1>2, <1>3, <1>4, <1>5, <1>9, <1>10 DEF Quiet

(* It failed and is asked for again.                                       *)
LEMMA FlyingRetries ==
  ASSUME IInv, ClientTypeOK, Paired(thread), NEW r \in Runs, Flying(r), NEW i \in DOMAIN bubbles, RetryChat(i)
  PROVE  Paired(thread)' /\ Flying(r)'
<1>1. Size \in Nat /\ Size >= 2 /\ i \in 1 .. Size
  BY DEF Flying, ScreenOf, Size, ClientTypeOK
<1>2. i = Size
  <2>1. bubbles[i].state = "failed"
    BY DEF RetryChat
  <2>2. i \notin 1 .. Size - 2
    BY <2>1 DEF Flying, ScreenOf
  <2>3. i # Size - 1
    BY <2>1, BubbleSays DEF Flying, ScreenOf
  <2> QED BY <1>1, <2>2, <2>3
<1>3. bubbles[Size].state = "failed" /\ bubbles[Size].retry # NoRun
  BY <1>2 DEF RetryChat
<1>4. awaiting[r] = 0 /\ Running(r) /\ bubbles[Size].retry = r
  BY <1>3 DEF Flying, Held, Asking, Stored, Unpolled, GivenUp, Running
<1>5. /\ bubbles' = [bubbles EXCEPT ![Size] = Waiting] /\ polls' = polls \cup {Handle(r, Size)}
      /\ UNCHANGED <<awaiting, typing, clearing>>
      /\ RunReopens(r) \/ UNCHANGED threadVars
  BY <1>2, <1>4 DEF RetryChat
<1>6. /\ UNCHANGED <<thread, sends, reads>> /\ row'[r] \in {"queued", "succeeded", "failed"}
      /\ \A q \in Runs \ {r} : row'[q] = row[q]
  <2>1. row \in [Runs -> {"absent", "queued", "succeeded", "failed"}]
    BY DEF IInv, ThreadTypeOK
  <2>2. CASE RunReopens(r)
    BY <2>1, <2>2 DEF RunReopens
  <2>3. CASE UNCHANGED threadVars
    BY <1>4, <2>3 DEF threadVars, Running
  <2> QED BY <1>5, <2>2, <2>3
<1>7. ScreenOf(r)' /\ Size' = Size /\ bubbles'[Size] = Waiting
  BY <1>5, LastWritten, BubbleTypes, BubbleSays DEF Flying
<1>8. Alone(r)'
  BY <1>5, <1>6 DEF Flying, Alone, Settling
<1>9. Held(r)'
  BY <1>4, <1>5, <1>7 DEF Flying, Held
<1>10. Running(r)'
  BY <1>4, <1>5, <1>6, <1>7, BubbleSays DEF Running, Covers
<1> QED BY <1>6, <1>7, <1>8, <1>9, <1>10 DEF Flying

(* The user leaves while it is under way.                                  *)
LEMMA FlyingLeaves ==
  ASSUME Paired(thread), NEW r \in Runs, Flying(r), Leave
  PROVE  Paired(thread)' /\ Flying(r)'
<1>1. UNCHANGED <<threadVars, thread, row, sends, reads, bubbles, awaiting, polls, typing, clearing>>
  BY DEF Leave, threadVars
<1>2. ScreenOf(r)' /\ Alone(r)' /\ Held(r)'
  BY <1>1 DEF Flying, ScreenOf, Alone, Held, AnsweredIn, Settling, Size
<1>3. (Asking(r) => Asking(r)') /\ (Stored(r) => Stored(r)')
  BY <1>1 DEF Asking, Stored, Unpolled, Covers, Size
<1>4. (Running(r) => Running(r)') /\ (GivenUp(r) => GivenUp(r)')
  BY <1>1 DEF Running, GivenUp, Covers, Size
<1> QED BY <1>1, <1>2, <1>3, <1>4 DEF Flying


-----------------------------------------------------------------------------
(* While the user waits, the tab is quiet or one question is under way.    *)

(* What a quiet tab cannot do.                                             *)
LEMMA QuietRests ==
  ASSUME Quiet
  PROVE  /\ \A q \in Runs : /\ ~ SendLists(q) /\ ~ SendBackfills(q) /\ ~ SendRelists(q) /\ ~ SendAppends(q)
                            /\ ~ SendCreatesRun(q) /\ ~ RunEnds(q) /\ ~ SendFails(q)
                            /\ ~ SubmitReturns(q) /\ ~ SubmitRefused(q) /\ ~ SubmitLost(q)
         /\ \A i \in 1 .. Size : ~ RetryChat(i)
         /\ polls = {}
<1>1. \A q \in Runs : Settling(q)
  BY DEF Quiet
<1>2. \A q \in Runs : /\ ~ SendLists(q) /\ ~ SendBackfills(q) /\ ~ SendRelists(q) /\ ~ SendAppends(q)
                      /\ ~ SendCreatesRun(q) /\ ~ RunEnds(q) /\ ~ SendFails(q)
                      /\ ~ SubmitReturns(q) /\ ~ SubmitRefused(q) /\ ~ SubmitLost(q)
  BY <1>1 DEF Settling, SendLists, SendBackfills, SendRelists, SendAppends, SendCreatesRun, RunEnds,
              SendFails, SubmitReturns, SubmitRefused, SubmitLost
<1>3. \A i \in 1 .. Size : ~ RetryChat(i)
  BY DEF Quiet, Screen, RetryChat
<1> QED BY <1>2, <1>3 DEF Quiet

LEMMA QuietKept ==
  ASSUME IInv, ClientTypeOK, Paired(thread), Quiet, Next, ~ overlapped'
  PROVE  Waited'
<1>1. \A i \in DOMAIN bubbles : i \in 1 .. Size
  BY DEF ClientTypeOK, Size
<1>2. CASE Server
  <2>1. PICK d \in Readers : (ReadLists(d) \/ ReadBackfills(d) \/ ReadRelists(d)) /\ UNCHANGED clientVars
    BY <1>2, QuietRests DEF Server, Serve
  <2> QED BY <2>1, QuietReads DEF Waited
<1>3. CASE Page
  <2>1. \/ \E d \in Readers : LoadReturns(d)
        \/ \E h \in typing : Types(h)
        \/ ClearReturns
    BY <1>3, QuietRests DEF Page
  <2> QED BY <2>1, QuietLoads, QuietTypes, QuietCleared DEF Waited
<1>4. CASE User
  <2>1. ASSUME NEW d \in Readers, SelectAgent(d) PROVE Waited'
    <3>1. AtRest
      BY <2>1 DEF SelectAgent
    <3> QED BY <2>1, <3>1, QuietOpens DEF Waited
  <2>2. ASSUME NEW r \in Runs, Submit(r) PROVE Waited'
    <3>1. AtRest
      BY <2>2 DEF Submit
    <3> QED BY <2>2, <3>1, QuietSubmits DEF Waited
  <2>3. CASE ClearChat
    <3>1. AtRest
      BY <2>3 DEF ClearChat
    <3> QED BY <2>3, <3>1, QuietClears DEF Waited
  <2>4. CASE Leave
    BY <2>4, QuietLeaves DEF Waited
  <2>5. ~ \E i \in DOMAIN bubbles : RetryChat(i)
    BY <1>1, QuietRests
  <2> QED BY <1>4, <2>1, <2>2, <2>3, <2>4, <2>5 DEF User
<1> QED BY <1>2, <1>3, <1>4 DEF Next

LEMMA FlyingKept ==
  ASSUME IInv, ClientTypeOK, Paired(thread), NEW r \in Runs, Flying(r), Next, ~ overlapped'
  PROVE  Waited'
<1>1. ~ AtRest
  BY FlyingIsNoRest
<1>2. typing = {} /\ ~ clearing /\ \A d \in Readers : reads[d].pc = "idle"
  BY DEF Flying, Alone
<1>3. CASE Server
  <2>1. ASSUME NEW d \in Readers PROVE ~ (ReadLists(d) \/ ReadBackfills(d) \/ ReadRelists(d))
    BY <1>2 DEF ReadLists, ReadBackfills, ReadRelists
  <2>2. CASE (Serve \/ \E q \in Runs : RunEnds(q)) /\ UNCHANGED clientVars
    <3>1. SendLists(r) \/ SendBackfills(r) \/ SendRelists(r) \/ SendAppends(r) \/ SendCreatesRun(r) \/ RunEnds(r)
      BY <2>1, <2>2, OnlyOne DEF Serve
    <3> QED BY <2>2, <3>1, FlyingServes DEF Waited
  <2>3. CASE /\ Event /\ \E q \in Runs : SendFails(q)
             /\ UNCHANGED <<bubbles, awaiting, polls, typing, open, clearing, overlapped, lost>>
    <3>1. SendFails(r)
      BY <2>3, OnlyOne
    <3> QED BY <2>3, <3>1, FlyingFails DEF Waited
  <2> QED BY <1>3, <2>2, <2>3 DEF Server
<1>4. CASE Page
  <2>1. ASSUME NEW d \in Readers PROVE ~ LoadReturns(d)
    BY <1>2 DEF LoadReturns, ReadEnds
  <2>2. ~ ClearReturns
    BY <1>2 DEF ClearReturns
  <2>3. ASSUME NEW q \in Runs, SubmitReturns(q) \/ SubmitRefused(q) \/ SubmitLost(q) PROVE Waited'
    <3>1. q = r
      BY <2>3, OnlyOne
    <3> QED BY <2>3, <3>1, FlyingReturns DEF Waited
  <2>4. ASSUME NEW h \in polls, PollFails(h) \/ PollWaits(h) \/ TokenArrives(h) PROVE Waited'
    BY <2>4, FlyingPolls DEF Waited
  <2>5. ASSUME NEW h \in polls, PollSucceeds(h) PROVE Waited'
    BY <2>5, FlyingLands DEF Waited
  <2> QED BY <1>2, <1>4, <2>1, <2>2, <2>3, <2>4, <2>5 DEF Page
<1>5. CASE User
  <2>1. \A d \in Readers : ~ SelectAgent(d)
    BY <1>1 DEF SelectAgent
  <2>2. \A q \in Runs : ~ Submit(q)
    BY <1>1 DEF Submit
  <2>3. ~ ClearChat
    BY <1>1 DEF ClearChat
  <2>4. ASSUME NEW i \in DOMAIN bubbles, RetryChat(i) PROVE Waited'
    BY <2>4, FlyingRetries DEF Waited
  <2>5. CASE Leave
    BY <2>5, FlyingLeaves DEF Waited
  <2> QED BY <1>5, <2>1, <2>2, <2>3, <2>4, <2>5 DEF User
<1> QED BY <1>3, <1>4, <1>5 DEF Next

(* Nothing forgets that the user did not wait.                             *)
LEMMA OverlapStays == [Next]_vars /\ overlapped => overlapped'
BY DEF Next, Server, Page, User, vars, clientVars, LoadReturns, SubmitReturns, SubmitRefused, SubmitLost,
       PollSucceeds, PollFails, PollWaits, TokenArrives, Types, ClearReturns, SelectAgent, Submit, RetryChat,
       Leave, ClearChat

LEMMA WaitedStutters ==
  ASSUME Waited, UNCHANGED vars
  PROVE  Waited'
<1>1. UNCHANGED <<thread, row, sends, reads, bubbles, awaiting, polls, typing, open, clearing>>
  BY DEF vars, threadVars, clientVars
<1>2. Quiet => Quiet'
  <2>1. Screen => Screen'
    BY <1>1 DEF Screen, TypingLast, Size
  <2>2. TypingSound => TypingSound'
    BY <1>1 DEF TypingSound, Size
  <2>3. (\A d \in Readers : ReadSound(d)) => (\A d \in Readers : ReadSound(d)')
    BY <1>1 DEF ReadSound
  <2>4. (\A q \in Runs : Settling(q)) => (\A q \in Runs : Settling(q)')
    BY <1>1 DEF Settling
  <2> QED BY <1>1, <2>1, <2>2, <2>3, <2>4 DEF Quiet, ReadsIdle, Covers, Size
<1>3. ASSUME NEW r \in Runs, Flying(r) PROVE Flying(r)'
  <2>1. ScreenOf(r)' /\ Alone(r)' /\ Held(r)'
    BY <1>1, <1>3 DEF Flying, ScreenOf, Alone, Held, AnsweredIn, Settling, Size
  <2>2. (Asking(r) => Asking(r)') /\ (Stored(r) => Stored(r)')
    BY <1>1 DEF Asking, Stored, Unpolled, Covers, Size
  <2>3. (Running(r) => Running(r)') /\ (GivenUp(r) => GivenUp(r)')
    BY <1>1 DEF Running, GivenUp, Covers, Size
  <2> QED BY <1>3, <2>1, <2>2, <2>3 DEF Flying
<1> QED BY <1>1, <1>2, <1>3 DEF Waited

LEMMA CalmKept == ClientTypeOK /\ IInv /\ Calm /\ [Next]_vars => Calm'
<1> SUFFICES ASSUME ClientTypeOK, IInv, Calm, [Next]_vars, ~ overlapped' PROVE Waited'
  BY DEF Calm
<1>1. Waited
  BY OverlapStays DEF Calm
<1>2. CASE UNCHANGED vars
  BY <1>1, <1>2, WaitedStutters
<1>3. CASE Next /\ Quiet
  BY <1>1, <1>3, QuietKept DEF Waited
<1>4. ASSUME NEW r \in Runs, Next, Flying(r) PROVE Waited'
  BY <1>1, <1>4, FlyingKept DEF Waited
<1> QED BY <1>1, <1>2, <1>3, <1>4 DEF Waited

LEMMA CalmAtFirst == ClientInit => Calm
<1> SUFFICES ASSUME ClientInit PROVE Waited
  BY DEF Calm
<1>1. /\ thread = << >> /\ bubbles = << >> /\ polls = {} /\ typing = {} /\ ~ clearing
      /\ \A r \in Runs : row[r] = "absent" /\ sends[r].pc = "idle" /\ awaiting[r] = 0
      /\ \A d \in Readers : reads[d].pc = "idle" /\ reads[d].pending = << >>
  BY DEF ClientInit, ThreadInit, NoSend, NoRead
<1>2. Size = 0 /\ Len(thread) = 0 /\ ~ OpenEnd(thread)
  BY <1>1 DEF Size, OpenEnd
<1>3. Screen /\ TypingSound /\ Covers(0) /\ Paired(thread)
  BY <1>1, <1>2 DEF Screen, TypingSound, Covers, Paired
<1>4. Quiet
  BY <1>1, <1>2, <1>3 DEF Quiet, Settling, ReadSound
<1> QED BY <1>3, <1>4 DEF Waited

LEMMA CalmAnswers == ClientTypeOK /\ Calm => AnswersUnderQuestions
<1> SUFFICES ASSUME ClientTypeOK, Waited, AtRest, NEW i \in DOMAIN bubbles, bubbles[i].side = "me"
             PROVE  i < Len(bubbles) /\ bubbles[i + 1].text = Reply(bubbles[i].text.run)
  BY DEF Calm, AnswersUnderQuestions
<1>1. Quiet /\ ~ TypingLast
  BY FlyingIsNoRest DEF Waited, AtRest, TypingLast
<1>2. i \in 1 .. Size /\ Size \in Nat
  BY DEF ClientTypeOK, Size
<1>3. i # Size
  BY <1>1, <1>2 DEF Quiet, Screen
<1> QED BY <1>1, <1>2, <1>3 DEF Quiet, Screen, Size

(* When everything the tab started has ended, and the user always waited   *)
(* for that, every question on the screen has its own answer below it,     *)
(* whatever runs fail and are asked for again, however often the user      *)
(* leaves, comes back or clears, and wherever the history window cuts.     *)
THEOREM AnswersAreUnderQuestions == Spec => []AnswersUnderQuestions
<1> QED BY CalmAtFirst, CalmKept, CalmAnswers, TabTypes, PTL DEF Spec

=============================================================================

------------------------------ MODULE Reactions ------------------------------
(***************************************************************************)
(* The reactions to one message: a click shows its effect at once and asks *)
(* the server, which reads the row and then writes it; the answer is shown *)
(* by the object that was clicked, and every load of the thread puts a new *)
(* object in its place.                                                    *)
(***************************************************************************)
EXTENDS FiniteSets, Naturals

CONSTANTS
  Emojis,
  Clicks,   \* numbers of the requests that toggle, in the order they are made
  Loads     \* numbers of the loads of the thread, the same

ASSUME ReactionsAssumption == Clicks \cup Loads \subseteq Nat /\ IsFiniteSet(Clicks)

VARIABLES
  row,      \* the reactions stored
  shown,    \* the reactions the page shows
  object,   \* which load made the message on the page, {} for none
  clicks,   \* each click: its emoji, its object, server's and page's side, what is to be written
  loads,    \* each load, and the row it has got
  overlap,  \* history: one request read while another was to write
  calm      \* history: what happened to the page since it last was right happened alone

reactionVars == <<row, shown, object, clicks, loads, overlap, calm>>

ReactionsInit ==
  /\ row = {} /\ shown = {} /\ object = {} /\ overlap = FALSE /\ calm = TRUE
  /\ clicks = [c \in Clicks |-> [emoji |-> {}, of |-> {}, server |-> "idle", page |-> "idle", next |-> {}]]
  /\ loads = [l \in Loads |-> [at |-> "idle", got |-> {}, alone |-> FALSE]]

Toggled(set, emoji) == (set \ emoji) \cup (emoji \ set)
ClicksAtRest == \A c \in Clicks : clicks[c].server \notin {"asked", "read"} /\ clicks[c].page # "waits"
AtRest == ClicksAtRest /\ \A l \in Loads : loads[l].at \in {"idle", "over"}

-----------------------------------------------------------------------------
ToggleReaction(c) ==
  /\ clicks[c].page = "idle" /\ \A d \in Clicks : d < c => clicks[d].page # "idle"
  /\ \E e \in Emojis :
       /\ shown' = Toggled(shown, {e})
       /\ clicks' = [clicks EXCEPT ![c] = [emoji |-> {e}, of |-> object, server |-> "asked",
                                           page |-> "waits", next |-> {}]]
  /\ loads' = [l \in Loads |-> [loads[l] EXCEPT !.alone = FALSE]]
  /\ calm' = (calm /\ AtRest)
  /\ UNCHANGED <<row, object, overlap>>

(* The server's two statements; of the failures, none reaches the page as  *)
(* more than an answer without an id.                                      *)
ReactionReads(c) ==
  /\ clicks[c].server = "asked"
  /\ clicks' = [clicks EXCEPT ![c].server = "read", ![c].next = Toggled(row, clicks[c].emoji)]
  /\ overlap' = (overlap \/ \E d \in Clicks : clicks[d].server = "read")
  /\ UNCHANGED <<row, shown, object, loads, calm>>

(* Mutant: the emoji is only ever added.                                   *)
ReactionAdds(c) ==
  /\ clicks[c].server = "read"
  /\ row' = row \cup clicks[c].emoji
  /\ clicks' = [clicks EXCEPT ![c].server = "written"]
  /\ UNCHANGED <<shown, object, loads, overlap, calm>>

ReactionWrites(c) ==
  /\ clicks[c].server = "read"
  /\ row' = clicks[c].next
  /\ clicks' = [clicks EXCEPT ![c].server = "written"]
  /\ UNCHANGED <<shown, object, loads, overlap, calm>>

ReactionFails(c) ==
  /\ clicks[c].server \in {"asked", "read"}
  /\ clicks' = [clicks EXCEPT ![c].server = "failed"]
  /\ calm' = FALSE
  /\ UNCHANGED <<row, shown, object, loads, overlap>>

(* The answer is written into the object that was clicked.                 *)
ReactionShown(c) ==
  /\ clicks[c].page = "waits" /\ clicks[c].server = "written"
  /\ clicks' = [clicks EXCEPT ![c].page = "over"]
  /\ shown' = IF clicks[c].of = object THEN clicks[c].next ELSE shown
  /\ UNCHANGED <<row, object, loads, overlap, calm>>

(* No answer, or an error: what was shown at once stays.                   *)
ReactionLost(c) ==
  /\ clicks[c].page = "waits"
  /\ clicks' = [clicks EXCEPT ![c].page = "over"]
  /\ calm' = FALSE
  /\ UNCHANGED <<row, shown, object, loads, overlap>>

-----------------------------------------------------------------------------
LoadAsked(l) ==
  /\ loads[l].at = "idle" /\ \A k \in Loads : k < l => loads[k].at # "idle"
  /\ loads' = [loads EXCEPT ![l].at = "asked", ![l].alone = AtRest]
  /\ calm' = (calm /\ AtRest)
  /\ UNCHANGED <<row, shown, object, clicks, overlap>>

LoadReads(l) ==
  /\ loads[l].at = "asked"
  /\ loads' = [loads EXCEPT ![l].at = "got", ![l].got = row]
  /\ UNCHANGED <<row, shown, object, clicks, overlap, calm>>

(* A load without an answer changes nothing.                               *)
LoadShown(l) ==
  /\ loads[l].at \in {"asked", "got"}
  /\ loads' = [loads EXCEPT ![l].at = "over"]
  /\ \/ loads[l].at = "got" /\ shown' = loads[l].got /\ object' = {l}
        /\ calm' = (calm \/ loads[l].alone)
     \/ UNCHANGED <<shown, object, calm>>
  /\ UNCHANGED <<row, clicks, overlap>>

ReactionsNext ==
  \/ \E c \in Clicks : \/ ToggleReaction(c) \/ ReactionReads(c) \/ ReactionWrites(c)
                       \/ ReactionFails(c) \/ ReactionShown(c) \/ ReactionLost(c)
  \/ \E l \in Loads : LoadAsked(l) \/ LoadReads(l) \/ LoadShown(l)

-----------------------------------------------------------------------------
Odd(e) == Cardinality({c \in Clicks : clicks[c].emoji = {e} /\ clicks[c].server = "written"}) % 2 = 1

(* Unless the server handled two clicks at once, the row is what the       *)
(* clicks it handled add up to, whoever else was lost; and the page at     *)
(* rest shows the row when what happened since a load of its own went      *)
(* through one after the other, so a load alone always mends it            *)
(* (toggleChatReaction; the page's optimistic toggleReaction).             *)
ReactionsSettle ==
  /\ ~ overlap => row = {e \in Emojis : Odd(e)}
  /\ AtRest /\ calm => shown = row

(* What does not hold: two emojis clicked at about the same time are both  *)
(* kept; and the page at rest shows what is stored, whatever was lost or   *)
(* answered late.                                                          *)
BothKept == AtRest => row = {e \in Emojis : Odd(e)}
ShownIsStored == AtRest => shown = row

=============================================================================

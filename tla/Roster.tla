-------------------------------- MODULE Roster --------------------------------
(***************************************************************************)
(* The agents of an organization and the requests that add to them: an     *)
(* agent made by hand, or a team hired from the catalogue, member by       *)
(* member, after one look at the names that are there.  With Prisma an     *)
(* agent is three writes, and every await is a step.                       *)
(***************************************************************************)
EXTENDS Naturals, Sequences, SequencesExt, FiniteSetsExt

CONSTANTS
  Hires,       \* requests
  Templates,   \* the catalogue: teams, each the sequence of its members' names
  ByHand       \* names given by hand

ASSUME RosterAssumption ==
  \A team \in Templates :
    team \in Seq(Range(team)) /\ \A i, j \in DOMAIN team : i # j => team[i] # team[j]

VARIABLES
  agents,   \* the rows: name, who made it, how far its prompt is
  hire      \* what each request is about and how far it is

rosterVars == <<agents, hire>>

Unsent == [pc |-> "idle", team |-> << >>, left |-> << >>, names |-> {}, row |-> 0, before |-> {}]

RosterInit == agents = << >> /\ hire = [h \in Hires |-> Unsent]

NamesHeld == {agents[i].name : i \in DOMAIN agents}
Ended(h) == hire[h].pc \in {"done", "cut"}

-----------------------------------------------------------------------------
HireTeam(h) ==
  /\ hire[h].pc = "idle"
  /\ \E team \in Templates :
       hire' = [hire EXCEPT ![h].pc = "list", ![h].team = team, ![h].left = team]
  /\ UNCHANGED agents

(* The names are read once; 'before' remembers who had ended by then.      *)
ListAgents(h) ==
  /\ hire[h].pc = "list"
  /\ hire' = [hire EXCEPT ![h].pc = "next", ![h].names = NamesHeld,
                          ![h].before = {g \in Hires : Ended(g)}]
  /\ UNCHANGED agents

(* Mutant: every member is hired.                                          *)
Everybody(h) == DOMAIN hire[h].left

(* The places of members nobody is named after; a hire without any is over.*)
Missing(h) == {i \in DOMAIN hire[h].left : hire[h].left[i] \notin hire[h].names}

CreateMember(h) ==
  /\ hire[h].pc = "next" /\ Missing(h) # {}
  /\ LET next == Min(Missing(h))
     IN /\ agents' = Append(agents, [name |-> hire[h].left[next], by |-> h, prompt |-> "none"])
        /\ hire' = [hire EXCEPT ![h].pc = "prompt", ![h].row = Len(agents) + 1,
                                ![h].left = SubSeq(@, next + 1, Len(@))]

CreateAgent(h) ==
  /\ hire[h].pc = "idle"
  /\ \E name \in ByHand :
       agents' = Append(agents, [name |-> name, by |-> h, prompt |-> "none"])
  /\ hire' = [hire EXCEPT ![h].pc = "prompt", ![h].row = Len(agents) + 1]

CreatePrompt(h) ==
  /\ hire[h].pc = "prompt"
  /\ agents' = [agents EXCEPT ![hire[h].row].prompt = "unlinked"]
  /\ hire' = [hire EXCEPT ![h].pc = "link"]

LinkPrompt(h) ==
  /\ hire[h].pc = "link"
  /\ agents' = [agents EXCEPT ![hire[h].row].prompt = "linked"]
  /\ hire' = [hire EXCEPT ![h].pc = "next", ![h].row = 0]

Hired(h) ==
  /\ hire[h].pc = "next" /\ Missing(h) = {}
  /\ hire' = [hire EXCEPT ![h].pc = "done"]
  /\ UNCHANGED agents

(* A write fails or the process dies.                                      *)
HireCut(h) ==
  /\ hire[h].pc \notin {"idle", "done", "cut"}
  /\ hire' = [hire EXCEPT ![h].pc = "cut"]
  /\ UNCHANGED agents

RosterNext ==
  \E h \in Hires :
    \/ HireTeam(h) \/ ListAgents(h) \/ CreateMember(h) \/ CreateAgent(h)
    \/ CreatePrompt(h) \/ LinkPrompt(h) \/ Hired(h) \/ HireCut(h)

-----------------------------------------------------------------------------
(* A hire that went through has the whole team on the roster, a member is  *)
(* only there twice if the requests that made both overlapped or the       *)
(* second was made by hand, and an agent only lacks its prompt while, or   *)
(* because, the request that makes it has not got to it (hireTeam:         *)
(* "re-hiring a team only creates the missing agents").                    *)
HiresAddUp ==
  /\ \A h \in Hires : hire[h].pc = "done" => Range(hire[h].team) \subseteq NamesHeld
  /\ \A i, j \in DOMAIN agents :
       i < j /\ agents[i].name = agents[j].name /\ hire[agents[j].by].team # << >>
       => agents[i].by \notin hire[agents[j].by].before \cup {agents[j].by}
  /\ \A i \in DOMAIN agents :
       agents[i].prompt = "linked" \/ hire[agents[i].by].row = i

(* What the comment says of any hire, and overlapping ones disprove.       *)
HiredOnce ==
  \A i, j \in DOMAIN agents :
    i < j /\ agents[i].name = agents[j].name => hire[agents[j].by].team = << >>

(* What a user would expect of a team he hired again after a failure: the  *)
(* names are all it looks at, an agent whose prompt was never linked stays *)
(* without one.                                                            *)
HiredWithPrompt ==
  \A h \in Hires : hire[h].pc = "done" =>
    \A i \in DOMAIN agents : agents[i].name \in Range(hire[h].team) => agents[i].prompt = "linked"

=============================================================================

--------------------------- MODULE MCAgentEdges ---------------------------
(***************************************************************************)
(* The edges of Agent OS, each on its own: the conversation inside one     *)
(* execution, the child processes, the roster of agents and its seed, the  *)
(* memory, the team panel, the line messages are written in, the           *)
(* reactions, the event buses, and the repository.  What they share with   *)
(* the rest of the system is in the modules of that rest; a behaviour      *)
(* works on one of them, chosen at the start.                              *)
(***************************************************************************)
EXTENDS AgentLoop, ModelCli, Roster, Seed, Memory, TeamView, Composer, Reactions,
        EventBus, RepositoryPrisma, TLC

CONSTANTS ok, off, gone, ada, bob, none, note

MCCallLists == {<< >>, <<ok>>, <<ok, ok>>, <<ok, off>>, <<gone>>}
MCTemplates == {<<ada, bob>>}
MCAgentOf == [r \in Runs |-> ada]
MCParentOf == "r1" :> none @@ "r2" :> "r1"
MCPatches == {<< >>, [output |-> note], [error |-> note], [attempts |-> 0, error |-> None]}

(* Scratch of other runs that would fill what is fetched, a note, and one  *)
(* of the time before there were embeddings.                               *)
Remark(kind, words, embedded) == [kind |-> kind, by |-> 0, words |-> words, embedded |-> embedded]
MCEarlier == [i \in 1 .. 4 |-> Remark("short_term", {"en", "ru"}, TRUE)]
             \o <<Remark("long_term", {"en"}, TRUE), Remark("long_term", {"ru"}, FALSE)>>

(* A readable file, one at the limit, one above it, one nobody can read.   *)
MCFiles == {Document(<<"docx", {"wordprocessingml"}, "docx">>, TRUE, TRUE, 1),
            Document(<<"rows", {"excel"}, "csv">>, TRUE, TRUE, 20),
            Document(<<"text", {}, "py">>, TRUE, TRUE, 21),
            Document(<<"image", {}, "png">>, TRUE, TRUE, 1)}

VARIABLE edge

agentVars == <<loopVars, cliVars, rosterVars, seedVars, memoryVars>>
pageVars == <<panelVars, composerVars, reactionVars, busVars>>
vars == <<agentVars, pageVars, repoVars, edge>>

Init ==
  /\ LoopInit /\ CliInit /\ RosterInit /\ SeedInit /\ MemoryInit
  /\ PanelInit /\ ComposerInit /\ ReactionsInit /\ BusInit /\ RepoInit
  /\ edge \in {"loop", "cli", "roster", "seed", "memory", "panel", "composer", "reactions",
              "bus", "runs", "letters", "chat"}
  /\ edge # "loop" => task = {Word}
  /\ edge # "cli" => sandbox = "subprocess"
  /\ edge # "memory" => store = "vector"
  /\ edge # "bus" => bus = "memory"

AgentNext ==
  \/ edge = "loop" /\ LoopNext /\ UNCHANGED <<cliVars, rosterVars, seedVars, memoryVars>>
  \/ edge = "cli" /\ CliNext /\ UNCHANGED <<loopVars, rosterVars, seedVars, memoryVars>>
  \/ edge = "roster" /\ RosterNext /\ UNCHANGED <<loopVars, cliVars, seedVars, memoryVars>>
  \/ edge = "seed" /\ SeedNext /\ UNCHANGED <<loopVars, cliVars, rosterVars, memoryVars>>
  \/ edge = "memory" /\ MemoryNext /\ UNCHANGED <<loopVars, cliVars, rosterVars, seedVars>>

PageNext ==
  \/ edge = "panel" /\ PanelNext /\ UNCHANGED <<composerVars, reactionVars, busVars>>
  \/ edge = "composer" /\ ComposerNext /\ UNCHANGED <<panelVars, reactionVars, busVars>>
  \/ edge = "reactions" /\ ReactionsNext /\ UNCHANGED <<panelVars, composerVars, busVars>>
  \/ edge = "bus" /\ BusNext /\ UNCHANGED <<panelVars, composerVars, reactionVars>>

RepositoryNext ==
  \/ edge = "runs" /\ RunCall
  \/ edge = "letters" /\ LetterCall
  \/ edge = "chat" /\ ChatCall

Next ==
  /\ UNCHANGED edge
  /\ \/ AgentNext /\ UNCHANGED <<pageVars, repoVars>>
     \/ PageNext /\ UNCHANGED <<agentVars, repoVars>>
     \/ RepositoryNext /\ UNCHANGED <<agentVars, pageVars>>

Spec == Init /\ [][Next]_vars

=============================================================================

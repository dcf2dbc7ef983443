--------------------------------- MODULE Seed ---------------------------------
(***************************************************************************)
(* The seed a deployment runs on the team, for one of its members: look    *)
(* for the name, hire who is missing, give the others a new version of     *)
(* their prompt when the text has changed.  It may be cut anywhere, run    *)
(* again with another text, or by two deployments at once; agents of the   *)
(* name may be made by hand besides, each in the three writes of           *)
(* createAgent, and a seed may run between them.                           *)
(***************************************************************************)
EXTENDS Naturals, Sequences

CONSTANTS
  Seeds,       \* the seeds run, numbered as they are started
  Prompts,     \* texts of the member's prompt
  MaxMembers   \* bound: by hand no row is added to so many

ASSUME SeedAssumption == Seeds \subseteq Nat

VARIABLES
  members,  \* rows of that name: number of the current version, 0 for none, the versions' texts,
            \* and the write the hand that makes it is at ("none": a seed made it)
  seeds,    \* each seed: its text, where it is, and what it has read
  beside    \* history: the seeds that had another one at work beside them, or a hand at their row

seedVars == <<members, seeds, beside>>

Unrun == [at |-> "idle", text |-> {}, row |-> 0, current |-> 0, version |-> 0]

SeedInit == members = << >> /\ seeds = [s \in Seeds |-> Unrun] /\ beside = {}

Works(s) == seeds[s].at \notin {"idle", "done", "cut"}
Goes(s, at) == seeds' = [seeds EXCEPT ![s].at = at]
Versions(row) == members[row].texts
HalfMade(row) == members[row].hand \in {"prompt", "link"}

(* Who is at work beside a seed that starts at this row, itself then too.  *)
Beside(s, row) ==
  LET others == {t \in Seeds : Works(t)}
  IN IF others # {} THEN others \cup {s} ELSE IF row # 0 /\ HalfMade(row) THEN {s} ELSE {}

-----------------------------------------------------------------------------
(* Any of the rows of the name, with the version it has now.               *)
UpsertAgent(s) ==
  /\ seeds[s].at = "idle" /\ \A t \in Seeds : t < s => seeds[t].at # "idle"
  /\ \E text \in Prompts : \E row \in IF members = << >> THEN {0} ELSE DOMAIN members :
       /\ seeds' = [seeds EXCEPT ![s] =
            [at |-> IF row = 0 THEN "create" ELSE "compare", text |-> {text}, row |-> row,
             current |-> IF row = 0 THEN 0 ELSE members[row].current, version |-> 0]]
       /\ beside' = beside \cup Beside(s, row)
  /\ UNCHANGED members

CreateMissing(s) ==
  /\ seeds[s].at = "create"
  /\ members' = Append(members, [current |-> 0, texts |-> << >>, hand |-> "none"])
  /\ seeds' = [seeds EXCEPT ![s].at = "write", ![s].row = Len(members) + 1, ![s].version = 1]
  /\ UNCHANGED beside

(* Mutant: who has any version is up to date.                              *)
CompareAny(s) ==
  /\ seeds[s].at = "compare"
  /\ Goes(s, IF seeds[s].current # 0 THEN "done" ELSE "last")
  /\ UNCHANGED <<members, beside>>

(* The version read at the start is compared.                              *)
ComparePrompt(s) ==
  LET now == seeds[s].current IN
  /\ seeds[s].at = "compare"
  /\ Goes(s, IF now # 0 /\ {Versions(seeds[s].row)[now]} = seeds[s].text THEN "done" ELSE "last")
  /\ UNCHANGED <<members, beside>>

ReadLast(s) ==
  /\ seeds[s].at = "last"
  /\ seeds' = [seeds EXCEPT ![s].at = "write", ![s].version = Len(Versions(seeds[s].row)) + 1]
  /\ UNCHANGED <<members, beside>>

(* Two versions of one number are refused; then main fails.                *)
WriteVersion(s) ==
  LET row == seeds[s].row IN
  /\ seeds[s].at = "write"
  /\ IF seeds[s].version > Len(Versions(row))
     THEN /\ members' = [members EXCEPT ![row].texts = Append(@, CHOOSE text \in seeds[s].text : TRUE)]
          /\ Goes(s, "link")
     ELSE Goes(s, "cut") /\ UNCHANGED members
  /\ UNCHANGED beside

LinkVersion(s) ==
  /\ seeds[s].at = "link"
  /\ members' = [members EXCEPT ![seeds[s].row].current = seeds[s].version]
  /\ Goes(s, "done")
  /\ UNCHANGED beside

SeedCut(s) == Works(s) /\ Goes(s, "cut") /\ UNCHANGED <<members, beside>>

(* An agent of the name, added by hand: the row, its first version with a  *)
(* text of its own, the link; a version 1 that is there refuses it.        *)
HandCreates ==
  /\ Len(members) < MaxMembers
  /\ members' = Append(members, [current |-> 0, texts |-> << >>, hand |-> "prompt"])
  /\ UNCHANGED <<seeds, beside>>

HandPrompts(r) ==
  /\ members[r].hand = "prompt"
  /\ \/ /\ Versions(r) = << >>
        /\ \E text \in Prompts :
             members' = [members EXCEPT ![r].texts = <<text>>, ![r].hand = "link"]
     \/ Versions(r) # << >> /\ members' = [members EXCEPT ![r].hand = "cut"]
  /\ UNCHANGED <<seeds, beside>>

HandLinks(r) ==
  /\ members[r].hand = "link"
  /\ members' = [members EXCEPT ![r].current = 1, ![r].hand = "made"]
  /\ UNCHANGED <<seeds, beside>>

(* The request fails or its process dies.                                  *)
HandCut(r) ==
  /\ HalfMade(r)
  /\ members' = [members EXCEPT ![r].hand = "cut"]
  /\ UNCHANGED <<seeds, beside>>

SeedNext ==
  \/ \E s \in Seeds : \/ UpsertAgent(s) \/ CreateMissing(s) \/ ComparePrompt(s) \/ ReadLast(s)
                      \/ WriteVersion(s) \/ LinkVersion(s) \/ SeedCut(s)
  \/ HandCreates
  \/ \E r \in DOMAIN members : HandPrompts(r) \/ HandLinks(r) \/ HandCut(r)

-----------------------------------------------------------------------------
Latest(s) == \A t \in Seeds : seeds[t].at = "idle" \/ t <= s
Undisturbed(s) == s \notin beside

(* The last seed, if it went through and nobody was at work beside it - no *)
(* other seed, and no hand between the writes that make the row it found - *)
(* has left that row with its text as the current prompt, however the      *)
(* seeds before it were cut; the current version exists; seeds that follow *)
(* each other write a text anew only where it is not the current one, so   *)
(* the same text is twice in a row only after a cut or an overlap          *)
(* (seed.prod.cjs: "a new PromptVersion only when the text actually        *)
(* changed").                                                              *)
SeedRefreshes ==
  /\ \A s \in Seeds : seeds[s].at = "done" /\ Latest(s) /\ Undisturbed(s) =>
       LET row == members[seeds[s].row] IN row.current # 0 /\ {row.texts[row.current]} = seeds[s].text
  /\ \A r \in DOMAIN members : members[r].current <= Len(members[r].texts)
  /\ (\A s \in Seeds : Undisturbed(s) /\ seeds[s].at # "cut") =>
       \A r \in DOMAIN members : members[r].hand # "cut" =>
         \A v \in 2 .. Len(members[r].texts) : members[r].texts[v] # members[r].texts[v - 1]

(* "Idempotent", it says: two at once make the member twice, and when      *)
(* there are two of the name the other one keeps its prompt.               *)
SeededOnce ==
  \A s, t \in Seeds : s # t /\ seeds[s].at = "done" /\ seeds[t].at = "done" =>
    seeds[s].row = seeds[t].row

=============================================================================

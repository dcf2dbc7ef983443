------------------------------ MODULE PageTree ------------------------------
(***************************************************************************)
(* The pages of one space of the knowledge base as a tree: creating a page *)
(* with an address of its own, moving it, archiving it, and the tree that  *)
(* is shown.  Creating reads the addresses that are taken and inserts the  *)
(* page in a later step; the table's unique index has the last word.       *)
(*                                                                         *)
(* An address is the sequence of numbers appended to one common base: the  *)
(* base is << >>, base-2 is <<2>>, base-2-3 is <<2, 3>>.  The order of     *)
(* siblings (position) is left out.                                        *)
(***************************************************************************)
EXTENDS Naturals, Sequences, FiniteSets

CONSTANTS
  Nodes,     \* pages that may be created
  Titles,    \* the addresses the titles in use ask for
  Top        \* stands for "no parent"

ASSUME TopAssumption == Top \notin Nodes /\ IsFiniteSet(Nodes)
ASSUME TitlesAssumption == Titles \subseteq Seq(Nat)

VARIABLES
  parent,    \* the parent of each page, Top at the top level
  slug,      \* the address of each page that exists
  archived,  \* the archived pages
  creating   \* for each page, the request that creates it

treeVars == <<parent, slug, archived, creating>>

Existing == DOMAIN slug
Taken == {slug[p] : p \in Existing}
Live == Existing \ archived

NoRequest == [pc |-> "idle", parent |-> Top, slug |-> << >>, alone |-> TRUE]

TreeInit ==
  /\ parent = [p \in Nodes |-> Top]
  /\ slug = << >>
  /\ archived = {}
  /\ creating = [p \in Nodes |-> NoRequest]

-----------------------------------------------------------------------------
(* uniqueSlug: the title's own, or the first free of -2, -3, ...           *)
UniqueSlug(desired, taken) ==
  IF desired \notin taken THEN desired
  ELSE LET Free(n) == Append(desired, n) \notin taken
           n == CHOOSE n \in 2..(Cardinality(taken) + 2) : Free(n) /\ \A k \in 2..(n - 1) : ~ Free(k)
       IN Append(desired, n)

CreateReads(p) ==
  /\ p \notin Existing /\ creating[p].pc = "idle"
  /\ \E q \in Existing \cup {Top}, title \in Titles :
       creating' = [creating EXCEPT ![p] = [pc |-> "insert", parent |-> q, alone |-> TRUE,
                                            slug |-> UniqueSlug(title, Taken)]]
  /\ UNCHANGED <<parent, slug, archived>>

(* The request remembers (for the property below) whether a page was       *)
(* inserted since it read the addresses.                                   *)
CreateInserts(p) ==
  /\ creating[p].pc = "insert" /\ creating[p].slug \notin Taken
  /\ parent' = [parent EXCEPT ![p] = creating[p].parent]
  /\ slug' = [q \in Existing \cup {p} |-> IF q = p THEN creating[p].slug ELSE slug[q]]
  /\ creating' = [q \in Nodes |-> IF q = p THEN NoRequest
                                  ELSE [creating[q] EXCEPT !.alone = FALSE]]
  /\ UNCHANGED archived

CreateFails(p) ==
  /\ creating[p].pc = "insert" /\ creating[p].slug \in Taken
  /\ creating' = [creating EXCEPT ![p].pc = "failed"]
  /\ UNCHANGED <<parent, slug, archived>>

(* movePage asks nobody: a page may be put below itself.                   *)
MovePage(p) ==
  /\ p \in Existing
  /\ \E q \in (Existing \cup {Top}) \ {parent[p]} : parent' = [parent EXCEPT ![p] = q]
  /\ UNCHANGED <<slug, archived, creating>>

ArchivePage(p) ==
  /\ p \in Live
  /\ archived' = archived \cup {p}
  /\ UNCHANGED <<parent, slug, creating>>

TreeNext ==
  \E p \in Nodes : \/ CreateReads(p) \/ CreateInserts(p) \/ CreateFails(p)
                   \/ MovePage(p) \/ ArchivePage(p)

TreeSpec == TreeInit /\ [][TreeNext]_treeVars

-----------------------------------------------------------------------------
(* Mutant: a page at the top is one without a parent.                      *)
ParentlessRoots == {p \in Live : parent[p] = Top}

(* buildPageTree: a page hangs below its parent if that is listed too,     *)
(* else at the top; what is shown is what hangs from the top.              *)
Roots == {p \in Live : parent[p] \notin Live}

Listed ==
  LET Level[n \in 0 .. Cardinality(Nodes)] ==
        IF n = 0 THEN Roots ELSE Level[n - 1] \cup {p \in Live : parent[p] \in Level[n - 1]}
  IN Level[Cardinality(Nodes)]

TreeTypeOK ==
  /\ parent \in [Nodes -> Nodes \cup {Top}]
  /\ Existing \subseteq Nodes /\ archived \subseteq Existing
  /\ \A p \in Nodes : /\ creating[p].pc \in {"idle", "insert", "failed"}
                      /\ creating[p].parent \in Nodes \cup {Top}
                      /\ creating[p].alone \in BOOLEAN

(* The walk up from p, a page at a time, and the pages it meets.           *)
Up(p) == IF p = Top \/ parent[p] \notin Live THEN Top ELSE parent[p]

Above(p) ==
  LET Walk[n \in 0 .. Cardinality(Nodes)] == IF n = 0 THEN p ELSE Up(Walk[n - 1])
  IN {Walk[n] : n \in 1 .. Cardinality(Nodes)} \ {Top}

(* No page disappears from the tree, whatever is moved and archived around *)
(* it (the pages below an archived one come to the top), except below a    *)
(* page that was moved below itself, which nothing prevents                *)
(* (buildPageTree, movePage).                                              *)
TreeListsAll ==
  \A p \in Live \ Listed : \E q \in Above(p) \cup {p} : q \in Above(q)

(* Only a race makes a creation fail: alone, it finds an address that is   *)
(* free, whatever titles are in use (uniqueSlug, createPage).              *)
CreatedUnlessRaced ==
  \A p \in Nodes : creating[p].pc = "failed" => ~ creating[p].alone

(* What the tree shows is whole, and whoever adds to it alone can.         *)
TreeSound == TreeListsAll /\ CreatedUnlessRaced

=============================================================================

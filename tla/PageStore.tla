----------------------------- MODULE PageStore -----------------------------
(***************************************************************************)
(* Editing the pages of the knowledge base: the editor's debounced         *)
(* autosave, the server action it calls, the version history, the current  *)
(* content kept beside it, and the passages semantic search is done over.  *)
(* Every await of savePageContent and indexPage is a step of its own.      *)
(*                                                                         *)
(* What is typed (title and text) is one value per edit: <<e, n>> for the  *)
(* n-th edit of editor e.  Every content has the same number of passages.  *)
(***************************************************************************)
EXTENDS Naturals, Sequences, FiniteSetsExt

CONSTANTS
  Pages,
  Editors,    \* mounts of the editor component: one visit of one page each
  MaxEdits,   \* bound: edits per editor
  Passages    \* passages of a content

ASSUME EditAssumption == MaxEdits \in Nat /\ Passages \in Nat \ {0}

VARIABLES
  content,    \* the current content of each page
  versions,   \* the history of each page, in the order of the inserts
  hidden,     \* the archived pages
  passages,   \* for each page, its rows in the search index
  indexed,    \* the pages whose last indexing went through
  tab,        \* for each editor, what its component holds
  save        \* for each editor, the save the server is working on

storeVars == <<content, versions, hidden, passages, indexed, tab, save>>

Blank == << >>
Contents == {Blank} \cup (Editors \X (1..MaxEdits))
NoSave == [pc |-> "idle", text |-> Blank, version |-> 0, seen |-> Blank, off |-> FALSE, n |-> 0]
Unopened == [page |-> << >>, text |-> Blank, edits |-> 0, ready |-> FALSE, timer |-> FALSE,
             status |-> "closed", queue |-> << >>]

Numbers(p) == {versions[p][i].version : i \in DOMAIN versions[p]}
PageOf(e) == tab[e].page[1]
AllPassages(c) == [i \in 1..Passages |-> <<c, i>>]

StoreInit ==
  /\ content = [p \in Pages |-> Blank]
  /\ versions = [p \in Pages |-> << >>]
  /\ hidden = {}
  /\ passages = [p \in Pages |-> << >>]
  /\ indexed = Pages
  /\ tab = [e \in Editors |-> Unopened]
  /\ save = [e \in Editors |-> NoSave]

-----------------------------------------------------------------------------
(* The component.                                                          *)

Open(e) ==
  /\ tab[e].status = "closed"
  /\ \E p \in Pages :
       tab' = [tab EXCEPT ![e].page = <<p>>, ![e].text = content[p], ![e].status = "saved"]
  /\ UNCHANGED <<content, versions, hidden, passages, indexed, save>>

(* The document editor is created after the first render.                  *)
Created(e) ==
  /\ tab[e].status \notin {"closed", "left"} /\ ~ tab[e].ready
  /\ tab' = [tab EXCEPT ![e].ready = TRUE]
  /\ UNCHANGED <<content, versions, hidden, passages, indexed, save>>

(* An edit (before the editor is there, of the title only) arms the timer. *)
Type(e) ==
  /\ tab[e].status \notin {"closed", "left"} /\ tab[e].edits < MaxEdits
  /\ tab' = [tab EXCEPT ![e].text = <<e, tab[e].edits + 1>>, ![e].edits = @ + 1,
                        ![e].timer = TRUE, ![e].status = "dirty"]
  /\ UNCHANGED <<content, versions, hidden, passages, indexed, save>>

(* The timer fires.  The framework sends a client's actions one at a time. *)
Flush(e) ==
  /\ tab[e].timer
  /\ tab' = IF tab[e].ready
            THEN [tab EXCEPT ![e].timer = FALSE, ![e].status = "saving",
                             ![e].queue = Append(@, tab[e].text)]
            ELSE [tab EXCEPT ![e].timer = FALSE]
  /\ UNCHANGED <<content, versions, hidden, passages, indexed, save>>

(* Leaving the page clears the timer and drops what was not sent.          *)
Leave(e) ==
  /\ tab[e].status \notin {"closed", "left"}
  /\ tab' = [tab EXCEPT ![e].timer = FALSE, ![e].status = "left", ![e].queue = << >>]
  /\ UNCHANGED <<content, versions, hidden, passages, indexed, save>>

-----------------------------------------------------------------------------
(* savePageContent and indexPage, for the save of editor e.                *)

SaveReads(e) ==
  /\ save[e].pc = "idle" /\ tab[e].queue # << >>
  /\ save' = [save EXCEPT ![e] = [NoSave EXCEPT !.pc = "commit", !.text = Head(tab[e].queue),
                                                !.version = Max(Numbers(PageOf(e)) \cup {0}) + 1]]
  /\ UNCHANGED <<content, versions, hidden, passages, indexed, tab>>

(* Mutant: a version number that is there already is not refused.          *)
SaveCommitsUnchecked(e) ==
  LET p == PageOf(e)
  IN /\ save[e].pc = "commit"
     /\ versions' = [versions EXCEPT ![p] = Append(@, [version |-> save[e].version,
                                                       author |-> e, text |-> save[e].text])]
     /\ content' = [content EXCEPT ![p] = save[e].text]
     /\ save' = [save EXCEPT ![e].pc = "look"]
     /\ UNCHANGED <<hidden, passages, indexed, tab>>

(* One transaction: the version, if its number is free, and the content.   *)
SaveCommits(e) ==
  LET p == PageOf(e)
  IN /\ save[e].pc = "commit" /\ save[e].version \notin Numbers(p)
     /\ versions' = [versions EXCEPT ![p] = Append(@, [version |-> save[e].version,
                                                       author |-> e, text |-> save[e].text])]
     /\ content' = [content EXCEPT ![p] = save[e].text]
     /\ save' = [save EXCEPT ![e].pc = "look"]
     /\ UNCHANGED <<hidden, passages, indexed, tab>>

(* The number is taken, or the database refuses for a reason of its own.   *)
SaveFails(e) ==
  /\ save[e].pc = "commit"
  /\ save' = [save EXCEPT ![e].pc = "error"]
  /\ UNCHANGED <<content, versions, hidden, passages, indexed, tab>>

IndexLooks(e) ==
  /\ save[e].pc = "look"
  /\ save' = [save EXCEPT ![e].pc = "delete", ![e].seen = content[PageOf(e)],
                          ![e].off = PageOf(e) \in hidden]
  /\ UNCHANGED <<content, versions, hidden, passages, indexed, tab>>

(* Mutant: the old passages stay.                                          *)
IndexKeeps(e) ==
  /\ save[e].pc = "delete"
  /\ save' = [save EXCEPT ![e].pc = IF save[e].off THEN "answer" ELSE "embed"]
  /\ UNCHANGED <<content, versions, hidden, passages, indexed, tab>>

IndexDeletes(e) ==
  /\ save[e].pc = "delete"
  /\ passages' = [passages EXCEPT ![PageOf(e)] = << >>]
  /\ save' = [save EXCEPT ![e].pc = IF save[e].off THEN "answer" ELSE "embed"]
  /\ UNCHANGED <<content, versions, hidden, indexed, tab>>

IndexEmbeds(e) ==
  /\ save[e].pc = "embed"
  /\ save' = [save EXCEPT ![e].pc = "insert"]
  /\ UNCHANGED <<content, versions, hidden, passages, indexed, tab>>

IndexInserts(e) ==
  LET last == save[e].n + 1 = Passages
  IN /\ save[e].pc = "insert"
     /\ passages' = [passages EXCEPT ![PageOf(e)] = Append(@, <<save[e].seen, save[e].n + 1>>)]
     /\ indexed' = IF last THEN indexed \cup {PageOf(e)} ELSE indexed
     /\ save' = [save EXCEPT ![e].n = @ + 1, ![e].pc = IF last THEN "answer" ELSE "insert"]
     /\ UNCHANGED <<content, versions, hidden, tab>>

(* The embedder or the database throws: the save goes through all the same.*)
IndexFails(e) ==
  /\ save[e].pc \in {"look", "delete", "embed", "insert"}
  /\ indexed' = indexed \ {PageOf(e)}
  /\ save' = [save EXCEPT ![e].pc = "answer"]
  /\ UNCHANGED <<content, versions, hidden, passages, tab>>

(* Mutant: the editor takes any answer for a success.                      *)
AnswersAlike(e) ==
  /\ save[e].pc \in {"answer", "error"}
  /\ tab' = IF tab[e].status = "left" THEN tab
            ELSE [tab EXCEPT ![e].status = "saved", ![e].queue = Tail(@)]
  /\ save' = [save EXCEPT ![e] = NoSave]
  /\ UNCHANGED <<content, versions, hidden, passages, indexed>>

(* flush goes on; a component that is gone does not hear of it.            *)
Answers(e) ==
  /\ save[e].pc \in {"answer", "error"}
  /\ tab' = IF tab[e].status = "left" THEN tab
            ELSE [tab EXCEPT ![e].status = IF save[e].pc = "answer" THEN "saved" ELSE "dirty",
                             ![e].queue = Tail(@)]
  /\ save' = [save EXCEPT ![e] = NoSave]
  /\ UNCHANGED <<content, versions, hidden, passages, indexed>>

Hide(p) ==
  /\ p \notin hidden
  /\ hidden' = hidden \cup {p}
  /\ UNCHANGED <<content, versions, passages, indexed, tab, save>>

StoreNext ==
  \/ \E e \in Editors :
       \/ Open(e) \/ Created(e) \/ Type(e) \/ Flush(e) \/ Leave(e)
       \/ SaveReads(e) \/ SaveCommits(e) \/ SaveFails(e)
       \/ IndexLooks(e) \/ IndexDeletes(e) \/ IndexEmbeds(e) \/ IndexInserts(e) \/ IndexFails(e)
       \/ Answers(e)
  \/ \E p \in Pages : Hide(p)

StoreSpec == StoreInit /\ [][StoreNext]_storeVars

-----------------------------------------------------------------------------
StoreTypeOK ==
  /\ content \in [Pages -> Contents]
  /\ \A p \in Pages : \A i \in DOMAIN versions[p] : versions[p][i].text \in Contents
  /\ hidden \subseteq Pages /\ indexed \subseteq Pages
  /\ \A e \in Editors : /\ tab[e].status \in {"closed", "saved", "dirty", "saving", "left"}
                        /\ tab[e].text \in Contents /\ tab[e].edits \in 0..MaxEdits
                        /\ save[e].pc \in {"idle", "commit", "look", "delete", "embed", "insert",
                                           "answer", "error"}

(* The history has no gaps and no doubles, and the content kept beside it  *)
(* is its newest version, however saves of a page interleave and fail      *)
(* (savePageContent).                                                      *)
HistoryIsWhole ==
  \A p \in Pages :
    /\ \A i \in DOMAIN versions[p] : versions[p][i].version = i
    /\ versions[p] # << >> => content[p] = versions[p][Len(versions[p])].text

(* When an editor says that everything is saved, no timer is armed and no  *)
(* save is under way, then what it shows has been stored (flush, schedule).*)
(* While a timer is armed the word may be wrong: an answer to an earlier   *)
(* save overwrites "dirty".                                                *)
EditsKept ==
  \A e \in Editors :
    tab[e].status = "saved" /\ ~ tab[e].timer /\ tab[e].queue = << >> /\ tab[e].edits > 0
    => \E i \in DOMAIN versions[PageOf(e)] : versions[PageOf(e)][i].text = tab[e].text

(* Search finds a page by what it says now: once saves are through and the *)
(* last indexing was not cut short, the passages are those of the current  *)
(* content - if one editor at a time saves the page (savePageContent       *)
(* indexes outside its transaction, indexPage reads before it deletes).    *)
FoundAsWritten ==
  \A p \in Pages :
    LET savers == {e \in Editors : tab[e].page = <<p>> /\ save[e].pc # "idle"}
        authors == {versions[p][i].author : i \in DOMAIN versions[p]}
    IN savers = {} /\ Cardinality(authors) = 1 /\ p \in indexed /\ p \notin hidden
       => passages[p] = AllPassages(content[p])

=============================================================================

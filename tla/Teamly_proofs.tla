---------------------------- MODULE Teamly_proofs ----------------------------
(***************************************************************************)
(* Theorems about the parts of Teamly that keep state, for any pages,      *)
(* editors, lessons, requests and questions: the history of a page has no  *)
(* gaps, edits are kept, search finds what is written, the tree lists      *)
(* every page, and a course is completed just if all of it is done.        *)
(***************************************************************************)
EXTENDS MCTeamly, SequenceTheorems, Induction

-----------------------------------------------------------------------------
(* The store: types.                                                       *)

Tabs == [page : {<< >>} \cup {<<p>> : p \in Pages}, text : Contents, edits : 0..MaxEdits, ready : BOOLEAN,
         timer : BOOLEAN, status : {"closed", "saved", "dirty", "saving", "left"},
         queue : Seq(Contents)]

Saves == [pc : {"idle", "commit", "look", "delete", "embed", "insert", "answer", "error"},
          text : Contents, version : Nat, seen : Contents, off : BOOLEAN, n : Nat]

Versions == [version : Nat, author : Editors, text : Contents]

(* Only a visited page is edited, only an editor that was there saves, and *)
(* what is being saved waits at the head of its queue until it leaves.     *)
Visits(t, s) ==
  IF t.status = "closed"
  THEN t.queue = << >> /\ t.edits = 0 /\ ~ t.timer /\ s.pc = "idle"
  ELSE /\ t.page # << >> /\ t.page[1] \in Pages
       /\ t.status # "left" /\ s.pc # "idle" => t.queue # << >>
Visited(e) == Visits(tab[e], save[e])

(* The last version of a page is its content, and versions count from 1.   *)
Numbered(p) == \A i \in DOMAIN versions[p] : versions[p][i].version = i
Newest(p) == versions[p] # << >> => content[p] = versions[p][Len(versions[p])].text

(* A number that was read was the next one, which may be taken by now.     *)
ReadNumber(e) ==
  save[e].pc = "commit" => save[e].version \in 1 .. Len(versions[PageOf(e)]) + 1

StoreInv ==
  /\ content \in [Pages -> Contents]
  /\ versions \in [Pages -> Seq(Versions)]
  /\ hidden \subseteq Pages /\ indexed \subseteq Pages
  /\ passages \in [Pages -> Seq(Contents \X Nat)]
  /\ tab \in [Editors -> Tabs] /\ save \in [Editors -> Saves]
  /\ \A p \in Pages : Numbered(p) /\ Newest(p)
  /\ \A e \in Editors : Visited(e) /\ ReadNumber(e)

-----------------------------------------------------------------------------
(* The store: every step keeps the types.                                  *)

LEMMA StoreStarts == ASSUME StoreInit PROVE StoreInv
<1>1. Unopened \in Tabs
  <2>1. << >> \in Seq(Contents) OBVIOUS
  <2>2. Blank \in Contents /\ 0 \in 0 .. MaxEdits BY EditAssumption DEF Contents
  <2> QED BY <2>1, <2>2 DEF Unopened, Tabs
<1>2. NoSave \in Saves BY DEF NoSave, Saves, Contents
<1>3. Blank \in Contents BY DEF Contents
<1>4. /\ content \in [Pages -> Contents]
      /\ versions \in [Pages -> Seq(Versions)]
      /\ passages \in [Pages -> Seq(Contents \X Nat)]
  BY <1>3 DEF StoreInit
<1>5. tab \in [Editors -> Tabs] /\ save \in [Editors -> Saves] BY <1>1, <1>2 DEF StoreInit
<1>6. ASSUME NEW e \in Editors PROVE Visited(e) /\ ReadNumber(e)
  BY DEF StoreInit, Visited, Visits, ReadNumber, Unopened, NoSave
<1>7. ASSUME NEW p \in Pages PROVE Numbered(p) /\ Newest(p)
  BY DEF StoreInit, Numbered, Newest
<1> QED BY <1>4, <1>5, <1>6, <1>7 DEF StoreInv, StoreInit

(* A step that changes what an editor holds, and nothing else but saves.   *)
LEMMA TabKept ==
  ASSUME StoreInv, NEW e \in Editors, NEW t \in Tabs, NEW s \in Saves,
         tab' = [tab EXCEPT ![e] = t], save' = [save EXCEPT ![e] = s],
         UNCHANGED <<content, versions, hidden, passages, indexed>>,
         Visits(t, s),
         s.pc = "commit" => s.version \in 1 .. Len(versions[t.page[1]]) + 1
  PROVE  StoreInv'
<1>1. tab' \in [Editors -> Tabs] /\ save' \in [Editors -> Saves] BY DEF StoreInv
<1>2. ASSUME NEW f \in Editors PROVE (Visited(f) /\ ReadNumber(f))'
  <2>1. CASE f = e BY <2>1 DEF StoreInv, Visited, ReadNumber, PageOf
  <2>2. CASE f # e
    <3>1. tab'[f] = tab[f] /\ save'[f] = save[f] BY <2>2 DEF StoreInv
    <3> QED BY <3>1 DEF StoreInv, Visited, ReadNumber, PageOf
  <2> QED BY <2>1, <2>2
<1>3. ASSUME NEW p \in Pages PROVE (Numbered(p) /\ Newest(p))'
  BY DEF StoreInv, Numbered, Newest
<1> QED BY <1>1, <1>2, <1>3 DEF StoreInv

LEMMA OpenKept == ASSUME StoreInv, NEW e \in Editors, Open(e) PROVE StoreInv'
<1>1. PICK p \in Pages :
        tab' = [tab EXCEPT ![e].page = <<p>>, ![e].text = content[p], ![e].status = "saved"]
  BY DEF Open
<1> DEFINE t == [tab[e] EXCEPT !.page = <<p>>, !.text = content[p], !.status = "saved"]
<1>2. t \in Tabs
  <2>1. content[p] \in Contents /\ tab[e] \in Tabs BY DEF StoreInv
  <2> QED BY <2>1 DEF Tabs
<1>3. t.status = "saved" /\ t.page = <<p>> BY DEF StoreInv, Tabs
<1>4. save[e] \in Saves /\ save' = [save EXCEPT ![e] = save[e]] /\ save[e].pc # "commit"
  BY DEF StoreInv, Open, Visited, Visits
<1>5. tab' = [tab EXCEPT ![e] = t] BY <1>1 DEF StoreInv
<1>6. UNCHANGED <<content, versions, hidden, passages, indexed>> BY DEF Open
<1>7. Visits(t, save[e]) BY <1>3 DEF StoreInv, Open, Visited, Visits
<1> HIDE DEF t
<1> QED BY <1>2, <1>3, <1>4, <1>5, <1>6, <1>7, TabKept

LEMMA CreatedKept == ASSUME StoreInv, NEW e \in Editors, Created(e) PROVE StoreInv'
<1> DEFINE t == [tab[e] EXCEPT !.ready = TRUE]
<1>1. /\ t \in Tabs /\ t.status = tab[e].status
      /\ t.page = tab[e].page /\ t.queue = tab[e].queue
  BY DEF StoreInv, Tabs
<1>2. /\ save[e] \in Saves /\ save' = [save EXCEPT ![e] = save[e]]
      /\ save[e].pc = "commit" => save[e].version \in 1 .. Len(versions[tab[e].page[1]]) + 1
  BY DEF StoreInv, Created, ReadNumber, PageOf
<1>3. tab' = [tab EXCEPT ![e] = t] BY DEF StoreInv, Created
<1>4. UNCHANGED <<content, versions, hidden, passages, indexed>> BY DEF Created
<1>5. Visits(t, save[e]) BY <1>1 DEF StoreInv, Created, Visited, Visits
<1> HIDE DEF t
<1> QED BY <1>1, <1>2, <1>3, <1>4, <1>5, TabKept

LEMMA TypeKept == ASSUME StoreInv, NEW e \in Editors, Type(e) PROVE StoreInv'
<1> DEFINE n == tab[e].edits + 1
<1>1. n \in 1 .. MaxEdits /\ tab[e] \in Tabs
  <2>1. tab[e] \in Tabs BY DEF StoreInv
  <2> QED BY <2>1, EditAssumption DEF Type, Tabs
<1>2. tab' = [tab EXCEPT ![e] = [tab[e] EXCEPT !.text = <<e, n>>, !.edits = n,
                                               !.timer = TRUE, !.status = "dirty"]]
  BY DEF StoreInv, Type
<1> HIDE DEF n
<1> DEFINE t == [tab[e] EXCEPT !.text = <<e, n>>, !.edits = n, !.timer = TRUE, !.status = "dirty"]
<1>3. t \in Tabs /\ t.status = "dirty" /\ t.page = tab[e].page /\ t.queue = tab[e].queue
  <2>1. <<e, n>> \in Contents BY <1>1 DEF Contents
  <2>2. n \in 0 .. MaxEdits BY <1>1, EditAssumption
  <2> QED BY <1>1, <2>1, <2>2 DEF Tabs
<1>4. /\ save[e] \in Saves /\ save' = [save EXCEPT ![e] = save[e]]
      /\ save[e].pc = "commit" => save[e].version \in 1 .. Len(versions[tab[e].page[1]]) + 1
  BY DEF StoreInv, Type, ReadNumber, PageOf
<1>5. UNCHANGED <<content, versions, hidden, passages, indexed>> BY DEF Type
<1>6. Visits(t, save[e]) BY <1>3 DEF StoreInv, Type, Visited, Visits
<1>7. tab' = [tab EXCEPT ![e] = t] BY <1>2
<1> HIDE DEF t
<1> QED BY <1>3, <1>4, <1>5, <1>6, <1>7, TabKept

LEMMA FlushKept == ASSUME StoreInv, NEW e \in Editors, Flush(e) PROVE StoreInv'
<1>1. tab[e] \in Tabs /\ tab[e].status # "closed" BY DEF StoreInv, Flush, Visited, Visits
<1> DEFINE sent == Append(tab[e].queue, tab[e].text)
           t == IF tab[e].ready
                THEN [tab[e] EXCEPT !.timer = FALSE, !.status = "saving", !.queue = sent]
                ELSE [tab[e] EXCEPT !.timer = FALSE]
<1>4. tab' = [tab EXCEPT ![e] = t] BY DEF StoreInv, Flush
<1>2. /\ t \in Tabs /\ t.status # "closed" /\ t.page = tab[e].page
      /\ t.status # "left" => tab[e].status # "left" \/ t.queue # << >>
      /\ tab[e].queue # << >> => t.queue # << >>
  <2>1. CASE tab[e].ready
    <3>1. tab[e].queue \in Seq(Contents) /\ tab[e].text \in Contents BY <1>1 DEF Tabs
    <3>2. sent \in Seq(Contents) /\ sent # << >> BY <3>1
    <3> HIDE DEF sent
    <3> QED BY <1>1, <2>1, <3>2 DEF Tabs
  <2>2. CASE ~ tab[e].ready BY <1>1, <2>2 DEF Tabs
  <2> QED BY <2>1, <2>2
<1> HIDE DEF t
<1>3. /\ save[e] \in Saves /\ save' = [save EXCEPT ![e] = save[e]]
      /\ save[e].pc = "commit" => save[e].version \in 1 .. Len(versions[tab[e].page[1]]) + 1
  BY DEF StoreInv, Flush, ReadNumber, PageOf
<1>5. UNCHANGED <<content, versions, hidden, passages, indexed>> BY DEF Flush
<1>6. Visits(t, save[e]) BY <1>1, <1>2 DEF StoreInv, Visited, Visits
<1> QED BY <1>1, <1>2, <1>3, <1>4, <1>5, <1>6, TabKept

LEMMA LeaveKept == ASSUME StoreInv, NEW e \in Editors, Leave(e) PROVE StoreInv'
<1> DEFINE t == [tab[e] EXCEPT !.timer = FALSE, !.status = "left", !.queue = << >>]
<1>1. tab[e] \in Tabs /\ tab[e].page # << >> /\ tab[e].page[1] \in Pages
  BY DEF StoreInv, Leave, Visited, Visits
<1>2. t \in Tabs /\ t.status = "left" /\ t.page = tab[e].page
  <2>1. << >> \in Seq(Contents) OBVIOUS
  <2> QED BY <1>1, <2>1 DEF Tabs
<1>3. /\ save[e] \in Saves /\ save' = [save EXCEPT ![e] = save[e]]
      /\ save[e].pc = "commit" => save[e].version \in 1 .. Len(versions[tab[e].page[1]]) + 1
  BY DEF StoreInv, Leave, ReadNumber, PageOf
<1>4. tab' = [tab EXCEPT ![e] = t] BY DEF StoreInv, Leave
<1>5. UNCHANGED <<content, versions, hidden, passages, indexed>> BY DEF Leave
<1>6. Visits(t, save[e]) BY <1>1, <1>2 DEF Visits
<1> HIDE DEF t
<1> QED BY <1>1, <1>2, <1>3, <1>4, <1>5, <1>6, TabKept

(* The number read for a new version is one more than there are.           *)
LEMMA NumbersRead ==
  ASSUME StoreInv, NEW p \in Pages
  PROVE  /\ Len(versions[p]) \in Nat /\ Numbers(p) = 1 .. Len(versions[p])
         /\ Max(Numbers(p) \cup {0}) = Len(versions[p])
<1>1. versions[p] \in Seq(Versions) /\ DOMAIN versions[p] = 1 .. Len(versions[p])
      /\ Len(versions[p]) \in Nat
  BY DEF StoreInv
<1>2. Numbers(p) = 1 .. Len(versions[p])
  <2>1. \A i \in 1 .. Len(versions[p]) : versions[p][i].version = i
    BY <1>1 DEF StoreInv, Numbered
  <2>2. Numbers(p) = {versions[p][i].version : i \in 1 .. Len(versions[p])} BY <1>1 DEF Numbers
  <2> QED BY <2>1, <2>2
<1> DEFINE n == Len(versions[p])
           T == Numbers(p) \cup {0}
<1>3. n \in T /\ \A k \in T : n >= k /\ k \in Nat BY <1>1, <1>2
<1>4. Max(T) = CHOOSE x \in T : \A y \in T : x >= y BY DEF Max
<1> HIDE DEF T, n
<1>5. Max(T) \in T /\ Max(T) >= n BY <1>3, <1>4
<1>6. Max(T) = n BY <1>3, <1>5
<1> QED BY <1>1, <1>2, <1>6 DEF T, n

(* Whoever saves, or has something to send, visits a page.                 *)
LEMMA SaverVisits ==
  ASSUME StoreInv, NEW e \in Editors, save[e].pc # "idle" \/ tab[e].queue # << >>
  PROVE  /\ tab[e].status # "closed" /\ tab[e].page # << >> /\ PageOf(e) \in Pages
         /\ tab[e] \in Tabs /\ save[e] \in Saves
         /\ tab[e].status # "left" => tab[e].queue # << >>
BY DEF StoreInv, Visited, Visits, PageOf

(* A step of a save that leaves the history alone.                         *)
LEMMA SaveKept ==
  ASSUME StoreInv, NEW e \in Editors, NEW s \in Saves, save[e].pc # "idle" \/ tab[e].queue # << >>,
         tab[e].status # "left" /\ s.pc # "idle" => tab[e].queue # << >>,
         save' = [save EXCEPT ![e] = s],
         UNCHANGED <<content, versions, hidden, tab>>,
         indexed' \subseteq Pages, passages' \in [Pages -> Seq(Contents \X Nat)],
         s.pc = "commit" => s.version \in 1 .. Len(versions[PageOf(e)]) + 1
  PROVE  StoreInv'
<1>1. save' \in [Editors -> Saves] BY DEF StoreInv
<1>2. ASSUME NEW f \in Editors PROVE (Visited(f) /\ ReadNumber(f))'
  <2>1. CASE f = e
    <3>1. tab[e].status # "closed" BY SaverVisits
    <3>2. save'[e] = s BY DEF StoreInv
    <3> QED BY <2>1, <3>1, <3>2 DEF StoreInv, Visited, Visits, ReadNumber, PageOf
  <2>2. CASE f # e
    <3>1. save'[f] = save[f] BY <2>2 DEF StoreInv
    <3> QED BY <3>1 DEF StoreInv, Visited, ReadNumber, PageOf
  <2> QED BY <2>1, <2>2
<1>3. ASSUME NEW p \in Pages PROVE (Numbered(p) /\ Newest(p))'
  BY DEF StoreInv, Numbered, Newest
<1> QED BY <1>1, <1>2, <1>3 DEF StoreInv

LEMMA SaveReadsKept == ASSUME StoreInv, NEW e \in Editors, SaveReads(e) PROVE StoreInv'
<1> DEFINE n == Max(Numbers(PageOf(e)) \cup {0}) + 1
           s == [NoSave EXCEPT !.pc = "commit", !.text = Head(tab[e].queue), !.version = n]
<1>1. tab[e].queue # << >> /\ PageOf(e) \in Pages /\ tab[e] \in Tabs
  BY SaverVisits DEF SaveReads
<1>2. n \in 1 .. Len(versions[PageOf(e)]) + 1 /\ n \in Nat BY <1>1, NumbersRead
<1>3. save' = [save EXCEPT ![e] = s] BY DEF SaveReads
<1> HIDE DEF n
<1>4. s \in Saves /\ s.version = n
  <2>1. Head(tab[e].queue) \in Contents BY <1>1 DEF Tabs
  <2> QED BY <1>2, <2>1 DEF Saves, NoSave, Contents
<1>5. UNCHANGED <<content, versions, hidden, passages, indexed, tab>> BY DEF SaveReads
<1>6. indexed' \subseteq Pages /\ passages' \in [Pages -> Seq(Contents \X Nat)]
  BY <1>5 DEF StoreInv
<1> HIDE DEF s
<1> QED BY <1>1, <1>2, <1>3, <1>4, <1>5, <1>6, SaveKept

LEMMA SaveCommitsKept == ASSUME StoreInv, NEW e \in Editors, SaveCommits(e) PROVE StoreInv'
<1> DEFINE p == PageOf(e)
           n == save[e].version
           v == [version |-> n, author |-> e, text |-> save[e].text]
<1>1. p \in Pages /\ save[e] \in Saves /\ tab[e].status # "closed" BY SaverVisits DEF SaveCommits
<1>2. n = Len(versions[p]) + 1 /\ n \in Nat
  <2>1. n \in 1 .. Len(versions[p]) + 1 BY DEF StoreInv, SaveCommits, ReadNumber
  <2>2. n \notin 1 .. Len(versions[p]) /\ Len(versions[p]) \in Nat
    BY <1>1, NumbersRead DEF SaveCommits
  <2> QED BY <2>1, <2>2
<1>3. v \in Versions BY <1>1 DEF Versions, Saves
<1>4. versions' = [versions EXCEPT ![p] = Append(versions[p], v)]
      /\ content' = [content EXCEPT ![p] = save[e].text]
      /\ save' = [save EXCEPT ![e].pc = "look"]
      /\ UNCHANGED <<hidden, passages, indexed, tab>>
  BY DEF SaveCommits
<1>5. v.version = n /\ v.text = save[e].text OBVIOUS
<1> HIDE DEF v, n, p
<1>6. PICK w \in Seq(Versions) : w = Append(versions[p], v)
  <2>1. versions[p] \in Seq(Versions) BY <1>1 DEF StoreInv
  <2>2. Append(versions[p], v) \in Seq(Versions) BY <1>3, <2>1
  <2> QED BY <2>2
<1>7. /\ Len(w) = n /\ w # << >> /\ w[n] = v /\ DOMAIN w = 1 .. n
      /\ \A i \in 1 .. n - 1 : i \in DOMAIN versions[p] /\ w[i] = versions[p][i]
      /\ Len(versions[p]) = n - 1
  <2>1. versions[p] \in Seq(Versions) BY <1>1 DEF StoreInv
  <2> QED BY <1>2, <1>3, <1>6, <2>1
<1>8. /\ versions' = [versions EXCEPT ![p] = w]
      /\ versions' \in [Pages -> Seq(Versions)] /\ content' \in [Pages -> Contents]
  <2>1. save[e].text \in Contents BY <1>1 DEF Saves
  <2>2. versions' = [versions EXCEPT ![p] = w] BY <1>4, <1>6
  <2>3. versions' \in [Pages -> Seq(Versions)] BY <2>2 DEF StoreInv
  <2>4. content' \in [Pages -> Contents] BY <1>4, <2>1 DEF StoreInv
  <2> QED BY <2>2, <2>3, <2>4
<1>9. save' \in [Editors -> Saves] /\ save'[e].pc = "look"
      /\ \A f \in Editors \ {e} : save'[f] = save[f]
  BY <1>1, <1>4 DEF StoreInv, Saves
<1>10. ASSUME NEW q \in Pages PROVE (Numbered(q) /\ Newest(q))'
  <2>1. CASE q = p
    <3>1. versions'[p] = w /\ content'[p] = save[e].text BY <1>1, <1>4, <1>8 DEF StoreInv
    <3>2. ASSUME NEW i \in 1 .. n PROVE w[i].version = i
      <4>1. CASE i = n BY <1>5, <1>7, <4>1
      <4>2. CASE i \in 1 .. n - 1 BY <1>1, <1>7, <4>2 DEF StoreInv, Numbered
      <4> QED BY <1>2, <4>1, <4>2
    <3> QED BY <2>1, <3>1, <3>2, <1>5, <1>7 DEF Numbered, Newest
  <2>2. CASE q # p
    <3>1. versions'[q] = versions[q] /\ content'[q] = content[q]
      BY <1>4, <1>8, <2>2 DEF StoreInv
    <3> QED BY <3>1 DEF StoreInv, Numbered, Newest
  <2> QED BY <2>1, <2>2
<1>11. ASSUME NEW f \in Editors PROVE (Visited(f) /\ ReadNumber(f))'
  <2>1. CASE f = e
    BY <1>1, <1>4, <1>9, <2>1 DEF StoreInv, SaveCommits, Visited, Visits, ReadNumber, PageOf
  <2>2. CASE f # e
    <3>0. save'[f] = save[f] /\ tab' = tab BY <1>4, <1>9, <2>2
    <3>1. Visited(f)' BY <3>0 DEF StoreInv, Visited, PageOf
    <3>2. ReadNumber(f)'
      <4> DEFINE q == PageOf(f)
      <4> SUFFICES ASSUME save[f].pc = "commit"
                   PROVE  save[f].version \in 1 .. Len(versions'[q]) + 1
        BY <3>0 DEF ReadNumber, PageOf
      <4>1. q \in Pages /\ save[f].version \in 1 .. Len(versions[q]) + 1
        BY SaverVisits DEF StoreInv, ReadNumber
      <4> HIDE DEF q
      <4>2. Len(versions[q]) \in Nat BY <4>1 DEF StoreInv
      <4>3. CASE q = p
        <5>1. versions'[q] = w BY <1>8, <4>1, <4>3 DEF StoreInv
        <5> QED BY <1>2, <1>7, <4>1, <4>2, <4>3, <5>1
      <4>4. CASE q # p
        <5>1. versions'[q] = versions[q] BY <1>8, <4>1, <4>4 DEF StoreInv
        <5> QED BY <4>1, <5>1
      <4> QED BY <4>3, <4>4
    <3> QED BY <3>1, <3>2
  <2> QED BY <2>1, <2>2
<1> QED BY <1>4, <1>8, <1>9, <1>10, <1>11 DEF StoreInv

LEMMA SaveFailsKept == ASSUME StoreInv, NEW e \in Editors, SaveFails(e) PROVE StoreInv'
<1> DEFINE s == [save[e] EXCEPT !.pc = "error"]
<1>1. s \in Saves /\ s.pc = "error" BY DEF StoreInv, Saves
<1>2. save' = [save EXCEPT ![e] = s] /\ save[e].pc # "idle"
      /\ UNCHANGED <<content, versions, hidden, passages, indexed, tab>>
  BY DEF SaveFails
<1>3. indexed' \subseteq Pages /\ passages' \in [Pages -> Seq(Contents \X Nat)]
  BY <1>2 DEF StoreInv
<1> HIDE DEF s
<1>9. tab[e].status # "left" => tab[e].queue # << >> BY SaverVisits DEF SaveFails
<1> QED BY <1>9, <1>1, <1>2, <1>3, SaveKept

LEMMA IndexLooksKept == ASSUME StoreInv, NEW e \in Editors, IndexLooks(e) PROVE StoreInv'
<1> DEFINE b == PageOf(e) \in hidden
<1>0. b \in BOOLEAN OBVIOUS
<1> DEFINE s == [save[e] EXCEPT !.pc = "delete", !.seen = content[PageOf(e)], !.off = b]
<1>1. PageOf(e) \in Pages BY SaverVisits DEF IndexLooks
<1>2. s \in Saves /\ s.pc = "delete"
  <2>1. content[PageOf(e)] \in Contents /\ save[e] \in Saves BY <1>1 DEF StoreInv
  <2> HIDE DEF b
  <2> QED BY <1>0, <2>1 DEF Saves
<1>3. save' = [save EXCEPT ![e] = s] /\ save[e].pc # "idle"
      /\ UNCHANGED <<content, versions, hidden, passages, indexed, tab>>
  BY DEF IndexLooks
<1>4. indexed' \subseteq Pages /\ passages' \in [Pages -> Seq(Contents \X Nat)]
  BY <1>3 DEF StoreInv
<1> HIDE DEF s
<1>9. tab[e].status # "left" => tab[e].queue # << >> BY SaverVisits DEF IndexLooks
<1> QED BY <1>9, <1>2, <1>3, <1>4, SaveKept

LEMMA IndexDeletesKept == ASSUME StoreInv, NEW e \in Editors, IndexDeletes(e) PROVE StoreInv'
<1> DEFINE s == [save[e] EXCEPT !.pc = IF save[e].off THEN "answer" ELSE "embed"]
<1>1. s \in Saves /\ s.pc # "commit" BY DEF StoreInv, Saves
<1>2. save' = [save EXCEPT ![e] = s] /\ save[e].pc # "idle"
      /\ UNCHANGED <<content, versions, hidden, indexed, tab>>
      /\ passages' = [passages EXCEPT ![PageOf(e)] = << >>]
  BY DEF IndexDeletes
<1>3. indexed' \subseteq Pages /\ passages' \in [Pages -> Seq(Contents \X Nat)]
  <2>1. << >> \in Seq(Contents \X Nat) OBVIOUS
  <2> QED BY <1>2, <2>1 DEF StoreInv
<1> HIDE DEF s
<1>9. tab[e].status # "left" => tab[e].queue # << >> BY SaverVisits DEF IndexDeletes
<1> QED BY <1>9, <1>1, <1>2, <1>3, SaveKept

LEMMA IndexEmbedsKept == ASSUME StoreInv, NEW e \in Editors, IndexEmbeds(e) PROVE StoreInv'
<1> DEFINE s == [save[e] EXCEPT !.pc = "insert"]
<1>1. s \in Saves /\ s.pc = "insert" BY DEF StoreInv, Saves
<1>2. save' = [save EXCEPT ![e] = s] /\ save[e].pc # "idle"
      /\ UNCHANGED <<content, versions, hidden, passages, indexed, tab>>
  BY DEF IndexEmbeds
<1>3. indexed' \subseteq Pages /\ passages' \in [Pages -> Seq(Contents \X Nat)]
  BY <1>2 DEF StoreInv
<1> HIDE DEF s
<1>9. tab[e].status # "left" => tab[e].queue # << >> BY SaverVisits DEF IndexEmbeds
<1> QED BY <1>9, <1>1, <1>2, <1>3, SaveKept

LEMMA IndexInsertsKept == ASSUME StoreInv, NEW e \in Editors, IndexInserts(e) PROVE StoreInv'
<1> DEFINE n == save[e].n + 1
           x == <<save[e].seen, n>>
           s == [save[e] EXCEPT !.n = n, !.pc = IF n = Passages THEN "answer" ELSE "insert"]
<1>1. save[e] \in Saves /\ PageOf(e) \in Pages BY SaverVisits DEF IndexInserts
<1>2. n \in Nat /\ x \in Contents \X Nat BY <1>1 DEF Saves
<1>3. save' = [save EXCEPT ![e] = s] BY <1>1 DEF IndexInserts, StoreInv
<1>4. save[e].pc # "idle" /\ UNCHANGED <<content, versions, hidden, tab>>
      /\ passages' = [passages EXCEPT ![PageOf(e)] = Append(passages[PageOf(e)], x)]
      /\ (indexed' = indexed \cup {PageOf(e)} \/ indexed' = indexed)
  BY DEF IndexInserts
<1> HIDE DEF n
<1>5. s \in Saves /\ s.pc # "commit" BY <1>1, <1>2 DEF Saves
<1> HIDE DEF s, x
<1>6. indexed' \subseteq Pages /\ passages' \in [Pages -> Seq(Contents \X Nat)]
  <2>1. passages[PageOf(e)] \in Seq(Contents \X Nat) BY <1>1 DEF StoreInv
  <2>2. Append(passages[PageOf(e)], x) \in Seq(Contents \X Nat) BY <1>2, <2>1
  <2> QED BY <1>1, <1>4, <2>2 DEF StoreInv
<1>9. tab[e].status # "left" => tab[e].queue # << >> BY SaverVisits DEF IndexInserts
<1> QED BY <1>9, <1>3, <1>4, <1>5, <1>6, SaveKept

LEMMA IndexFailsKept == ASSUME StoreInv, NEW e \in Editors, IndexFails(e) PROVE StoreInv'
<1> DEFINE s == [save[e] EXCEPT !.pc = "answer"]
<1>1. s \in Saves /\ s.pc = "answer" BY DEF StoreInv, Saves
<1>2. save' = [save EXCEPT ![e] = s] /\ save[e].pc # "idle"
      /\ UNCHANGED <<content, versions, hidden, passages, tab>> /\ indexed' \subseteq indexed
  BY DEF IndexFails
<1>3. indexed' \subseteq Pages /\ passages' \in [Pages -> Seq(Contents \X Nat)]
  BY <1>2 DEF StoreInv
<1> HIDE DEF s
<1>9. tab[e].status # "left" => tab[e].queue # << >> BY SaverVisits DEF IndexFails
<1> QED BY <1>9, <1>1, <1>2, <1>3, SaveKept

LEMMA AnswersKept == ASSUME StoreInv, NEW e \in Editors, Answers(e) PROVE StoreInv'
<1>1. /\ tab[e] \in Tabs /\ tab[e].status # "closed" /\ tab[e].page # << >> /\ PageOf(e) \in Pages
      /\ tab[e].status # "left" => tab[e].queue # << >>
  BY SaverVisits DEF Answers
<1> DEFINE said == IF save[e].pc = "answer" THEN "saved" ELSE "dirty"
           rest == Tail(tab[e].queue)
           t == IF tab[e].status = "left" THEN tab[e]
                ELSE [tab[e] EXCEPT !.status = said, !.queue = rest]
<1>4. tab' = [tab EXCEPT ![e] = t] BY DEF StoreInv, Answers
<1>2. t \in Tabs /\ t.status # "closed" /\ t.page = tab[e].page
  <2>1. CASE tab[e].status = "left" BY <1>1, <2>1
  <2>2. CASE tab[e].status # "left"
    <3>1. tab[e].queue \in Seq(Contents) /\ tab[e].queue # << >> BY <1>1, <2>2 DEF Tabs
    <3>2. rest \in Seq(Contents) BY <3>1
    <3>3. said \in {"saved", "dirty"} OBVIOUS
    <3> HIDE DEF rest, said
    <3> QED BY <1>1, <2>2, <3>2, <3>3 DEF Tabs
  <2> QED BY <2>1, <2>2
<1> HIDE DEF t
<1>3. NoSave \in Saves /\ NoSave.pc = "idle" BY DEF NoSave, Saves, Contents
<1>5. save' = [save EXCEPT ![e] = NoSave]
      /\ UNCHANGED <<content, versions, hidden, passages, indexed>>
  BY DEF Answers
<1>6. Visits(t, NoSave) BY <1>1, <1>2, <1>3 DEF PageOf, Visits
<1> HIDE DEF t
<1> QED BY <1>2, <1>3, <1>4, <1>5, <1>6, TabKept

LEMMA HideKept == ASSUME StoreInv, NEW p \in Pages, Hide(p) PROVE StoreInv'
<1>1. hidden' \subseteq Pages /\ UNCHANGED <<content, versions, passages, indexed, tab, save>>
  BY DEF Hide, StoreInv
<1>2. \A q \in Pages : (Numbered(q) /\ Newest(q))' BY <1>1 DEF StoreInv, Numbered, Newest
<1>3. \A e \in Editors : (Visited(e) /\ ReadNumber(e))'
  BY <1>1 DEF StoreInv, Visited, ReadNumber, PageOf
<1> QED BY <1>1, <1>2, <1>3 DEF StoreInv

LEMMA StoreStutters == ASSUME StoreInv, UNCHANGED storeVars PROVE StoreInv'
<1>1. UNCHANGED <<content, versions, hidden, passages, indexed, tab, save>> BY DEF storeVars
<1>2. \A q \in Pages : (Numbered(q) /\ Newest(q))' BY <1>1 DEF StoreInv, Numbered, Newest
<1>3. \A e \in Editors : (Visited(e) /\ ReadNumber(e))'
  BY <1>1 DEF StoreInv, Visited, ReadNumber, PageOf
<1> QED BY <1>1, <1>2, <1>3 DEF StoreInv

LEMMA StoreKept == ASSUME StoreInv, [StoreNext]_storeVars PROVE StoreInv'
<1>1. ASSUME NEW e \in Editors, Open(e) PROVE StoreInv' BY <1>1, OpenKept
<1>2. ASSUME NEW e \in Editors, Created(e) PROVE StoreInv' BY <1>2, CreatedKept
<1>3. ASSUME NEW e \in Editors, Type(e) PROVE StoreInv' BY <1>3, TypeKept
<1>4. ASSUME NEW e \in Editors, Flush(e) PROVE StoreInv' BY <1>4, FlushKept
<1>5. ASSUME NEW e \in Editors, Leave(e) PROVE StoreInv' BY <1>5, LeaveKept
<1>6. ASSUME NEW e \in Editors, SaveReads(e) PROVE StoreInv' BY <1>6, SaveReadsKept
<1>7. ASSUME NEW e \in Editors, SaveCommits(e) PROVE StoreInv' BY <1>7, SaveCommitsKept
<1>8. ASSUME NEW e \in Editors, SaveFails(e) PROVE StoreInv' BY <1>8, SaveFailsKept
<1>9. ASSUME NEW e \in Editors, IndexLooks(e) PROVE StoreInv' BY <1>9, IndexLooksKept
<1>10. ASSUME NEW e \in Editors, IndexDeletes(e) PROVE StoreInv' BY <1>10, IndexDeletesKept
<1>11. ASSUME NEW e \in Editors, IndexEmbeds(e) PROVE StoreInv' BY <1>11, IndexEmbedsKept
<1>12. ASSUME NEW e \in Editors, IndexInserts(e) PROVE StoreInv' BY <1>12, IndexInsertsKept
<1>13. ASSUME NEW e \in Editors, IndexFails(e) PROVE StoreInv' BY <1>13, IndexFailsKept
<1>14. ASSUME NEW e \in Editors, Answers(e) PROVE StoreInv' BY <1>14, AnswersKept
<1>15. ASSUME NEW p \in Pages, Hide(p) PROVE StoreInv' BY <1>15, HideKept
<1>16. CASE UNCHANGED storeVars BY <1>16, StoreStutters
<1> QED
  BY <1>1, <1>2, <1>3, <1>4, <1>5, <1>6, <1>7, <1>8, <1>9, <1>10, <1>11, <1>12, <1>13, <1>14,
     <1>15, <1>16 DEF StoreNext

LEMMA StoreAlways == StoreSpec => []StoreInv
<1>1. StoreInit => StoreInv BY StoreStarts
<1>2. StoreInv /\ [StoreNext]_storeVars => StoreInv' BY StoreKept
<1> QED BY <1>1, <1>2, PTL DEF StoreSpec

(* The history of every page has no gaps and no doubles, and the content   *)
(* kept beside it is its newest version, for any number of editors whose   *)
(* saves interleave and fail in any way (savePageContent).  It rests on    *)
(* the unique number: a number read is at most one more than there are, so *)
(* one that is free at the commit is exactly the next.                     *)
THEOREM HistoryIsWholeHolds == StoreSpec => []HistoryIsWhole
<1>1. StoreInv => HistoryIsWhole BY DEF StoreInv, HistoryIsWhole, Numbered, Newest
<1> QED BY <1>1, StoreAlways, PTL

-----------------------------------------------------------------------------
(* Edits are kept.                                                         *)

Stored(p, text) == \E i \in DOMAIN versions[p] : versions[p][i].text = text

Committed == {"look", "delete", "embed", "insert", "answer"}

(* What an editor waits for: nothing before it is ready, what it shows is  *)
(* the last it sent unless the timer is armed, and the first it sent is    *)
(* what the server works on.                                               *)
Sending(e) ==
  /\ tab[e].status = "left" => ~ tab[e].timer
  /\ save[e].pc \in Committed => Stored(PageOf(e), save[e].text)
  /\ ~ tab[e].ready => /\ tab[e].queue = << >> /\ save[e].pc = "idle"
                       /\ tab[e].edits > 0 => tab[e].status \in {"dirty", "left"}
  /\ tab[e].status # "left" /\ save[e].pc # "idle"
     => save[e].text = Head(tab[e].queue)
  /\ ~ tab[e].timer /\ tab[e].edits > 0 /\ tab[e].queue # << >>
     => tab[e].queue[Len(tab[e].queue)] = tab[e].text
  /\ tab[e].status = "saved" /\ ~ tab[e].timer /\ tab[e].queue = << >> /\ tab[e].edits > 0
     => Stored(PageOf(e), tab[e].text)

EditsInv == StoreInv /\ \A e \in Editors : Sending(e)

(* What is stored stays stored.                                            *)
LEMMA StoredStays ==
  ASSUME StoreInv, [StoreNext]_storeVars, NEW p \in Pages, NEW text, Stored(p, text)
  PROVE  Stored(p, text)'
<1>1. CASE versions' = versions BY <1>1 DEF Stored
<1>2. ASSUME NEW e \in Editors, SaveCommits(e) PROVE Stored(p, text)'
  <2> DEFINE v == [version |-> save[e].version, author |-> e, text |-> save[e].text]
             w == Append(versions[PageOf(e)], v)
  <2>1. PageOf(e) \in Pages /\ save[e] \in Saves BY <1>2, SaverVisits DEF SaveCommits
  <2>2. versions' = [versions EXCEPT ![PageOf(e)] = w] BY <1>2 DEF SaveCommits
  <2>3. v \in Versions BY <2>1 DEF Versions, Saves
  <2>4. CASE p = PageOf(e)
    <3> HIDE DEF v
    <3>1. versions[p] \in Seq(Versions) /\ versions'[p] = Append(versions[p], v)
      BY <2>2, <2>4 DEF StoreInv
    <3>2. \A i \in DOMAIN versions[p] :
            i \in DOMAIN Append(versions[p], v) /\ Append(versions[p], v)[i] = versions[p][i]
      BY <2>3, <3>1
    <3> QED BY <3>1, <3>2 DEF Stored
  <2>5. CASE p # PageOf(e)
    <3>1. versions'[p] = versions[p] BY <2>2, <2>5 DEF StoreInv
    <3> QED BY <3>1 DEF Stored
  <2> QED BY <2>4, <2>5
<1> QED
  BY <1>1, <1>2 DEF StoreNext, storeVars, Open, Created, Type, Flush, Leave, SaveReads, SaveFails,
     IndexLooks, IndexDeletes, IndexEmbeds, IndexInserts, IndexFails, Answers, Hide

(* A step concerns one editor.                                             *)
LEMMA SendingKept ==
  ASSUME EditsInv, [StoreNext]_storeVars, NEW e \in Editors,
         \A f \in Editors \ {e} : tab'[f] = tab[f] /\ save'[f] = save[f],
         Sending(e)'
  PROVE  EditsInv'
<1>1. StoreInv' BY StoreKept DEF EditsInv
<1>2. ASSUME NEW f \in Editors, f # e PROVE Sending(f)'
  <2>1. tab'[f] = tab[f] /\ save'[f] = save[f] BY <1>2
  <2>2. Visited(f) /\ Sending(f) BY DEF EditsInv, StoreInv
  <2>3. CASE tab[f].status = "closed"
    BY <2>1, <2>2, <2>3 DEF Visited, Visits, Sending, Committed, EditsInv, StoreInv, Tabs
  <2>4. CASE tab[f].status # "closed"
    <3>1. PageOf(f) \in Pages BY <2>2, <2>4 DEF Visited, Visits, PageOf
    <3>2. /\ Stored(PageOf(f), save[f].text) => Stored(PageOf(f), save[f].text)'
          /\ Stored(PageOf(f), tab[f].text) => Stored(PageOf(f), tab[f].text)'
      <4>1. PICK p, a, b : p \in Pages /\ p = PageOf(f) /\ a = save[f].text /\ b = tab[f].text BY <3>1
      <4>2. PageOf(f)' = p /\ save'[f].text = a /\ tab'[f].text = b BY <2>1, <4>1 DEF PageOf
      <4>3. Stored(p, a) => Stored(p, a)' BY <4>1, StoredStays DEF EditsInv
      <4>4. Stored(p, b) => Stored(p, b)' BY <4>1, StoredStays DEF EditsInv
      <4> QED BY <4>1, <4>2, <4>3, <4>4 DEF Stored
    <3> QED BY <2>1, <2>2, <3>2 DEF Sending
  <2> QED BY <2>3, <2>4
<1> QED BY <1>1, <1>2 DEF EditsInv

LEMMA OpenSends == ASSUME EditsInv, NEW e \in Editors, Open(e) PROVE EditsInv'
<1>1. [StoreNext]_storeVars BY DEF StoreNext
<1>2. tab[e] \in Tabs /\ tab[e].queue = << >> /\ tab[e].edits = 0 /\ save[e].pc = "idle"
  BY DEF EditsInv, StoreInv, Open, Visited, Visits
<1>3. PICK p \in Pages :
        tab' = [tab EXCEPT ![e].page = <<p>>, ![e].text = content[p], ![e].status = "saved"]
  BY DEF Open
<1>4. tab'[e].queue = << >> /\ tab'[e].edits = 0 /\ tab'[e].status = "saved"
  BY <1>2, <1>3 DEF EditsInv, StoreInv, Tabs
<1>5. save' = save /\ \A f \in Editors \ {e} : tab'[f] = tab[f]
  BY <1>3 DEF Open, EditsInv, StoreInv
<1>6. Sending(e)' BY <1>2, <1>4, <1>5 DEF Sending, Committed
<1> QED BY <1>1, <1>5, <1>6, SendingKept

LEMMA CreatedSends == ASSUME EditsInv, NEW e \in Editors, Created(e) PROVE EditsInv'
<1>1. [StoreNext]_storeVars BY DEF StoreNext
<1>2. tab[e] \in Tabs /\ tab[e].queue = << >> /\ save[e].pc = "idle" /\ Sending(e)
  BY DEF EditsInv, StoreInv, Created, Sending
<1>3. /\ tab'[e].queue = << >> /\ tab'[e].edits = tab[e].edits /\ tab'[e].ready = TRUE
      /\ tab'[e].timer = tab[e].timer /\ tab'[e].status = tab[e].status
  BY <1>2 DEF Created, EditsInv, StoreInv, Tabs
<1>4. save' = save /\ versions' = versions /\ \A f \in Editors \ {e} : tab'[f] = tab[f]
  BY DEF Created, EditsInv, StoreInv
<1>5. tab[e].edits > 0 => tab[e].status # "saved" BY <1>2 DEF Created, Sending
<1>6. Sending(e)' BY <1>2, <1>3, <1>4, <1>5 DEF Sending, Committed
<1> QED BY <1>1, <1>4, <1>6, SendingKept

LEMMA TypeSends == ASSUME EditsInv, NEW e \in Editors, Type(e) PROVE EditsInv'
<1>1. [StoreNext]_storeVars BY DEF StoreNext
<1>2. tab[e] \in Tabs /\ Sending(e) /\ tab[e].status # "left" BY DEF EditsInv, StoreInv, Type
<1>3. /\ tab'[e].queue = tab[e].queue /\ tab'[e].ready = tab[e].ready /\ tab'[e].page = tab[e].page
      /\ tab'[e].timer = TRUE /\ tab'[e].status = "dirty"
  BY <1>2 DEF Type, EditsInv, StoreInv, Tabs
<1>4. save' = save /\ versions' = versions /\ \A f \in Editors \ {e} : tab'[f] = tab[f]
  BY DEF Type, EditsInv, StoreInv
<1>5. Sending(e)' BY <1>2, <1>3, <1>4 DEF Sending, Committed, Stored, PageOf
<1> QED BY <1>1, <1>4, <1>5, SendingKept

LEMMA FlushSends == ASSUME EditsInv, NEW e \in Editors, Flush(e) PROVE EditsInv'
<1>1. [StoreNext]_storeVars BY DEF StoreNext
<1>2. tab[e] \in Tabs /\ Sending(e) BY DEF EditsInv, StoreInv
<1>3. save' = save /\ versions' = versions /\ \A f \in Editors \ {e} : tab'[f] = tab[f]
  BY DEF Flush, EditsInv, StoreInv
<1>4. CASE tab[e].ready
  <2>1. PICK q \in Seq(Contents), x \in Contents : q = tab[e].queue /\ x = tab[e].text
    BY <1>2 DEF Tabs
  <2>2. /\ tab'[e].queue = Append(q, x) /\ tab'[e].ready = TRUE /\ tab'[e].page = tab[e].page
        /\ tab'[e].text = x /\ tab'[e].status = "saving" /\ tab'[e].edits = tab[e].edits
    BY <1>2, <1>4, <2>1 DEF Flush, EditsInv, StoreInv, Tabs
  <2>3. Append(q, x)[Len(Append(q, x))] = x /\ (q # << >> => Head(Append(q, x)) = Head(q))
    BY <2>1
  <2>4. tab[e].status # "left" BY <1>2 DEF Sending, Flush
  <2>5. save[e].pc # "idle" => q # << >>
    BY <2>1, <2>4 DEF EditsInv, StoreInv, Visited, Visits, Flush
  <2>6. Sending(e)'
    BY <1>2, <1>3, <2>1, <2>2, <2>3, <2>4, <2>5 DEF Sending, Committed, Stored, PageOf
  <2> QED BY <1>1, <1>3, <2>6, SendingKept
<1>5. CASE ~ tab[e].ready
  <2>1. /\ tab'[e].queue = tab[e].queue /\ tab'[e].ready = FALSE /\ tab'[e].page = tab[e].page
        /\ tab'[e].text = tab[e].text /\ tab'[e].status = tab[e].status
        /\ tab'[e].edits = tab[e].edits /\ tab'[e].timer = FALSE
    BY <1>2, <1>5 DEF Flush, EditsInv, StoreInv, Tabs
  <2>2. tab[e].queue = << >> /\ save[e].pc = "idle"
        /\ (tab[e].edits > 0 => tab[e].status \in {"dirty", "left"})
    BY <1>2, <1>5 DEF Sending
  <2>3. Sending(e)' BY <1>3, <2>1, <2>2 DEF Sending, Committed
  <2> QED BY <1>1, <1>3, <2>3, SendingKept
<1> QED BY <1>4, <1>5

LEMMA LeaveSends == ASSUME EditsInv, NEW e \in Editors, Leave(e) PROVE EditsInv'
<1>1. [StoreNext]_storeVars BY DEF StoreNext
<1>2. tab[e] \in Tabs /\ Sending(e) BY DEF EditsInv, StoreInv
<1>3. /\ tab'[e].queue = << >> /\ tab'[e].ready = tab[e].ready /\ tab'[e].page = tab[e].page
      /\ tab'[e].timer = FALSE /\ tab'[e].status = "left"
  BY <1>2 DEF Leave, EditsInv, StoreInv, Tabs
<1>4. save' = save /\ versions' = versions /\ \A f \in Editors \ {e} : tab'[f] = tab[f]
  BY DEF Leave, EditsInv, StoreInv
<1>5. Sending(e)' BY <1>2, <1>3, <1>4 DEF Sending, Committed, Stored, PageOf
<1> QED BY <1>1, <1>4, <1>5, SendingKept

LEMMA SaveReadsSends == ASSUME EditsInv, NEW e \in Editors, SaveReads(e) PROVE EditsInv'
<1>1. [StoreNext]_storeVars BY DEF StoreNext
<1>2. Sending(e) BY DEF EditsInv
<1>3. save'[e].pc = "commit" /\ save'[e].text = Head(tab[e].queue)
  BY DEF SaveReads, EditsInv, StoreInv, NoSave
<1>4. tab' = tab /\ versions' = versions /\ \A f \in Editors \ {e} : save'[f] = save[f]
  BY DEF SaveReads, EditsInv, StoreInv
<1>5. tab[e].ready BY <1>2 DEF SaveReads, Sending
<1>6. Sending(e)' BY <1>2, <1>3, <1>4, <1>5 DEF Sending, Committed, Stored, PageOf
<1> QED BY <1>1, <1>4, <1>6, SendingKept

LEMMA SaveCommitsSends == ASSUME EditsInv, NEW e \in Editors, SaveCommits(e) PROVE EditsInv'
<1>1. [StoreNext]_storeVars BY DEF StoreNext
<1>2. Sending(e) /\ save[e] \in Saves /\ PageOf(e) \in Pages
  BY SaverVisits DEF EditsInv, SaveCommits
<1>3. save'[e].pc = "look" /\ save'[e].text = save[e].text
  BY <1>2 DEF SaveCommits, EditsInv, StoreInv, Saves
<1>4. tab' = tab /\ \A f \in Editors \ {e} : save'[f] = save[f]
  BY DEF SaveCommits, EditsInv, StoreInv
<1> DEFINE p == PageOf(e)
           v == [version |-> save[e].version, author |-> e, text |-> save[e].text]
<1>5. Stored(p, save[e].text)'
  <2>1. v \in Versions /\ v.text = save[e].text BY <1>2 DEF Versions, Saves
  <2>2. versions'[p] = Append(versions[p], v) /\ versions[p] \in Seq(Versions)
    BY <1>2 DEF SaveCommits, EditsInv, StoreInv
  <2> HIDE DEF v
  <2>3. /\ Len(Append(versions[p], v)) \in DOMAIN Append(versions[p], v)
        /\ Append(versions[p], v)[Len(Append(versions[p], v))] = v
    BY <2>1, <2>2
  <2>4. \E i \in DOMAIN versions'[p] : versions'[p][i].text = save[e].text
    BY <2>1, <2>2, <2>3
  <2> QED BY <1>3, <1>4, <2>4 DEF Stored, PageOf
<1>6. Stored(PageOf(e), tab[e].text) => Stored(PageOf(e), tab[e].text)'
  <2>1. PICK q, b : q \in Pages /\ q = PageOf(e) /\ b = tab[e].text BY <1>2
  <2>2. Stored(q, b) => Stored(q, b)' BY <1>1, <2>1, StoredStays DEF EditsInv
  <2> QED BY <1>4, <2>1, <2>2 DEF Stored, PageOf
<1>7. tab[e].ready BY <1>2 DEF SaveCommits, Sending
<1>8. save[e].pc = "commit" BY DEF SaveCommits
<1>9. Sending(e)'
  BY <1>2, <1>3, <1>4, <1>5, <1>6, <1>7, <1>8 DEF Sending, Committed
<1> QED BY <1>1, <1>4, <1>9, SendingKept

LEMMA SaveFailsSends == ASSUME EditsInv, NEW e \in Editors, SaveFails(e) PROVE EditsInv'
<1>1. [StoreNext]_storeVars BY DEF StoreNext
<1>2. Sending(e) /\ save[e] \in Saves BY DEF EditsInv, StoreInv
<1>3. save'[e].pc = "error" /\ save'[e].text = save[e].text
  BY <1>2 DEF SaveFails, EditsInv, StoreInv, Saves
<1>4. tab' = tab /\ versions' = versions /\ \A f \in Editors \ {e} : save'[f] = save[f]
  BY DEF SaveFails, EditsInv, StoreInv
<1>5. Sending(e)' BY <1>2, <1>3, <1>4 DEF Sending, Committed, Stored, PageOf, SaveFails
<1> QED BY <1>1, <1>4, <1>5, SendingKept

(* While a page is indexed its save stays stored.                          *)
LEMMA IndexSends ==
  ASSUME EditsInv, NEW e \in Editors,
         IndexLooks(e) \/ IndexDeletes(e) \/ IndexEmbeds(e) \/ IndexInserts(e) \/ IndexFails(e)
  PROVE  EditsInv'
<1>1. [StoreNext]_storeVars BY DEF StoreNext
<1>2. Sending(e) /\ save[e] \in Saves BY DEF EditsInv, StoreInv
<1>3. save[e].pc \in Committed /\ save'[e].pc \in Committed /\ save'[e].text = save[e].text
  <2>1. CASE IndexLooks(e) BY <1>2, <2>1 DEF IndexLooks, Committed, EditsInv, StoreInv, Saves
  <2>2. CASE IndexDeletes(e) BY <1>2, <2>2 DEF IndexDeletes, Committed, EditsInv, StoreInv, Saves
  <2>3. CASE IndexEmbeds(e) BY <1>2, <2>3 DEF IndexEmbeds, Committed, EditsInv, StoreInv, Saves
  <2>4. CASE IndexInserts(e) BY <1>2, <2>4 DEF IndexInserts, Committed, EditsInv, StoreInv, Saves
  <2>5. CASE IndexFails(e) BY <1>2, <2>5 DEF IndexFails, Committed, EditsInv, StoreInv, Saves
  <2> QED BY <2>1, <2>2, <2>3, <2>4, <2>5
<1>4. tab' = tab /\ versions' = versions /\ \A f \in Editors \ {e} : save'[f] = save[f]
  BY DEF IndexLooks, IndexDeletes, IndexEmbeds, IndexInserts, IndexFails, EditsInv, StoreInv
<1>5. save[e].pc # "idle" BY <1>3 DEF Committed
<1>6. Sending(e)' BY <1>2, <1>3, <1>4, <1>5 DEF Sending, Stored, PageOf
<1> QED BY <1>1, <1>4, <1>6, SendingKept

LEMMA AnswersSends == ASSUME EditsInv, NEW e \in Editors, Answers(e) PROVE EditsInv'
<1>1. [StoreNext]_storeVars BY DEF StoreNext
<1>2. Sending(e) /\ tab[e] \in Tabs /\ save[e].pc \in {"answer", "error"}
      /\ (tab[e].status # "left" => tab[e].queue # << >>)
  BY SaverVisits DEF EditsInv, Answers
<1>3. versions' = versions /\ save'[e].pc = "idle"
      /\ \A f \in Editors \ {e} : tab'[f] = tab[f] /\ save'[f] = save[f]
  BY DEF Answers, EditsInv, StoreInv, NoSave
<1>4. CASE tab[e].status = "left"
  <2>1. tab' = tab BY <1>4 DEF Answers
  <2>2. Sending(e)' BY <1>2, <1>3, <1>4, <2>1 DEF Sending, Committed, Stored, PageOf
  <2> QED BY <1>1, <1>3, <2>2, SendingKept
<1>5. CASE tab[e].status # "left"
  <2>1. PICK q \in Seq(Contents) : q = tab[e].queue /\ q # << >> BY <1>2, <1>5 DEF Tabs
  <2>2. /\ tab'[e].queue = Tail(q) /\ tab'[e].text = tab[e].text /\ tab'[e].page = tab[e].page
        /\ tab'[e].timer = tab[e].timer /\ tab'[e].edits = tab[e].edits
        /\ tab'[e].ready = tab[e].ready
        /\ tab'[e].status = IF save[e].pc = "answer" THEN "saved" ELSE "dirty"
    BY <1>2, <1>5, <2>1 DEF Answers, EditsInv, StoreInv, Tabs
  <2>3. tab[e].ready BY <1>2 DEF Sending
  <2>4. save[e].text = Head(q) BY <1>2, <1>5, <2>1 DEF Sending
  <2>5. CASE Tail(q) # << >>
    <3>1. Tail(q)[Len(Tail(q))] = q[Len(q)] BY <2>1, <2>5
    <3>2. ~ tab[e].timer /\ tab[e].edits > 0 => q[Len(q)] = tab[e].text
      BY <1>2, <2>1 DEF Sending
    <3>3. Sending(e)' BY <1>3, <2>2, <2>3, <2>5, <3>1, <3>2 DEF Sending, Committed
    <3> QED BY <1>1, <1>3, <3>3, SendingKept
  <2>6. CASE Tail(q) = << >>
    <3>1. Head(q) = q[Len(q)]
      <4>1. Len(Tail(q)) = Len(q) - 1 /\ Len(q) \in Nat BY <2>1
      <4>2. Len(<< >>) = 0 OBVIOUS
      <4>3. Len(Tail(q)) = 0 BY <2>6, <4>2
      <4>4. Len(q) = 1 BY <4>1, <4>3
      <4> QED BY <2>1, <4>4
    <3>2. ~ tab[e].timer /\ tab[e].edits > 0 => Head(q) = tab[e].text
      BY <1>2, <2>1, <3>1 DEF Sending
    <3>3. save[e].pc = "answer" => Stored(PageOf(e), save[e].text)
      BY <1>2 DEF Sending, Committed
    <3>4. PageOf(e)' = PageOf(e) BY <2>2 DEF PageOf
    <3>5. ~ tab'[e].timer /\ tab'[e].edits > 0 /\ tab'[e].status = "saved"
          => Stored(PageOf(e), tab[e].text)
      BY <2>2, <2>4, <3>2, <3>3
    <3>6. Stored(PageOf(e), tab[e].text) => Stored(PageOf(e), tab[e].text)'
      BY <1>3, <2>2, <3>4 DEF Stored
    <3>7. Sending(e)' BY <1>3, <2>2, <2>3, <2>6, <3>5, <3>6 DEF Sending, Committed
    <3> QED BY <1>1, <1>3, <3>7, SendingKept
  <2> QED BY <2>5, <2>6
<1> QED BY <1>4, <1>5

LEMMA OthersSend ==
  ASSUME EditsInv, UNCHANGED <<versions, tab, save>>, [StoreNext]_storeVars
  PROVE  EditsInv'
<1>1. StoreInv' BY StoreKept DEF EditsInv
<1>2. ASSUME NEW e \in Editors PROVE Sending(e)'
  BY DEF EditsInv, Sending, Stored, PageOf
<1> QED BY <1>1, <1>2 DEF EditsInv

(* Whoever is told that everything is saved, with no timer armed and no    *)
(* save under way, sees what is stored: for any number of editors, edits   *)
(* and overlapping or failing saves (flush, schedule, savePageContent).    *)
(* The answer that empties an editor's queue is that of the last it sent,  *)
(* which is what it shows unless the timer is armed.                       *)
THEOREM EditsKeptHolds == StoreSpec => []EditsKept
<1>1. StoreInit => EditsInv
  <2>1. ASSUME StoreInit, NEW e \in Editors PROVE Sending(e)
    BY <2>1 DEF StoreInit, Sending, Unopened, NoSave, Committed
  <2> QED BY <2>1, StoreStarts DEF EditsInv
<1>2. EditsInv /\ [StoreNext]_storeVars => EditsInv'
  <2> SUFFICES ASSUME EditsInv, [StoreNext]_storeVars PROVE EditsInv' OBVIOUS
  <2>1. ASSUME NEW e \in Editors, Open(e) PROVE EditsInv' BY <2>1, OpenSends
  <2>2. ASSUME NEW e \in Editors, Created(e) PROVE EditsInv' BY <2>2, CreatedSends
  <2>3. ASSUME NEW e \in Editors, Type(e) PROVE EditsInv' BY <2>3, TypeSends
  <2>4. ASSUME NEW e \in Editors, Flush(e) PROVE EditsInv' BY <2>4, FlushSends
  <2>5. ASSUME NEW e \in Editors, Leave(e) PROVE EditsInv' BY <2>5, LeaveSends
  <2>6. ASSUME NEW e \in Editors, SaveReads(e) PROVE EditsInv' BY <2>6, SaveReadsSends
  <2>7. ASSUME NEW e \in Editors, SaveCommits(e) PROVE EditsInv' BY <2>7, SaveCommitsSends
  <2>8. ASSUME NEW e \in Editors, SaveFails(e) PROVE EditsInv' BY <2>8, SaveFailsSends
  <2>9. ASSUME NEW e \in Editors, \/ IndexLooks(e) \/ IndexDeletes(e) \/ IndexEmbeds(e)
                                  \/ IndexInserts(e) \/ IndexFails(e)
        PROVE  EditsInv'
    BY <2>9, IndexSends
  <2>10. ASSUME NEW e \in Editors, Answers(e) PROVE EditsInv' BY <2>10, AnswersSends
  <2>11. ASSUME NEW p \in Pages, Hide(p) PROVE EditsInv' BY <2>11, OthersSend DEF Hide
  <2>12. CASE UNCHANGED storeVars BY <2>12, OthersSend DEF storeVars
  <2> QED
    BY <2>1, <2>2, <2>3, <2>4, <2>5, <2>6, <2>7, <2>8, <2>9, <2>10, <2>11, <2>12 DEF StoreNext
<1>3. EditsInv => EditsKept BY DEF EditsInv, Sending, EditsKept, Stored
<1> QED BY <1>1, <1>2, <1>3, PTL DEF StoreSpec

-----------------------------------------------------------------------------
(* Search finds what is written.                                           *)

(* Who wrote a version visited its page, and who is past its commit wrote  *)
(* one; nothing is inserted before the old passages are gone.              *)
AuthorsVisit(p) ==
  \A i \in DOMAIN versions[p] : LET a == versions[p][i].author
                                IN tab[a].status # "closed" /\ tab[a].page = <<p>>
Writes(e) ==
  /\ save[e].pc \in Committed => \E i \in DOMAIN versions[PageOf(e)] : versions[PageOf(e)][i].author = e
  /\ save[e].pc \in {"commit", "look", "delete", "embed"} => save[e].n = 0

OnlyBy(p, a) == versions[p] # << >> /\ \A i \in DOMAIN versions[p] : versions[p][i].author = a

(* How far the index is, by where the page's only author is.               *)
FoundBy(p, a) ==
  /\ save[a].pc \in {"idle", "commit", "error", "answer"} /\ p \in indexed /\ p \notin hidden
     => passages[p] = AllPassages(content[p])
  /\ save[a].pc \in {"delete", "embed", "insert"} => save[a].seen = content[p]
  /\ save[a].pc = "delete" /\ save[a].off => p \in hidden
  /\ save[a].pc = "embed" => passages[p] = << >>
  /\ save[a].pc = "insert" => /\ save[a].n < Passages
                              /\ passages[p] = [i \in 1 .. save[a].n |-> <<save[a].seen, i>>]

FoundInv ==
  /\ StoreInv
  /\ \A p \in Pages : AuthorsVisit(p)
  /\ \A e \in Editors : Writes(e)
  /\ \A p \in Pages, a \in Editors : OnlyBy(p, a) => FoundBy(p, a)

(* An editor stays on its page.                                            *)
LEMMA PagesStay ==
  ASSUME StoreInv, [StoreNext]_storeVars, NEW f \in Editors, tab[f].status # "closed"
  PROVE  tab'[f].status # "closed" /\ tab'[f].page = tab[f].page
<1>0. tab[f] \in Tabs BY DEF StoreInv
<1>1. ASSUME NEW e \in Editors, Open(e) PROVE tab'[f] = tab[f] BY <1>1 DEF Open, StoreInv
<1>2. ASSUME NEW e \in Editors, Created(e)
      PROVE  tab'[f].status # "closed" /\ tab'[f].page = tab[f].page
  BY <1>0, <1>2 DEF Created, StoreInv, Tabs
<1>3. ASSUME NEW e \in Editors, Type(e)
      PROVE  tab'[f].status # "closed" /\ tab'[f].page = tab[f].page
  BY <1>0, <1>3 DEF Type, StoreInv, Tabs
<1>4. ASSUME NEW e \in Editors, Flush(e)
      PROVE  tab'[f].status # "closed" /\ tab'[f].page = tab[f].page
  BY <1>0, <1>4 DEF Flush, StoreInv, Tabs
<1>5. ASSUME NEW e \in Editors, Leave(e)
      PROVE  tab'[f].status # "closed" /\ tab'[f].page = tab[f].page
  BY <1>0, <1>5 DEF Leave, StoreInv, Tabs
<1>6. ASSUME NEW e \in Editors, Answers(e)
      PROVE  tab'[f].status # "closed" /\ tab'[f].page = tab[f].page
  BY <1>0, <1>6 DEF Answers, StoreInv, Tabs
<1>7. CASE tab' = tab BY <1>7
<1> QED
  BY <1>1, <1>2, <1>3, <1>4, <1>5, <1>6, <1>7 DEF StoreNext, storeVars, SaveReads, SaveCommits,
     SaveFails, IndexLooks, IndexDeletes, IndexEmbeds, IndexInserts, IndexFails, Hide

LEMMA AuthorsAreEditors ==
  ASSUME StoreInv, NEW p \in Pages, NEW i \in DOMAIN versions[p]
  PROVE  versions[p][i] \in Versions /\ versions[p][i].author \in Editors
<1>1. versions[p] \in Seq(Versions) /\ i \in 1 .. Len(versions[p]) BY DEF StoreInv
<1>2. versions[p][i] \in Versions BY <1>1, ElementOfSeq
<1> QED BY <1>2 DEF Versions

(* The only author of a page is an editor that visits it.                  *)
LEMMA OnlyAuthor ==
  ASSUME FoundInv, NEW p \in Pages, NEW a, OnlyBy(p, a)
  PROVE  a \in Editors /\ tab[a].status # "closed" /\ tab[a].page = <<p>> /\ PageOf(a) = p
<1>1. versions[p] \in Seq(Versions) BY DEF FoundInv, StoreInv
<1>2. 1 \in DOMAIN versions[p] BY <1>1 DEF OnlyBy
<1>3. versions[p][1].author = a BY <1>2 DEF OnlyBy
<1>4. a \in Editors BY <1>2, <1>3, AuthorsAreEditors DEF FoundInv
<1>5. tab[a].status # "closed" /\ tab[a].page = <<p>> BY <1>2, <1>3 DEF FoundInv, AuthorsVisit
<1> QED BY <1>4, <1>5 DEF PageOf

(* Steps that neither save nor index.                                      *)
LEMMA FoundFramed ==
  ASSUME FoundInv, [StoreNext]_storeVars,
         UNCHANGED <<content, versions, passages, indexed, save>>, hidden \subseteq hidden'
  PROVE  FoundInv'
<1>1. StoreInv' BY StoreKept DEF FoundInv
<1>2. ASSUME NEW p \in Pages PROVE AuthorsVisit(p)'
  <2>1. ASSUME NEW i \in DOMAIN versions[p]
        PROVE  tab'[versions[p][i].author].status # "closed" /\ tab'[versions[p][i].author].page = <<p>>
    <3>1. versions[p][i].author \in Editors BY AuthorsAreEditors DEF FoundInv
    <3> QED BY <3>1, PagesStay DEF FoundInv, AuthorsVisit
  <2> QED BY <2>1 DEF AuthorsVisit
<1>3. ASSUME NEW e \in Editors PROVE Writes(e)'
  <2>1. save[e].pc \in Committed => PageOf(e)' = PageOf(e)
    <3>1. save[e].pc \in Committed => tab[e].status # "closed"
      BY SaverVisits DEF FoundInv, Committed
    <3> QED BY <3>1, PagesStay DEF FoundInv, PageOf
  <2> QED BY <2>1 DEF FoundInv, Writes
<1>4. ASSUME NEW p \in Pages, NEW a \in Editors, OnlyBy(p, a)' PROVE FoundBy(p, a)'
  <2>1. OnlyBy(p, a) BY <1>4 DEF OnlyBy
  <2>2. FoundBy(p, a) BY <2>1 DEF FoundInv
  <2> QED BY <2>2 DEF FoundBy
<1> QED BY <1>1, <1>2, <1>3, <1>4 DEF FoundInv

(* Steps of a save that leave the history alone: if they touch the index   *)
(* they are those of an author of the page.                                *)
LEMMA FoundByKept ==
  ASSUME FoundInv, [StoreNext]_storeVars, NEW e \in Editors, save[e].pc # "idle" \/ tab[e].queue # << >>,
         UNCHANGED <<content, versions, hidden>>,
         \A f \in Editors \ {e} : save'[f] = save[f],
         \A p \in Pages \ {PageOf(e)} : passages'[p] = passages[p] /\ (p \in indexed' <=> p \in indexed),
         UNCHANGED <<passages, indexed>> \/ save[e].pc \in Committed,
         save'[e].pc \in Committed => save[e].pc \in Committed,
         save'[e].pc \in {"commit", "look", "delete", "embed"} => save'[e].n = 0,
         OnlyBy(PageOf(e), e) => FoundBy(PageOf(e), e)'
  PROVE  FoundInv'
<1>1. StoreInv' BY StoreKept DEF FoundInv
<1>0. tab[e].status # "closed" /\ PageOf(e) \in Pages BY SaverVisits DEF FoundInv
<1>2. ASSUME NEW p \in Pages PROVE AuthorsVisit(p)'
  <2>1. ASSUME NEW i \in DOMAIN versions[p]
        PROVE  tab'[versions[p][i].author].status # "closed" /\ tab'[versions[p][i].author].page = <<p>>
    <3>1. versions[p][i].author \in Editors BY AuthorsAreEditors DEF FoundInv
    <3> QED BY <3>1, PagesStay DEF FoundInv, AuthorsVisit
  <2> QED BY <2>1 DEF AuthorsVisit
<1>3. ASSUME NEW f \in Editors PROVE Writes(f)'
  <2>1. save'[f].pc \in Committed => save[f].pc \in Committed
    BY DEF Committed
  <2>2. save[f].pc \in Committed => PageOf(f)' = PageOf(f)
    <3>1. save[f].pc \in Committed => tab[f].status # "closed"
      BY SaverVisits DEF FoundInv, Committed
    <3> QED BY <3>1, PagesStay DEF FoundInv, PageOf
  <2>3. save'[f].pc \in {"commit", "look", "delete", "embed"} => save'[f].n = 0
    <3>1. CASE f = e BY <3>1
    <3>2. CASE f # e BY <3>2 DEF FoundInv, Writes
    <3> QED BY <3>1, <3>2
  <2>4. save[f].pc \in Committed => \E i \in DOMAIN versions[PageOf(f)] : versions[PageOf(f)][i].author = f
    BY DEF FoundInv, Writes
  <2> QED BY <2>1, <2>2, <2>3, <2>4 DEF Writes
<1>4. ASSUME NEW p \in Pages, NEW a \in Editors, OnlyBy(p, a)' PROVE FoundBy(p, a)'
  <2>1. OnlyBy(p, a) /\ FoundBy(p, a) BY <1>4 DEF OnlyBy, FoundInv
  <2>2. PageOf(a) = p BY <2>1, OnlyAuthor
  <2>3. CASE a = e
    <3>1. PICK q \in Pages : q = PageOf(e) BY <1>0
    <3>2. OnlyBy(q, e) => FoundBy(q, e)'
      <4>1. FoundBy(PageOf(e), e)' => FoundBy(q, e)'
        <5>1. PageOf(e)' = q BY <1>0, <3>1, PagesStay DEF FoundInv, PageOf
        <5> QED BY <5>1 DEF FoundBy
      <4> QED BY <3>1, <4>1
    <3> QED BY <2>1, <2>2, <2>3, <3>1, <3>2
  <2>4. CASE a # e
    <3>1. save'[a] = save[a] BY <2>4
    <3>2. CASE p # PageOf(e)
      <4>1. passages'[p] = passages[p] /\ (p \in indexed' <=> p \in indexed) BY <3>2
      <4> QED BY <2>1, <3>1, <4>1 DEF FoundBy
    <3>3. CASE p = PageOf(e)
      <4>1. save[e].pc \notin Committed BY <2>1, <2>4, <3>3 DEF FoundInv, Writes, OnlyBy
      <4>2. UNCHANGED <<passages, indexed>> BY <4>1
      <4> QED BY <2>1, <3>1, <4>2 DEF FoundBy
    <3> QED BY <3>2, <3>3
  <2> QED BY <2>3, <2>4
<1> QED BY <1>1, <1>2, <1>3, <1>4 DEF FoundInv

LEMMA SaveReadsFinds == ASSUME FoundInv, NEW e \in Editors, SaveReads(e) PROVE FoundInv'
<1>1. [StoreNext]_storeVars BY DEF StoreNext
<1>2. UNCHANGED <<content, versions, hidden, passages, indexed>>
      /\ \A f \in Editors \ {e} : save'[f] = save[f]
  BY DEF SaveReads, FoundInv, StoreInv
<1>3. save[e].pc = "idle" /\ tab[e].queue # << >> /\ save'[e].pc = "commit" /\ save'[e].n = 0
  BY DEF SaveReads, FoundInv, StoreInv, NoSave
<1>4. ASSUME OnlyBy(PageOf(e), e) PROVE FoundBy(PageOf(e), e)'
  <2>1. tab' = tab /\ PageOf(e) \in Pages BY <1>3, SaverVisits DEF FoundInv, SaveReads
  <2>2. FoundBy(PageOf(e), e) BY <1>4, <2>1 DEF FoundInv
  <2> QED BY <1>2, <1>3, <2>1, <2>2 DEF FoundBy, PageOf
<1> QED BY <1>1, <1>2, <1>3, <1>4, FoundByKept DEF Committed

LEMMA SaveFailsFinds == ASSUME FoundInv, NEW e \in Editors, SaveFails(e) PROVE FoundInv'
<1>1. [StoreNext]_storeVars BY DEF StoreNext
<1>2. UNCHANGED <<content, versions, hidden, passages, indexed>>
      /\ \A f \in Editors \ {e} : save'[f] = save[f]
  BY DEF SaveFails, FoundInv, StoreInv
<1>3. save[e].pc = "commit" /\ save'[e].pc = "error"
  BY DEF SaveFails, FoundInv, StoreInv, Saves
<1>4. ASSUME OnlyBy(PageOf(e), e) PROVE FoundBy(PageOf(e), e)'
  <2>1. tab' = tab /\ PageOf(e) \in Pages BY <1>3, SaverVisits DEF FoundInv, SaveFails
  <2>2. FoundBy(PageOf(e), e) BY <1>4, <2>1 DEF FoundInv
  <2> QED BY <1>2, <1>3, <2>1, <2>2 DEF FoundBy, PageOf
<1> QED BY <1>1, <1>2, <1>3, <1>4, FoundByKept DEF Committed

LEMMA AnswersFinds == ASSUME FoundInv, NEW e \in Editors, Answers(e) PROVE FoundInv'
<1>1. [StoreNext]_storeVars BY DEF StoreNext
<1>2. UNCHANGED <<content, versions, hidden, passages, indexed>>
      /\ \A f \in Editors \ {e} : save'[f] = save[f]
  BY DEF Answers, FoundInv, StoreInv
<1>3. save[e].pc \in {"answer", "error"} /\ save'[e].pc = "idle"
  BY DEF Answers, FoundInv, StoreInv, NoSave
<1>4. ASSUME OnlyBy(PageOf(e), e) PROVE FoundBy(PageOf(e), e)'
  <2>1. tab[e].status # "closed" /\ PageOf(e) \in Pages BY <1>3, SaverVisits DEF FoundInv
  <2>2. PageOf(e)' = PageOf(e) BY <1>1, <2>1, PagesStay DEF FoundInv, PageOf
  <2>3. FoundBy(PageOf(e), e) BY <1>4, <2>1 DEF FoundInv
  <2> QED BY <1>2, <1>3, <2>2, <2>3 DEF FoundBy
<1> QED BY <1>1, <1>2, <1>3, <1>4, FoundByKept DEF Committed

LEMMA IndexLooksFinds == ASSUME FoundInv, NEW e \in Editors, IndexLooks(e) PROVE FoundInv'
<1>1. [StoreNext]_storeVars BY DEF StoreNext
<1>2. UNCHANGED <<content, versions, hidden, passages, indexed>>
      /\ \A f \in Editors \ {e} : save'[f] = save[f]
  BY DEF IndexLooks, FoundInv, StoreInv
<1>3. save[e].pc = "look" /\ PageOf(e) \in Pages /\ tab' = tab /\ save[e] \in Saves
  BY SaverVisits DEF IndexLooks, FoundInv
<1>4. /\ save'[e].pc = "delete" /\ save'[e].seen = content[PageOf(e)] /\ save'[e].n = save[e].n
      /\ (save'[e].off => PageOf(e) \in hidden)
  BY <1>3 DEF IndexLooks, FoundInv, StoreInv, Saves
<1>5. save[e].n = 0 BY <1>3 DEF FoundInv, Writes
<1>6. FoundBy(PageOf(e), e)' BY <1>2, <1>3, <1>4 DEF FoundBy, PageOf
<1> QED BY <1>1, <1>2, <1>3, <1>4, <1>5, <1>6, FoundByKept DEF Committed

LEMMA IndexDeletesFinds == ASSUME FoundInv, NEW e \in Editors, IndexDeletes(e) PROVE FoundInv'
<1>1. [StoreNext]_storeVars BY DEF StoreNext
<1>2. UNCHANGED <<content, versions, hidden, indexed>>
      /\ \A f \in Editors \ {e} : save'[f] = save[f]
  BY DEF IndexDeletes, FoundInv, StoreInv
<1>3. save[e].pc = "delete" /\ PageOf(e) \in Pages /\ tab' = tab /\ save[e] \in Saves
  BY SaverVisits DEF IndexDeletes, FoundInv
<1>4. /\ save'[e].pc = (IF save[e].off THEN "answer" ELSE "embed")
      /\ save'[e].seen = save[e].seen /\ save'[e].n = save[e].n
      /\ passages'[PageOf(e)] = << >>
      /\ \A p \in Pages \ {PageOf(e)} : passages'[p] = passages[p]
  BY <1>3 DEF IndexDeletes, FoundInv, StoreInv, Saves
<1>5. save[e].n = 0 BY <1>3 DEF FoundInv, Writes
<1>6. ASSUME OnlyBy(PageOf(e), e) PROVE FoundBy(PageOf(e), e)'
  <2>1. FoundBy(PageOf(e), e) BY <1>3, <1>6 DEF FoundInv
  <2>2. save[e].seen = content[PageOf(e)] /\ (save[e].off => PageOf(e) \in hidden)
    BY <1>3, <2>1 DEF FoundBy
  <2>3. PICK p \in Pages : p = PageOf(e) /\ p = PageOf(e)' BY <1>3 DEF PageOf
  <2>4. FoundBy(p, e)' BY <1>2, <1>4, <2>2, <2>3 DEF FoundBy
  <2> QED BY <2>3, <2>4 DEF FoundBy
<1> QED BY <1>1, <1>2, <1>3, <1>4, <1>5, <1>6, FoundByKept DEF Committed

LEMMA IndexEmbedsFinds == ASSUME FoundInv, NEW e \in Editors, IndexEmbeds(e) PROVE FoundInv'
<1>1. [StoreNext]_storeVars BY DEF StoreNext
<1>2. UNCHANGED <<content, versions, hidden, passages, indexed>>
      /\ \A f \in Editors \ {e} : save'[f] = save[f]
  BY DEF IndexEmbeds, FoundInv, StoreInv
<1>3. save[e].pc = "embed" /\ PageOf(e) \in Pages /\ tab' = tab /\ save[e] \in Saves
  BY SaverVisits DEF IndexEmbeds, FoundInv
<1>4. save'[e].pc = "insert" /\ save'[e].seen = save[e].seen /\ save'[e].n = save[e].n
  BY <1>3 DEF IndexEmbeds, FoundInv, StoreInv, Saves
<1>5. save[e].n = 0 BY <1>3 DEF FoundInv, Writes
<1>6. ASSUME OnlyBy(PageOf(e), e) PROVE FoundBy(PageOf(e), e)'
  <2>1. FoundBy(PageOf(e), e) BY <1>3, <1>6 DEF FoundInv
  <2>2. save[e].seen = content[PageOf(e)] /\ passages[PageOf(e)] = << >>
    BY <1>3, <2>1 DEF FoundBy
  <2>3. PICK p, x : p \in Pages /\ p = PageOf(e) /\ p = PageOf(e)' /\ x = save[e].seen
    BY <1>3 DEF PageOf
  <2>4. << >> = [i \in 1 .. 0 |-> <<x, i>>] /\ 0 < Passages BY EditAssumption
  <2>5. FoundBy(p, e)' BY <1>2, <1>4, <1>5, <2>2, <2>3, <2>4 DEF FoundBy
  <2> QED BY <2>3, <2>5 DEF FoundBy
<1> QED BY <1>1, <1>2, <1>3, <1>4, <1>6, FoundByKept DEF Committed

LEMMA PassageAdded ==
  ASSUME NEW y, NEW m \in Nat
  PROVE  Append([i \in 1 .. m |-> <<y, i>>], <<y, m + 1>>) = [i \in 1 .. m + 1 |-> <<y, i>>]
<1> DEFINE s == [i \in 1 .. m |-> <<y, i>>]
           S == {<<y, i>> : i \in Nat}
           a == Append(s, <<y, m + 1>>)
<1>1. s \in Seq(S) /\ Len(s) = m OBVIOUS
<1>2. <<y, m + 1>> \in S OBVIOUS
<1>3. \A i \in 1 .. m : s[i] = <<y, i>> OBVIOUS
<1> HIDE DEF s, S
<1>4. a \in Seq(S) /\ Len(a) = m + 1 BY <1>1, <1>2
<1>5. a[m + 1] = <<y, m + 1>> BY <1>1, <1>2
<1>6. \A i \in 1 .. m : a[i] = <<y, i>> BY <1>1, <1>2, <1>3
<1>7. DOMAIN a = 1 .. m + 1 /\ a = [i \in 1 .. m + 1 |-> a[i]] BY <1>4
<1> HIDE DEF a
<1>8. \A i \in 1 .. m + 1 : a[i] = <<y, i>> BY <1>5, <1>6
<1>9. a = [i \in 1 .. m + 1 |-> <<y, i>>] BY <1>7, <1>8
<1> QED BY <1>9 DEF a, s

LEMMA IndexInsertsFinds == ASSUME FoundInv, NEW e \in Editors, IndexInserts(e) PROVE FoundInv'
<1>1. [StoreNext]_storeVars BY DEF StoreNext
<1>2. UNCHANGED <<content, versions, hidden, tab>>
      /\ \A f \in Editors \ {e} : save'[f] = save[f]
  BY DEF IndexInserts, FoundInv, StoreInv
<1>3. save[e].pc = "insert" /\ PageOf(e) \in Pages /\ save[e] \in Saves
  BY SaverVisits DEF IndexInserts, FoundInv
<1> DEFINE q == PageOf(e)
           x == save[e].seen
           n == save[e].n
           b == IF n + 1 = Passages THEN "answer" ELSE "insert"
<1>4. /\ save'[e].pc = b /\ save'[e].seen = x /\ save'[e].n = n + 1
      /\ passages'[q] = Append(passages[q], <<x, n + 1>>)
      /\ \A p \in Pages \ {q} : passages'[p] = passages[p] /\ (p \in indexed' <=> p \in indexed)
  BY <1>3 DEF IndexInserts, FoundInv, StoreInv, Saves
<1>5. n \in Nat /\ Passages \in Nat BY <1>3, EditAssumption DEF Saves
<1>6. ASSUME OnlyBy(q, e) PROVE FoundBy(q, e)'
  <2>1. FoundBy(q, e) BY <1>3, <1>6 DEF FoundInv
  <2>2. x = content[q] /\ n < Passages /\ passages[q] = [i \in 1 .. n |-> <<x, i>>]
    BY <1>3, <2>1 DEF FoundBy
  <2>3. PICK p, y, m : p \in Pages /\ p = q /\ p = q' /\ y = x /\ m = n BY <1>2, <1>3 DEF PageOf
  <2>4. m \in Nat /\ m < Passages BY <1>5, <2>2, <2>3
  <2>5. Append([i \in 1 .. m |-> <<y, i>>], <<y, m + 1>>) = [i \in 1 .. m + 1 |-> <<y, i>>] BY <2>4, PassageAdded
  <2>6. passages'[p] = [i \in 1 .. m + 1 |-> <<y, i>>] 
    <3>1. passages'[p] = Append(passages[p], <<y, m + 1>>) BY <1>4, <2>3
    <3>2. passages[p] = [i \in 1 .. m |-> <<y, i>>] BY <2>2, <2>3
    <3> QED BY <2>5, <3>1, <3>2
  <2>7. content'[p] = y BY <1>2, <2>2, <2>3
  <2>8. save'[e].seen = y /\ save'[e].n = m + 1
        /\ save'[e].pc = (IF m + 1 = Passages THEN "answer" ELSE "insert")
    BY <1>4, <2>3
  <2> HIDE DEF q, x, n, b
  <2>9. CASE m + 1 = Passages
    <3>1. passages'[p] = AllPassages(content'[p]) BY <2>6, <2>7, <2>9 DEF AllPassages
    <3> QED BY <2>3, <2>8, <2>9, <3>1 DEF FoundBy, q
  <2>10. CASE m + 1 # Passages
    <3>1. m + 1 < Passages BY <1>5, <2>4, <2>10
    <3> QED BY <2>3, <2>6, <2>7, <2>8, <2>10, <3>1 DEF FoundBy, q
  <2> QED BY <2>9, <2>10
<1>7. save'[e].pc \in {"answer", "insert"} BY <1>4
<1> QED BY <1>1, <1>2, <1>3, <1>4, <1>6, <1>7, FoundByKept DEF Committed

LEMMA IndexFailsFinds == ASSUME FoundInv, NEW e \in Editors, IndexFails(e) PROVE FoundInv'
<1>1. [StoreNext]_storeVars BY DEF StoreNext
<1>2. UNCHANGED <<content, versions, hidden, passages, tab>>
      /\ \A f \in Editors \ {e} : save'[f] = save[f]
  BY DEF IndexFails, FoundInv, StoreInv
<1>3. save[e].pc \in Committed /\ save[e].pc # "idle" /\ PageOf(e) \in Pages /\ save[e] \in Saves
  BY SaverVisits DEF IndexFails, FoundInv, Committed
<1>4. /\ save'[e].pc = "answer" /\ PageOf(e) \notin indexed'
      /\ \A p \in Pages \ {PageOf(e)} : p \in indexed' <=> p \in indexed
  BY <1>3 DEF IndexFails, FoundInv, StoreInv, Saves
<1>5. FoundBy(PageOf(e), e)' BY <1>2, <1>4 DEF FoundBy, PageOf
<1> QED BY <1>1, <1>2, <1>3, <1>4, <1>5, FoundByKept DEF Committed

LEMMA SaveCommitsFinds == ASSUME FoundInv, NEW e \in Editors, SaveCommits(e) PROVE FoundInv'
<1>1. [StoreNext]_storeVars /\ StoreInv' BY StoreKept DEF StoreNext, FoundInv
<1>2. save[e].pc = "commit" /\ PageOf(e) \in Pages /\ save[e] \in Saves /\ tab[e].status # "closed"
      /\ tab[e].page # << >>
  BY SaverVisits DEF SaveCommits, FoundInv
<1> DEFINE q == PageOf(e)
           v == [version |-> save[e].version, author |-> e, text |-> save[e].text]
<1>3. /\ UNCHANGED <<hidden, passages, indexed, tab>>
      /\ versions'[q] = Append(versions[q], v)
      /\ \A p \in Pages \ {q} : versions'[p] = versions[p] /\ content'[p] = content[p]
      /\ save'[e].pc = "look" /\ save'[e].n = save[e].n
      /\ \A f \in Editors \ {e} : save'[f] = save[f]
  BY <1>2 DEF SaveCommits, FoundInv, StoreInv, Saves
<1>4. v \in Versions /\ v.author = e /\ versions[q] \in Seq(Versions)
  BY <1>2 DEF Versions, Saves, FoundInv, StoreInv
<1>5. tab[e].page = <<q>> BY <1>2 DEF FoundInv, StoreInv, Tabs, PageOf
<1> HIDE DEF v
<1>6. PICK m \in Nat : /\ m = Len(versions[q]) + 1 /\ DOMAIN versions'[q] = 1 .. m
                       /\ versions'[q][m] = v
                       /\ \A i \in 1 .. m - 1 : i \in DOMAIN versions[q] /\ versions'[q][i] = versions[q][i]
  BY <1>3, <1>4
<1>7. ASSUME NEW p \in Pages PROVE AuthorsVisit(p)'
  <2>1. CASE p = q
    <3>1. ASSUME NEW i \in 1 .. m
          PROVE  tab[versions'[q][i].author].status # "closed" /\ tab[versions'[q][i].author].page = <<q>>
      <4>1. CASE i = m BY <1>2, <1>4, <1>5, <1>6, <4>1
      <4>2. CASE i \in 1 .. m - 1 BY <1>2, <1>6, <4>2 DEF FoundInv, AuthorsVisit
      <4> QED BY <1>6, <4>1, <4>2
    <3> HIDE DEF q
    <3> QED BY <1>3, <1>6, <2>1, <3>1 DEF AuthorsVisit
  <2>2. CASE p # q
    <3>1. versions'[p] = versions[p] /\ tab' = tab BY <1>3, <2>2
    <3>2. AuthorsVisit(p) BY DEF FoundInv
    <3> QED BY <3>1, <3>2 DEF AuthorsVisit
  <2> QED BY <2>1, <2>2
<1>8. ASSUME NEW f \in Editors PROVE Writes(f)'
  <2>1. CASE f = e
    <3>1. m \in DOMAIN versions'[q] /\ versions'[q][m].author = e BY <1>4, <1>6
    <3>2. save[e].n = 0 BY <1>2 DEF FoundInv, Writes
    <3>3. q = PageOf(e)' BY <1>3 DEF PageOf
    <3> HIDE DEF q
    <3> QED BY <1>3, <2>1, <3>1, <3>2, <3>3 DEF Writes
  <2>2. CASE f # e
    <3>1. save'[f] = save[f] /\ tab' = tab BY <1>3, <2>2
    <3>2. Writes(f) BY DEF FoundInv
    <3>3. ASSUME save[f].pc \in Committed
          PROVE  \E i \in DOMAIN versions'[PageOf(f)] : versions'[PageOf(f)][i].author = f
      <4>1. PageOf(f) \in Pages BY <3>3, SaverVisits DEF FoundInv, Committed
      <4>2. PICK i \in DOMAIN versions[PageOf(f)] : versions[PageOf(f)][i].author = f
        BY <3>2, <3>3 DEF Writes
      <4>3. CASE PageOf(f) = q
        <5>1. i \in 1 .. m - 1 BY <1>4, <1>6, <4>2, <4>3
        <5>2. i \in DOMAIN versions'[q] /\ versions'[q][i] = versions[q][i] BY <1>6, <5>1
        <5> QED BY <4>2, <4>3, <5>2
      <4>4. CASE PageOf(f) # q BY <1>3, <4>1, <4>2, <4>4
      <4> QED BY <4>3, <4>4
    <3> QED BY <3>1, <3>2, <3>3 DEF Writes, PageOf
  <2> QED BY <2>1, <2>2
<1>9. ASSUME NEW p \in Pages, NEW a \in Editors, OnlyBy(p, a)' PROVE FoundBy(p, a)'
  <2>1. CASE p = q
    <3>1. a = e
      <4>1. m \in DOMAIN versions'[q] BY <1>6
      <4> QED BY <1>4, <1>6, <1>9, <2>1, <4>1 DEF OnlyBy
    <3> QED BY <1>3, <3>1 DEF FoundBy
  <2>2. CASE p # q
    <3>1. versions'[p] = versions[p] /\ content'[p] = content[p] BY <1>3, <2>2
    <3>2. OnlyBy(p, a) BY <1>9, <3>1 DEF OnlyBy
    <3>3. FoundBy(p, a) BY <3>2 DEF FoundInv
    <3>4. a # e BY <2>2, <3>2, OnlyAuthor
    <3> QED BY <1>3, <3>1, <3>3, <3>4 DEF FoundBy
  <2> QED BY <2>1, <2>2
<1> QED BY <1>1, <1>7, <1>8, <1>9 DEF FoundInv

LEMMA FoundStarts == ASSUME StoreInit PROVE FoundInv
<1>1. StoreInv BY StoreStarts
<1>2. \A p \in Pages : AuthorsVisit(p) BY DEF StoreInit, AuthorsVisit
<1>3. \A e \in Editors : Writes(e) BY DEF StoreInit, Writes, Committed, NoSave
<1>4. \A p \in Pages, a \in Editors : ~ OnlyBy(p, a) BY DEF StoreInit, OnlyBy
<1> QED BY <1>1, <1>2, <1>3, <1>4 DEF FoundInv

LEMMA FoundKept == ASSUME FoundInv, [StoreNext]_storeVars PROVE FoundInv'
<1>1. ASSUME NEW e \in Editors, Open(e) \/ Created(e) \/ Type(e) \/ Flush(e) \/ Leave(e)
      PROVE  FoundInv'
  <2>1. UNCHANGED <<content, versions, passages, indexed, save, hidden>>
    BY <1>1 DEF Open, Created, Type, Flush, Leave
  <2> QED BY <2>1, FoundFramed
<1>2. ASSUME NEW e \in Editors, SaveReads(e) PROVE FoundInv' BY <1>2, SaveReadsFinds
<1>3. ASSUME NEW e \in Editors, SaveCommits(e) PROVE FoundInv' BY <1>3, SaveCommitsFinds
<1>4. ASSUME NEW e \in Editors, SaveFails(e) PROVE FoundInv' BY <1>4, SaveFailsFinds
<1>5. ASSUME NEW e \in Editors, IndexLooks(e) PROVE FoundInv' BY <1>5, IndexLooksFinds
<1>6. ASSUME NEW e \in Editors, IndexDeletes(e) PROVE FoundInv' BY <1>6, IndexDeletesFinds
<1>7. ASSUME NEW e \in Editors, IndexEmbeds(e) PROVE FoundInv' BY <1>7, IndexEmbedsFinds
<1>8. ASSUME NEW e \in Editors, IndexInserts(e) PROVE FoundInv' BY <1>8, IndexInsertsFinds
<1>9. ASSUME NEW e \in Editors, IndexFails(e) PROVE FoundInv' BY <1>9, IndexFailsFinds
<1>10. ASSUME NEW e \in Editors, Answers(e) PROVE FoundInv' BY <1>10, AnswersFinds
<1>11. ASSUME NEW p \in Pages, Hide(p) PROVE FoundInv'
  <2>1. UNCHANGED <<content, versions, passages, indexed, save>> /\ hidden \subseteq hidden'
    BY <1>11 DEF Hide
  <2> QED BY <2>1, FoundFramed
<1>12. CASE UNCHANGED storeVars
  <2>1. UNCHANGED <<content, versions, passages, indexed, save, hidden>> BY <1>12 DEF storeVars
  <2> QED BY <2>1, FoundFramed
<1> QED
  BY <1>1, <1>2, <1>3, <1>4, <1>5, <1>6, <1>7, <1>8, <1>9, <1>10, <1>11, <1>12 DEF StoreNext

(* The authors of a page are finitely many.                                *)
LEMMA AuthorsFinite ==
  ASSUME StoreInv, NEW p \in Pages
  PROVE  IsFiniteSet({versions[p][i].author : i \in DOMAIN versions[p]})
<1> DEFINE n == Len(versions[p])
           A == {versions[p][i].author : i \in DOMAIN versions[p]}
           f == [i \in 1 .. n |-> versions[p][i].author]
<1>1. n \in Nat /\ DOMAIN versions[p] = 1 .. n BY DEF StoreInv
<1>2. f \in Surjection(1 .. n, A) BY <1>1 DEF Surjection
<1>3. IsFiniteSet(1 .. n) BY <1>1, FS_Interval
<1> HIDE DEF n, A, f
<1>4. IsFiniteSet(A) BY <1>2, <1>3, FS_Surjection
<1> QED BY <1>4 DEF A

(* Once the saves of a page are through, it was last indexed in full and   *)
(* is not archived, search has exactly the passages of its content, if all *)
(* its versions are one editor's: with any number of pages and editors,    *)
(* and any saves and indexings that fail (savePageContent, indexPage).     *)
(* One author's saves follow each other, so that what an indexing has read *)
(* is the content until it is over.                                        *)
THEOREM FoundAsWrittenHolds == StoreSpec => []FoundAsWritten
<1>1. StoreInit => FoundInv BY FoundStarts
<1>2. FoundInv /\ [StoreNext]_storeVars => FoundInv' BY FoundKept
<1>3. FoundInv => FoundAsWritten
  <2> SUFFICES ASSUME FoundInv, NEW p \in Pages,
                      {e \in Editors : tab[e].page = <<p>> /\ save[e].pc # "idle"} = {},
                      Cardinality({versions[p][i].author : i \in DOMAIN versions[p]}) = 1,
                      p \in indexed, p \notin hidden
               PROVE  passages[p] = AllPassages(content[p])
    BY DEF FoundAsWritten
  <2> DEFINE A == {versions[p][i].author : i \in DOMAIN versions[p]}
  <2>1. IsFiniteSet(A) BY AuthorsFinite DEF FoundInv
  <2>2. PICK a : A = {a}
    <3> HIDE DEF A
    <3>1. Cardinality(A) = 1 BY DEF A
    <3> QED BY <2>1, <3>1, FS_Singleton
  <2>3. OnlyBy(p, a)
    <3>1. versions[p] # << >> BY <2>2
    <3>2. \A i \in DOMAIN versions[p] : versions[p][i].author \in A OBVIOUS
    <3> QED BY <2>2, <3>1, <3>2 DEF OnlyBy
  <2>4. a \in Editors /\ tab[a].page = <<p>> BY <2>3, OnlyAuthor
  <2>5. FoundBy(p, a) BY <2>3, <2>4 DEF FoundInv
  <2>6. save[a].pc = "idle" BY <2>4
  <2> QED BY <2>5, <2>6 DEF FoundBy
<1> QED BY <1>1, <1>2, <1>3, PTL DEF StoreSpec

-----------------------------------------------------------------------------
(* Scores.                                                                 *)

LEMMA Division ==
  ASSUME NEW a \in Nat, NEW b \in Nat \ {0}
  PROVE  a \div b \in Nat /\ a % b \in 0 .. b - 1 /\ a = b * (a \div b) + (a % b)
OBVIOUS

(* A score is off by half a percent at most.                               *)
LEMMA ScoreNear ==
  ASSUME NEW portion \in Nat, NEW whole \in Nat \ {0}, NEW score \in Percents(portion, whole)
  PROVE  /\ score \in Int
         /\ 200 * portion - whole <= 2 * (whole * score)
         /\ 2 * (whole * score) <= 200 * portion + whole
<1> DEFINE a == 200 * portion + whole
           b == 2 * whole
           up == a \div b
           rest == a % b
<1>1. a \in Nat /\ b \in Nat \ {0} OBVIOUS
<1>2. score = up \/ (rest = 0 /\ score = up - 1) BY DEF Percents
<1> HIDE DEF up, rest
<1>3. up \in Nat /\ rest \in 0 .. b - 1 /\ a = b * up + rest BY <1>1, Division DEF up, rest
<1>4. score \in Int BY <1>2, <1>3
<1> DEFINE w == whole * up
<1>5. w \in Int /\ b * up = 2 * w BY <1>3
<1>6. CASE score = up
  <2>1. whole * score = w BY <1>6
  <2> HIDE DEF w
  <2> QED BY <1>3, <1>4, <1>5, <2>1
<1>7. CASE rest = 0 /\ score = up - 1
  <2>1. whole * score = w - whole BY <1>3, <1>7
  <2> HIDE DEF w
  <2> QED BY <1>3, <1>4, <1>5, <1>7, <2>1
<1> QED BY <1>2, <1>6, <1>7

(* Whoever has the share asked for gets the score for it.                  *)
LEMMA ScoreEnough ==
  ASSUME NEW portion \in Nat, NEW whole \in Nat \ {0}, NEW score \in Percents(portion, whole),
         NEW threshold \in 0 .. 100, 100 * portion >= threshold * whole
  PROVE  score >= threshold
<1> SUFFICES ASSUME score + 1 <= threshold PROVE FALSE BY ScoreNear
<1> DEFINE w == whole * score
           h == whole * threshold
<1>1. score \in Int /\ w \in Int /\ h \in Int /\ threshold * whole = h BY ScoreNear
<1>2. whole * (score + 1) <= whole * threshold BY <1>1
<1>3. whole * (score + 1) = w + whole BY <1>1
<1>4. 200 * portion - whole <= 2 * w BY ScoreNear
<1>5. 100 * portion >= h BY <1>1
<1> HIDE DEF w, h
<1> QED BY <1>1, <1>2, <1>3, <1>4, <1>5 DEF h

(* Whoever gets the score has the share but for half a percent.            *)
LEMMA ScoreEarned ==
  ASSUME NEW portion \in Nat, NEW whole \in Nat \ {0}, NEW score \in Percents(portion, whole),
         NEW threshold \in 0 .. 100, score >= threshold
  PROVE  2 * (whole * threshold) <= 200 * portion + whole
<1> DEFINE w == whole * score
           h == whole * threshold
<1>1. score \in Int /\ w \in Int /\ h \in Int BY ScoreNear
<1>2. h <= w BY <1>1
<1>3. 2 * w <= 200 * portion + whole BY ScoreNear
<1> HIDE DEF w, h
<1>4. 2 * h <= 200 * portion + whole BY <1>1, <1>2, <1>3
<1> QED BY <1>4 DEF h

(* Rounding a score before it is compared passes everybody who has the     *)
(* share asked for, in a quiz of any length, and nobody who is more than   *)
(* half a percent short; and a progress is not shown as 100 before its     *)
(* end if it has fewer than 200 units (grade.ts:35, progress.ts).          *)
THEOREM RoundingIsLenient ==
  ASSUME NEW n \in Nat \ {0}, n < 200
  PROVE  RoundedUpAtMost(n)
<1> SUFFICES ASSUME NEW right \in 0 .. n
             PROVE  /\ \A score \in Percents(right, n) : \A threshold \in 0 .. 100 :
                         /\ 100 * right >= threshold * n => Passes(n, score, threshold)
                         /\ Passes(n, score, threshold)
                              => 200 * right >= (2 * threshold - 1) * n
                    /\ right < n => 100 \notin Percents(right, n)
  BY DEF RoundedUpAtMost
<1>1. right \in Nat OBVIOUS
<1>2. ASSUME NEW score \in Percents(right, n), NEW threshold \in 0 .. 100,
             100 * right >= threshold * n
      PROVE  Passes(n, score, threshold)
  <2>1. score >= threshold BY <1>1, <1>2, ScoreEnough
  <2> QED BY <2>1 DEF Passes
<1>3. ASSUME NEW score \in Percents(right, n), NEW threshold \in 0 .. 100,
             Passes(n, score, threshold)
      PROVE  200 * right >= (2 * threshold - 1) * n
  <2>1. 2 * (n * threshold) <= 200 * right + n BY <1>1, <1>3, ScoreEarned DEF Passes
  <2>2. (2 * threshold - 1) * n = 2 * (n * threshold) - n OBVIOUS
  <2> DEFINE h == n * threshold
  <2>3. h \in Int OBVIOUS
  <2> HIDE DEF h
  <2> QED BY <1>1, <2>1, <2>2, <2>3 DEF h
<1>4. ASSUME right < n, 100 \in Percents(right, n) PROVE FALSE
  <2>1. 2 * (n * 100) <= 200 * right + n BY <1>1, <1>4, ScoreNear
  <2> QED BY <1>1, <1>4, <2>1
<1> QED BY <1>2, <1>3, <1>4

(* The same of the quizzes whose rounding is looked at.                    *)
THEOREM RoundingLenientHolds ==
  ASSUME MaxTotal < 200
  PROVE  Spec => []RoundingLenient
<1> DEFINE Sized == part = "grading" => total \in Nat \ {0} /\ total < 200
<1>1. Init => Sized BY TotalAssumption DEF Init
<1>2. Sized /\ [Next]_vars => Sized' BY DEF Next, vars
<1>3. Sized => RoundingLenient BY RoundingIsLenient DEF RoundingLenient
<1> QED BY <1>1, <1>2, <1>3, PTL DEF Spec

-----------------------------------------------------------------------------
(* Courses.                                                                *)

(* Rounding does not pass anybody who is short of the share asked for.     *)
ScoresTell ==
  \A right \in 0 .. Cardinality(Questions) :
    \A score \in Percents(right, Cardinality(Questions)) :
      score >= PassingScore => 100 * right >= PassingScore * Cardinality(Questions)

(* That is so at every threshold in tens - the code knows 70 only - if     *)
(* there are fewer than twenty questions.                                  *)
THEOREM TensTell ==
  ASSUME PassingScore % 10 = 0, Cardinality(Questions) \in 1 .. 19
  PROVE  ScoresTell
<1> DEFINE n == Cardinality(Questions)
           k == PassingScore \div 10
<1>1. PassingScore \in Nat /\ PassingScore \in 0 .. 100 BY QuizAssumption
<1>2. k \in Nat /\ PassingScore = 10 * k
  <2>1. 10 \in Nat \ {0} OBVIOUS
  <2> QED BY <1>1, <2>1, Division
<1> SUFFICES ASSUME NEW right \in 0 .. n, NEW score \in Percents(right, n), score >= PassingScore,
                    100 * right < PassingScore * n
             PROVE  FALSE
  <2>1. PassingScore * n \in Int /\ \A right \in 0 .. n : 100 * right \in Int BY <1>1
  <2> QED BY <2>1 DEF ScoresTell
<1>3. n \in Nat \ {0} /\ n < 20 /\ right \in Nat OBVIOUS
<1> HIDE DEF k, n
<1>4. 2 * (n * PassingScore) <= 200 * right + n BY <1>1, <1>3, ScoreEarned
<1> DEFINE m == k * n
<1>5. m \in Nat /\ n * PassingScore = 10 * m /\ PassingScore * n = 10 * m BY <1>2, <1>3
<1> HIDE DEF m
<1> QED BY <1>3, <1>4, <1>5

CourseTypes ==
  /\ lessons \subseteq Lessons
  /\ {quiz, grown, cut} \subseteq BOOLEAN /\ enrolment \in {"none", "open", "completed"}
  /\ request \in [Requests -> [pc : {"idle", "load", "relations", "write"},
                               marked : BOOLEAN, complete : BOOLEAN]]

(* The attempts that passed are those with the share asked for.            *)
Graded ==
  \A a \in attempts :
    a.passed <=> 100 * Right(a.answers) >= PassingScore * Cardinality(Questions)

Untried ==
  enrolment = "none" => progress = {} /\ attempts = {} /\ \A r \in Requests : request[r].pc = "idle"

(* While the course does not grow, who has seen the mark, or everything    *)
(* done, has seen what stays so; and if everything is done and the mark is *)
(* missing, somebody is still on the way to set it, or was cut on it.      *)
Seen(r) ==
  /\ request[r].pc \in {"relations", "write"} /\ request[r].marked => enrolment = "completed"
  /\ request[r].pc = "write" /\ request[r].complete => AllDone
  /\ request[r].pc = "write" /\ request[r].marked => request[r].complete

OnTheWay(r) ==
  request[r].pc \in {"load", "relations"} \/ (request[r].pc = "write" /\ request[r].complete)

MarkInv ==
  ~ grown /\ enrolment # "none" =>
    /\ \A r \in Requests : Seen(r)
    /\ enrolment = "completed" => AllDone
    /\ AllDone /\ enrolment = "open" => cut \/ \E r \in Requests : OnTheWay(r)

CourseInv == CourseTypes /\ Graded /\ Untried /\ MarkInv

(* courseProgress tells when everything is done.                           *)
LEMMA CompletedIsAllDone ==
  ASSUME CourseTypes, Graded
  PROVE  Completed <=> AllDone
<1> DEFINE all == Cardinality(lessons)
           done == Cardinality(lessons \cap progress)
           passed == \E a \in attempts : a.passed
           q == IF quiz THEN 1 ELSE 0
           p == IF quiz /\ passed THEN 1 ELSE 0
<1>1. IsFiniteSet(lessons) BY QuizAssumption, FS_Subset DEF CourseTypes
<1>2. /\ all \in Nat /\ done \in Nat /\ done <= all
      /\ (done = all <=> lessons \subseteq progress)
      /\ (all = 0 <=> lessons = {})
  <2>1. lessons \cap progress \in SUBSET lessons OBVIOUS
  <2>2. done <= all /\ (done = all <=> lessons \cap progress = lessons)
    BY <1>1, <2>1, FS_Subset, FS_CardinalityType
  <2>3. all \in Nat /\ done \in Nat BY <1>1, <2>1, FS_Subset, FS_CardinalityType
  <2>4. all = 0 <=> lessons = {} BY <1>1, FS_EmptySet
  <2> QED BY <2>2, <2>3, <2>4
<1>3. q \in 0 .. 1 /\ p \in 0 .. 1 /\ p <= q /\ (q = 1 <=> quiz) /\ (p = q <=> (quiz => passed))
  OBVIOUS
<1>4. Completed <=> all + q > 0 /\ done + p = all + q BY DEF Completed
<1>5. passed <=> \E a \in attempts :
                   100 * Right(a.answers) >= PassingScore * Cardinality(Questions)
  BY DEF Graded
<1>6. AllDone <=> (lessons # {} \/ quiz) /\ lessons \subseteq progress /\ (quiz => passed)
  BY <1>5 DEF AllDone
<1> HIDE DEF all, done, passed, q, p
<1>7. all + q > 0 <=> lessons # {} \/ quiz BY <1>2, <1>3
<1>8. done + p = all + q <=> done = all /\ p = q BY <1>2, <1>3
<1> QED BY <1>2, <1>3, <1>4, <1>6, <1>7, <1>8

(* An attempt passes just if it has the share asked for.                   *)
LEMMA PassedTells ==
  ASSUME ScoresTell, Questions # {}, NEW answers, NEW score \in Percents(Right(answers), Cardinality(Questions))
  PROVE  Passed(answers, score) <=> 100 * Right(answers) >= PassingScore * Cardinality(Questions)
<1> DEFINE n == Cardinality(Questions)
           k == Right(answers)
<1>1. n \in Nat \ {0} BY QuizAssumption, FS_CardinalityType, FS_EmptySet
<1>2. k \in 0 .. n
  <2> DEFINE S == {q \in Questions : answers[q] = Correct[q]}
  <2>1. S \in SUBSET Questions OBVIOUS
  <2> HIDE DEF S
  <2>2. Cardinality(S) <= n /\ Cardinality(S) \in Nat
    BY <2>1, QuizAssumption, FS_Subset, FS_CardinalityType
  <2> QED BY <1>1, <2>2 DEF S, Right
<1>3. score >= PassingScore => 100 * k >= PassingScore * n BY <1>2 DEF ScoresTell
<1> HIDE DEF k
<1>4. 100 * k >= PassingScore * n => score >= PassingScore
  <2>1. k \in Nat /\ PassingScore \in 0 .. 100 /\ score \in Percents(k, n) BY <1>1, <1>2, QuizAssumption DEF k
  <2> HIDE DEF n
  <2> QED BY <1>1, <2>1, ScoreEnough
<1> QED BY <1>1, <1>3, <1>4 DEF Passed, Passes, k

LEMMA GradedKept ==
  ASSUME CourseTypes, Graded, [CourseNext]_courseVars, ScoresTell, Questions # {}
  PROVE  Graded'
<1>1. CASE attempts' = attempts BY <1>1 DEF Graded
<1>2. ASSUME NEW r \in Requests, SubmitQuiz(r) PROVE Graded'
  <2>1. PICK answers :
          \E score \in Percents(Right(answers), Cardinality(Questions)) :
            attempts' = attempts \cup {[answers |-> answers, passed |-> Passed(answers, score)]}
    BY <1>2 DEF SubmitQuiz
  <2>2. PICK score \in Percents(Right(answers), Cardinality(Questions)) :
          attempts' = attempts \cup {[answers |-> answers, passed |-> Passed(answers, score)]}
    BY <2>1
  <2> DEFINE b == Passed(answers, score)
             a == [answers |-> answers, passed |-> b]
  <2>3. b <=> 100 * Right(answers) >= PassingScore * Cardinality(Questions) BY PassedTells
  <2>4. a.answers = answers /\ a.passed = b OBVIOUS
  <2>5. attempts' = attempts \cup {a} BY <2>2
  <2> HIDE DEF b, a
  <2>6. ASSUME NEW x \in attempts'
        PROVE  x.passed <=> 100 * Right(x.answers) >= PassingScore * Cardinality(Questions)
    <3>1. CASE x = a BY <2>3, <2>4, <3>1
    <3>2. CASE x \in attempts BY <3>2 DEF Graded
    <3> QED BY <2>5, <3>1, <3>2
  <2> QED BY <2>6 DEF Graded
<1> QED
  BY <1>1, <1>2 DEF CourseNext, courseVars, AddLesson, Generated, AddQuiz, Enrol, CompleteLesson,
     Load, LoadRelations, Mark, RequestCut

LEMMA CourseTypesKept ==
  ASSUME CourseTypes, [CourseNext]_courseVars PROVE CourseTypes'
<1>1. CASE AddLesson BY <1>1 DEF AddLesson, CourseTypes
<1>2. CASE Generated BY <1>2 DEF Generated, CourseTypes
<1>3. CASE AddQuiz BY <1>3 DEF AddQuiz, CourseTypes
<1>4. CASE Enrol BY <1>4 DEF Enrol, CourseTypes
<1>5. ASSUME NEW r \in Requests, CompleteLesson(r) PROVE CourseTypes'
  BY <1>5 DEF CompleteLesson, CourseTypes
<1>6. ASSUME NEW r \in Requests, SubmitQuiz(r) PROVE CourseTypes'
  BY <1>6 DEF SubmitQuiz, CourseTypes
<1>7. ASSUME NEW r \in Requests, Load(r) PROVE CourseTypes'
  BY <1>7, ZenonT(40) DEF Load, CourseTypes
<1>8. ASSUME NEW r \in Requests, LoadRelations(r) PROVE CourseTypes'
  <2> DEFINE c == Completed
  <2>1. c \in BOOLEAN BY DEF Completed
  <2>2. request' = [request EXCEPT ![r].pc = "write", ![r].complete = c] BY <1>8 DEF LoadRelations
  <2>3. cut' = FALSE /\ UNCHANGED <<lessons, quiz, grown, enrolment>> BY <1>8 DEF LoadRelations
  <2> HIDE DEF c
  <2>4. request' \in [Requests -> [pc : {"idle", "load", "relations", "write"},
                                   marked : BOOLEAN, complete : BOOLEAN]]
    BY <2>1, <2>2 DEF CourseTypes
  <2> QED BY <2>3, <2>4 DEF CourseTypes
<1>9. ASSUME NEW r \in Requests, Mark(r) PROVE CourseTypes'
  BY <1>9 DEF Mark, CourseTypes, Idle
<1>10. ASSUME NEW r \in Requests, RequestCut(r) PROVE CourseTypes'
  BY <1>10 DEF RequestCut, CourseTypes, Idle
<1>11. CASE UNCHANGED courseVars BY <1>11 DEF courseVars, CourseTypes
<1> QED
  BY <1>1, <1>2, <1>3, <1>4, <1>5, <1>6, <1>7, <1>8, <1>9, <1>10, <1>11 DEF CourseNext

LEMMA UntriedKept ==
  ASSUME CourseTypes, Untried, [CourseNext]_courseVars PROVE Untried'
<1>1. CASE AddLesson BY <1>1 DEF AddLesson, Untried
<1>2. CASE Generated BY <1>2 DEF Generated, Untried
<1>3. CASE AddQuiz BY <1>3 DEF AddQuiz, Untried
<1>4. CASE Enrol BY <1>4 DEF Enrol, Untried
<1>5. ASSUME NEW r \in Requests, CompleteLesson(r) PROVE Untried'
  BY <1>5 DEF CompleteLesson, Untried
<1>6. ASSUME NEW r \in Requests, SubmitQuiz(r) PROVE Untried' BY <1>6 DEF SubmitQuiz, Untried
<1>7. ASSUME NEW r \in Requests, Load(r) PROVE Untried' BY <1>7 DEF Load, Untried
<1>8. ASSUME NEW r \in Requests, LoadRelations(r) PROVE Untried'
  BY <1>8 DEF LoadRelations, Untried
<1>9. ASSUME NEW r \in Requests, Mark(r) PROVE Untried'
  BY <1>9 DEF Mark, Untried
<1>10. ASSUME NEW r \in Requests, RequestCut(r) PROVE Untried'
  BY <1>10 DEF RequestCut, Untried
<1>11. CASE UNCHANGED courseVars BY <1>11 DEF courseVars, Untried
<1> QED
  BY <1>1, <1>2, <1>3, <1>4, <1>5, <1>6, <1>7, <1>8, <1>9, <1>10, <1>11 DEF CourseNext

(* Everything done stays done while the course does not grow.              *)
LEMMA DoneStays ==
  ASSUME CourseTypes, [CourseNext]_courseVars, ~ grown', enrolment # "none", AllDone
  PROVE  AllDone' /\ ~ grown
<1>1. CASE AddLesson BY <1>1 DEF AddLesson
<1>2. CASE AddQuiz BY <1>2 DEF AddQuiz
<1>3. CASE UNCHANGED <<lessons, quiz, grown, attempts, progress>> BY <1>3 DEF AllDone
<1>4. ASSUME NEW r \in Requests, CompleteLesson(r) PROVE AllDone' /\ ~ grown
  <2>1. progress \subseteq progress' /\ UNCHANGED <<lessons, quiz, grown, attempts>>
    BY <1>4 DEF CompleteLesson
  <2> QED BY <2>1 DEF AllDone
<1>5. ASSUME NEW r \in Requests, SubmitQuiz(r) PROVE AllDone' /\ ~ grown
  <2>1. attempts \subseteq attempts' /\ UNCHANGED <<lessons, quiz, grown, progress>>
    BY <1>5 DEF SubmitQuiz
  <2> QED BY <2>1 DEF AllDone
<1> QED
  BY <1>1, <1>2, <1>3, <1>4, <1>5 DEF CourseNext, courseVars, Generated, Enrol, Load, LoadRelations,
     Mark, RequestCut

(* Before he enrols, a learner has done nothing.                           *)
LEMMA NothingDone == ASSUME Untried, enrolment = "none" PROVE ~ AllDone
BY DEF Untried, AllDone

LEMMA MarkKept ==
  ASSUME CourseInv, [CourseNext]_courseVars PROVE MarkInv'
<1> USE DEF CourseInv
<1> SUFFICES ASSUME ~ grown', enrolment' # "none" PROVE MarkInv' BY DEF MarkInv
<1>1. CASE enrolment = "none"
  <2>1. Enrol
    BY <1>1 DEF CourseNext, courseVars, AddLesson, Generated, AddQuiz, CompleteLesson, SubmitQuiz,
       Load, LoadRelations, Mark, RequestCut, Untried
  <2>2. enrolment' = "open" /\ UNCHANGED <<lessons, quiz, progress, attempts, request>>
    BY <2>1 DEF Enrol
  <2>3. ~ AllDone' BY <1>1, <2>2, NothingDone DEF AllDone
  <2>4. \A r \in Requests : Seen(r)' BY <1>1, <2>2 DEF Untried, Seen
  <2> QED BY <2>2, <2>3, <2>4 DEF MarkInv
<1>2. CASE enrolment # "none"
  <2>0. ~ grown /\ (AllDone => AllDone')
    <3>1. ~ grown
      BY DEF CourseNext, courseVars, AddLesson, Generated, AddQuiz, Enrol, CompleteLesson, SubmitQuiz,
         Load, LoadRelations, Mark, RequestCut
    <3> QED BY <1>2, <3>1, DoneStays
  <2>1. MarkInv /\ (\A r \in Requests : Seen(r)) /\ (enrolment = "completed" => AllDone)
        /\ (AllDone /\ enrolment = "open" => cut \/ \E r \in Requests : OnTheWay(r))
        /\ request \in [Requests -> [pc : {"idle", "load", "relations", "write"},
                                     marked : BOOLEAN, complete : BOOLEAN]]
        /\ enrolment \in {"open", "completed"}
    BY <1>2, <2>0 DEF MarkInv, CourseTypes
  <2>2. ASSUME UNCHANGED <<lessons, quiz, progress, attempts, request, enrolment, cut>> PROVE MarkInv'
    <3>1. AllDone' <=> AllDone BY <2>2 DEF AllDone
    <3> QED BY <2>1, <2>2, <3>1 DEF MarkInv, Seen, OnTheWay
  <2>3. ASSUME NEW r \in Requests, CompleteLesson(r) \/ SubmitQuiz(r) PROVE MarkInv'
    <3>1. enrolment' = enrolment /\ request' = [request EXCEPT ![r].pc = "load"]
      BY <2>3 DEF CompleteLesson, SubmitQuiz
    <3>2. OnTheWay(r)' BY <2>1, <3>1 DEF OnTheWay
    <3>3. ASSUME NEW s \in Requests PROVE Seen(s)'
      <4>1. CASE s = r BY <2>1, <3>1, <4>1 DEF Seen
      <4>2. CASE s # r BY <2>0, <2>1, <3>1, <4>2 DEF Seen
      <4> QED BY <4>1, <4>2
    <3> QED BY <2>0, <2>1, <3>1, <3>2, <3>3 DEF MarkInv
  <2>4. ASSUME NEW r \in Requests, Load(r) PROVE MarkInv'
    <3> DEFINE m == enrolment = "completed"
    <3>1. UNCHANGED <<lessons, quiz, progress, attempts, enrolment>> /\ m \in BOOLEAN
          /\ request' = [request EXCEPT ![r].pc = "relations", ![r].marked = m]
      BY <2>4 DEF Load
    <3>2. AllDone' <=> AllDone BY <3>1 DEF AllDone
    <3> HIDE DEF m
    <3>3. request'[r].pc = "relations" /\ request'[r].marked = m
          /\ \A s \in Requests \ {r} : request'[s] = request[s]
      BY <2>1, <3>1
    <3>4. OnTheWay(r)' BY <3>3 DEF OnTheWay
    <3>5. ASSUME NEW s \in Requests PROVE Seen(s)'
      <4>1. CASE s = r
        <5>1. request'[r].marked => enrolment' = "completed" BY <3>1, <3>3 DEF m
        <5> QED BY <3>3, <4>1, <5>1 DEF Seen
      <4>2. CASE s # r BY <2>1, <3>1, <3>2, <3>3, <4>2 DEF Seen
      <4> QED BY <4>1, <4>2
    <3> QED BY <2>1, <3>1, <3>2, <3>4, <3>5 DEF MarkInv
  <2>5. ASSUME NEW r \in Requests, LoadRelations(r) PROVE MarkInv'
    <3> DEFINE c == Completed
    <3>1. UNCHANGED <<lessons, quiz, progress, attempts, enrolment>> /\ c \in BOOLEAN
          /\ request' = [request EXCEPT ![r].pc = "write", ![r].complete = c]
          /\ request[r].pc = "relations"
      BY <2>5 DEF LoadRelations, Completed
    <3>2. (AllDone' <=> AllDone) /\ (c <=> AllDone) BY <3>1, CompletedIsAllDone DEF AllDone
    <3> HIDE DEF c
    <3>3. request'[r].pc = "write" /\ request'[r].marked = request[r].marked
          /\ request'[r].complete = c
          /\ \A s \in Requests \ {r} : request'[s] = request[s]
      BY <2>1, <3>1
    <3>4. AllDone => OnTheWay(r)' BY <3>2, <3>3 DEF OnTheWay
    <3>5. ASSUME NEW s \in Requests PROVE Seen(s)'
      <4>1. CASE s = r
        <5>1. request[r].marked => enrolment = "completed" /\ AllDone BY <2>1, <3>1 DEF Seen
        <5> QED BY <3>1, <3>2, <3>3, <4>1, <5>1 DEF Seen
      <4>2. CASE s # r BY <2>1, <3>1, <3>2, <3>3, <4>2 DEF Seen
      <4> QED BY <4>1, <4>2
    <3> QED BY <2>1, <3>1, <3>2, <3>4, <3>5 DEF MarkInv
  <2>6. ASSUME NEW r \in Requests, Mark(r) PROVE MarkInv'
    <3>1. UNCHANGED <<lessons, quiz, progress, attempts, cut>> /\ request' = [request EXCEPT ![r] = Idle]
          /\ request[r].pc = "write"
          /\ enrolment' = IF request[r].complete = request[r].marked THEN enrolment
                          ELSE IF request[r].complete THEN "completed" ELSE "open"
      BY <2>6 DEF Mark
    <3>2. AllDone' <=> AllDone BY <3>1 DEF AllDone
    <3>3. request'[r].pc = "idle" /\ \A s \in Requests \ {r} : request'[s] = request[s]
      BY <2>1, <3>1 DEF Idle
    <3>4. Seen(r) /\ request[r].complete \in BOOLEAN /\ request[r].marked \in BOOLEAN BY <2>1
    <3>5. /\ enrolment' \in {"open", "completed"}
          /\ enrolment = "completed" => enrolment' = "completed"
          /\ enrolment' = "completed" => enrolment = "completed" \/ AllDone
          /\ enrolment' = "open" => ~ request[r].complete
      <4>1. CASE request[r].complete = TRUE BY <2>1, <3>1, <3>4, <4>1 DEF Seen
      <4>2. CASE request[r].complete = FALSE
        <5>1. request[r].marked = FALSE BY <3>1, <3>4, <4>2 DEF Seen
        <5> QED BY <2>1, <3>1, <4>2, <5>1
      <4> QED BY <3>4, <4>1, <4>2
    <3>6. ASSUME NEW s \in Requests PROVE Seen(s)'
      <4>1. CASE s = r BY <3>3, <4>1 DEF Seen
      <4>2. CASE s # r BY <2>1, <3>2, <3>3, <3>5, <4>2 DEF Seen
      <4> QED BY <4>1, <4>2
    <3>7. ASSUME AllDone', enrolment' = "open", ~ cut' PROVE \E s \in Requests : OnTheWay(s)'
      <4>1. enrolment = "open" /\ AllDone /\ ~ cut BY <2>1, <3>1, <3>2, <3>5, <3>7
      <4>2. PICK s \in Requests : OnTheWay(s) BY <2>1, <4>1
      <4>3. s # r BY <3>1, <3>5, <3>7, <4>2 DEF OnTheWay
      <4> QED BY <3>3, <4>2, <4>3 DEF OnTheWay
    <3>8. enrolment' = "completed" => AllDone' BY <2>1, <3>2, <3>5
    <3> QED BY <3>6, <3>7, <3>8 DEF MarkInv
  <2>7. ASSUME NEW r \in Requests, RequestCut(r) PROVE MarkInv'
    <3>1. UNCHANGED <<lessons, quiz, progress, attempts, enrolment>> /\ cut'
          /\ request' = [request EXCEPT ![r] = Idle]
      BY <2>7 DEF RequestCut
    <3>2. AllDone' <=> AllDone BY <3>1 DEF AllDone
    <3>3. request'[r].pc = "idle" /\ \A s \in Requests \ {r} : request'[s] = request[s]
      BY <2>1, <3>1 DEF Idle
    <3>4. ASSUME NEW s \in Requests PROVE Seen(s)'
      <4>1. CASE s = r BY <3>3, <4>1 DEF Seen
      <4>2. CASE s # r BY <2>1, <3>1, <3>2, <3>3, <4>2 DEF Seen
      <4> QED BY <4>1, <4>2
    <3> QED BY <2>1, <3>1, <3>2, <3>4 DEF MarkInv
  <2>8. UNCHANGED <<lessons, quiz, progress, attempts, request, enrolment, cut>>
        \/ \E r \in Requests : \/ CompleteLesson(r) \/ SubmitQuiz(r) \/ Load(r)
                               \/ LoadRelations(r) \/ Mark(r) \/ RequestCut(r)
    BY <1>2 DEF CourseNext, courseVars, AddLesson, Generated, AddQuiz, Enrol
  <2> QED BY <2>2, <2>3, <2>4, <2>5, <2>6, <2>7, <2>8
<1> QED BY <1>1, <1>2

(* Once nothing of a learner's is under way, a course marked as completed  *)
(* is done, and one that is done is marked or waits for the request that   *)
(* was cut, for any number of requests under way at a time and cut         *)
(* anywhere - if it did not grow after he enrolled, its quiz has a         *)
(* question, and rounding passes nobody it should not                      *)
(* (recomputeCompletion).  Whoever makes the last step computes after it,  *)
(* and what is computed meanwhile by others is not taken back: with        *)
(* everything done, no request that saw the mark finds the course open.    *)
THEOREM CompletionRightHolds ==
  ASSUME Questions # {}, ScoresTell
  PROVE  CourseSpec => []CompletionRight
<1>1. CourseInit => CourseInv
  <2> SUFFICES ASSUME CourseInit PROVE CourseInv OBVIOUS
  <2>1. CourseTypes BY DEF CourseInit, CourseTypes, Idle
  <2>2. Graded /\ Untried /\ MarkInv BY DEF CourseInit, Graded, Untried, MarkInv, Idle
  <2> QED BY <2>1, <2>2 DEF CourseInv
<1>2. CourseInv /\ [CourseNext]_courseVars => CourseInv'
  BY CourseTypesKept, GradedKept, UntriedKept, MarkKept DEF CourseInv
<1>3. CourseInv => CompletionRight
  <2> SUFFICES ASSUME CourseInv, \A r \in Requests : request[r].pc = "idle", ~ grown
               PROVE  /\ enrolment = "completed" => AllDone
                      /\ enrolment = "open" /\ AllDone => cut
    BY DEF CompletionRight
  <2>1. \A r \in Requests : ~ OnTheWay(r) BY DEF OnTheWay
  <2>2. CASE enrolment = "none" BY <2>2
  <2>3. CASE enrolment = "open" BY <2>1, <2>3 DEF CourseInv, MarkInv
  <2>4. CASE enrolment = "completed" BY <2>4 DEF CourseInv, MarkInv
  <2> QED BY <2>2, <2>3, <2>4 DEF CourseInv, CourseTypes
<1> QED BY <1>1, <1>2, <1>3, PTL DEF CourseSpec

(* A course whose quizzes have fewer than twenty questions and thresholds  *)
(* in tens is one of those.                                                *)
THEOREM CompletionRightAsDeployed ==
  ASSUME PassingScore % 10 = 0, Cardinality(Questions) \in 1 .. 19
  PROVE  CourseSpec => []CompletionRight
<1>1. Questions # {} BY FS_EmptySet
<1>2. ScoresTell BY TensTell
<1> QED BY <1>1, <1>2, CompletionRightHolds


-----------------------------------------------------------------------------
(* The tree: what the walks give, and the tree that is shown.              *)

TreeTypes ==
  /\ parent \in [Nodes -> Nodes \cup {Top}]
  /\ slug = [p \in Existing |-> slug[p]] /\ Existing \subseteq Nodes
  /\ creating \in [Nodes -> [pc : {"idle", "insert", "failed"}, parent : Nodes \cup {Top},
                             slug : Seq(Nat), alone : BOOLEAN]]

Steps == 0 .. Cardinality(Nodes)

LEMMA StepsCount ==
  /\ Cardinality(Nodes) \in Nat
  /\ IsFiniteSet(Steps) /\ Cardinality(Steps) = Cardinality(Nodes) + 1
<1>1. Cardinality(Nodes) \in Nat BY TopAssumption, FS_CardinalityType
<1>2. 0 \in Int /\ Cardinality(Nodes) \in Int BY <1>1
<1> QED BY <1>1, <1>2, FS_Interval DEF Steps

(* Above is the range of a function that walks up from its argument.       *)
IsWalk(W, p) ==
  /\ W \in [Steps -> Nodes \cup {Top}]
  /\ W[0] = p
  /\ \A n \in Steps \ {0} : W[n] = Up(W[n - 1])

LEMMA AboveIsWalked ==
  ASSUME TreeTypes, NEW p \in Nodes
  PROVE  \E W : IsWalk(W, p) /\ Above(p) = {W[n] : n \in 1 .. Cardinality(Nodes)} \ {Top}
<1> DEFINE m == Cardinality(Nodes)
           X == Nodes \cup {Top}
           F == [x \in X |-> Up(x)]
           W == CHOOSE W : W = [n \in 0 .. m |-> IF n = 0 THEN p ELSE Up(W[n - 1])]
<1>1. m \in Nat BY StepsCount
<1>2. \A x \in X : Up(x) \in X BY DEF Up, TreeTypes
<1>3. F \in [X -> X] BY <1>2
<1>4. \A x \in X : F[x] = Up(x) OBVIOUS
<1>5. p \in X OBVIOUS
<1> HIDE DEF m, X, F, W
<1>6. PICK f \in [0 .. m -> X] : f[0] = p /\ \A n \in 1 .. m : f[n] = F[f[n - 1]]
  <2>1. \E f \in [0 .. m -> X] : Iterates(f, p, F, m)
    BY <1>1, <1>3, <1>5, StepwiseUpTo
  <2> QED BY <2>1 DEF Iterates
<1>7. f = [n \in 0 .. m |-> IF n = 0 THEN p ELSE Up(f[n - 1])]
  <2>0. \A n \in 0 .. m : f[n] \in X BY <1>6
  <2>1. \A n \in 0 .. m : n # 0 => f[n - 1] \in X
    <3>1. \A n \in 0 .. m : n # 0 => n - 1 \in 0 .. m BY <1>1
    <3> QED BY <2>0, <3>1
  <2>2. \A n \in 0 .. m : f[n] = IF n = 0 THEN p ELSE Up(f[n - 1])
    <3> SUFFICES ASSUME NEW n \in 0 .. m PROVE f[n] = IF n = 0 THEN p ELSE Up(f[n - 1])
      OBVIOUS
    <3>1. CASE n = 0 BY <1>6, <3>1
    <3>2. CASE n # 0
      <4>1. n \in 1 .. m BY <1>1, <3>2
      <4>2. f[n] = F[f[n - 1]] BY <1>6, <4>1
      <4>3. f[n - 1] \in X BY <2>1, <3>2
      <4> QED BY <1>4, <3>2, <4>2, <4>3
    <3> QED BY <3>1, <3>2
  <2>3. DOMAIN f = 0 .. m BY <1>6
  <2> QED BY <1>6, <2>2, <2>3
<1>8. W = [n \in 0 .. m |-> IF n = 0 THEN p ELSE Up(W[n - 1])] BY <1>7 DEF W
<1>9. Above(p) = {W[n] : n \in 1 .. m} \ {Top} BY DEF Above, m, W
<1>10. W[0] = p BY <1>1, <1>8
<1>11. \A n \in 1 .. m : W[n] = Up(W[n - 1]) BY <1>1, <1>8
<1>12. 0 .. m \subseteq {n \in 0 .. m : W[n] \in X}
  <2> DEFINE S == {n \in 0 .. m : W[n] \in X}
  <2>1. 0 \in S BY <1>1, <1>5, <1>10
  <2>2. \A n \in 0 .. m - 1 : n \in S => n + 1 \in S
    <3> SUFFICES ASSUME NEW n \in 0 .. m - 1, W[n] \in X PROVE n + 1 \in 0 .. m /\ W[n + 1] \in X
      OBVIOUS
    <3>1. n + 1 \in 1 .. m /\ (n + 1) - 1 = n BY <1>1
    <3>2. W[n + 1] = Up(W[n]) BY <1>11, <3>1
    <3> QED BY <1>1, <1>2, <3>1, <3>2
  <2> HIDE DEF S
  <2>3. 0 .. m \subseteq S BY <1>1, <2>1, <2>2, InductionUpTo
  <2> QED BY <2>3 DEF S
<1>13. W \in [0 .. m -> X] BY <1>8, <1>12
<1>14. IsWalk(W, p)
  <2>1. Steps \ {0} = 1 .. m BY <1>1 DEF Steps, m
  <2> QED BY <1>10, <1>11, <1>13, <2>1 DEF IsWalk, Steps, m, X
<1> QED BY <1>9, <1>14 DEF m

(* What is listed after so many levels, each of which adds the pages that  *)
(* hang below one of the last.                                             *)
LEMMA ListedByLevel ==
  ASSUME TreeTypes
  PROVE  \E L : /\ Listed = L[Cardinality(Nodes)] /\ L[0] = Roots
                /\ \A n \in Steps \ {0} : L[n] = L[n - 1] \cup {p \in Live : parent[p] \in L[n - 1]}
<1> DEFINE m == Cardinality(Nodes)
           X == SUBSET Nodes
           F == [S \in X |-> S \cup {p \in Live : parent[p] \in S}]
           L == CHOOSE L : L = [n \in 0 .. m |-> IF n = 0 THEN Roots ELSE
                                  L[n - 1] \cup {p \in Live : parent[p] \in L[n - 1]}]
<1>1. m \in Nat BY StepsCount
<1>0. Live \subseteq Nodes BY DEF TreeTypes, Live
<1>2. F \in [X -> X] BY <1>0
<1>3. \A S \in X : F[S] = S \cup {p \in Live : parent[p] \in S} OBVIOUS
<1>4. Roots \in X BY <1>0 DEF Roots
<1> HIDE DEF m, X, F, L
<1>5. PICK f \in [0 .. m -> X] : f[0] = Roots /\ \A n \in 1 .. m : f[n] = F[f[n - 1]]
  <2>1. \E f \in [0 .. m -> X] : Iterates(f, Roots, F, m)
    BY <1>1, <1>2, <1>4, StepwiseUpTo
  <2> QED BY <2>1 DEF Iterates
<1>6. f = [n \in 0 .. m |-> IF n = 0 THEN Roots ELSE
              f[n - 1] \cup {p \in Live : parent[p] \in f[n - 1]}]
  <2>0. \A n \in 0 .. m : f[n] \in X BY <1>5
  <2>1. \A n \in 0 .. m : n # 0 => f[n - 1] \in X
    <3>1. \A n \in 0 .. m : n # 0 => n - 1 \in 0 .. m BY <1>1
    <3> QED BY <2>0, <3>1
  <2>2. \A n \in 0 .. m : n # 0 => F[f[n - 1]] = f[n - 1] \cup {p \in Live : parent[p] \in f[n - 1]}
    BY <1>3, <2>1
  <2>3. DOMAIN f = 0 .. m BY <1>5
  <2>4. \A n \in 0 .. m : f[n] = IF n = 0 THEN Roots ELSE F[f[n - 1]] BY <1>1, <1>5
  <2> QED BY <2>2, <2>3, <2>4, <1>5
<1>7. L = [n \in 0 .. m |-> IF n = 0 THEN Roots ELSE
              L[n - 1] \cup {p \in Live : parent[p] \in L[n - 1]}] BY <1>6 DEF L
<1>8. Listed = L[m] BY DEF Listed, m, L
<1>9. L[0] = Roots BY <1>1, <1>7
<1>10. \A n \in 1 .. m : L[n] = L[n - 1] \cup {p \in Live : parent[p] \in L[n - 1]} BY <1>1, <1>7
<1>11. Steps \ {0} = 1 .. m BY <1>1 DEF Steps, m
<1> QED BY <1>8, <1>9, <1>10, <1>11 DEF m


(* A walk as it goes on from one of its pages.                             *)
LEMMA WalkGoesOn ==
  ASSUME NEW p, NEW q, NEW W, NEW V, IsWalk(W, p), IsWalk(V, q),
         NEW i \in Steps, W[i] = q, NEW k \in Steps, i + k \in Steps
  PROVE  V[k] = W[i + k]
<1> DEFINE m == Cardinality(Nodes)
           S == {n \in Nat : i + n \in Steps => V[n] = W[i + n]}
<1>1. m \in Nat BY StepsCount
<1>2. 0 \in S BY <1>1 DEF IsWalk, Steps
<1>3. ASSUME NEW n \in Nat, n \in S PROVE n + 1 \in S
  <2> SUFFICES ASSUME i + (n + 1) \in Steps PROVE V[n + 1] = W[i + (n + 1)]
    OBVIOUS
  <2>1. /\ i + n \in Steps /\ n + 1 \in Steps \ {0} /\ (n + 1) - 1 = n
        /\ i + (n + 1) \in Steps \ {0} /\ (i + (n + 1)) - 1 = i + n
    BY <1>1 DEF Steps
  <2>2. V[n] = W[i + n] BY <1>3, <2>1
  <2>3. V[n + 1] = Up(V[n]) /\ W[i + (n + 1)] = Up(W[i + n]) BY <2>1 DEF IsWalk
  <2> QED BY <2>2, <2>3
<1> HIDE DEF S
<1>4. k \in S BY <1>1, <1>2, <1>3, NumberInduction DEF Steps
<1> QED BY <1>4 DEF S

(* A walk that stays among the pages comes back to one of them, which is   *)
(* above itself.                                                           *)
LEMMA EndlessComesBack ==
  ASSUME TreeTypes, NEW p \in Nodes, NEW W, IsWalk(W, p), \A n \in Steps : W[n] \in Nodes,
         Above(p) = {W[n] : n \in 1 .. Cardinality(Nodes)} \ {Top}
  PROVE  \E q \in Above(p) \cup {p} : q \in Above(q)
<1> DEFINE m == Cardinality(Nodes)
<1>1. m \in Nat BY StepsCount
<1>2. W \in [Steps -> Nodes]
  <2>1. W \in [Steps -> Nodes \cup {Top}] BY DEF IsWalk
  <2> QED BY <2>1
<1>3. Cardinality(Nodes) < Cardinality(Steps) BY StepsCount
<1>4. PICK x, y \in Steps : x # y /\ W[x] = W[y]
  BY <1>2, <1>3, StepsCount, TopAssumption, FS_PigeonHole
<1>5. PICK i \in Steps, j \in Steps : i < j /\ W[i] = W[j]
  <2>1. x < y \/ y < x BY <1>1, <1>4 DEF Steps
  <2> QED BY <1>4, <2>1
<1> DEFINE q == W[i]
<1>6. q \in Above(p) \cup {p}
  <2>1. CASE i = 0 BY <2>1 DEF IsWalk
  <2>2. CASE i # 0
    <3>1. i \in 1 .. m BY <1>1, <2>2 DEF Steps
    <3> QED BY <3>1, TopAssumption
  <2> QED BY <2>1, <2>2
<1>7. q \in Above(q)
  <2>1. q \in Nodes OBVIOUS
  <2> HIDE DEF q
  <2>2. PICK V : IsWalk(V, q) /\ Above(q) = {V[n] : n \in 1 .. m} \ {Top} BY <2>1, AboveIsWalked
  <2>3. j - i \in Steps /\ i + (j - i) = j /\ j - i \in 1 .. m BY <1>1, <1>5 DEF Steps
  <2>4. i + (j - i) \in Steps BY <2>3
  <2>5. W[i] = q BY DEF q
  <2>6. V[j - i] = W[i + (j - i)] BY <2>2, <2>3, <2>4, <2>5, WalkGoesOn
  <2>7. V[j - i] = q BY <1>5, <2>3, <2>5, <2>6
  <2> QED BY <2>1, <2>2, <2>3, <2>7, TopAssumption
<1> QED BY <1>6, <1>7


(* A walk that leaves the pages has left from a root, and every page on    *)
(* the way is listed within as many levels.                                *)
LEMMA LeavingIsListed ==
  ASSUME TreeTypes, NEW p \in Live, NEW W, IsWalk(W, p), \E n \in Steps : W[n] \notin Nodes
  PROVE  p \in Listed
<1> DEFINE m == Cardinality(Nodes)
           Left == {n \in Steps : W[n] = Top}
<1>1. m \in Nat BY StepsCount
<1>2. Live \subseteq Nodes BY DEF Live, TreeTypes
<1>3. Left # {} /\ Left \in SUBSET Nat BY <1>1 DEF IsWalk, Steps
<1> HIDE DEF Left
<1>4. PICK n \in Left : \A k \in Left : n <= k BY <1>3, LeastNumber
<1>5. n \in Steps \ {0} /\ W[n] = Top
  <2>1. n \in Steps /\ W[n] = Top BY <1>4 DEF Left
  <2>2. W[0] # Top BY <1>2, TopAssumption DEF IsWalk
  <2> QED BY <2>1, <2>2
<1>6. \A k \in 0 .. n - 1 : k \in Steps /\ W[k] # Top
  <2> SUFFICES ASSUME NEW k \in 0 .. n - 1 PROVE k \in Steps /\ W[k] # Top
    OBVIOUS
  <2>1. k \in Steps /\ k \in Nat /\ k < n BY <1>1, <1>5 DEF Steps
  <2>2. k \notin Left BY <1>4, <2>1 DEF Left, Steps
  <2> QED BY <2>1, <2>2 DEF Left
<1>7. \A k \in 0 .. n - 1 : W[k] \in Live
  <2> SUFFICES ASSUME NEW k \in 0 .. n - 1 PROVE W[k] \in Live
    OBVIOUS
  <2>1. CASE k = 0 BY <2>1 DEF IsWalk
  <2>2. CASE k # 0
    <3>1. k \in Steps \ {0} /\ W[k] # Top BY <1>6, <2>2
    <3>2. W[k] = Up(W[k - 1]) BY <3>1 DEF IsWalk
    <3> QED BY <3>1, <3>2 DEF Up
  <2> QED BY <2>1, <2>2
<1>8. n - 1 \in Nat /\ n - 1 \in 0 .. n - 1 /\ n - 1 \in Steps BY <1>1, <1>5 DEF Steps
<1>9. W[n - 1] \in Roots
  <2>1. W[n - 1] \in Live /\ W[n - 1] # Top BY <1>6, <1>7, <1>8
  <2>2. Up(W[n - 1]) = Top BY <1>5 DEF IsWalk
  <2>3. parent[W[n - 1]] \notin Live BY <1>2, <2>1, <2>2, TopAssumption DEF Up
  <2> QED BY <2>1, <2>3 DEF Roots
<1>10. PICK L : /\ Listed = L[m] /\ L[0] = Roots
                /\ \A k \in Steps \ {0} : L[k] = L[k - 1] \cup {r \in Live : parent[r] \in L[k - 1]}
  BY ListedByLevel
<1>11. ASSUME NEW k \in 0 .. n - 1 PROVE W[(n - 1) - k] \in L[k]
  <2> DEFINE S == {l \in Nat : l <= n - 1 => W[(n - 1) - l] \in L[l]}
  <2>1. 0 \in S BY <1>8, <1>9, <1>10
  <2>2. ASSUME NEW l \in Nat, l \in S PROVE l + 1 \in S
    <3> SUFFICES ASSUME l + 1 <= n - 1 PROVE W[(n - 1) - (l + 1)] \in L[l + 1]
      OBVIOUS
    <3> DEFINE c == W[(n - 1) - (l + 1)]
    <3>1. /\ (n - 1) - l \in Steps \ {0} /\ ((n - 1) - l) - 1 = (n - 1) - (l + 1)
          /\ (n - 1) - (l + 1) \in 0 .. n - 1 /\ l + 1 \in Steps \ {0} /\ (l + 1) - 1 = l
          /\ (n - 1) - l \in 0 .. n - 1
      BY <1>1, <1>5 DEF Steps
    <3>2. W[(n - 1) - l] \in L[l]
      <4>1. l <= n - 1 BY <1>8
      <4> QED BY <2>2, <4>1
    <3>3. W[(n - 1) - l] = Up(c) BY <3>1 DEF IsWalk
    <3>4. c \in Live /\ Up(c) # Top BY <1>6, <1>7, <3>1, <3>3
    <3>5. Up(c) = parent[c] BY <3>4 DEF Up
    <3>6. c \in {r \in Live : parent[r] \in L[l]} BY <3>2, <3>3, <3>4, <3>5
    <3>7. L[l + 1] = L[l] \cup {r \in Live : parent[r] \in L[l]} BY <1>10, <3>1
    <3> QED BY <3>6, <3>7
  <2> HIDE DEF S
  <2>3. k \in S BY <1>8, <2>1, <2>2, NumberInduction
  <2> QED BY <1>8, <2>3 DEF S
<1>12. p \in L[n - 1]
  <2>1. (n - 1) - (n - 1) = 0 BY <1>8
  <2>2. W[(n - 1) - (n - 1)] \in L[n - 1] BY <1>8, <1>11
  <2>3. W[0] = p BY DEF IsWalk
  <2> QED BY <2>1, <2>2, <2>3
<1>13. ASSUME NEW k \in n - 1 .. m PROVE p \in L[k]
  <2> DEFINE S == {l \in Nat : (n - 1) + l <= m => p \in L[(n - 1) + l]}
  <2>1. 0 \in S BY <1>8, <1>12
  <2>2. ASSUME NEW l \in Nat, l \in S PROVE l + 1 \in S
    <3> SUFFICES ASSUME (n - 1) + (l + 1) <= m PROVE p \in L[(n - 1) + (l + 1)]
      OBVIOUS
    <3>1. /\ (n - 1) + (l + 1) \in Steps \ {0} /\ ((n - 1) + (l + 1)) - 1 = (n - 1) + l
          /\ (n - 1) + l <= m
      BY <1>1, <1>8 DEF Steps
    <3>2. p \in L[(n - 1) + l] BY <2>2, <3>1
    <3> QED BY <1>10, <3>1, <3>2
  <2> HIDE DEF S
  <2>3. k - (n - 1) \in Nat /\ (n - 1) + (k - (n - 1)) = k /\ k <= m BY <1>1, <1>8
  <2>4. k - (n - 1) \in S BY <2>1, <2>2, <2>3, NumberInduction
  <2> QED BY <2>3, <2>4 DEF S
<1>14. m \in n - 1 .. m BY <1>1, <1>8 DEF Steps
<1> QED BY <1>10, <1>13, <1>14

LEMMA TypedTreeListsAll == ASSUME TreeTypes PROVE TreeListsAll
<1> SUFFICES ASSUME NEW p \in Live \ Listed PROVE \E q \in Above(p) \cup {p} : q \in Above(q)
  BY DEF TreeListsAll
<1>1. p \in Nodes /\ p \in Live BY DEF Live, TreeTypes
<1>2. PICK W : IsWalk(W, p) /\ Above(p) = {W[n] : n \in 1 .. Cardinality(Nodes)} \ {Top}
  BY <1>1, AboveIsWalked
<1>3. \A n \in Steps : W[n] \in Nodes BY <1>1, <1>2, LeavingIsListed
<1> QED BY <1>1, <1>2, <1>3, EndlessComesBack

-----------------------------------------------------------------------------
(* The tree: a creation that nothing was inserted besides.                 *)

(* One more number than there are addresses taken leaves one that is free. *)
LEMMA UniqueIsFree ==
  ASSUME NEW taken, IsFiniteSet(taken), NEW desired \in Seq(Nat)
  PROVE  UniqueSlug(desired, taken) \notin taken /\ UniqueSlug(desired, taken) \in Seq(Nat)
<1> DEFINE Free(n) == Append(desired, n) \notin taken
           c == Cardinality(taken)
           Tried == 2 .. (c + 2)
           First == {n \in Tried : Free(n)}
<1>1. c \in Nat BY FS_CardinalityType
<1>2. IsFiniteSet(Tried) /\ Cardinality(Tried) = c + 1
  <2>1. 2 \in Int /\ c + 2 \in Int /\ ~ (2 > c + 2) /\ (c + 2) - 2 + 1 = c + 1 BY <1>1
  <2> QED BY <2>1, FS_Interval
<1>3. \A n, k \in Nat : Append(desired, n) = Append(desired, k) => n = k
  <2> SUFFICES ASSUME NEW n \in Nat, NEW k \in Nat, Append(desired, n) = Append(desired, k)
               PROVE  n = k
    OBVIOUS
  <2>1. /\ Append(desired, n)[Len(desired) + 1] = n
        /\ Append(desired, k)[Len(desired) + 1] = k
    OBVIOUS
  <2> QED BY <2>1
<1>4. First # {}
  <2> SUFFICES ASSUME First = {} PROVE FALSE
    OBVIOUS
  <2> DEFINE g == [n \in Tried |-> Append(desired, n)]
  <2>1. g \in [Tried -> taken] OBVIOUS
  <2>2. c < Cardinality(Tried) BY <1>1, <1>2
  <2>3. \A n \in Tried : g[n] = Append(desired, n) /\ n \in Nat BY <1>1
  <2> HIDE DEF g, c, Tried
  <2>4. PICK x, y \in Tried : x # y /\ g[x] = g[y]
    BY <1>2, <2>1, <2>2, FS_PigeonHole DEF c
  <2>5. x \in Nat /\ y \in Nat BY <2>3
  <2> QED BY <1>3, <2>3, <2>4, <2>5
<1>5. First \in SUBSET Nat BY <1>1
<1>6. PICK n \in First : \A k \in First : n <= k
  <2> HIDE DEF First
  <2> QED BY <1>4, <1>5, LeastNumber
<1>7. n \in Tried /\ Free(n) /\ \A k \in 2 .. (n - 1) : ~ Free(k)
  <2>1. \A k \in 2 .. (n - 1) : k \in Tried /\ ~ (n <= k) BY <1>1, <1>6
  <2> QED BY <1>6, <2>1
<1>8. CASE desired \in taken
  <2> DEFINE d == CHOOSE k \in Tried : Free(k) /\ \A l \in 2 .. (k - 1) : ~ Free(l)
  <2>1. d \in Tried /\ Free(d) BY <1>7
  <2>2. UniqueSlug(desired, taken) = Append(desired, d) BY <1>8 DEF UniqueSlug
  <2> HIDE DEF d
  <2>3. d \in Nat BY <1>1, <2>1
  <2> QED BY <2>1, <2>2, <2>3
<1>9. CASE desired \notin taken BY <1>9 DEF UniqueSlug
<1> QED BY <1>8, <1>9


(* What a creation that nothing was inserted besides read is still so.     *)
TreeInv ==
  /\ TreeTypes
  /\ \A p \in Nodes : /\ creating[p].pc = "insert" /\ creating[p].alone => creating[p].slug \notin Taken
                      /\ creating[p].pc = "failed" => ~ creating[p].alone

LEMMA TakenFinite == ASSUME TreeTypes PROVE IsFiniteSet(Taken)
<1>1. IsFiniteSet(Existing) BY TopAssumption, FS_Subset DEF TreeTypes
<1>2. slug \in Surjection(Existing, Taken)
  BY DEF Surjection, Taken, TreeTypes
<1> QED BY <1>1, <1>2, FS_Surjection

LEMMA TreeStarts == ASSUME TreeInit PROVE TreeInv
<1>1. NoRequest.slug \in Seq(Nat) BY DEF NoRequest
<1>2. Existing = {} BY DEF TreeInit, Existing
<1>3. NoRequest \in [pc : {"idle", "insert", "failed"}, parent : Nodes \cup {Top},
                     slug : Seq(Nat), alone : BOOLEAN]
  BY <1>1 DEF NoRequest
<1>4. slug = [p \in Existing |-> slug[p]] BY <1>2 DEF TreeInit
<1>5. TreeTypes BY <1>2, <1>3, <1>4 DEF TreeInit, TreeTypes
<1> QED BY <1>5 DEF TreeInit, TreeInv, NoRequest

LEMMA ReadsKeepsTree == ASSUME TreeInv, NEW p \in Nodes, CreateReads(p) PROVE TreeInv'
<1>1. PICK q \in Existing \cup {Top}, title \in Titles :
        creating' = [creating EXCEPT ![p] = [pc |-> "insert", parent |-> q, alone |-> TRUE,
                                             slug |-> UniqueSlug(title, Taken)]]
  BY DEF CreateReads
<1> DEFINE u == UniqueSlug(title, Taken)
<1>2. u \notin Taken /\ u \in Seq(Nat)
  <2>1. IsFiniteSet(Taken) BY TakenFinite DEF TreeInv
  <2>2. title \in Seq(Nat) BY TitlesAssumption
  <2> QED BY <2>1, <2>2, UniqueIsFree
<1> HIDE DEF u
<1>3. creating' = [creating EXCEPT ![p] = [pc |-> "insert", parent |-> q, alone |-> TRUE, slug |-> u]]
  BY <1>1 DEF u
<1>4. parent' = parent /\ slug' = slug /\ Existing' = Existing /\ Taken' = Taken
  BY DEF CreateReads, Existing, Taken
<1>5. q \in Nodes \cup {Top} BY DEF TreeInv, TreeTypes
<1>6. TreeTypes' BY <1>2, <1>3, <1>4, <1>5 DEF TreeInv, TreeTypes
<1>7. ASSUME NEW r \in Nodes
      PROVE  /\ creating'[r].pc = "insert" /\ creating'[r].alone => creating'[r].slug \notin Taken'
             /\ creating'[r].pc = "failed" => ~ creating'[r].alone
  BY <1>2, <1>3, <1>4 DEF TreeInv, TreeTypes
<1> QED BY <1>6, <1>7 DEF TreeInv

LEMMA InsertsKeepsTree == ASSUME TreeInv, NEW p \in Nodes, CreateInserts(p) PROVE TreeInv'
<1>1. /\ parent' = [parent EXCEPT ![p] = creating[p].parent]
      /\ slug' = [q \in Existing \cup {p} |-> IF q = p THEN creating[p].slug ELSE slug[q]]
      /\ creating' = [q \in Nodes |-> IF q = p THEN NoRequest
                                      ELSE [creating[q] EXCEPT !.alone = FALSE]]
  BY DEF CreateInserts
<1>2. Existing' = Existing \cup {p} BY <1>1 DEF Existing
<1>3. /\ slug' = [q \in Existing' |-> slug'[q]] /\ Existing' \subseteq Nodes
  BY <1>1, <1>2 DEF TreeInv, TreeTypes
<1>4. parent' \in [Nodes -> Nodes \cup {Top}] BY <1>1 DEF TreeInv, TreeTypes
<1>5. NoRequest \in [pc : {"idle", "insert", "failed"}, parent : Nodes \cup {Top},
                     slug : Seq(Nat), alone : BOOLEAN]
  <2>1. << >> \in Seq(Nat) OBVIOUS
  <2> QED BY <2>1 DEF NoRequest
<1>6. TreeTypes' BY <1>1, <1>3, <1>4, <1>5 DEF TreeInv, TreeTypes
<1>7. ASSUME NEW r \in Nodes
      PROVE  creating'[r].pc = "idle" \/ ~ creating'[r].alone
  BY <1>1 DEF NoRequest, TreeInv, TreeTypes
<1> QED BY <1>6, <1>7 DEF TreeInv

LEMMA FailsKeepsTree == ASSUME TreeInv, NEW p \in Nodes, CreateFails(p) PROVE TreeInv'
<1>1. /\ creating[p].pc = "insert" /\ creating[p].slug \in Taken
      /\ creating' = [creating EXCEPT ![p].pc = "failed"]
  BY DEF CreateFails
<1>2. parent' = parent /\ slug' = slug /\ Existing' = Existing /\ Taken' = Taken
  BY DEF CreateFails, Existing, Taken
<1>3. TreeTypes' BY <1>1, <1>2 DEF TreeInv, TreeTypes
<1>4. ASSUME NEW r \in Nodes
      PROVE  /\ creating'[r].pc = "insert" /\ creating'[r].alone => creating'[r].slug \notin Taken'
             /\ creating'[r].pc = "failed" => ~ creating'[r].alone
  BY <1>1, <1>2 DEF TreeInv, TreeTypes
<1> QED BY <1>3, <1>4 DEF TreeInv

LEMMA TreeInvKept == ASSUME TreeInv, [TreeNext]_treeVars PROVE TreeInv'
<1>1. CASE UNCHANGED treeVars
  BY <1>1 DEF treeVars, TreeInv, TreeTypes, Existing, Taken
<1>2. ASSUME NEW p \in Nodes, MovePage(p) \/ ArchivePage(p) PROVE TreeInv'
  <2>1. parent' \in [Nodes -> Nodes \cup {Top}]
    BY <1>2 DEF MovePage, ArchivePage, TreeInv, TreeTypes
  <2>2. slug' = slug /\ creating' = creating /\ Existing' = Existing /\ Taken' = Taken
    BY <1>2 DEF MovePage, ArchivePage, Existing, Taken
  <2> QED BY <2>1, <2>2 DEF TreeInv, TreeTypes
<1> QED BY <1>1, <1>2, ReadsKeepsTree, InsertsKeepsTree, FailsKeepsTree DEF TreeNext

(* For any pages, titles, moves, archivings and creations that race: no    *)
(* page is missing from the tree that is shown unless it hangs below a     *)
(* page moved below itself, and a creation fails only if another page was  *)
(* inserted since it read the addresses (buildPageTree, uniqueSlug,        *)
(* createPage).                                                            *)
THEOREM TreeSoundHolds == TreeSpec => []TreeSound
<1>1. TreeInit => TreeInv BY TreeStarts
<1>2. TreeInv /\ [TreeNext]_treeVars => TreeInv' BY TreeInvKept
<1>3. TreeInv => TreeSound
  BY TypedTreeListsAll DEF TreeInv, TreeSound, CreatedUnlessRaced
<1> QED BY <1>1, <1>2, <1>3, PTL DEF TreeSpec

=============================================================================

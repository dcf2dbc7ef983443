------------------------------- MODULE Composer -------------------------------
(***************************************************************************)
(* The line the user writes to a colleague in: the file picked for it,     *)
(* read by the browser and then by the server's parser, the chip that says *)
(* how far that is, the message quoted, and what is sent in the end.       *)
(* Answers come when they come: neither another file, nor another          *)
(* colleague, nor sending calls them off.                                  *)
(***************************************************************************)
EXTENDS Naturals, SequencesExt

CONSTANTS
  Colleagues,
  Files,      \* what is picked from: some of Documents, each with a size
  MaxPicks,   \* bound: files picked
  MaxPosts    \* bound: messages sent

ASSUME ComposerAssumption == Colleagues # {} /\ {MaxPicks, MaxPosts} \subseteq Nat

VARIABLES
  colleague,  \* currentAgent
  picks,      \* the files picked so far, and where each is
  attached,   \* chatAttachment: the number of a pick, 0 for none
  chip,       \* what the page says of which pick
  quote,      \* chatReplyTo: the colleague whose thread it is from, {} for none
  posted      \* the messages sent

composerVars == <<colleague, picks, attached, chip, quote, posted>>

NoChip == [says |-> "none", pick |-> 0]
Says(what, n) == [says |-> what, pick |-> n]

ComposerInit ==
  /\ colleague = CHOOSE a \in Colleagues : TRUE
  /\ picks = << >> /\ attached = 0 /\ chip = NoChip /\ quote = {} /\ posted = << >>

-----------------------------------------------------------------------------
(* The parser asks, in this order, for a word in the type the browser      *)
(* gives or the name's extension.  "none" is an honest refusal.            *)
Rule(words, exts, reader) == [words |-> words, exts |-> exts, reader |-> reader]
Rules == <<
  Rule({"pdf"}, {"pdf"}, "pdf"),
  Rule({"wordprocessingml"}, {"docx"}, "docx"),
  Rule({"spreadsheetml", "excel"}, {"xlsx", "xls"}, "sheet"),
  Rule({"msword"}, {"doc"}, "none"),
  Rule({"presentationml"}, {"pptx", "ppt"}, "none"),
  Rule({"zip"}, {"zip", "rar", "7z"}, "none"),
  Rule({"json"}, {"json"}, "json"),
  Rule({"csv"}, {"csv", "tsv"}, "rows"),
  Rule({"text/", "markdown", "plain"},
       {"txt", "md", "log", "yaml", "yml", "xml", "html"}, "text") >>

Reader(doc) ==
  LET fit == {i \in DOMAIN Rules : doc.words \cap Rules[i].words # {} \/ doc.ext \in Rules[i].exts}
  IN IF fit # {} THEN Rules[Min(fit)].reader ELSE IF doc.printable THEN "text" ELSE "none"

(* Megabytes: what the page takes, and what the server takes as base64.    *)
PageTakes(size) == size <= 20
BodyTakes(size) == 4 * ((size + 2) \div 3) <= 30

(* Anything may still be damaged, locked or empty.                         *)
Readable(doc) == Reader(doc) # "none" /\ doc.size > 0 /\ BodyTakes(doc.size)

-----------------------------------------------------------------------------
SelectAgent(a) ==
  /\ colleague' = a /\ quote' = {}
  /\ UNCHANGED <<picks, attached, chip, posted>>

(* What was attached before stays attached.                                *)
PickFile(file) ==
  LET n == Len(picks) + 1
      taken == PageTakes(file.size) IN
  /\ n <= MaxPicks
  /\ picks' = Append(picks, [file |-> file, at |-> IF taken THEN "browser" ELSE "over"])
  /\ chip' = Says(IF taken THEN "busy" ELSE "error", n)
  /\ UNCHANGED <<colleague, attached, quote, posted>>

BrowserReads(n) ==
  /\ picks[n].at = "browser"
  /\ picks' = [picks EXCEPT ![n].at = "server"]
  /\ UNCHANGED <<colleague, attached, chip, quote, posted>>

Extracted(n) ==
  /\ picks[n].at = "server" /\ Readable(picks[n].file)
  /\ picks' = [picks EXCEPT ![n].at = "over"]
  /\ attached' = n /\ chip' = Says("ok", n)
  /\ UNCHANGED <<colleague, quote, posted>>

(* The browser cannot read it, the parser refuses it, the answer is lost.  *)
NotRead(n) ==
  /\ picks[n].at # "over"
  /\ picks' = [picks EXCEPT ![n].at = "over"]
  /\ chip' = Says("error", n)
  /\ UNCHANGED <<colleague, attached, quote, posted>>

DropFile ==
  /\ chip.says = "ok"
  /\ attached' = 0 /\ chip' = NoChip
  /\ UNCHANGED <<colleague, picks, quote, posted>>

SetReplyTarget ==
  /\ quote' = {colleague}
  /\ UNCHANGED <<colleague, picks, attached, chip, posted>>

DropQuote ==
  /\ quote # {} /\ quote' = {}
  /\ UNCHANGED <<colleague, picks, attached, chip, posted>>

(* The page's line in the thread, and the server's line and prompt.        *)
Parts(kind, there) == IF there THEN <<kind>> ELSE << >>
Shown == Parts("quote", quote # {}) \o <<"text">> \o Parts("name", attached # 0)
Stored(m) == Parts("quote", m.quote # {}) \o <<"text">> \o Parts("name", m.pick # 0)
Prompt(m) == Parts("quote", m.quote # {}) \o Parts("file", m.pick # 0) \o <<"text">>

(* Mutant: the file stays for the next message.                            *)
SendAndKeep(typed) ==
  /\ typed \/ attached # 0
  /\ Len(posted) < MaxPosts
  /\ posted' = Append(posted, [to |-> colleague, pick |-> attached, quote |-> quote, shown |-> Shown])
  /\ quote' = {}
  /\ UNCHANGED <<colleague, picks, attached, chip>>

(* An empty line with a file asks for its conclusions.                     *)
SendMessage(typed) ==
  /\ typed \/ attached # 0
  /\ Len(posted) < MaxPosts
  /\ posted' = Append(posted, [to |-> colleague, pick |-> attached, quote |-> quote, shown |-> Shown])
  /\ attached' = 0 /\ quote' = {}
  /\ chip' = IF attached # 0 THEN NoChip ELSE chip
  /\ UNCHANGED <<colleague, picks>>

ComposerNext ==
  \/ \E a \in Colleagues : SelectAgent(a)
  \/ \E file \in Files : PickFile(file)
  \/ \E n \in DOMAIN picks : BrowserReads(n) \/ Extracted(n) \/ NotRead(n)
  \/ DropFile \/ SetReplyTarget \/ DropQuote
  \/ \E typed \in BOOLEAN : SendMessage(typed)

-----------------------------------------------------------------------------
(* The documents people have: format, words in the browser's type (which   *)
(* may not know it), extension (which may be missing).  Windows calls a    *)
(* csv an Excel file, and the start of a PDF may well be printable.        *)
DocumentKinds == {
  <<"pdf", {"pdf"}, "pdf">>, <<"docx", {"wordprocessingml"}, "docx">>,
  <<"sheet", {"spreadsheetml"}, "xlsx">>, <<"sheet", {"excel"}, "xls">>,
  <<"doc", {"msword"}, "doc">>, <<"slides", {"presentationml"}, "pptx">>, <<"slides", {}, "ppt">>,
  <<"archive", {"zip"}, "zip">>, <<"archive", {}, "rar">>, <<"json", {"json"}, "json">>,
  <<"rows", {"csv", "text/"}, "csv">>, <<"rows", {"excel"}, "csv">>, <<"rows", {"text/"}, "tsv">>,
  <<"text", {"text/", "plain"}, "txt">>, <<"text", {}, "py">>, <<"image", {}, "png">>}

Document(k, typed, named, size) ==
  [format |-> k[1], words |-> IF typed THEN k[2] ELSE {}, ext |-> IF named THEN k[3] ELSE "",
   printable |-> k[1] \in {"pdf", "json", "rows", "text"}, size |-> size]
Documents == {Document(k, t, n, 1) : k \in DocumentKinds, t, n \in BOOLEAN}

ASSUME FilesAssumption == \A file \in Files : \E doc \in Documents : file = [doc EXCEPT !.size = file.size]

(* Who makes sense of a format.                                            *)
Understand(format) ==
  CASE format \in {"pdf", "docx", "sheet"} -> {format}
    [] format = "rows" -> {"rows", "sheet", "text"}
    [] format \in {"json", "text"} -> {format, "text"}
    [] OTHER -> {}

(* A PDF with neither type nor extension may be taken for text.            *)
Told(doc) == doc.format # "pdf" \/ doc.words # {} \/ doc.ext # ""

ReadersFit ==
  \A doc \in Documents :
    /\ Told(doc) => Reader(doc) \in Understand(doc.format) \cup {"none"}
    /\ doc.ext # "" /\ Understand(doc.format) # {} => Reader(doc) # "none"

CapsFit == \A size \in 0 .. 30 : PageTakes(size) => BodyTakes(size)

(* What the page says is attached is what would be sent, and nothing is    *)
(* attached without a sign; a file goes out with one message at most, read *)
(* by a reader that understands it (documents.rich.ts: "Honesty contract"; *)
(* only a PDF with neither type nor extension may be taken for text); a    *)
(* quote stays in its thread; the server's thread shows a message as the   *)
(* page did, and its prompt has in it what the line names; what the page   *)
(* lets through is not cut off by the server's cap.                        *)
AttachedAsShown ==
  /\ chip.says = "ok" => attached = chip.pick
  /\ attached # 0 => chip.says # "none"
  /\ \A i, j \in DOMAIN posted : i # j /\ posted[i].pick # 0 => posted[i].pick # posted[j].pick
  /\ \A i \in DOMAIN posted : LET m == posted[i] IN
       /\ m.quote \subseteq {m.to}
       /\ Stored(m) = m.shown
       /\ ("name" \in ToSet(m.shown) <=> "file" \in ToSet(Prompt(m)))
       /\ m.pick # 0 => LET doc == picks[m.pick].file
                        IN Told(doc) => Reader(doc) \in Understand(doc.format)
  /\ ReadersFit /\ CapsFit

(* What a user would expect besides, and does not get: the file sent is    *)
(* the one the page spoke of last, and it goes to the colleague it was     *)
(* picked for.                                                             *)
SentAsShown == attached # 0 => chip.pick = attached

=============================================================================

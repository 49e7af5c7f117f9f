------------------------------- MODULE Analyser -------------------------------
(***************************************************************************)
(* The information extraction (information_extraction/src/analyser.h): one *)
(* run goes through the files of ./pages/, takes the texts between the     *)
(* tags of every page whose URL has five parts, and appends a row to       *)
(* ./pages/kv.sql for each text with a full width colon, its value being   *)
(* the text behind it.  A later run finds kv.sql among the pages.          *)
(*                                                                         *)
(* A text is a sequence of bytes (strings), of which the colon is three;   *)
(* a name or a number in a URL counts as one.                              *)
(***************************************************************************)
EXTENDS Integers, Sequences, FiniteSets, Wire

CONSTANTS Page,      \* Page[f] = [url, body] of the file f: its second line and its text
          Dirs,      \* the sets of files ./pages/ may hold
          Hidden,    \* files whose name begins with '.' or has a '~'
          KvFile,    \* kv.sql
          Tails,     \* what may lie behind the buffer of read_all_file
          MaxRuns    \* bound: runs of the program

Files == DOMAIN Page
Colon == <<"EF", "BC", "9A">>     \* in UTF-8
BadChars == {" ", LF, CR, "\t", "'", "\""}

ASSUME AnalyserAssumption ==
  /\ IsFiniteSet(Files)
  /\ Page \in [Files -> [url : Seq(STRING), body : Seq(STRING)]]
  /\ Tails \subseteq Seq(STRING)
  /\ Dirs \subseteq SUBSET Files
  /\ Hidden \subseteq Files
  /\ KvFile \notin Files
  /\ MaxRuns \in Nat

VARIABLES
  phase,          \* stopped, page, extract
  dir,            \* the pages in ./pages/
  kv,             \* the rows in kv.sql
  fnames_evc,     \* the files this run has still to read, after the present one
  str_vec,        \* the parts of the present page's URL
  content_vec,    \* its texts from the present one on
  started, died,  \* runs; whether one of them was killed
  stray           \* whether a tail with a tag was read

analyserVars == <<phase, dir, kv, fnames_evc, str_vec, content_vec, started, died, stray>>

-------------------------------------------------------------------------------
(* Texts, keys and values.                                                 *)

Has(str, sub) ==
  \E i \in 1..(Len(str) - Len(sub) + 1) : SubSeq(str, i, i + Len(sub) - 1) = sub

\* replace_html_badchar: replace_all() takes a character out until it is gone.
Clean(str) == Picked(str, {i \in DOMAIN str : str[i] \notin BadChars})

\* Mutant: the first '>' is kept.
ScanCharFirstTag(html, pos, s) ==
  LET t_str == Clean(SubSeq(html, s.pos1 + 1, pos - 1))
  IN CASE html[pos] = ">" /\ s.pos1 = 0 -> [s EXCEPT !.pos1 = pos]
       [] html[pos] = "<" /\ s.pos1 # 0 /\ t_str # <<>> ->
            [s EXCEPT !.vec = Append(@, t_str)]
       [] OTHER -> s

\* extract_str_from_htmltag: pos1 is the last '>', 0 before there was one.
ScanChar(html, pos, s) ==
  LET t_str == Clean(SubSeq(html, s.pos1 + 1, pos - 1))
  IN CASE html[pos] = ">" -> [s EXCEPT !.pos1 = pos]
       [] html[pos] = "<" /\ s.pos1 # 0 /\ t_str # <<>> ->
            [s EXCEPT !.vec = Append(@, t_str)]
       [] OTHER -> s

ExtractStrFromHtmltag(html) ==
  LET scan[pos \in 0..Len(html)] ==
        IF pos = 0 THEN [pos1 |-> 0, vec |-> <<>>]
        ELSE ScanChar(html, pos, scan[pos - 1])
  IN scan[Len(html)].vec

\* extract_kv of a text with a colon: split() cuts at every byte of the colon.
ExtractKv(it2_str, it2_next_str) ==
  LET str_kv_vec == Split(it2_str, ToSet(Colon))
  IN [key   |-> str_kv_vec[1],
      value |-> IF ~Has(it2_next_str, Colon) THEN it2_next_str
                ELSE IF Len(str_kv_vec) > 1 THEN str_kv_vec[2] ELSE <<>>]

\* get_enterprise_type_and_id.
EnterpriseType(parts) ==
  CASE parts[2] = <<"Webpub">> -> "Webpub"
    [] parts[2] = <<"tradehtml">> -> "trade"
    [] parts[2] = <<"m">> /\ parts[3] = <<"web">> /\ parts[4] = <<"shop">> -> "shop"
    [] OTHER -> ""

\* From the '=' to the '&' behind it, the begin or the end where one is missing.
ShopId(part) ==
  LET pos1 == FirstOf(part, {"="})
      pos2 == FirstOf(part, {"&"})
  IN SubSeq(part, pos1 + 1, IF pos2 > pos1 THEN pos2 - 1 ELSE Len(part))

EnterpriseId(parts) ==
  CASE EnterpriseType(parts) \in {"Webpub", "trade"} ->
         parts[2] \o <<"_">> \o parts[3] \o <<"_">> \o parts[4]
    [] EnterpriseType(parts) = "shop" -> ShopId(parts[5])
    [] OTHER -> <<>>

RowText(row) ==
  <<"insert", "(">> \o row.id \o <<",", row.type, ",", "'">> \o row.key
    \o <<"'", ",", "'">> \o row.value \o <<"'", ")", ";">>

\* The lines and the text of a file, kv.sql among them.
Url(f) == IF f # KvFile THEN Page[f].url
          ELSE IF Len(kv) < 2 THEN <<>> ELSE RowText(kv[2])
Body(f) == IF f # KvFile THEN Page[f].body
           ELSE FlattenSeq([i \in DOMAIN kv |-> RowText(kv[i]) \o <<LF>>])

-------------------------------------------------------------------------------

AnalyserInit ==
  /\ phase = "stopped"
  /\ dir \in Dirs
  /\ kv = <<>> /\ fnames_evc = <<>> /\ str_vec = <<>> /\ content_vec = <<>>
  /\ started = 0 /\ died = FALSE /\ stray = FALSE

\* Mutant: nothing is left out of the listing.
ListedAll == dir \cup (IF kv = <<>> THEN {} ELSE {KvFile})

\* trave_dir_into_vec_ie.
Listed == (dir \ Hidden) \cup (IF kv = <<>> THEN {} ELSE {KvFile})

\* main and just_work: the files in the order of the directory, which is any.
Start ==
  /\ phase = "stopped" /\ started < MaxRuns
  /\ started' = started + 1
  /\ fnames_evc' \in SetToSeqs(Listed)
  /\ phase' = "page"
  /\ UNCHANGED <<dir, kv, str_vec, content_vec, died, stray>>

End ==
  /\ phase = "page" /\ fnames_evc = <<>>
  /\ phase' = "stopped"
  /\ UNCHANGED <<dir, kv, fnames_evc, str_vec, content_vec, started, died, stray>>

Parts(f) == Split(Url(f), {"/"})

Wanted(f) == Len(Parts(f)) = 5

SkipPage ==
  /\ phase = "page" /\ fnames_evc # <<>>
  /\ ~Wanted(Head(fnames_evc))
  /\ fnames_evc' = Tail(fnames_evc)
  /\ UNCHANGED <<phase, dir, kv, str_vec, content_vec, started, died, stray>>

Dies ==
  /\ phase' = "stopped"
  /\ died' = TRUE
  /\ fnames_evc' = <<>>
  /\ UNCHANGED <<dir, kv, str_vec, content_vec, started>>

\* analysis_page up to its loop.  read_all_file makes a string of a buffer that
\* is not terminated.  Without a '<' substr() throws; without a text begin() + 1
\* is not end() and nothing is dereferenced.
ReadPage(f, tail) ==
  LET html_all == Body(f) \o tail
      tag == FirstOf(html_all, {"<"})
      texts == ExtractStrFromHtmltag(SubSeq(html_all, tag - 1, Len(html_all)))
  IN /\ stray' = (stray \/ FirstOf(tail, {"<"}) # 0)
     /\ IF tag < 2 \/ texts = <<>> THEN Dies
        ELSE /\ str_vec' = Parts(f)
             /\ content_vec' = texts
             /\ phase' = "extract"
             /\ UNCHANGED <<dir, kv, fnames_evc, started, died>>

OpenPage ==
  /\ phase = "page" /\ fnames_evc # <<>>
  /\ Wanted(Head(fnames_evc))
  /\ \E tail \in Tails : ReadPage(Head(fnames_evc), tail)

SkipText ==
  /\ phase = "extract" /\ Len(content_vec) > 1
  /\ ~Has(Head(content_vec), Colon)
  /\ content_vec' = Tail(content_vec)
  /\ UNCHANGED <<phase, dir, kv, fnames_evc, str_vec, started, died, stray>>

Row(parts, kvpair) ==
  [id |-> EnterpriseId(parts), type |-> EnterpriseType(parts),
   key |-> kvpair.key, value |-> kvpair.value]

\* Mutant: the text taken as a value is not looked at again.
WriteRowSkipsNext ==
  /\ phase = "extract" /\ Len(content_vec) > 1
  /\ Has(Head(content_vec), Colon)
  /\ kv' = Append(kv, Row(str_vec, ExtractKv(content_vec[1], content_vec[2])))
  /\ content_vec' = Tail(Tail(content_vec))
  /\ UNCHANGED <<phase, dir, fnames_evc, str_vec, started, died, stray>>

WriteRow ==
  /\ phase = "extract" /\ Len(content_vec) > 1
  /\ Has(Head(content_vec), Colon)
  /\ kv' = Append(kv, Row(str_vec, ExtractKv(content_vec[1], content_vec[2])))
  /\ content_vec' = Tail(content_vec)
  /\ UNCHANGED <<phase, dir, fnames_evc, str_vec, started, died, stray>>

\* The last text of a page is only ever a value.
PageDone ==
  /\ phase = "extract" /\ Len(content_vec) <= 1
  /\ fnames_evc' = Tail(fnames_evc)
  /\ content_vec' = <<>> /\ str_vec' = <<>>
  /\ phase' = "page"
  /\ UNCHANGED <<dir, kv, started, died, stray>>

AnalyserNext == \/ Start \/ End \/ SkipPage \/ OpenPage
                \/ SkipText \/ WriteRow \/ PageDone

AnalyserSpec == AnalyserInit /\ [][AnalyserNext]_analyserVars

-------------------------------------------------------------------------------
(* What the rows of a page are, said without the loops.                    *)

\* Where a text that ends at b may begin: at a '>' that is not before the
\* character in front of the first '<'.
Opens(html, b) ==
  {a \in 1..(b - 1) : a >= FirstOf(html, {"<"}) - 1 /\ html[a] = ">"}

\* The texts from the last '>' to a '<', as far as something is left of them.
TextTo(html, b) == Clean(SubSeq(html, Max(Opens(html, b)) + 1, b - 1))
TextEnds(html) ==
  {b \in DOMAIN html :
     html[b] = "<" /\ Opens(html, b) # {} /\ TextTo(html, b) # <<>>}
TextsBetweenTags(html) ==
  Picked([b \in DOMAIN html |-> TextTo(html, b)], TextEnds(html))

Marks(t) == {i \in 1..(Len(t) - 2) : SubSeq(t, i, i + 2) = Colon}
\* The name before the first colon, and what stands between it and the next one.
Named(t) == SubSeq(t, 1, Min(Marks(t)) - 1)
Given(t) ==
  LET first == Min({m \in Marks(t) : m + 3 \notin Marks(t)})
  IN SubSeq(t, first + 3, Min({m \in Marks(t) : m > first} \cup {Len(t) + 1}) - 1)

PageParts == [f \in Files |-> Split(Page[f].url, {"/"})]
PageTexts == [f \in Files |-> TextsBetweenTags(Page[f].body)]

\* The rows of each page: one for each text with a colon but the last.
RowsOf ==
  [f \in Files |->
     LET texts == PageTexts[f]
         row(n) ==
           Row(PageParts[f], [key   |-> Named(texts[n]),
                              value |-> IF Marks(texts[n + 1]) # {} THEN Given(texts[n])
                                        ELSE texts[n + 1]])
     IN Picked([n \in DOMAIN texts |-> row(n)],
               {n \in 1..(Len(texts) - 1) : Marks(texts[n]) # {}})]

\* The pages that are read, and those in which no byte of the colon stands
\* outside of a colon.
Read == {f \in Files \ Hidden : Len(PageParts[f]) = 5}
OnlyWholeColons ==
  {f \in Files :
     LET body == Page[f].body
     IN \A n \in DOMAIN body :
          body[n] \in ToSet(Colon) => \E m \in Marks(body) : n \in m..(m + 2)}

\* A page whose rows are told by their id from those of others, kv.sql among
\* them: its second row may have five parts, and these may say anything.
Distinct(f) ==
  /\ f \in Read \cap OnlyWholeColons
  /\ Wanted(KvFile) => EnterpriseId(Parts(KvFile)) # EnterpriseId(PageParts[f])
  /\ \A g \in (dir \cap Read) \ {f} :
       EnterpriseId(PageParts[g]) # EnterpriseId(PageParts[f])

RowsIn(f) == Picked(kv, {i \in DOMAIN kv : kv[i].id = EnterpriseId(PageParts[f])})
Copies(f, n) == FlattenSeq([i \in 1..n |-> RowsOf[f]])

-------------------------------------------------------------------------------

\* The types of the state, for every state of the program.
AnalyserTypeOK ==
  /\ phase \in {"stopped", "page", "extract"}
  /\ dir \in Dirs
  /\ \A i \in DOMAIN kv : kv[i].type \in {"Webpub", "trade", "shop", ""}
  /\ ToSet(fnames_evc) \subseteq (dir \ Hidden) \cup {KvFile}
  /\ phase = "extract" => Len(str_vec) = 5 /\ content_vec # <<>>
  /\ started \in 0..MaxRuns

\* The rows of a page in kv.sql are, in their order, those its texts call for,
\* whatever was read before it, whether runs die, and though kv.sql itself is
\* read (just_work, analysis_page).  Without a tag in a tail.
RowsAreThePages ==
  ~stray => \A f \in dir : Distinct(f) => IsPrefix(RowsIn(f), Copies(f, started))

\* When no run has died each run has added the rows of every page once: kv.sql
\* is neither emptied nor are its rows told from new ones (log, ios::app).
EveryPageOncePerRun ==
  phase = "stopped" /\ ~died /\ ~stray =>
    \A f \in dir : Distinct(f) => RowsIn(f) = Copies(f, started)

===============================================================================

--------------------------------- MODULE Wire ---------------------------------
(***************************************************************************)
(* The texts the programs exchange and the helpers that cut them           *)
(* (GlobalHelper.h of master and slave): a command is a map of fields,     *)
(* sent as "key:value\r\n" for each key and "\f", and read back by cutting *)
(* at white space and at the first ':' of each piece; a batch of URLs is   *)
(* one field, each URL followed by '#'.  Nothing is escaped.               *)
(*                                                                         *)
(* A text is a sequence of characters, a character is a string.            *)
(***************************************************************************)
EXTENDS Naturals, Sequences, FiniteSets, SequencesExt, FiniteSetsExt

CR == "\r"
LF == "\n"
FF == "\f"
Space == {" ", "\t", CR, LF, FF}     \* what operator>> skips (and "\v")
Scheme == <<"h", "t", "t", "p", ":", "/", "/">>

FirstOf(str, chars) == SelectInSeq(str, LAMBDA c : c \in chars)

-------------------------------------------------------------------------------
(* The helpers.                                                            *)

\* replace: find_first_of() finds the first character that is one of
\* special_char, and as many characters as special_char has are taken out
\* from there.
Replace(str, new_str, special_char) ==
  LET pos == FirstOf(str, ToSet(special_char))
  IN IF pos = 0 THEN str
     ELSE SubSeq(str, 1, pos - 1) \o new_str
            \o SubSeq(str, pos + Len(special_char), Len(str))

\* Where a separator, or nothing, stands before something else.
Begins(src, separator) ==
  {i \in 1..Len(src) : src[i] \notin separator /\ (i = 1 \/ src[i - 1] \in separator)}

\* The k-th of a set of numbers.
Nth(S, k) == CHOOSE n \in S : Cardinality({m \in S : m <= n}) = k

\* What stands at these places of a sequence, in their order.
Picked(seq, places) == [k \in 1..Cardinality(places) |-> seq[Nth(places, k)]]

\* The pieces that begin at these places, in their order; each ends before the
\* next separator.
Pieces(src, separator, begins) ==
  LET end(b) == Min({i \in b..Len(src) : src[i] \in separator} \cup {Len(src) + 1})
  IN [k \in 1..Cardinality(begins) |->
        SubSeq(src, Nth(begins, k), end(Nth(begins, k)) - 1)]

\* split: a separator at the begin leaves an empty piece before it, and one at
\* the end leaves none behind it.
Split(src, separator) == Pieces(src, separator, {1} \cup Begins(src, separator))

\* split_line: ss >> t yields no empty pieces.
SplitLine(in) == Pieces(in, Space, Begins(in, Space))

\* Mutant: the last ':' is the one that divides.
SplitByLastColon(str) ==
  LET pos == SelectLastInSeq(str, LAMBDA c : c = ":")
  IN IF pos = 0 THEN <<str, str>>
     ELSE <<SubSeq(str, 1, pos - 1), SubSeq(str, pos + 1, Len(str))>>

\* split_by_split_char: without a ':' key and value are the whole piece
\* (npos + 1 is 0).
SplitByColon(str) ==
  LET pos == FirstOf(str, {":"})
  IN IF pos = 0 THEN <<str, str>>
     ELSE <<SubSeq(str, 1, pos - 1), SubSeq(str, pos + 1, Len(str))>>

\* The value of a key in a map of texts, "" where there is none (operator[]).
Field(map, key) == IF key \in DOMAIN map THEN map[key] ELSE <<>>

\* command_str_to_map: of pieces with the same key the last one counts.
CommandStrToMap(command) ==
  LET vec == SplitLine(command)
      kv == [i \in DOMAIN vec |-> SplitByColon(vec[i])]
  IN [key \in {kv[i][1] : i \in DOMAIN vec} |->
        kv[Max({i \in DOMAIN vec : kv[i][1] = key})][2]]

\* cmd_map_to_str, of the fields in the order of their keys.
CmdMapToStr(fields) ==
  FlattenSeq([i \in DOMAIN fields |->
                fields[i][1] \o <<":">> \o fields[i][2] \o <<CR, LF>>])
    \o <<FF>>

-------------------------------------------------------------------------------
(* The master.                                                             *)

commd_id == <<"c">>     \* the keys
slave_id == <<"s">>
task_id  == <<"t">>
time     == <<"w">>
urls     == <<"u">>
SLEEP    == <<"2">>
GRABPAGE == <<"4">>

\* The URL in what fgets read (read_sitefile_lines): the last character goes,
\* it is taken for the line end, then "\n" and "http://".
UrlOfLine(read_buff) ==
  Replace(Replace(Front(read_buff), <<>>, <<LF>>), <<>>, Scheme)

\* A line counts as a URL if a '.' is left without its last character.
IsUrl(read_buff) == FirstOf(Front(read_buff), {"."}) # 0

\* assign_request.
RequestUrl(vec_urls) ==
  FlattenSeq([i \in DOMAIN vec_urls |-> vec_urls[i] \o <<"#">>])

AssignCmd(vec_urls, id, stamp) ==
  CmdMapToStr(<<<<commd_id, GRABPAGE>>, <<slave_id, id>>, <<task_id, stamp>>,
                <<urls, RequestUrl(vec_urls)>>>>)

SleepCmd(id, sleep_time) ==
  CmdMapToStr(<<<<commd_id, SLEEP>>, <<slave_id, id>>, <<time, sleep_time>>>>)

-------------------------------------------------------------------------------
(* The slave.                                                              *)

\* get_sitename, and the rest of the URL.
SiteName(url) ==
  LET pos == FirstOf(url, {"/"})
  IN IF pos = 0 THEN url ELSE SubSeq(url, 1, pos - 1)
UrlBody(url) == SubSeq(url, FirstOf(url, {"/"}), Len(url))

\* http_req/http_head as far as it matters: "GET # HTTP/1.1\r\nHost: #\r\n".
HttpHead == <<"GET", "#", "Host", "#">>

\* convert_url_to_http_req, of a URL with a '/'.
HttpReq(url) ==
  Replace(Replace(HttpHead, UrlBody(url), <<"#">>), SiteName(url), <<"#">>)

\* str2task and urls_str_to_http_reqs: the first URL without a '/' throws
\* std::out_of_range, and the slave dies.
Str2Task(response_command) ==
  LET map == CommandStrToMap(response_command)
      vec == IF Field(map, commd_id) = GRABPAGE
               THEN Split(Field(map, urls), {"#"}) ELSE <<>>
      died == \E i \in DOMAIN vec : FirstOf(vec[i], {"/"}) = 0
  IN [cmd_id |-> Field(map, commd_id),
      died |-> died,
      urls_vec |-> vec,
      urls_http_req |-> IF died THEN <<>>
                        ELSE [i \in DOMAIN vec |-> HttpReq(vec[i])]]

-------------------------------------------------------------------------------
\* A line as the files are meant to have it: a scheme, a host, a '/', and
\* nothing that is white space or a '#' before the line feed.
IsPlain(line) ==
  /\ Len(line) > 8 /\ SubSeq(line, 1, 7) = Scheme /\ Last(line) = LF
  /\ \A i \in 8..(Len(line) - 1) : line[i] \notin Space \cup {"#"}
  /\ FirstOf(SubSeq(line, 8, Len(line)), {"/"}) # 0

===============================================================================

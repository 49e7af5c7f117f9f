--------------------------- MODULE SiteReaderClaims ---------------------------
(* What a test of the slave says of a list of URLs, for a file like          *)
(* urls/114chn_aa_test, whose lines end in CR LF.                            *)
EXTENDS SiteReader

Line(url) == Scheme \o url \o <<CR, LF>>
ClaimFile == <<<<Line(<<"a", ".", "/", "x">>), Line(<<"b", ".", "/", "x">>),
                 Line(<<"c", ".", "/", "x">>), Line(<<"d", ".", "/", "x">>)>>>>
ClaimMissing == {{}}
ClaimConfs == {<<0>>}

\* assert( mytask.urls_http_req.size()==3) of prepare_urls_test: a task of
\* three URLs has three requests.  The test gives the three URLs to
\* urls_str_to_http_reqs itself; here they come from a file, through the master.
\* With CR LF the CR of the first line stays, and ends the field that the slave
\* reads.
EachUrlIsRequested ==
  pc = "served" /\ isok =>
    Len(Str2Task(Reply).urls_http_req) = AssignUrlNumber

===============================================================================

---------------------------- MODULE MCSiteReader ------------------------------
(* Files that end with a full batch, with a part of one, and with lines that *)
(* are no URLs; the empty file; and a cursor beyond the end.  Among the      *)
(* lines are a host with a port, a URL without a scheme, lines ended by CR   *)
(* LF and a last line without an end (as in urls/114chn_aa_test), and a      *)
(* '#' in a URL.                                                             *)
EXTENDS SiteReader

Line(url) == Scheme \o url \o <<LF>>
Blank     == <<LF>>
MCFile ==
  <<<<Line(<<"a", ".", "/">>), Blank, Line(<<"b", ".", ":", "8", "/", "x">>),
      Line(<<"a", ".", "/", "y", "/">>), <<"a", ".", "h", "/", "z", LF>>>>,
    <<Blank, Line(<<"c", ".", "/", "x", CR>>), Line(<<"c", ".", "/", "y", CR>>),
      <<"n", "o", LF>>, Line(<<"c", ".", "/", "#", "z">>), Blank>>,
    <<>>,
    <<Line(<<"d", ".", "/", "x">>), Scheme \o <<"d", ".", "/", "y">>>>>>
MCMissing == {{}, {2}, {3}, {4}, {2, 4}}
MCStartConfs == {<<0, 0, 0, 0>>, <<1, 2, 0, 3>>, <<2, 0, 0, 0>>}
===============================================================================

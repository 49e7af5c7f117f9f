------------------------------ MODULE MCAnalyser ------------------------------
(* Each with a colon before the first tag or around it: a page of three names *)
(* with values in other tags and in the text itself, with texts that run over *)
(* a '<', the first of which begins before the first tag; a shop whose value  *)
(* is a path with five parts; a name in which a byte of the colon stands      *)
(* alone; a page without texts and one without tags; a URL of four parts; a   *)
(* hidden file.                                                               *)
EXTENDS Analyser

Host(parts) == <<"url", ":", "host">> \o FlattenSeq([i \in DOMAIN parts |->
                                            <<"/">> \o parts[i]]) \o <<CR>>
Html(texts) == <<">">> \o Colon \o <<"<">> \o FlattenSeq([i \in DOMAIN texts |->
                                            <<"a", ">">> \o texts[i] \o <<"<">>])
MCPage ==
  [firm  |-> [url  |-> Host(<<<<"Webpub">>, <<"7">>, <<"1">>, <<"i">>>>),
              body |-> <<">", "<", "j">> \o
                       Tail(Html(<<<<"k">> \o Colon, <<"v", " ", "x">>, <<" ">>,
                                   <<"l">> \o Colon \o Colon \o <<"w">>,
                                   <<"n">> \o Colon \o <<"<", "u">>,
                                   <<"o">> \o Colon>>))],
   shop  |-> [url  |-> Host(<<<<"m">>, <<"web">>, <<"shop">>,
                              <<"p", "=", "9", "&", "q">>>>),
              body |-> Html(<<<<"s">> \o Colon, <<"t">>,
                              Colon, <<"a", "/", "b", "/", "c", "/", "d", "/", "e">>>>)],
   torn  |-> [url  |-> Host(<<<<"tradehtml">>, <<"6">>, <<"2">>, <<"i">>>>),
              body |-> Html(<<<<"E4", "BC", "9A">> \o Colon, <<"v">>>>)],
   bare  |-> [url  |-> Host(<<<<"Webpub">>, <<"7">>, <<"3">>, <<"i">>>>),
              body |-> <<"h", "<", "p", ">", " ", "<">>],
   plain |-> [url  |-> Host(<<<<"x">>, <<"7">>, <<"4">>, <<"i">>>>),
              body |-> <<"h", "k">> \o Colon \o <<">">>],
   list  |-> [url  |-> Host(<<<<"Webpub">>, <<"7">>, <<"i">>>>),
              body |-> Html(<<<<"k">> \o Colon, <<"v">>>>)],
   old   |-> [url  |-> Host(<<<<"Webpub">>, <<"7">>, <<"1">>, <<"i">>>>),
              body |-> Html(<<<<"j">> \o Colon, <<"v">>>>)]]
MCDirs == {{"firm", "shop", "list"}, {"firm", "torn", "bare"},
           {"shop", "plain", "old"}, {"firm", "list", "old"}}
MCTails == {<<>>, <<"x", "<">>}
===============================================================================

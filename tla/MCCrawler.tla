------------------------------ MODULE MCCrawler -------------------------------
(* Values of the constants of Crawler for TLC.                              *)
EXTENDS Crawler, TLC

\* Two sites; the first holds two URLs, the second one.
MCLength == [s \in Sites |-> IF s = 1 THEN 2 ELSE 1]
MCUrls == {<<1, 1>>, <<1, 2>>, <<2, 1>>}

\* Two sites with a URL each.
MCOneLine == [s \in Sites |-> 1]
MCTwoUrls == {<<1, 1>>, <<2, 1>>}

MCConfs == {[s \in Sites |-> 0]}
MCSlaveSymmetry == Permutations(Slaves)
MCVersion == [w \in Slaves |-> 2]
===============================================================================

------------------------------ MODULE UrlLedger ------------------------------
(***************************************************************************)
(* What the master promises about the catalogue of URLs, whatever its      *)
(* protocol with the slaves: a URL is waiting to be handed out, has been   *)
(* handed out, or has been dropped, and the last two are final.  Nothing   *)
(* is handed out twice and nothing dropped ever comes back.                *)
(*                                                                         *)
(* The code never reissues a batch, so dropping is part of the promise:    *)
(* this module bounds what one step may drop.  It is at most a batch, or   *)
(* everything that is still waiting (the cursor file lost its content).    *)
(***************************************************************************)
EXTENDS Naturals, FiniteSets

CONSTANTS Urls,       \* the catalogue
          BatchSize   \* assign_url_number

VARIABLE ledger       \* the state of every URL

Todo == {u \in Urls : ledger[u] = "todo"}

Init == ledger \in [Urls -> {"todo", "lost"}]

\* A batch of waiting URLs reaches a slave.
Give(S) ==
  /\ S # {}
  /\ S \subseteq Todo
  /\ Cardinality(S) <= BatchSize
  /\ ledger' = [u \in Urls |-> IF u \in S THEN "given" ELSE ledger[u]]

\* URLs that no slave has seen are given up for good.
Drop(S) ==
  /\ S # {}
  /\ S \subseteq Todo
  /\ Cardinality(S) <= BatchSize \/ S = Todo
  /\ ledger' = [u \in Urls |-> IF u \in S THEN "lost" ELSE ledger[u]]

Next == \E S \in SUBSET Urls : Give(S) \/ Drop(S)

Spec == Init /\ [][Next]_ledger

==============================================================================

----------------------------- MODULE MCPageStore ------------------------------
(* Two slaves with a file each.                                             *)
EXTENDS PageStore, TLC
CONSTANTS a, b, f1, f2
MCOwner == f1 :> a @@ f2 :> b
===============================================================================

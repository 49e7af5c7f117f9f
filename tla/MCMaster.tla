------------------------------- MODULE MCMaster -------------------------------
(* Two sites.  What is left of the first is a full batch of two lines; the  *)
(* second ends in a partial batch, a line that is not a URL and one that is. *)
EXTENDS Master, TLC

MCLength == 1 :> 3 @@ 2 :> 2
MCUrls == {<<1, 1>>, <<1, 2>>, <<1, 3>>, <<2, 2>>}
MCOutcomes == {<<-1, -1>>, <<M2S_URL, 0>>}
MCStartConfs == {1 :> 1 @@ 2 :> 0}
===============================================================================

----------------------------- MODULE SlaveClaims ------------------------------
(* What a comment in the slave says of it and the code does not do.         *)
EXTENDS MCSlave

\* "[001]<2013.04.22>Ensure the integrity of the web page" (slaver.cpp:159):
\* what is put into the file of a batch was read to its end.
PageIntegrity == \A p \in download \cup stored : p.whole

===============================================================================

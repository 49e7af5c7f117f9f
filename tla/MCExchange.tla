------------------------------ MODULE MCExchange ------------------------------
(* A long answer and a short one, read three characters at a time.            *)
EXTENDS Exchange

MCChars == {"id", "url", "#", FF}
MCReplies == {<<"id", "url", "#", "url", "#", FF>>, <<"id", FF>>}
===============================================================================

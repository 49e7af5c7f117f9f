------------------------------- MODULE MCSlave --------------------------------
(* Two slaves and three batches of two hosts; one URL has no path.          *)
EXTENDS Slave

MCUrls == {<<1, 1>>, <<1, 2>>, <<1, 3>>, <<2, 1>>}
MCSlashless == {<<2, 1>>}
MCBatches == {{<<1, 1>>, <<1, 2>>}, {<<1, 3>>}, {<<2, 1>>}}
MCVersion == [w \in Slaves |-> 2]
===============================================================================

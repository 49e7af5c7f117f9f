----------------------------- MODULE PageCustody ------------------------------
(* Who answers for a file of grabbed pages: the slave that keeps it, the    *)
(* repertory it was handed over to, or nobody.  A file leaves the slave     *)
(* once, nothing comes back, and one step loses at most one file.           *)
CONSTANT Files

VARIABLE custody

Init == custody = [f \in Files |-> "kept"]

HandOver(f) ==
  /\ custody[f] = "kept"
  /\ custody' = [custody EXCEPT ![f] = "handed"]

Lose(f) ==
  /\ custody[f] # "lost"
  /\ custody' = [custody EXCEPT ![f] = "lost"]

Next == \E f \in Files : HandOver(f) \/ Lose(f)

Spec == Init /\ [][Next]_custody

===============================================================================

------------------------------ MODULE SlotBuffer ------------------------------
(* A buffer with one place, many takers and one putter.  What a taker took  *)
(* stays with it until it is done.                                          *)
CONSTANTS Takers, Items, None

VARIABLES slot,    \* the item in the buffer, or None
          taken    \* taken[t]: the item taker t works on, or None

Init == slot = None /\ taken = [t \in Takers |-> None]

Put(i) ==
  /\ slot = None
  /\ \A t \in Takers : taken[t] # i
  /\ slot' = i
  /\ UNCHANGED taken

Take(t) ==
  /\ slot # None
  /\ taken[t] = None
  /\ taken' = [taken EXCEPT ![t] = slot]
  /\ slot' = None

Finish(t) ==
  /\ taken[t] # None
  /\ taken' = [taken EXCEPT ![t] = None]
  /\ UNCHANGED slot

Next == (\E i \in Items : Put(i)) \/ (\E t \in Takers : Take(t) \/ Finish(t))

Spec == Init /\ [][Next]_<<slot, taken>>

===============================================================================

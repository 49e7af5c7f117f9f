SPECIFICATION FairSpec
CONSTANTS
  Workers = {w1, w2}
  Sockets = {f1, f2, f3}
  NoSocket = none
  Capacity = 2
  Limit = 2
  Word = 8
INVARIANTS
  OneCustomer
  NoRaceOnSize
  SocketHasOneOwner
PROPERTIES
  BufferSpec
  EverySocketIsServed

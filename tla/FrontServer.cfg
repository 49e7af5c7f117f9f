\* Two workers and two connections of one piece, or a reset; two calls of sopen, one error.
SPECIFICATION FairSpec
CONSTANTS
  MAX_THREAD = 2
  Clients = {c1, c2}
  NoClient = NoClient
  MaxOpens = 2
  MaxSends = 1
  MaxResets = 1
  MaxErrors = 1
INVARIANTS
  OneOwner
  NoEdgeLost
  OnlyLeakedThreadsOutlive
PROPERTIES
  CloseWaitsForASignal
  StopEnds
  EveryRequestIsAnswered
CHECK_DEADLOCK FALSE

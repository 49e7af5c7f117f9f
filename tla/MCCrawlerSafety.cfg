\* Two slaves, a URL on each of two sites; a crash of the master, a death of a
\* slave and a delay or loss, each at any point.
SPECIFICATION Spec
CONSTANTS
  Slaves = {w1, w2}
  Sites = {1, 2}
  Length <- MCOneLine
  Urls <- MCTwoUrls
  AssignUrlNumber = 1
  CurrentVersion = 2
  Versions = {2}
  Outcomes = {}
  StartConfs <- MCConfs
  StoreBytes = {0, 1}
  MaxFds = 3
  MaxCrashes = 1
  Slashless = {}
  ConfVersion <- MCVersion
  WebAnswers = {"unreachable", "page"}
  MaxQueue = 2
  MaxDeaths = 1
  MaxFaults = 1
SYMMETRY MCSlaveSymmetry
INVARIANTS
  GrabbedOnce
  OverCountBounded
  DbCountsGrabs
CHECK_DEADLOCK FALSE

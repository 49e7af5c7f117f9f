SPECIFICATION Spec
CONSTANTS
  NumSites = 1
  File <- ClaimFile
  AssignUrlNumber = 3
  Missing <- ClaimMissing
  StartConfs <- ClaimConfs
  MaxBad = 0
INVARIANT EachUrlIsRequested

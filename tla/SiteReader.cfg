\* Four sites, batches of two, one failure per site.
SPECIFICATION FairSpec
CONSTANTS
  NumSites = 4
  File <- MCFile
  AssignUrlNumber = 2
  Missing <- MCMissing
  StartConfs <- MCStartConfs
  MaxBad = 1
INVARIANTS
  ChoosesLeastBad
  ReadsABatch
  BatchArrives
PROPERTIES
  SitesBeforeAMissingOneAreReadOut

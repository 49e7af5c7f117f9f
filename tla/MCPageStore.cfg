\* Two slaves with a file each, a crash of a slave, two faults of the repertory.
SPECIFICATION FairSpec
CONSTANTS
  a = a
  b = b
  f1 = f1
  f2 = f2
  Slaves = {a, b}
  Files = {f1, f2}
  Owner <- MCOwner
  NoFile = none
  Tries = 1
  FeedbackAfter = 1
  MaxFds = 3
  MaxConns = 3
  MaxCrashes = 1
  MaxFaults = 2
INVARIANTS
  TypeOK
  LossesBoundedByFaults
PROPERTIES
  ArchiveIsFinal
  CustodySpec
  EveryPageIsArchived
CHECK_DEADLOCK FALSE

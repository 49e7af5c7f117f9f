\* One slave, requests enough to exhaust both sites, one crash anywhere.
SPECIFICATION Spec
CONSTANTS
  Slaves = {1}
  Sites = {1, 2}
  Length <- MCLength
  Urls <- MCUrls
  AssignUrlNumber = 2
  CurrentVersion = 3
  Versions = {2, 3}
  Outcomes <- MCOutcomes
  StartConfs <- MCStartConfs
  StoreBytes = {0, 1}
  MaxFds = 6
  MaxCrashes = 1
INVARIANTS
  TypeOK
  NoReissue
  CursorFileMirrorsMemory
  DbNotAheadOfMemory
PROPERTIES
  SkipsOnlyATail
  LedgerSpec
CHECK_DEADLOCK FALSE

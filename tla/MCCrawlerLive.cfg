\* One slave, three URLs; a crash of the master and a death of the slave.
SPECIFICATION FairSpec
CONSTANTS
  Slaves = {1}
  Sites = {1, 2}
  Length <- MCLength
  Urls <- MCUrls
  AssignUrlNumber = 1
  CurrentVersion = 2
  Versions = {2}
  Outcomes = {}
  StartConfs <- MCConfs
  StoreBytes = {0, 1}
  MaxFds = 7
  MaxCrashes = 1
  Slashless = {}
  ConfVersion <- MCVersion
  WebAnswers = {"noname", "noaddress", "unreachable", "page"}
  MaxQueue = 2
  MaxDeaths = 1
  MaxFaults = 0
PROPERTIES
  FilesAreStored
CHECK_DEADLOCK FALSE

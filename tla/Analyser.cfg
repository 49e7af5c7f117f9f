\* Two runs over directories of three pages.
SPECIFICATION AnalyserSpec
CONSTANTS
  Page <- MCPage
  Dirs <- MCDirs
  Hidden = {"old"}
  KvFile = "kv.sql"
  Tails <- MCTails
  MaxRuns = 2
INVARIANTS
  AnalyserTypeOK
  RowsAreThePages
  EveryPageOncePerRun
CHECK_DEADLOCK FALSE

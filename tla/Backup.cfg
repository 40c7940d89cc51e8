\* Two versions, two faults or jobs beside the run, in three configurations.
CONSTANTS
  r1 = r1
  r2 = r2
  None = None
  Repos = {r1, r2}
  Configs <- MCConfigs
  Concurrency = 2
  Sign = TRUE
  RequireValid = TRUE
  KeepManifests = 2
SPECIFICATION BackupSpec
INVARIANTS
  ReportTrue
  VerifyHonest
  
PROPERTIES
  NothingForgotten
  VerifiesAgain
CHECK_DEADLOCK FALSE

SPECIFICATION FairSpec
CONSTANTS
  live = live
  dead = dead
  junk = junk
  Urls = {live, dead}
  DeadUrls = {dead}
  Junk = junk
  Lists <- SomeLists
  Permits = 1
  InitialHooks <- TwoHooks
  InitialGroups <- OneGroup
  AlertLists <- OneOrTwo
  MaxAlerts = 2
  MaxTasks = 1
  MaxRows = 3
  MaxEdits = 1
  MaxFaults = 1
  MaxGlitches = 2
CHECK_DEADLOCK FALSE
INVARIANTS
  TypeOK
  HeardOnce
PROPERTIES
  AlertsReachLiveHooks

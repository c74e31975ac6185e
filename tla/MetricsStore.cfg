SPECIFICATION FairSpec
CONSTANTS
  Slots = {r1, r2}
  Day = 2
  Retention = 2
  Days = 3
  Limit = 1
  ChannelCap = 1
  BatchMax = 2
  MaxAge = 6
  MaxRestarts = 1
INVARIANTS
  TypeOK
  DailyStatsComplete
PROPERTIES
  RetentionKept
  OldRowsGo
  AcceptedIsWritten

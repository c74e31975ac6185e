SPECIFICATION FairSpec
CONSTANTS
  Services = {v1}
  Initial = {}
  Targets = {t1, t2}
  Interval = 2
  Permits = {p1, p2}
  ChannelCap = 1
  MaxWaiting = 1
INVARIANT TypeOK
PROPERTIES
  DeletedStaysDeleted
  DueIsChecked
  StatusConverges

SPECIFICATION FairSpec
CONSTANTS
  Rules = {r1}
  Servers = {s1, s2}
  Defs <- TwoRules
  ReloadEvery = 2
  MinInterval = 2
  OfflineAfter = 1
  DedupMax = 1
  MaxLag = 2
  NoRule = NoRule
  Deleted = Deleted
  Never = Never
INVARIANT TypeOK
PROPERTIES
  MinIntervalKept
  NothingSuppressed
  RemovedRuleIsSilent

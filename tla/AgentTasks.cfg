SPECIFICATION FairSpec
CONSTANTS
  Servers = {s1, s2}
  Streams = {c1, c2}
  Handlers = {h1, h2}
  Capacity = 1
  Shards = {x1}
  ShardOf <- OneShard
  None = None
INVARIANTS
  TypeOK
PROPERTIES
  SendReturns
  AcceptedIsDelivered
  DeadEntryRemoved

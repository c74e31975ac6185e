SPECIFICATION Spec
CONSTANTS
  Requests = {q1, q2, q3}
  Threads = 2
  Last = 2
  FreshShards <- Shards
  Handlers <- Kinds
INVARIANTS
  TypeOK
  NoOtherDeadlock
SYMMETRY AnyRequest
CHECK_DEADLOCK FALSE

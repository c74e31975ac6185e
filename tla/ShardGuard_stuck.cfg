SPECIFICATION Spec
CONSTANTS
  Requests = {q1, q2}
  Threads = 1
  Last = 2
  FreshShards <- Shards
  Handlers = {"reportState", "monitorHistory"}
INVARIANT HistoryNoDeadlock
CHECK_DEADLOCK FALSE

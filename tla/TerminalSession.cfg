SPECIFICATION FairSpec
CONSTANTS
  Sessions = {s1}
  Tabs = {b1, b2}
  Calls = {c1, c2}
  Capacity = 1
  MaxUp = 3
  MaxDown = 1
  None = None
  Refused = Refused
  Ended = Ended
INVARIANTS
  TypeOK
PROPERTIES
  IsRelay
  TypedIsDelivered
  AgentLossEndsTab
  LeavingEndsCall
CHECK_DEADLOCK FALSE

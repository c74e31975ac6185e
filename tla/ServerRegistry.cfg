SPECIFICATION FairSpec
CONSTANTS
  Uuids = {a1, c1}
  AgentUuids = {a1}
  Names = {n1}
  AgentName = n1
  Forms <- HideForm
  Workers = {w1, w2}
  MaxId = 3
  MaxDeletes = 1
  MaxFaults = 1
  Mishaps = {"insert", "update", "delete", "drop"}
  MaxCrashes = 1
  NoRow = NoRow
  Keep = Keep
INVARIANTS
  TypeOK
  BackedByRow
  NoLostRow
  CopiesAgree
PROPERTIES
  IsDirectory
  AgentsGetRegistered

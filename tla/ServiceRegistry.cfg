SPECIFICATION Spec
CONSTANTS
  t1 = t1
  t2 = t2
  l1 = l1
  l2 = l2
  Targets = {t1, t2}
  Durations = {1, 9}
  Lists = {l1, l2}
  EmptyList = l1
  Entries <- OneEntry
  Forms <- ThreeForms
  Workers = {w1, w2}
  MaxId = 2
  MaxUpdates = 2
  MaxDeletes = 2
  MaxFaults = 1
  MaxCrashes = 1
SYMMETRY WorkerSymmetry
INVARIANTS
  TypeOK
  SameServices
  CopiesAgree

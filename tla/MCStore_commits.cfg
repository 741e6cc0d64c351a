CONSTANTS
  Id = {k1}
  Origin = {w1}
  Doc = {d1, d2}
  Record = {r1}
  recordOf <- OneRecord
  Thread = {t1, t2}
  None = None
  MaxRecords = 1
  Faults = {"damaged"}
  MaxOpen = 2
  MaxCalls = 5
SPECIFICATION Spec
CHECK_DEADLOCK FALSE
SYMMETRY Symmetry
INVARIANTS
  AckedSurvives
  DiskFollowsMemory
  TakenIsGone

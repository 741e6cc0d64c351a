CONSTANTS
  Id = {k1, k2}
  Origin = {}
  Doc = {}
  Record = {r1}
  recordOf <- OneRecord
  Thread = {t1}
  None = None
  MaxRecords = 1
  Faults = {"inaccessible"}
  MaxOpen = 2
  MaxCalls = 2
SPECIFICATION Spec
CHECK_DEADLOCK FALSE
INVARIANTS
  UnreadIsKept

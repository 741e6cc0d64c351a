CONSTANTS
  Client = {c1}
  Cred = {k1}
  Profile = {p1}
  Conn = {}
  Op = {o1, o2}
  Origin = {w1}
  Place <- OnePlace
  None = None
  MaxBrowsers = 1
  MaxGrants = 1
  MaxNative = 1
  MaxPermissions = 1
  MaxJobs = 2
  MaxSpent = 2
  MaxHandle = 1
  MaxTarget = 2
  MaxGrantId = 1
  MaxEpoch = 1
SPECIFICATION Spec
CHECK_DEADLOCK FALSE
SYMMETRY Symmetry
INVARIANTS
  HandleUsedOnce
  HonestFill
  VoidNeverFills
PROPERTY
  TakenUnderAuthority

CONSTANTS
  Client = {c1}
  Cred = {k1}
  Profile = {p1}
  Conn = {n1, n2}
  Op = {o1}
  Origin = {w1}
  Place <- TwoPlaces
  None = None
  MaxBrowsers = 1
  MaxGrants = 1
  MaxNative = 1
  MaxPermissions = 1
  MaxJobs = 2
  MaxSpent = 2
  MaxHandle = 2
  MaxTarget = 1
  MaxGrantId = 1
  MaxEpoch = 2
SPECIFICATION Spec
CONSTRAINT Family
CHECK_DEADLOCK FALSE
SYMMETRY Symmetry
INVARIANTS
  NoUnattendedLoop
  DisconnectForgets
  BrowserReopens
  ConsentStaysRevoked

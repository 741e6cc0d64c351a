CONSTANTS
  Client = {c1, c2}
  Profile = {p1, p2}
  Op = {o1}
  None = None
  Usable <- AllUsable
  MaxProfiles = 2
  MaxGrants = 1
  MaxJobs = 2
  MaxSpent = 2
  MaxContent = 2
  MaxGrantId = 2
  MaxReset = 1
  MaxEpoch = 2
SPECIFICATION Spec
CHECK_DEADLOCK FALSE
SYMMETRY Symmetry
INVARIANTS
  AtMostOnce
  AuditedFirst
  ConsentBindsContent
  RevokedStaysRevoked
  DiskReopens

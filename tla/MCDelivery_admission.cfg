CONSTANTS
  Client = {c1}
  Profile = {p1}
  Op = {o1, o2}
  None = None
  Usable <- AllUsable
  MaxProfiles = 1
  MaxGrants = 1
  MaxJobs = 2
  MaxSpent = 2
  MaxContent = 2
  MaxGrantId = 1
  MaxReset = 1
  MaxEpoch = 2
SPECIFICATION RSpec
CONSTRAINT Family
CHECK_DEADLOCK FALSE
SYMMETRY Symmetry
INVARIANTS
  OneWorkflow
  FinishedIsReleased
  HonestReceipt
  VoidNeverRuns
PROPERTIES
  ReleaseAsApproved
  FaultFreezes
  ImplementsOneUse

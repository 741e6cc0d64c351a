CONSTANTS
  Client = {c1}
  Profile = {p1}
  Op = {o1}
  None = None
  Usable <- AllUsable
  MaxProfiles = 1
  MaxGrants = 1
  MaxJobs = 2
  MaxSpent = 2
  MaxContent = 1
  MaxGrantId = 1
  MaxReset = 1
  MaxEpoch = 1
SPECIFICATION FairSpec
CHECK_DEADLOCK FALSE
PROPERTIES
  EveryTaskEnds
  ShutdownEnds

CONSTANTS
  Secret = {s1}
  Policy <- Policies
  Route = {r1}
  Label <- Labels
  Junk = "bad/"
  Lower <- LowerCase
  Text <- Texts
  Site <- Sites
  Authority = {None}
  Thread = {a1, a2}
  None = None
  MaxHosts = 2
  MaxBatch = 2
  ApprovalTtl = 1
  GrantTtl = 1
  DayLength = 2
  MaxTime = 1
  MaxChallenge = 1
  MaxToken = 2
  MaxUses = 1
  Origin = {w1, w2, w3}
  Cookie <- Cookies
  Item <- Items
  Url <- Urls
  Capturer = {a1, a2}
  Replayer = {p1}
  NoEntry = NoEntry
  MaxOrigins = 2
  MaxCapture = 3
  MaxAge = 1
  Client = {a1, a2}
  LabelOf <- OwnLabels
  Ref = {i1, i2}
  Id = {i1, i2}
  Absent = Absent
  MaxClients = 2
  MaxCredentials = 2
  MaxPending = 2
  ConsentTtl = 1
  Retention = 2
  MaxClock = 2
  MaxEpoch = 2
  Execution <- JoinedExecutions
  Field <- JoinedFields
  Nothing = Nothing
  MaxInstant = 2
  MaxRegistered = 3
SPECIFICATION TSpec
CONSTRAINT Families
CHECK_DEADLOCK FALSE
SYMMETRY Symmetry
INVARIANTS
  WithinReach
  SpentAtMostOnce
  RejectsWhatWasUsed
  AccessReopens
  AllowedIsKept
  HeldForItsTerm
PROPERTY
  AnswerStands

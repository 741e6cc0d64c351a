CONSTANTS
  Scope <- JoinedScope
  Input <- JoinedInput
  d1 = d1
  h1 = h1
  h2 = h2
  Destination = {d1}
  Challenge = {h1, h2}
  None = None
  Bindings <- OneBinding
  Claims <- TwoClaims
  Retention = 1
  MaxTime = 2
  MaxGen = 2
  MaxId = 2
SPECIFICATION Spec
CHECK_DEADLOCK FALSE
INVARIANTS
  SpentOnce
  JournaledOnce
PROPERTIES
  NewestOnly
  HolderSubmits
  InTime

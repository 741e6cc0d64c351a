CONSTANTS
  Scope <- OneScope
  Input <- OneInput
  d1 = d1
  h1 = h1
  h2 = h2
  Destination = {d1}
  Challenge = {h1, h2}
  None = None
  Bindings <- NoBindings
  Claims <- NoBindings
  Retention = 1
  MaxTime = 2
  MaxGen = 2
  MaxId = 1
SPECIFICATION Spec
CHECK_DEADLOCK FALSE
INVARIANT SupersededAnswers

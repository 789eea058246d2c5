\* Pauses and resumes against a wait of two seconds; fair time and tending.
SPECIFICATION FairSpec
CONSTANTS
  None = None
  i1 = i1
  i2 = i2
  c1 = c1
  c2 = c2
  Ids = {i1, i2}
  Conns = {c1}
  Ops = {o1}
  HoldCount = 0
  MaxPending = 1
  MaxTotal = 1
  MaxConns = 2
  MaxRefusals = 1
  Wait = 2
  MaxPause = 2
  MaxFaults = 1
  MaxCrashes = 0
INVARIANTS
  NoEarlyExpiry
PROPERTIES
  EventuallyAnswered
CHECK_DEADLOCK FALSE

\* Two held capabilities beside one connection; a failing append and a node death anywhere.
SPECIFICATION Spec
CONSTANTS
  None = None
  i1 = i1
  i2 = i2
  c1 = c1
  c2 = c2
  Ids = {}
  Conns = {c1}
  Ops = {o1, o2}
  HoldCount = 2
  MaxPending = 1
  MaxTotal = 0
  MaxConns = 2
  MaxRefusals = 1
  Wait = 1
  MaxPause = 0
  MaxFaults = 1
  MaxCrashes = 1
INVARIANTS
  HoldNeedsApproval
  SilentOnceFinished
  LogOrdered
CHECK_DEADLOCK FALSE

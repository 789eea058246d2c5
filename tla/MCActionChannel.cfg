\* Two connections, two requests, one failing append and a node death anywhere.
SPECIFICATION Spec
CONSTANTS
  None = None
  i1 = i1
  i2 = i2
  c1 = c1
  c2 = c2
  Ids = {i1, i2}
  Conns = {c1, c2}
  Ops = {o1}
  HoldCount = 0
  MaxPending = 1
  MaxTotal = 2
  MaxConns = 2
  MaxRefusals = 1
  Wait = 1
  MaxPause = 0
  MaxFaults = 1
  MaxCrashes = 1
SYMMETRY Swap
INVARIANTS
  ToldAfterRecord
  ListedRecorded
  EvidenceBounded
PROPERTIES
  AnswerFinal
CHECK_DEADLOCK FALSE

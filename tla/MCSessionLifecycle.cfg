\* One session, two processes, one capture; two faults, deaths of the daemon included.
CONSTANTS
  Procs = {p1, p2}
  Caps = {c1}
  None = None
  MaxTrouble = 2
SPECIFICATION FairSpec
INVARIANTS
  StopEndsAll
  CaptureQuiescent
  NothingStranded
PROPERTIES
  StopIsFinal
  UserPauseStands
  OperationsEnd
CHECK_DEADLOCK FALSE

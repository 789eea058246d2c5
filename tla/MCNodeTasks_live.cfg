\* Two attempts of one task under fair scheduling, two I/O failures.
SPECIFICATION FairSpec
CONSTANTS
  None = None
  t1 = t1
  t2 = t2
  a1 = a1
  a2 = a2
  b1 = b1
  l1 = l1
  l2 = l2
  Leases <- BothLeases
  Tasks <- OneTask
  Attempts <- OneTaskAttempts
  TaskOf <- OneTaskOf
  LeaseOf <- OneTaskLease
  Ops = {o1}
  Versions = {1}
  Capacity = 1
  MaxRunning = 1
  MaxPauses = 1
  MaxFaults = 2
  MaxCrashes = 0
PROPERTIES
  StopReaped
  RequestAnswered
CHECK_DEADLOCK FALSE

\* Two tasks in a registry of one: eviction, then a restart.
SPECIFICATION Spec
CONSTANTS
  None = None
  t1 = t1
  t2 = t2
  a1 = a1
  a2 = a2
  b1 = b1
  l1 = l1
  l2 = l2
  Leases <- BothLeases
  Tasks <- TwoTasks
  Attempts <- TwoTasksAttempts
  TaskOf <- TwoTasksOf
  LeaseOf <- TwoTasksLease
  Ops = {o1}
  Versions = {1}
  Capacity = 1
  MaxRunning = 1
  MaxPauses = 0
  MaxFaults = 0
  MaxCrashes = 1
INVARIANTS
  RestartServes
CHECK_DEADLOCK FALSE

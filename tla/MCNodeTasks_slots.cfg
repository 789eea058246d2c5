\* Two tasks, room for one running attempt and for one task: slots, evictions, pauses, logs.
SPECIFICATION Spec
CONSTANTS
  None = None
  t1 = t1
  t2 = t2
  a1 = a1
  a2 = a2
  b1 = b1
  l1 = l1
  l2 = l2
  Leases <- BothLeases
  Tasks <- TwoTasks
  Attempts <- TwoTasksAttempts
  TaskOf <- TwoTasksOf
  LeaseOf <- TwoTasksLease
  Ops = {o1}
  Versions = {1}
  Capacity = 1
  MaxRunning = 1
  MaxPauses = 1
  MaxFaults = 1
  MaxCrashes = 1
INVARIANTS
  SlotBound
  PausedIffFrozen
  LogAgrees
CHECK_DEADLOCK FALSE

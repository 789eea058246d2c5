\* One task, two attempts: two crashes and one I/O failure anywhere.
SPECIFICATION Spec
CONSTANTS
  None = None
  t1 = t1
  t2 = t2
  a1 = a1
  a2 = a2
  b1 = b1
  l1 = l1
  l2 = l2
  Leases <- BothLeases
  Tasks <- OneTask
  Attempts <- OneTaskAttempts
  TaskOf <- OneTaskOf
  LeaseOf <- OneTaskLease
  Ops = {o1}
  Versions = {1, 2}
  Capacity = 1
  MaxRunning = 1
  MaxPauses = 0
  MaxFaults = 1
  MaxCrashes = 2
SYMMETRY SwapAttempts
INVARIANTS
  LaunchedOnce
  StopConfirmed
  SupersededNeverReturns
  ReceiptKept
  SealedLogMatches
PROPERTIES
  AdmissionNeverReplayed
  RevokedNeverLaunched
CHECK_DEADLOCK FALSE

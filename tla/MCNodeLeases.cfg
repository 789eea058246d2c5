\* Two services, one start, a renewal the provider may grant past the maximum; three faults.
SPECIFICATION FairSpec
CONSTANTS
  Services = {s1, s2}
  MaxStarts = 1
  Ttl = 3
  MaxTtl = 5
  MaxNow = 3
  MaxTrouble = 3
INVARIANTS
  HandleKept
  RouteRecorded
PROPERTIES
  NotReopened
  LeasesEnd
CHECK_DEADLOCK FALSE

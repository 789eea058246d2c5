\* Two snapshots with a shared blob, two captures, one sweep and one keep.
SPECIFICATION Spec
CONSTANTS
  None = None
  s1 = s1
  s2 = s2
  b1 = b1
  b2 = b2
  Snapshots = {s1, s2}
  Blobs = {b1, b2}
  Content <- TwoContent
  Captures = {c1, c2}
  Sweeps = {g1}
  Grace = 1
  Ttl = 2
  MaxTime = 2
  MaxCaptures = 2
  MaxSweeps = 1
  MaxKeeps = 1
  MaxSkips = 1
SYMMETRY TwoCaptures
INVARIANTS
  RootsStored
  ManifestsWhole
CHECK_DEADLOCK FALSE

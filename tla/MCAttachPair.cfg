SPECIFICATION Spec
CONSTANTS
  c1 = c1
  c2 = c2
  r1 = r1
  Initial = {c1, c2}
  Resuming = {}
  Owners = {TRUE}
  LastEvent = 3
  MaxEarly = 1
  MaxBuffer = 2
  FirstSeqs = {0, 1}
  MaxFailures = 1
  MaxLosses = 0
  MaxBroken = 1
INVARIANTS TypeOK DeltasInOrderOnce FenceHasOwner
SYMMETRY ClientSymmetry
CHECK_DEADLOCK FALSE

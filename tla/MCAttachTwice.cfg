SPECIFICATION Spec
CONSTANTS
  c1 = c1
  c2 = c2
  r1 = r1
  Initial = {c1}
  Resuming = {r1}
  Owners = {TRUE}
  LastEvent = 4
  MaxEarly = 3
  MaxBuffer = 2
  FirstSeqs = {0, 1}
  MaxFailures = 0
  MaxLosses = 0
  MaxBroken = 0
INVARIANT DeltasInOrderOnce
CHECK_DEADLOCK FALSE

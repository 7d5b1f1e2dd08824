SPECIFICATION Spec
CONSTANTS
  c1 = c1
  c2 = c2
  c3 = c3
  Callers = {c1, c2, c3}
  MaxGenerations = 1
  MaxPauses = 2
  MaxCrashes = 0
  FencedDecisions = TRUE
SYMMETRY CallerSymmetry
CHECK_DEADLOCK FALSE
INVARIANTS
  SingleDriver
  ResumedOnlyIfPersisted
  StaleBarrierNeverStuck
PROPERTIES
  ExpiryHitsOnlyLapsed

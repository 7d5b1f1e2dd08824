SPECIFICATION Spec
CONSTANTS
  Attempts = {a1, a2, a3}
  NoClaim = NoClaim
  NotStarted = NotStarted
  NoJob = NoJob
  Other = Other
  MaxFaults = 1
SYMMETRY Symmetry
CONSTRAINT Remembered
INVARIANTS OneGeneration RunIsFenced
PROPERTIES StartedStays
CHECK_DEADLOCK FALSE

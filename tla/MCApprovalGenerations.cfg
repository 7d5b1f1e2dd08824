SPECIFICATION FairSpec
CONSTANTS
  c1 = c1
  c2 = c2
  Callers = {c1, c2}
  MaxGenerations = 2
  MaxPauses = 1
  MaxCrashes = 1
  FencedDecisions = TRUE
CHECK_DEADLOCK FALSE
INVARIANTS
  SingleTerminalOwner
PROPERTIES
  StaleGenerationIsInert
  ReviewEnds
  WaitEnds

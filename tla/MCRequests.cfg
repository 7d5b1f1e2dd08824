SPECIFICATION Spec
CONSTANTS
  Requests = {r1, r2, r3}
  Limit = 2
  NoRecord = NoRecord
  StartBalance = 1
  RefillAmount = 1
  Cost = 1
  Charge = 1
  MaxAttempts = 2
  MaxFaults = 1
SYMMETRY Symmetry
INVARIANTS CounterTellsHolders LimitHolds SlotsBoundRaces
PROPERTIES UpdatesCompose
CHECK_DEADLOCK FALSE

SPECIFICATION Spec
CONSTANTS
  p = p
  q = q
  c1 = c1
  c2 = c2
  Replicas = {p, q}
  Clients = {c1}
  Routes <- OneClient
  Owner = p
  NoRow = NoRow
  CleanupOnComplete = TRUE
  Lease = 1
  Retention = 2
  MaxFaults = 0
INVARIANTS NobodyHangs
CHECK_DEADLOCK FALSE

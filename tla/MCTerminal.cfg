SPECIFICATION FairSpec
CONSTANTS
  p = p
  q = q
  c1 = c1
  c2 = c2
  Replicas = {p, q}
  Clients = {c1, c2}
  Routes <- TwoClients
  Owner = p
  NoRow = NoRow
  CleanupOnComplete = TRUE
  Lease = 1
  Retention = 2
  MaxFaults = 1
INVARIANTS NormalIsDurable OnePayload
PROPERTIES UnsentStays LateComersAreTold
CHECK_DEADLOCK FALSE

SPECIFICATION FairSpec
CONSTANTS
  Steers = {s1, s2, s3}
  NoSteer = NoSteer
  MaxGenerations = 2
  MaxDepth = 2
INVARIANTS TypeOK ReceiptsTellPlace AppliedInOrder
PROPERTIES StaleRunIsInert RecoveryOwnsSteer KeepsContract SteersSettle
CHECK_DEADLOCK FALSE

SPECIFICATION FairSpec
CONSTANTS
  c1 = c1
  c2 = c2
  r1 = r1
  Initial = {c1}
  Resuming = {}
  Owners = {TRUE, FALSE}
  LastEvent = 4
  MaxEarly = 2
  MaxBuffer = 2
  FirstSeqs = {0, 1}
  MaxFailures = 0
  MaxLosses = 1
  MaxBroken = 1
INVARIANTS FirstAttachmentWhole GapsAreTimed CreatedFirst
PROPERTIES DoneComesLast DoneReaches
CHECK_DEADLOCK FALSE

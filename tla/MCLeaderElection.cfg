SPECIFICATION FairSpec
CONSTANTS
  s1 = s1
  s2 = s2
  k1 = k1
  k2 = k2
  Servers = {s1, s2}
  Calls = {k1}
  NoLeader = NoLeader
  Lease = 2
  Renew = 1
  Attempts = 1
  Paces = {TRUE, FALSE}
  MaxFailures = 1
  MaxUnread = 1
INVARIANTS LeaseKept
PROPERTIES LeaseIsTheHolders LeaseRunsOut LoserStops
CHECK_DEADLOCK FALSE

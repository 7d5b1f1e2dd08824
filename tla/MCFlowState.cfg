SPECIFICATION FairSpec
CONSTANTS
  Callers = {c1, c2}
  Callbacks = {b1}
  NoFlow = NoFlow
  Types = {"mcp_oauth", "mcp_get_tokens", "oauth", "oauth_login", "oauth_refresh", "MEILI_SYNC"}
  Ttl = 3
  Handling = 1
  MaxFlows = 2
INVARIANTS LearnsTheEnd
PROPERTIES WaitersSettle
CHECK_DEADLOCK FALSE

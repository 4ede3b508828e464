SPECIFICATION FairSpec
CONSTANTS
  Prompts = {p1, p2}
  Root = p1
  Claims = {c1, c2}
  Sessions = {s1}
  NoClaim = NoClaim
  NoRef = NoRef
  NoSession = NoSession
  NoTask = NoTask
CHECK_DEADLOCK FALSE
PROPERTIES
  NobodyWaits

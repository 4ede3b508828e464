SPECIFICATION FairSpec
CONSTANTS
  a = a
  b = b
  c = c
  m = m
  n = n
  None = None
  KeyCount = 2
  Models = {m, n}
  Policy = "round_robin"
  LockoutTiers <- OneLockoutTier
  RateLimitSeconds = 1
  RateLimitMax = 2
  Escalation = 2
  Requests = {a, c}
  ModelOf <- MCModelOf
  RetryAfters <- ShortRetryAfter
  MaxThrottle = 1
  RoutesAround = TRUE
CHECK_DEADLOCK FALSE
INVARIANTS
  ZeroMeansFree
PROPERTIES
  GivesUpLast
  EscalatesWhole
  KeyWakes
  RequestEnds

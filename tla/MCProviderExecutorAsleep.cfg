SPECIFICATION Spec
CONSTANTS
  m1 = m1
  m2 = m2
  m3 = m3
  p = p
  q = q
  Route <- MCRoute
  ProviderOf <- MCProviderOf
  Policies <- MCPolicies
  Pooled = {p}
  Siblings = {p}
  EjectAfter = 1
  EjectWindow = 2
  MinSamples = 1
  MaxTotal = 3
  MaxRequests = 1
  MaxOthers = 1
CHECK_DEADLOCK FALSE
INVARIANT ShareBoundsSilence

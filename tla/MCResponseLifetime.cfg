SPECIFICATION FairSpec
CONSTANT Callers = {c1, c2}
CHECK_DEADLOCK FALSE
INVARIANTS
  ReleasedAfterBody
  ShieldHolds
PROPERTY Returns

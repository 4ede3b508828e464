SPECIFICATION Spec
CONSTANTS
  plain = plain
  aliased = aliased
  task = task
  Tools = {plain, aliased, task}
  CallOf <- MCCallOf
  Whole = 2
  Policies <- MCPolicies
  MaxHeld = 8
  MaxChunks = 4
CHECK_DEADLOCK FALSE
INVARIANTS
  WireLegal
  OneAttempt
  HeldWhileSilent
  CallsAreWhole

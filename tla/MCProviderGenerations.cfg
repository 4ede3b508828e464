SPECIFICATION FairSpec
CONSTANTS
  Requests = {q1, q2}
  Sweep = sweep
  None = none
  MaxRuntimes = 3
CHECK_DEADLOCK FALSE
INVARIANTS
  LeasesHold
  NothingForgotten
  ClosedIsAll
PROPERTIES
  ClosedOnce
  NobodyHangs

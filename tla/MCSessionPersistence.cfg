SPECIFICATION FairSpec
CONSTANT MaxSaves = 2
CHECK_DEADLOCK FALSE
INVARIANTS
  CurrentIsNewest
  NothingForgotten
PROPERTIES
  Durable
  EventuallySaved
  LoopReturns

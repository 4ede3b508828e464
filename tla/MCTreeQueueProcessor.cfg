SPECIFICATION ProcSpec
CONSTANTS
  Prompts = {p1, p2, p3}
  Root = p1
  Claims = {c1, c2}
  Sessions = {s1}
  NoClaim = NoClaim
  NoRef = NoRef
  NoSession = NoSession
  NoTask = NoTask
CHECK_DEADLOCK FALSE
SYMMETRY Symmetry
INVARIANTS
  ScheduleAgrees
  SnapshotRestorable
  AncestorsSettled
  NoneStranded
PROPERTIES
  NoOvertaking
  VerdictsStand
  Spec
  StoppedNeverStarts

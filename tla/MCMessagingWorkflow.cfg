SPECIFICATION Spec
CONSTANTS
  a = a
  b = b
  k = k
  l = l
  Prompts = {a, b}
  Commands = {c1, c2}
  Chats = {k, l}
  Shapes <- MCShapes
  NoRef = NoRef
  Free = Free
  NoticeChat = k
CHECK_DEADLOCK FALSE
INVARIANTS
  OlderTurnsGone
  StoreAgrees
  Accountable

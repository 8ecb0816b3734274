SPECIFICATION RouterFairSpec
CONSTANTS
  d1 = d1
  d2 = d2
  d3 = d3
  m1 = m1
  m2 = m2
  Requests = {d1, d2, d3}
  Ids = {m1, m2}
  IdOf <- MCIdOf
  KindOf <- MCKindOf
  Texts = {"progress", "answer"}
  MaxSessions = 1
  Capacity = 1
  Undefined = Undefined
INVARIANTS
  OncePerWindow
  OneReply
  TypingEndsWithChat
  SilenceExcused
PROPERTIES
  EveryMessageConcluded
CHECK_DEADLOCK FALSE

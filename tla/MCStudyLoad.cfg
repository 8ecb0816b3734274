SPECIFICATION StudySpec
CONSTANTS
  c1 = c1
  c2 = c2
  c3 = c3
  c4 = c4
  NoState = NoState
  Calls = {c1, c2, c3}
  Queries = {}
  EarlyCalls = {c3}
  MaxDaily = 2
  Days = 0
  Crashes = 1
INVARIANT
  AcceptedIsKept
CHECK_DEADLOCK FALSE

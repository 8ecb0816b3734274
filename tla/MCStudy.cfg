SPECIFICATION StudyFairSpec
CONSTANTS
  c1 = c1
  c2 = c2
  c3 = c3
  c4 = c4
  NoState = NoState
  Calls = {c1, c2, c3, c4}
  Queries = {c4}
  EarlyCalls = {}
  MaxDaily = 1
  Days = 1
  Crashes = 1
INVARIANTS
  OneStudyAtATime
  WithinDailyLimit
PROPERTIES
  RequestsAdvance
  EverythingStudied
CHECK_DEADLOCK FALSE

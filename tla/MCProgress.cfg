SPECIFICATION FairSpec
CONSTANTS
  r1 = r1
  r2 = r2
  k1 = k1
  Requests = {r1, r2}
  Keys = {k1}
  KeyOf <- MCKeyOf
  Outcomes = {"failed"}
  Reporting = {r1}
  MaxSessions = 1
  None = None
  DiskMayFail = TRUE
PROPERTIES
  EverySessionEnds
  EverySlotReleased
CHECK_DEADLOCK FALSE

SPECIFICATION Spec
CONSTANTS
  r1 = r1
  r2 = r2
  k1 = k1
  Requests = {r1, r2}
  Keys = {k1}
  KeyOf <- MCKeyOf
  Outcomes = {"failed"}
  Reporting = {r1, r2}
  MaxSessions = 1
  None = None
  DiskMayFail = TRUE
INVARIANTS
  CapacityWithinOverlap
  TimedOrTold
  KillAfterTerm
  ShutdownReachesAll
  ResumesEndedSession
PROPERTIES
  ImplementsPool
CHECK_DEADLOCK FALSE

SPECIFICATION MCSpec
CONSTANTS
  p1 = p1
  p2 = p2
  NoFile = NoFile
  NoPid = NoPid
  Launches = {1, 2, 3}
  Pids = {p1, p2}
  PidReuse = TRUE
  Foreign <- OtherUser
INVARIANTS
  SingleInstance
PROPERTIES
  PointerTellsCrash
  RefusedRightly
  StopsOnSignal
CHECK_DEADLOCK FALSE

SPECIFICATION CleanupSpec
CONSTANTS
  k1 = k1
  k2 = k2
  Keys = {k1, k2}
  NoKey = NoKey
PROPERTY
  OnlyOldRemoved
CHECK_DEADLOCK FALSE

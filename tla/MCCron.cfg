SPECIFICATION CronFairSpec
CONSTANTS
  j1 = j1
  j2 = j2
  Jobs = {j1, j2}
  RunOnStart = {j1}
  Triggered = {j1}
INVARIANTS
  OneHandler
  OneTimerChain
  QuietAfterStop
PROPERTY
  KeepsRunning
CHECK_DEADLOCK FALSE

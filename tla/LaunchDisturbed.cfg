SPECIFICATION LaunchSpec
CONSTANTS
  Tasks = {t1}
  NoTask = NoTask
  NoLane = NoLane
  LaneCount = 1
  Launches = {1, 2}
  Disturbances = {"pause", "cancel", "stop", "restart", "transient", "slow inspection"}
  MaxAttempts = 1
  MaxPauses = 1
  MaxCrashes = 1
INVARIANTS
  LaunchTypeOK
PROPERTIES
  KeepsStore
CHECK_DEADLOCK FALSE

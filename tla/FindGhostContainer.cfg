SPECIFICATION LaunchSpec
CONSTANTS
  Tasks = {t1, t2}
  NoTask = NoTask
  NoLane = NoLane
  LaneCount = 2
  Launches = {1, 2}
  Disturbances = {"pause", "cancel"}
  MaxAttempts = 1
  MaxPauses = 1
  MaxCrashes = 1
INVARIANTS
  CanceledLeavesNothing
CHECK_DEADLOCK FALSE

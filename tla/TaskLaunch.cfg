SPECIFICATION LaunchSpec
CONSTANTS
  Tasks = {t1, t2}
  NoTask = NoTask
  NoLane = NoLane
  LaneCount = 2
  Launches = {1, 2}
  Disturbances = {"cancel", "stop", "restart"}
  MaxAttempts = 1
  MaxPauses = 1
  MaxCrashes = 1
INVARIANTS
  OneLaunchPerTask
  RunsInItsLane
  CanceledLeavesNothing
CHECK_DEADLOCK FALSE

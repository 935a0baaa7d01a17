SPECIFICATION FairLaunchSpec
CONSTANTS
  Tasks = {t1, t2}
  NoTask = NoTask
  NoLane = NoLane
  LaneCount = 1
  Launches = {1}
  Disturbances = {"pause"}
  MaxAttempts = 1
  MaxPauses = 1
  MaxCrashes = 1
INVARIANTS
  NoLaneLost
PROPERTIES
  WaitingGetsToRun
CHECK_DEADLOCK FALSE

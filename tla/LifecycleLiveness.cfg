SPECIFICATION FairSpec
CONSTANTS
  root = root
  child = child
  leaf = leaf
  fresh = fresh
  NoTask = NoTask
  Tasks <- SmallTasks
  Root = root
  Children <- SmallChildren
  Rerunnable = {child}
  Requests = {1}
  Kinds = {"pause", "cancel", "stop task"}
  Dispatchers = {1}
  MaxTasks = 2
  MaxCrashes = 0
PROPERTIES
  RunningEnds
CHECK_DEADLOCK FALSE

SPECIFICATION LifecycleSpec
CONSTANTS
  root = root
  child = child
  leaf = leaf
  fresh = fresh
  NoTask = NoTask
  Tasks <- MCTasks
  Root = root
  Children <- MCChildren
  Rerunnable = {child}
  Requests = {1}
  Kinds = {"pause", "resume", "cancel", "stop task"}
  Dispatchers = {1, 2}
  MaxTasks = 3
  MaxCrashes = 1
INVARIANTS
  FinalizingHasNoOpenTask
  FinishedIsExpanded
CHECK_DEADLOCK FALSE

SPECIFICATION LifecycleSpec
CONSTANTS
  root = root
  child = child
  leaf = leaf
  fresh = fresh
  NoTask = NoTask
  Tasks <- SmallTasks
  Root = root
  Children <- SmallChildren
  Rerunnable = {child}
  Requests = {1}
  Kinds = {"candidate", "stop task"}
  Dispatchers = {1}
  MaxTasks = 2
  MaxCrashes = 0
INVARIANTS
  BudgetRespected
PROPERTIES
  OnlyStoreWrites
CHECK_DEADLOCK FALSE

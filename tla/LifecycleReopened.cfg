SPECIFICATION LifecycleSpec
CONSTANTS
  root = root
  child = child
  leaf = leaf
  fresh = fresh
  NoTask = NoTask
  Tasks <- SmallTasks
  Root = root
  Children <- SmallChildren
  Rerunnable = {child}
  Requests = {1}
  Kinds = {"retry", "rerun", "sync", "cancel"}
  Dispatchers = {1}
  MaxTasks = 3
  MaxCrashes = 1
INVARIANTS
  LifecycleTypeOK
  SettlerIsCurrent
  ReopensOnlyStopped
  FinishedIsSettled
  CanceledIsQuiescent
  EndedBranchOwesNoDispatch
PROPERTIES
  KeepsContract
CHECK_DEADLOCK FALSE

SPECIFICATION FairServerSpec
CONSTANTS
  Messages = {j1, j2, j3}
  Limits = {1, 2}
  Concurrency = 3
  Interrupted = {j3}
  Calls = {1}
  Kinds = {"pause", "cancel", "resume"}
  MaxCalls = 1
  MaxCrashes = 1
INVARIANTS
  ServerTypeOK
  LimitIsKept
  RunningIsCaredFor
  SlotsAreCounted
  EachWaitsOnce
  NoLostWakeup
PROPERTIES
  EveryJobGetsItsTurn
CHECK_DEADLOCK FALSE

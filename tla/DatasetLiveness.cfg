SPECIFICATION FairEvaluationSpec
CONSTANTS
  Evaluations = {e1}
  TrialCount = 2
  Requests = {1}
  Kinds = {"start", "pause", "cancel"}
  Budgeted = TRUE
  MayFail = FALSE
  MaxCalls = 2
  MaxCrashes = 0
PROPERTIES
  TrialsGetVerdicts
  CanceledScanStops
CHECK_DEADLOCK FALSE

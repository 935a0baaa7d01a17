SPECIFICATION EvaluationSpec
CONSTANTS
  Evaluations = {e1}
  TrialCount = 2
  Requests = {1, 2}
  Kinds = {"start", "pause", "cancel"}
  Budgeted = TRUE
  MayFail = TRUE
  MaxCalls = 2
  MaxCrashes = 1
INVARIANTS
  EvaluationTypeOK
  OneTrialInOrder
  OneScanAtATime
  VerdictFitsScan
  CompletedIsComplete
PROPERTIES
  VerdictIsFinal
CHECK_DEADLOCK FALSE

------------------------- MODULE MCDatasetEvaluation -------------------------
(* Evaluations of one or two trials, and calls that overlap.                *)
EXTENDS DatasetEvaluation
=============================================================================

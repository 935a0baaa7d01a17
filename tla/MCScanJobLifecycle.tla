------------------------- MODULE MCScanJobLifecycle -------------------------
(* A root task that expands into a child, a child that expands into a leaf,  *)
(* and one fresh id for reruns and candidate analyses.                       *)
EXTENDS ScanJobLifecycle

CONSTANTS root, child, leaf, fresh

MCTasks == {root, child, leaf, fresh}
MCChildren == [t \in MCTasks |->
  CASE t = root -> {child} [] t = child -> {leaf} [] OTHER -> {}]
\* Without the leaf: a smaller instance for the runs with many API calls.
SmallTasks == {root, child, fresh}
SmallChildren == [t \in SmallTasks |-> IF t = root THEN {child} ELSE {}]
=============================================================================

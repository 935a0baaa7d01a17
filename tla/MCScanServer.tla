---------------------------- MODULE MCScanServer ----------------------------
(* Three jobs that compete for one or two slots; one of them was paused     *)
(* while it ran and may be resumed beside the others.                       *)
EXTENDS ScanServer
=============================================================================

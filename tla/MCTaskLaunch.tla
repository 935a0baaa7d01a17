---------------------------- MODULE MCTaskLaunch ----------------------------
(* Two tasks for one or two lanes, and two launches at the same time.        *)
EXTENDS TaskLaunch
=============================================================================

--------------------------- MODULE ScanJobContract ---------------------------
(***************************************************************************)
(* What a scan job promises to those who look at its status: the abstract  *)
(* specification that ScanJobLifecycle implements.  A job is its status    *)
(* and whether work is outstanding, that is, a task is open or a completed *)
(* task has not been expanded yet.                                         *)
(***************************************************************************)

VARIABLES
  status,       \* scan_jobs.status
  work          \* work is outstanding

contractVars == <<status, work>>

Moves(from, to) == status \in from /\ status' = to

ContractInit == status = "pending" /\ work = FALSE

\* The worker starts, a user pauses or resumes, the worker gives up.
Start  == Moves({"pending"}, "running") /\ UNCHANGED work
Pause  == Moves({"pending", "running"}, "paused") /\ UNCHANGED work
Resume == Moves({"paused"}, "running") /\ UNCHANGED work
Fail   == Moves({"pending", "running", "paused"}, "failed") /\ UNCHANGED work

\* Work appears only in a job that is to run, and may be done in any.
Grow   == Moves({"pending", "running"}, status) /\ work' = TRUE
Shrink == work' = FALSE /\ UNCHANGED status

\* A cancellation takes the outstanding work with it.
Cancel == Moves({"pending", "running", "paused"}, "canceled") /\ work' = FALSE

\* The verdict is given in two steps, and only to a job without work.
Settle  == Moves({"pending", "running"}, "finalizing") /\ UNCHANGED work
Resolve ==
  /\ \E verdict \in {"finished", "partially_finished", "failed"} :
       Moves({"finalizing"}, verdict)
  /\ ~ work
  /\ UNCHANGED work

\* A retry or a rerun reopens a job that stopped, never one that is settling.
Reopen ==
  /\ Moves({"finished", "partially_finished", "failed", "canceled"}, "pending")
  /\ UNCHANGED work

ContractNext ==
  \/ Start \/ Pause \/ Resume \/ Fail \/ Grow \/ Shrink
  \/ Cancel \/ Settle \/ Resolve \/ Reopen

ContractSpec == ContractInit /\ [][ContractNext]_contractVars
=============================================================================

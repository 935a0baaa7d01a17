---------------------------- MODULE ScanJobStore ----------------------------
(***************************************************************************)
(* The rows of one scan job: the scan_jobs row, its tasks rows, and every  *)
(* transaction of persistence/{scan-job,task,job-settlement}.repo.ts that  *)
(* writes them.  One action is one committed transaction (the row locks    *)
(* taken with FOR SHARE and FOR UPDATE make each of them atomic); a        *)
(* transaction that changes nothing, or that is rolled back, is a stutter. *)
(*                                                                         *)
(* Next lets any process issue any of the transactions, with the arguments *)
(* of its call sites, at any moment: what is proved of Spec holds whatever *)
(* stale view of the rows the caller acted on.  ScanJobLifecycle gives the *)
(* transactions their callers.                                             *)
(*                                                                         *)
(* The four in-flight task statuses of the code (launching, launched,      *)
(* starting, running) are one value here, "active": no transaction of this *)
(* module treats them differently except in the from-list of the update.   *)
(***************************************************************************)
EXTENDS Naturals, FiniteSets

CONSTANTS
  Tasks,        \* the task ids of the job, those it may ever create
  Root,         \* the id of the root task: scanJob.repositoryTaskId || scanJobId
  Children,     \* Children[t]: ids derived from the dispatch keys of t's items
  MaxTasks      \* scan_jobs.maxTasks

ASSUME TasksAssumption  == IsFiniteSet(Tasks) /\ Root \in Tasks
ASSUME ChildrenAssumption == Children \in [Tasks -> SUBSET (Tasks \ {Root})]
ASSUME MaxTasksAssumption == MaxTasks \in Nat

VARIABLES
  jobStatus,    \* scan_jobs.status
  taskStatus,   \* tasks.status, "absent" before the row is inserted
  dispatch,     \* tasks.downstreamDispatchStatus
  rootLevel,    \* the tasks whose parentTaskId is null
  taskCount     \* scan_jobs.taskCount

storeVars == <<jobStatus, taskStatus, dispatch, rootLevel, taskCount>>

-----------------------------------------------------------------------------
JobStatuses == {"pending", "running", "paused", "finalizing", "finished",
                "partially_finished", "failed", "canceled"}
OpenStatuses == {"pending", "active"}
TerminalStatuses == {"completed", "failed", "exited", "canceled"}
\* Terminal statuses that end a branch: no child is expanded from them.
BranchEnds == {"failed", "exited", "canceled"}
DispatchStatuses == {"pending", "dispatching", "completed"}
\* The statuses a scan can be reopened from by a retry or a rerun.
StoppedJobStatuses == {"finished", "partially_finished", "failed", "canceled"}
Cancellable == {"pending", "running", "paused"}

Created == {t \in Tasks : taskStatus[t] # "absent"}
Open == {t \in Tasks : taskStatus[t] \in OpenStatuses}
\* Ids drawn by createShortTaskId for reruns and candidate analyses.
FreshIds == Tasks \ ({Root} \cup UNION {Children[t] : t \in Tasks})

AllowedJobStatuses(to) ==
  CASE to \in {"completed", "failed", "exited"} -> {"running", "paused"}
    [] to = "canceled" -> Cancellable
    [] OTHER -> {"running"}

\* Status changes the pipeline runner and cancelScanTask ask for.
TaskTransitions ==
  ({"pending"} \X {"active", "exited", "canceled"})
    \cup ({"active"} \X {"pending", "completed", "failed", "exited", "canceled"})

-----------------------------------------------------------------------------
(* The scan_jobs row. *)

\* transitionScanJobStatusRepo: UPDATE ... WHERE status IN from.
TransitionJob(from, to) ==
  /\ jobStatus \in from
  /\ jobStatus' = to
  /\ UNCHANGED <<taskStatus, dispatch, rootLevel, taskCount>>

StartJob  == TransitionJob({"pending"}, "running")
PauseJob  == TransitionJob({"pending", "running"}, "paused")
ResumeJob == TransitionJob({"paused"}, "running")
\* Fault: a failure overrides a settlement.
FailJobSettling == TransitionJob({"pending", "running", "paused", "finalizing"}, "failed")
FailJob   == TransitionJob({"pending", "running", "paused"}, "failed")

\* resetScanJobForRetryRepo: the WHERE clause names the job only.
ResetJob(to) ==
  /\ jobStatus' = to
  /\ UNCHANGED <<taskStatus, dispatch, rootLevel, taskCount>>

\* Fault: the expansions of the closed tasks are left pending.
CloseTasksOnly ==
  /\ taskStatus' = [t \in Tasks |->
       IF t \in Open THEN "canceled" ELSE taskStatus[t]]
  /\ UNCHANGED <<dispatch, rootLevel, taskCount>>

\* The two updates cancelScanJobRepo and cancelOpenTasksByScanJobIdRepo share.
CloseOpenTasks ==
  /\ taskStatus' = [t \in Tasks |->
       IF t \in Open THEN "canceled" ELSE taskStatus[t]]
  /\ dispatch' = [t \in Tasks |->
       IF t \in Created THEN "completed" ELSE dispatch[t]]
  /\ UNCHANGED <<rootLevel, taskCount>>

CancelJob ==
  /\ jobStatus \in Cancellable
  /\ jobStatus' = "canceled"
  /\ CloseOpenTasks

\* No guard on the status of the job.
CancelOpenTasks == CloseOpenTasks /\ UNCHANGED jobStatus

\* The transactions of settleScanJobRepo and finalizeScanJobRepo.  Both read
\* the task graph before, outside of the transaction.
EnterFinalizing == TransitionJob({"pending", "running"}, "finalizing")
FinalizeAs(outcome) == TransitionJob({"finalizing"}, outcome)

-----------------------------------------------------------------------------
(* The tasks rows. *)

\* Fault: off by one in the comparison of the counter with the budget.
CreateTaskOverBudget(t, topLevel, allowed) ==
  /\ jobStatus \in allowed
  /\ taskStatus[t] = "absent"
  /\ taskCount <= MaxTasks
  /\ taskCount' = taskCount + 1
  /\ taskStatus' = [taskStatus EXCEPT ![t] = "pending"]
  /\ dispatch' = [dispatch EXCEPT ![t] = "pending"]
  /\ rootLevel' = IF topLevel THEN rootLevel \cup {t} ELSE rootLevel
  /\ UNCHANGED jobStatus

\* createTaskRepo with consumeScanJobTaskBudgetWithExecutor.  A task whose
\* dispatch key already has a row is returned unchanged (a stutter); an
\* explicit id that has one, or an exhausted budget, rolls back.
CreateTask(t, topLevel, allowed) ==
  /\ jobStatus \in allowed
  /\ taskStatus[t] = "absent"
  /\ taskCount < MaxTasks
  /\ taskCount' = taskCount + 1
  /\ taskStatus' = [taskStatus EXCEPT ![t] = "pending"]
  /\ dispatch' = [dispatch EXCEPT ![t] = "pending"]
  /\ rootLevel' = IF topLevel THEN rootLevel \cup {t} ELSE rootLevel
  /\ UNCHANGED jobStatus

\* Fault: the patch of a branch end does not close its dispatch.
TransitionTaskOnly(t, from, to) ==
  /\ jobStatus \in AllowedJobStatuses(to)
  /\ taskStatus[t] = from
  /\ taskStatus' = [taskStatus EXCEPT ![t] = to]
  /\ UNCHANGED <<jobStatus, dispatch, rootLevel, taskCount>>

\* transitionTaskStatusResultRepo with buildTaskStatusTransitionPatch.
TransitionTask(t, from, to) ==
  /\ jobStatus \in AllowedJobStatuses(to)
  /\ taskStatus[t] = from
  /\ taskStatus' = [taskStatus EXCEPT ![t] = to]
  /\ dispatch' = [dispatch EXCEPT ![t] = IF to \in BranchEnds THEN "completed" ELSE @]
  /\ UNCHANGED <<jobStatus, rootLevel, taskCount>>

\* resetFailedTaskForRetryRepo and requeueTaskRepo: any status becomes
\* pending; the downstream dispatch status is not in the patch.
RequeueTask(t, allowed) ==
  /\ jobStatus \in allowed
  /\ t \in Created
  /\ taskStatus' = [taskStatus EXCEPT ![t] = "pending"]
  /\ UNCHANGED <<jobStatus, dispatch, rootLevel, taskCount>>

-----------------------------------------------------------------------------
(* The downstream dispatch of a terminal task. *)

SetDispatch(t, to) ==
  /\ dispatch' = [dispatch EXCEPT ![t] = to]
  /\ UNCHANGED <<jobStatus, taskStatus, rootLevel, taskCount>>

ClaimDispatch(t) ==
  /\ jobStatus = "running"
  /\ taskStatus[t] \in TerminalStatuses
  /\ dispatch[t] = "pending"
  /\ SetDispatch(t, "dispatching")

\* No guard on the row but its id.
CompleteDispatch(t) == t \in Created /\ SetDispatch(t, "completed")

\* releaseDownstreamDispatchClaimRepo; resetStaleDownstreamDispatchesRepo
\* does the same to every claim older than five minutes.
ReleaseDispatch(t) == dispatch[t] = "dispatching" /\ SetDispatch(t, "pending")

-----------------------------------------------------------------------------
Init ==
  /\ jobStatus = "pending"
  /\ taskStatus = [t \in Tasks |-> "absent"]
  /\ dispatch = [t \in Tasks |-> "pending"]
  /\ rootLevel = {}
  /\ taskCount = 0

JobNext ==
  \/ StartJob \/ PauseJob \/ ResumeJob \/ FailJob
  \/ \E to \in {"pending", "running"} : ResetJob(to)
  \/ CancelJob \/ CancelOpenTasks
  \/ EnterFinalizing
  \/ \E outcome \in {"finished", "partially_finished", "failed"} : FinalizeAs(outcome)

TaskNext(t) ==
  \/ \E topLevel \in BOOLEAN : CreateTask(t, topLevel, {"pending", "running"})
  \/ \E change \in TaskTransitions : TransitionTask(t, change[1], change[2])
  \/ RequeueTask(t, {"pending", "running"})
  \/ ClaimDispatch(t) \/ CompleteDispatch(t) \/ ReleaseDispatch(t)

Next == JobNext \/ \E t \in Tasks : TaskNext(t)

Spec == Init /\ [][Next]_storeVars

-----------------------------------------------------------------------------
(* What the rows promise whatever their callers do. *)

\* Every column has a value its enum allows, and only inserted rows count as
\* root-level tasks.
TypeOK ==
  /\ jobStatus \in JobStatuses
  /\ taskStatus \in [Tasks -> {"absent"} \cup OpenStatuses \cup TerminalStatuses]
  /\ dispatch \in [Tasks -> DispatchStatuses]
  /\ rootLevel \subseteq Created
  /\ taskCount \in Nat

\* The persisted counter is exactly the number of task rows ever inserted and
\* never exceeds maxTasks: retries, reruns, refused inserts and repeated
\* dispatches neither leak nor lose a unit of the budget.
BudgetRespected ==
  /\ taskCount = Cardinality(Created)
  /\ taskCount <= MaxTasks

\* A canceled job is quiescent: none of its tasks is open and no expansion is
\* pending or claimed, so no late answer of a container, dispatcher or worker
\* can make it progress again.
CanceledIsQuiescent ==
  jobStatus = "canceled" =>
    /\ Open = {}
    /\ \A t \in Created : dispatch[t] = "completed"

\* A task that ended its branch owes no expansion, even after a claim was
\* taken, released or reset as stale; settlement never waits for one.
EndedBranchOwesNoDispatch ==
  \A t \in Tasks : taskStatus[t] \in BranchEnds => dispatch[t] = "completed"
=============================================================================

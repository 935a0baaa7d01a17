-------------------------- MODULE ScanJobLifecycle --------------------------
(***************************************************************************)
(* The processes that issue the transactions of ScanJobStore for one job:  *)
(*   - the scans worker (apps/vulseek/server/queues/scans-queue.ts), which *)
(*     takes the job's message, starts it and cleans up when it fails;     *)
(*   - the pipeline runtime of the job (pipeline-runner.ts): launches,     *)
(*     completions, downstream dispatch and settlement;                    *)
(*   - the API calls of services/scan.ts: pause, resume, cancel, rerun,    *)
(*     retry of failed tasks, candidate analysis and verification, and     *)
(*     artifact sync, each of which reads the rows before it writes them;  *)
(*   - crashes of the server and the recovery it runs when it starts.      *)
(* Between two transactions of a process any other process may run.        *)
(***************************************************************************)
EXTENDS ScanJobStore

CONSTANTS
  Rerunnable,   \* tasks whose stage the retry and rerun calls accept
  Dispatchers,  \* concurrent executions of dispatchPipelineDownstream
  Requests,     \* concurrent API calls
  Kinds,        \* the API calls that are made
  MaxCrashes,   \* bound on server restarts
  NoTask

ASSUME RerunnableAssumption == Rerunnable \subseteq Tasks
ASSUME NoTaskAssumption == NoTask \notin Tasks
ASSUME MaxCrashesAssumption == MaxCrashes \in Nat
ASSUME KindsAssumption ==
  Kinds \subseteq {"pause", "resume", "cancel", "stop task", "retry", "rerun",
                   "candidate", "sync"}

VARIABLES
  message,      \* a message for the job waits in the scans queue (Redis)
  worker,       \* where the worker, or the startup recovery, is with the job
  runtime,      \* the job's entry in the pipeline runtime registry
  settler,      \* trySettleScanJob / finalizeScanJob of the runtime
  claim,        \* the task each dispatcher expands
  inFlight,     \* tasks with a launch or run closure in this process
  request,      \* the API calls in progress: what they do, and to which tasks
  crashes

processVars == <<message, worker, runtime, settler, claim, inFlight, request, crashes>>
vars == <<storeVars, processVars>>

Idle == [kind |-> "none", step |-> "idle", todo |-> {}]
NotSettling == [pc |-> "idle", outcome |-> "none"]

-----------------------------------------------------------------------------
(* Reads of the task graph. *)

\* Fault: unfinished expansions are not counted.
ReadyOnTasks ==
  /\ rootLevel # {}
  /\ Open = {}

\* getScanJobSettlementRepo, as the "not ready" tests of both callers use it.
Ready ==
  /\ rootLevel # {}
  /\ Open = {}
  /\ \A t \in Created : dispatch[t] = "completed"

Broken == {t \in Tasks : taskStatus[t] \in {"failed", "exited"}}

\* resolveTerminalScanJobStatus
Outcome ==
  IF Broken \cap rootLevel # {} THEN "failed"
  ELSE IF Broken # {} THEN "partially_finished"
  ELSE "finished"

-----------------------------------------------------------------------------
(* The scans worker. *)

\* ensureJobRuntime returns the registered runtime even when it is stopping.
EnsureRuntime == runtime' = IF runtime = "none" THEN "alive" ELSE runtime

Work(from, to) == worker = from /\ worker' = to

TakeMessage == message /\ message' = FALSE

\* The message of a job that can no longer start is dropped.
WorkerSkip ==
  /\ Work("idle", "idle") /\ TakeMessage
  /\ jobStatus \notin {"pending", "running", "failed"}
  /\ UNCHANGED <<storeVars, runtime, settler, claim, inFlight, request, crashes>>

WorkerSeesFailed ==
  /\ Work("idle", "cleanup") /\ TakeMessage
  /\ jobStatus = "failed"
  /\ UNCHANGED <<storeVars, runtime, settler, claim, inFlight, request, crashes>>

WorkerStart ==
  /\ Work("idle", "root") /\ TakeMessage
  /\ StartJob
  /\ UNCHANGED <<runtime, settler, claim, inFlight, request, crashes>>

WorkerResume ==
  /\ Work("idle", "await") /\ TakeMessage
  /\ jobStatus = "running"
  /\ EnsureRuntime
  /\ UNCHANGED <<storeVars, settler, claim, inFlight, request, crashes>>

\* createV3RootTask, then runPipeline.
WorkerCreatesRoot ==
  /\ Work("root", "await")
  /\ CreateTask(Root, TRUE, {"pending", "running"})
  /\ EnsureRuntime
  /\ UNCHANGED <<message, settler, claim, inFlight, request, crashes>>

\* The root id is explicit: a second insert of it is a duplicate key.
WorkerRootRefused ==
  /\ worker = "root"
  /\ \/ jobStatus \notin {"pending", "running"}
     \/ taskStatus[Root] # "absent"
     \/ taskCount >= MaxTasks
  /\ worker' = IF jobStatus = "canceled" THEN "idle" ELSE "catch"
  /\ UNCHANGED <<storeVars, message, runtime, settler, claim, inFlight, request, crashes>>

\* runtime.completionPromise resolves.
WorkerReturns ==
  /\ worker \in {"await", "recovering"} /\ worker' = "idle"
  /\ runtime = "none"
  /\ UNCHANGED <<storeVars, message, runtime, settler, claim, inFlight, request, crashes>>

WorkerCatch ==
  /\ worker = "catch"
  /\ worker' = CASE jobStatus \in {"canceled", "paused"} -> "idle"
                 [] jobStatus = "failed" -> "cleanup"
                 [] OTHER -> "fail"
  /\ UNCHANGED <<storeVars, message, runtime, settler, claim, inFlight, request, crashes>>

\* Fault: the failure is written whatever the status has become.
WorkerFailsAlways ==
  /\ Work("fail", "cleanup")
  /\ jobStatus' = "failed" /\ UNCHANGED <<taskStatus, dispatch, rootLevel, taskCount>>
  /\ UNCHANGED <<message, runtime, settler, claim, inFlight, request, crashes>>

WorkerFails ==
  /\ Work("fail", "cleanup")
  /\ FailJob \/ (jobStatus \notin Cancellable /\ UNCHANGED storeVars)
  /\ UNCHANGED <<message, runtime, settler, claim, inFlight, request, crashes>>

\* Runs whether or not the transition before it changed the job.
WorkerCleanup ==
  /\ Work("cleanup", "idle")
  /\ CancelOpenTasks
  /\ UNCHANGED <<message, runtime, settler, claim, inFlight, request, crashes>>

WorkerNext ==
  \/ WorkerSkip \/ WorkerSeesFailed \/ WorkerStart \/ WorkerResume
  \/ WorkerCreatesRoot \/ WorkerRootRefused \/ WorkerReturns
  \/ WorkerCatch \/ WorkerFails \/ WorkerCleanup

-----------------------------------------------------------------------------
(* The runtime of the job: launches, completions and the end of the loop. *)

\* The loop is in an iteration: stopRequested ends it at the next check.
Looping == runtime \in {"alive", "stopping"}

\* launchStageExecution from the loop.
Launch(t) ==
  /\ Looping
  /\ TransitionTask(t, "pending", "active")
  /\ inFlight' = inFlight \cup {t}
  /\ UNCHANGED <<message, worker, runtime, settler, claim, request, crashes>>

\* The closure that launched the task, or inspectTasks of the loop, moves it
\* on: persistTerminalSuccess, persistTerminalFailure, or a requeued launch.
Progress(t, to) ==
  /\ Looping \/ t \in inFlight
  /\ TransitionTask(t, "active", to)
  /\ inFlight' = IF to = "completed" THEN inFlight ELSE inFlight \ {t}
  /\ UNCHANGED <<message, worker, runtime, settler, claim, request, crashes>>

\* cleanupStageGroupForLeaderExit: the open members follow an exited leader.
ExitMember(t) ==
  /\ Looping
  /\ \E leader \in Tasks \ {t} : taskStatus[leader] = "exited"
  /\ \E from \in OpenStatuses : TransitionTask(t, from, "exited")
  /\ UNCHANGED processVars

\* runJobLoop returns: stop requested, or the job read as paused or canceled.
RuntimeEnds ==
  /\ runtime # "none" /\ settler = NotSettling
  /\ runtime # "alive" \/ jobStatus \in {"paused", "canceled"}
  /\ runtime' = "none"
  /\ UNCHANGED <<storeVars, message, worker, settler, claim, inFlight, request, crashes>>

\* runJobLoop throws: the awaiting worker catches, the startup code exits, an
\* API call that started the runtime only reports the error.
RuntimeFails ==
  /\ Looping /\ settler = NotSettling
  /\ runtime' = "none"
  /\ worker' = CASE worker = "await" -> "catch"
                 [] worker = "recovering" -> "exiting"
                 [] OTHER -> worker
  /\ UNCHANGED <<storeVars, message, settler, claim, inFlight, request, crashes>>

RuntimeNext ==
  \/ \E t \in Tasks :
       \/ Launch(t) \/ ExitMember(t)
       \/ \E to \in {"pending", "completed", "failed", "exited"} : Progress(t, to)
  \/ RuntimeEnds \/ RuntimeFails

-----------------------------------------------------------------------------
(* dispatchPipelineDownstream, from the loop or from a completion. *)

DispatchClaim(d, t) ==
  /\ claim[d] = NoTask
  /\ Looping \/ t \in inFlight
  /\ ClaimDispatch(t)
  /\ claim' = [claim EXCEPT ![d] = t]
  /\ inFlight' = inFlight \ {t}
  /\ UNCHANGED <<message, worker, runtime, settler, request, crashes>>

DispatchChild(d) ==
  /\ claim[d] # NoTask
  /\ \E c \in Children[claim[d]] : CreateTask(c, FALSE, {"running"})
  /\ UNCHANGED processVars

\* Fault: the dispatch is marked complete before the child rows are durable.
DispatchDoneEarly(d) ==
  /\ claim[d] # NoTask
  /\ CompleteDispatch(claim[d])
  /\ claim' = [claim EXCEPT ![d] = NoTask]
  /\ UNCHANGED <<message, worker, runtime, settler, inFlight, request, crashes>>

DispatchDone(d) ==
  /\ claim[d] # NoTask
  /\ Children[claim[d]] \subseteq Created
  /\ CompleteDispatch(claim[d])
  /\ claim' = [claim EXCEPT ![d] = NoTask]
  /\ UNCHANGED <<message, worker, runtime, settler, inFlight, request, crashes>>

\* Fault: an exception leaves the claim behind.
DispatchErrorLeaks(d) ==
  /\ claim[d] # NoTask
  /\ claim' = [claim EXCEPT ![d] = NoTask]
  /\ UNCHANGED <<storeVars, message, worker, runtime, settler, inFlight, request, crashes>>

\* Any exception: the job stopped, the budget is spent, a transform threw.
DispatchError(d) ==
  /\ claim[d] # NoTask
  /\ IF jobStatus \in StoppedJobStatuses
     THEN CompleteDispatch(claim[d])
     ELSE ReleaseDispatch(claim[d])
            \/ (dispatch[claim[d]] # "dispatching" /\ UNCHANGED storeVars)
  /\ claim' = [claim EXCEPT ![d] = NoTask]
  /\ UNCHANGED <<message, worker, runtime, settler, inFlight, request, crashes>>

\* A claim older than five minutes is reset; its dispatcher may still run.
ResetStaleDispatch(t) ==
  /\ Looping
  /\ ReleaseDispatch(t)
  /\ UNCHANGED processVars

DispatchNext ==
  \/ \E d \in Dispatchers : \/ \E t \in Tasks : DispatchClaim(d, t)
                            \/ DispatchChild(d) \/ DispatchDone(d) \/ DispatchError(d)
  \/ \E t \in Tasks : ResetStaleDispatch(t)

-----------------------------------------------------------------------------
(* Settlement: the last step of each iteration of the loop. *)

Settling(pc) == [pc |-> pc, outcome |-> "none"]

SettleRead ==
  /\ Looping /\ settler = NotSettling
  /\ Ready
  /\ settler' = Settling("enter")
  /\ UNCHANGED <<storeVars, message, worker, runtime, claim, inFlight, request, crashes>>

\* "terminal" (not pending, running or finalizing) ends the loop.
SettleEnter ==
  /\ settler.pc = "enter"
  /\ \/ /\ EnterFinalizing \/ (jobStatus = "finalizing" /\ UNCHANGED storeVars)
        /\ settler' = Settling("cleanup")
        /\ UNCHANGED runtime
     \/ /\ jobStatus \notin {"pending", "running", "finalizing"}
        /\ settler' = NotSettling
        /\ runtime' = "returning"
        /\ UNCHANGED storeVars
  /\ UNCHANGED <<message, worker, claim, inFlight, request, crashes>>

\* Fault: the rows are not checked again after the cleanup.
FinalizeUnchecked ==
  /\ settler.pc = "cleanup"
  /\ settler' = [pc |-> "write", outcome |-> Outcome]
  /\ UNCHANGED <<storeVars, message, worker, runtime, claim, inFlight, request, crashes>>

\* Fault: the verdict is written before it is resolved.
FinalizeUnresolved ==
  /\ settler.pc = "cleanup"
  /\ Ready
  /\ settler' = Settling("write")
  /\ UNCHANGED <<storeVars, message, worker, runtime, claim, inFlight, request, crashes>>

\* cleanupTerminalJobRuntime, then the re-read of finalizeScanJobRepo.
FinalizeRead ==
  /\ settler.pc = "cleanup"
  /\ Ready
  /\ settler' = [pc |-> "write", outcome |-> Outcome]
  /\ UNCHANGED <<storeVars, message, worker, runtime, claim, inFlight, request, crashes>>

\* A failed cleanup, or work that appeared, is left to the next iteration.
FinalizeDefer ==
  /\ settler.pc = "cleanup"
  /\ settler' = NotSettling
  /\ UNCHANGED <<storeVars, message, worker, runtime, claim, inFlight, request, crashes>>

FinalizeWrite ==
  /\ settler.pc = "write"
  /\ \/ /\ FinalizeAs(settler.outcome)
        /\ runtime' = IF runtime = "none" THEN "none" ELSE "returning"
     \/ jobStatus # "finalizing" /\ UNCHANGED <<storeVars, runtime>>
  /\ settler' = NotSettling
  /\ UNCHANGED <<message, worker, claim, inFlight, request, crashes>>

SettleNext ==
  SettleRead \/ SettleEnter \/ FinalizeRead \/ FinalizeDefer \/ FinalizeWrite

-----------------------------------------------------------------------------
(* The API calls: a read of the rows, then the writes it leads to. *)

Free(r) == request[r] = Idle
Becomes(r, kind, step, todo) ==
  request' = [request EXCEPT ![r] = [kind |-> kind, step |-> step, todo |-> todo]]
Finishes(r) == request' = [request EXCEPT ![r] = Idle]
At(r, kind, step) == request[r].kind = kind /\ request[r].step = step

\* pauseScanJob and cancelScanJob: the transition, then, once it committed,
\* stopPipelineRuntimesForScanJob.
Pause(r) ==
  /\ "pause" \in Kinds /\ Free(r) /\ PauseJob
  /\ Becomes(r, "pause", "stop", {})
  /\ UNCHANGED <<message, worker, runtime, settler, claim, inFlight, crashes>>

Cancel(r) ==
  /\ "cancel" \in Kinds /\ Free(r) /\ CancelJob
  /\ Becomes(r, "cancel", "stop", {})
  /\ UNCHANGED <<message, worker, runtime, settler, claim, inFlight, crashes>>

StopRuntime(r) ==
  /\ request[r].step = "stop"
  /\ runtime' = IF runtime = "alive" THEN "stopping" ELSE runtime
  /\ Finishes(r)
  /\ UNCHANGED <<storeVars, message, worker, settler, claim, inFlight, crashes>>

Resume(r) ==
  /\ "resume" \in Kinds /\ Free(r) /\ ResumeJob
  /\ Becomes(r, "resume", "start", {})
  /\ UNCHANGED <<message, worker, runtime, settler, claim, inFlight, crashes>>

\* startScanPipelineRuntimeForExistingQueues: no root task is created.
StartRuntime(r) ==
  /\ request[r].step = "start"
  /\ IF jobStatus = "canceled" THEN UNCHANGED runtime ELSE EnsureRuntime
  /\ Finishes(r)
  /\ UNCHANGED <<storeVars, message, worker, settler, claim, inFlight, crashes>>

\* cancelScanTask
StopTask(r, t) ==
  /\ "stop task" \in Kinds /\ Free(r)
  /\ \E from \in OpenStatuses : TransitionTask(t, from, "canceled")
  /\ inFlight' = inFlight \ {t}
  /\ UNCHANGED <<message, worker, runtime, settler, claim, request, crashes>>

\* retryFailedScanJobTasksWithDeps; its test for a "running" task lets the
\* other active statuses pass.
RetryRead(r) ==
  LET failed == {t \in Rerunnable : taskStatus[t] = "failed"} IN
  /\ "retry" \in Kinds /\ Free(r)
  /\ jobStatus \in {"finished", "partially_finished"}
  /\ failed # {}
  /\ Becomes(r, "retry", "reset", failed)
  /\ UNCHANGED <<storeVars, message, worker, runtime, settler, claim, inFlight, crashes>>

\* Fault: the rerun reopens a job that is running or settling as well.
RerunReadReopens(r, t) ==
  /\ "rerun" \in Kinds /\ Free(r)
  /\ t \in Rerunnable /\ taskStatus[t] \in TerminalStatuses
  /\ Becomes(r, "rerun", "reset", {t})
  /\ UNCHANGED <<storeVars, message, worker, runtime, settler, claim, inFlight, crashes>>

\* rerunScanTask
RerunRead(r, t) ==
  /\ "rerun" \in Kinds /\ Free(r)
  /\ jobStatus # "finalizing"
  /\ t \in Rerunnable /\ taskStatus[t] \in TerminalStatuses
  /\ Becomes(r, "rerun", IF jobStatus \in StoppedJobStatuses THEN "reset" ELSE "act", {t})
  /\ UNCHANGED <<storeVars, message, worker, runtime, settler, claim, inFlight, crashes>>

\* startCandidateAnalysis and startCandidateVerification; t is the task the
\* candidate came from, or the verification to repeat.
CandidateRead(r, t) ==
  /\ "candidate" \in Kinds /\ Free(r)
  /\ jobStatus \notin {"canceled", "paused"}
  /\ taskStatus[t] \in TerminalStatuses
  /\ Becomes(r, "candidate", IF jobStatus = "running" THEN "act" ELSE "reset", {t})
  /\ UNCHANGED <<storeVars, message, worker, runtime, settler, claim, inFlight, crashes>>

RequestResets(r) ==
  /\ request[r].step = "reset"
  /\ ResetJob(IF request[r].kind = "candidate" THEN "running" ELSE "pending")
  /\ Becomes(r, request[r].kind, "act", request[r].todo)
  /\ UNCHANGED <<message, worker, runtime, settler, claim, inFlight, crashes>>

RetryTask(r, t) ==
  /\ At(r, "retry", "act") /\ t \in request[r].todo
  /\ RequeueTask(t, {"pending", "running"})
  /\ LET left == request[r].todo \ {t} IN
     Becomes(r, "retry", IF left = {} THEN "send" ELSE "act", left)
  /\ UNCHANGED <<message, worker, runtime, settler, claim, inFlight, crashes>>

\* The rerun gets a fresh id and the parent of the original.
RerunCreates(r, t) ==
  /\ At(r, "rerun", "act") /\ t \in FreshIds
  /\ CreateTask(t, request[r].todo \subseteq rootLevel, {"pending", "running"})
  /\ Becomes(r, "rerun", "send", {})
  /\ UNCHANGED <<message, worker, runtime, settler, claim, inFlight, crashes>>

CandidateCreates(r, t) ==
  /\ At(r, "candidate", "act") /\ t \in FreshIds
  /\ CreateTask(t, FALSE, {"running"})
  /\ Becomes(r, "candidate", "send", {})
  /\ UNCHANGED <<message, worker, runtime, settler, claim, inFlight, crashes>>

CandidateRequeues(r) ==
  /\ At(r, "candidate", "act")
  /\ \E t \in request[r].todo :
       taskStatus[t] \in TerminalStatuses /\ RequeueTask(t, {"running"})
  /\ Becomes(r, "candidate", "start", {})
  /\ UNCHANGED <<message, worker, runtime, settler, claim, inFlight, crashes>>

\* The router adds a message for the job to the scans queue.
RequestSends(r) ==
  /\ request[r].step = "send"
  /\ message' = TRUE
  /\ Finishes(r)
  /\ UNCHANGED <<storeVars, worker, runtime, settler, claim, inFlight, crashes>>

\* ScanJobExecutionNotAllowedError, an exhausted budget, a copy or a queue
\* that fails: what was written stays.
RequestThrows(r) ==
  /\ request[r].step \in {"act", "send"}
  /\ Finishes(r)
  /\ UNCHANGED <<storeVars, message, worker, runtime, settler, claim, inFlight, crashes>>

\* syncFullScanTasksFromArtifacts calls settleScanJobRepo and no more.
SyncRead(r) ==
  /\ "sync" \in Kinds /\ Free(r) /\ Ready
  /\ Becomes(r, "sync", "enter", {})
  /\ UNCHANGED <<storeVars, message, worker, runtime, settler, claim, inFlight, crashes>>

SyncEnter(r) ==
  /\ At(r, "sync", "enter")
  /\ EnterFinalizing \/ (jobStatus \notin {"pending", "running"} /\ UNCHANGED storeVars)
  /\ Finishes(r)
  /\ UNCHANGED <<message, worker, runtime, settler, claim, inFlight, crashes>>

RequestNext(r) ==
  \/ Pause(r) \/ Cancel(r) \/ StopRuntime(r) \/ Resume(r) \/ StartRuntime(r)
  \/ RetryRead(r) \/ RequestResets(r) \/ CandidateRequeues(r)
  \/ RequestSends(r) \/ RequestThrows(r) \/ SyncRead(r) \/ SyncEnter(r)
  \/ \E t \in Tasks : \/ StopTask(r, t) \/ RerunRead(r, t) \/ CandidateRead(r, t)
                      \/ RetryTask(r, t) \/ RerunCreates(r, t) \/ CandidateCreates(r, t)

-----------------------------------------------------------------------------
(* Crash and recovery. *)

\* Process memory is lost, the rows and the queue are not: a message being
\* processed is delivered again once BullMQ finds its job stalled.  A startup
\* that fails exits (exitOnStartupError) and is started again.
Crash ==
  /\ \/ crashes < MaxCrashes /\ crashes' = crashes + 1
     \/ worker = "exiting" /\ UNCHANGED crashes
  /\ message' = (message \/ worker \in {"root", "await", "catch", "fail", "cleanup"})
  /\ worker' = "boot"
  /\ runtime' = "none" /\ settler' = NotSettling
  /\ claim' = [d \in Dispatchers |-> NoTask]
  /\ inFlight' = {}
  /\ request' = [r \in Requests |-> Idle]
  /\ UNCHANGED storeVars

\* recoverPendingFullScanQueues, awaited before the scans worker runs.
Recover ==
  /\ worker = "boot"
  /\ \/ /\ StartJob \/ (jobStatus = "running" /\ UNCHANGED storeVars)
        /\ worker' = "recovering" /\ EnsureRuntime /\ UNCHANGED settler
     \/ /\ jobStatus = "finalizing"
        /\ worker' = "idle" /\ settler' = Settling("cleanup")
        /\ UNCHANGED <<storeVars, runtime>>
     \/ /\ jobStatus \notin {"pending", "running", "finalizing"}
        /\ worker' = "idle" /\ UNCHANGED <<storeVars, runtime, settler>>
  /\ UNCHANGED <<message, claim, inFlight, request, crashes>>

-----------------------------------------------------------------------------
LifecycleInit ==
  /\ Init
  /\ message = TRUE /\ worker = "idle" /\ runtime = "none"
  /\ settler = NotSettling
  /\ claim = [d \in Dispatchers |-> NoTask]
  /\ inFlight = {}
  /\ request = [r \in Requests |-> Idle]
  /\ crashes = 0

LifecycleNext ==
  \/ WorkerNext \/ RuntimeNext \/ DispatchNext \/ SettleNext
  \/ \E r \in Requests : RequestNext(r)
  \/ Crash \/ Recover

LifecycleSpec == LifecycleInit /\ [][LifecycleNext]_vars

\* What the scheduling of one live server gives: every process with a next
\* step takes it; an attempt that may fail for a transient reason (a launch,
\* an expansion, the cleanup before a verdict) is not refused forever, and a
\* task that runs ends.
Fairness ==
  /\ WF_vars(WorkerNext) /\ WF_vars(Recover) /\ WF_vars(RuntimeEnds)
  /\ \A t \in Tasks :
       /\ SF_vars(Launch(t))
       /\ SF_vars(\E to \in TerminalStatuses : Progress(t, to))
  /\ \A d \in Dispatchers :
       /\ SF_vars(\E t \in Tasks : DispatchClaim(d, t))
       /\ SF_vars(DispatchChild(d)) /\ SF_vars(DispatchDone(d))
       /\ WF_vars(DispatchError(d))
  /\ SF_vars(SettleRead) /\ WF_vars(SettleEnter)
  /\ SF_vars(FinalizeRead) /\ WF_vars(FinalizeWrite)
  /\ \A r \in Requests : WF_vars(request[r] # Idle /\ RequestNext(r))

FairSpec == LifecycleSpec /\ Fairness

-----------------------------------------------------------------------------
RequestTypes == [kind : Kinds \cup {"none"},
                 step : {"idle", "stop", "start", "reset", "act", "send", "enter"},
                 todo : SUBSET Tasks]

ProcessTypeOK ==
  /\ message \in BOOLEAN
  /\ worker \in {"idle", "root", "await", "catch", "fail", "cleanup",
                 "boot", "recovering", "exiting"}
  /\ runtime \in {"none", "alive", "stopping", "returning"}
  /\ settler \in [pc : {"idle", "enter", "cleanup"}, outcome : {"none"}]
       \cup [pc : {"write"}, outcome : {"finished", "partially_finished", "failed"}]
  /\ claim \in [Dispatchers -> Tasks \cup {NoTask}]
  /\ inFlight \subseteq Tasks
  /\ request \in [Requests -> RequestTypes]
  /\ crashes \in 0 .. MaxCrashes

\* The rows and the processes stay in their types: no call, race or crash
\* leads to a status, a step or a verdict the code does not know.
LifecycleTypeOK == TypeOK /\ ProcessTypeOK

\* A job that ended finished or partially_finished has no open task and owes
\* no expansion, and its verdict is the one the final task graph deserves.
FinishedIsSettled ==
  jobStatus \in {"finished", "partially_finished"} => Ready /\ jobStatus = Outcome

\* Between its reads and its write the settler is not overtaken: the job stays
\* in finalizing and the verdict it read is still that of the rows.
SettlerIsCurrent ==
  /\ settler.pc \in {"cleanup", "write"} => jobStatus = "finalizing"
  /\ settler.pc = "write" => Ready /\ settler.outcome = Outcome

\* The unconditional write of resetScanJobForRetryRepo meets only a job that
\* is still stopped, as the call read it.
ReopensOnlyStopped ==
  \A r \in Requests : request[r].step = "reset" => jobStatus \in StoppedJobStatuses

\* A job enters finalizing, where nothing can be launched, only once no task
\* is open.
FinalizingHasNoOpenTask == jobStatus = "finalizing" => Open = {}

\* Every task a finished job completed was expanded into all of its children.
FinishedIsExpanded ==
  jobStatus \in {"finished", "partially_finished"} =>
    \A t \in Tasks : taskStatus[t] = "completed" => Children[t] \subseteq Created

\* Work is outstanding: a task is open, or a completed one is not expanded yet.
Outstanding == Open # {} \/ \E t \in Created : dispatch[t] # "completed"

\* What the job does is what its contract allows: a verdict is given only to a
\* job without work, work appears only in a job that is to run, a cancellation
\* takes the work with it, and a job that settles is not reopened.
Contract == INSTANCE ScanJobContract WITH status <- jobStatus, work <- Outstanding
KeepsContract == Contract!ContractSpec

\* Every write these processes make is a transaction of ScanJobStore with the
\* arguments it is specified for, whatever was read before: what is proved of
\* the rows holds of the program.
OnlyStoreWrites == Spec

\* A job that runs stops running: it settles, fails, or a user stops it.
RunningEnds == jobStatus = "running" ~> jobStatus # "running"
=============================================================================

----------------------------- MODULE TaskLaunch -----------------------------
(***************************************************************************)
(* How the pipeline runtime of a job launches, starts, watches and ends    *)
(* the tasks of one persistent stage (pipeline/pipeline-runner.ts).  The   *)
(* loop does one thing at a time, on a snapshot of the rows; what takes    *)
(* long - starting a container, starting an agent in it - goes on in       *)
(* closures that the loop does not await, that outlive it, and that act on *)
(* the rows when they are done.  API calls and restarts of the server come *)
(* at any moment.                                                          *)
(*                                                                         *)
(* Disturbances names what may happen beside tasks that succeed or fail:   *)
(*   "pause"           the job is paused and resumed                       *)
(*   "cancel"          the job is canceled                                 *)
(*   "stop"            a user stops a single task                          *)
(*   "restart"         the server is restarted                             *)
(*   "transient"       starting a container fails and may be tried again   *)
(*   "slow inspection" a launch begins and ends while the loop still works *)
(*                     on the snapshot it took before                      *)
(***************************************************************************)
EXTENDS StageLanes

CONSTANTS
  Launches,     \* slots for launch closures alive at the same time
  Disturbances,
  MaxAttempts,  \* MAX_TRANSIENT_LAUNCH_RETRIES
  MaxPauses, MaxCrashes   \* bounds on pauses and restarts

ASSUME DisturbancesAssumption ==
  Disturbances \subseteq {"pause", "cancel", "stop", "restart", "transient",
                          "slow inspection"}
ASSUME BoundsAssumption ==
  MaxAttempts \in Nat /\ MaxPauses \in Nat /\ MaxCrashes \in Nat

VARIABLES
  job,          \* scan_jobs.status
  status,       \* tasks.status
  container,    \* tasks.containerName: the lane it is named after
  attempt,      \* tasks.attempt
  queue,        \* the BullMQ queue of the stage
  alive,        \* the lane containers that run
  loop,         \* the loop of the registered runtime
  stopping,     \* its stopRequested
  launching,    \* its launchingTaskIds
  launch,       \* the launch closures
  runs,         \* the run closures
  swept,        \* the cleanup of cancelScanJob is done, since the last restart
  pauses, crashes

rows == <<job, status, container, attempt, queue>>
counters == <<swept, pauses, crashes>>
vars == <<laneVars, rows, alive, loop, stopping, launching, launch, runs, counters>>

-----------------------------------------------------------------------------
OpenStatuses == {"pending", "launching", "launched", "starting", "running"}
ActiveStatuses == OpenStatuses \ {"pending"}
TerminalStatuses == {"completed", "failed", "canceled"}

\* The loop: what it does, the rows of its snapshot it has not inspected,
\* the pending tasks of the snapshot, the launches the concurrency limit
\* leaves room for, and the task and lane it works on.
Loop(pc) == [loop EXCEPT !.pc = pc]
NoLoop == [pc |-> "none", inspect |-> {}, pending |-> {}, room |-> 0,
           task |-> NoTask, lane |-> NoLane]
NewLoop == [NoLoop EXCEPT !.pc = "top"]
LoopAt(pc) == loop.pc = pc

NoLaunch == [step |-> "none", task |-> NoTask, lane |-> NoLane, attempt |-> 0,
             current |-> FALSE]
InFlight == {i \in Launches : launch[i] # NoLaunch}
FreeSlots == Launches \ InFlight

\* getAllowedJobStatusesForTaskTransition and the from-list of the update.
Allowed(t, from, to) ==
  /\ status[t] \in from
  /\ job \in IF to \in {"completed", "failed"} THEN {"running", "paused"} ELSE {"running"}

Becomes(t, to) == status' = [status EXCEPT ![t] = to]

\* The patch of every transition back to pending.
Requeued(t) ==
  /\ Becomes(t, "pending")
  /\ container' = [container EXCEPT ![t] = NoLane]

\* The rows a failure may be written to.
Failable == {"launching", "starting", "running"}

\* Fault: the container of a task that holds no lane any more is forgotten.
CleanUpLaneOnly(t) ==
  /\ alive' = alive \ {l \in HeldBy(t) : session[l] # NoTask}
  /\ ResetLanes(t)

\* cleanupFailedTaskRuntime: removes the container of the task and that of
\* the lane it holds, and resets that lane.
CleanUp(t) ==
  /\ alive' = alive \ ({container[t]} \cup {l \in HeldBy(t) : session[l] # NoTask})
  /\ ResetLanes(t)

-----------------------------------------------------------------------------
(* The loop. *)

\* runJobLoop: the tests at the head of an iteration, then
\* buildRuntimeLoopSnapshot.
LoopBegins ==
  /\ LoopAt("top")
  /\ ~stopping /\ job = "running"
  /\ loop' = [NoLoop EXCEPT
       !.pc = "inspect",
       !.inspect = {[task |-> t, status |-> status[t], lane |-> container[t]] :
                      t \in {u \in Tasks : status[u] \in ActiveStatuses}},
       !.pending = {t \in Tasks : status[t] = "pending"},
       !.room = LaneCount - Cardinality({t \in Tasks : status[t] \in ActiveStatuses})]
  /\ UNCHANGED <<laneVars, rows, alive, stopping, launching, launch, runs, counters>>

\* The runtime deletes itself from the registry when its loop returns.
LoopEnds ==
  /\ LoopAt("top")
  /\ stopping \/ job # "running"
  /\ loop' = NoLoop /\ launching' = {}
  /\ launch' = [i \in Launches |-> [launch[i] EXCEPT !.current = FALSE]]
  /\ UNCHANGED <<laneVars, rows, alive, stopping, runs, counters>>

\* The row is done with.
Inspected(row, pc, t) ==
  loop' = [loop EXCEPT !.pc = pc, !.inspect = @ \ {row}, !.task = t]

\* inspectActiveStageTask, by the status in the snapshot.
InspectLaunched(row) ==
  /\ LoopAt("inspect") /\ row \in loop.inspect /\ row.status = "launched"
  /\ IF Allowed(row.task, {"launched"}, "starting")
     THEN /\ Becomes(row.task, "starting")
          /\ runs' = runs \cup {[task |-> row.task, step |-> "run", lane |-> NoLane]}
     ELSE UNCHANGED <<status, runs>>
  /\ Inspected(row, "inspect", NoTask)
  /\ UNCHANGED <<laneVars, job, container, attempt, queue, alive, stopping, launching,
                 launch, counters>>

\* A launch of this runtime is waited for.
InspectLaunching(row) ==
  /\ LoopAt("inspect") /\ row \in loop.inspect /\ row.status = "launching"
  /\ row.task \in launching
  /\ Inspected(row, "inspect", NoTask)
  /\ UNCHANGED <<laneVars, rows, alive, stopping, launching, launch, runs, counters>>

\* An interrupted launch whose container runs is taken as launched.
RecoverLaunched(row) ==
  /\ LoopAt("inspect") /\ row \in loop.inspect /\ row.status = "launching"
  /\ row.task \notin launching /\ row.lane \in alive
  /\ IF Allowed(row.task, {"launching"}, "launched")
     THEN Becomes(row.task, "launched") ELSE UNCHANGED status
  /\ Inspected(row, "inspect", NoTask)
  /\ UNCHANGED <<laneVars, job, container, attempt, queue, alive, stopping, launching,
                 launch, runs, counters>>

\* Fault: the launches in progress are not looked up.
RecoverPendingAny(row) ==
  LET t == row.task IN
  /\ LoopAt("inspect") /\ row \in loop.inspect /\ row.status = "launching"
  /\ row.lane \notin alive
  /\ ReleaseLanes(t)
  /\ IF Allowed(t, {"launching"}, "pending")
     THEN Requeued(t) /\ queue' = queue \cup {t}
     ELSE UNCHANGED <<status, container, queue>>
  /\ Inspected(row, "inspect", NoTask)
  /\ UNCHANGED <<job, attempt, alive, stopping, launching, launch, runs, counters>>

\* Otherwise its lane is released, and then the task is made pending again.
RecoverPending(row) ==
  LET t == row.task IN
  /\ LoopAt("inspect") /\ row \in loop.inspect /\ row.status = "launching"
  /\ t \notin launching /\ row.lane \notin alive
  /\ ReleaseLanes(t)
  /\ IF Allowed(t, {"launching"}, "pending")
     THEN Requeued(t) /\ queue' = queue \cup {t}
     ELSE UNCHANGED <<status, container, queue>>
  /\ Inspected(row, "inspect", NoTask)
  /\ UNCHANGED <<job, attempt, alive, stopping, launching, launch, runs, counters>>

\* The agent of a starting task reported its thread, that of a running task
\* is at work: nothing is done, or the row is moved on.
InspectStarting(row) ==
  /\ LoopAt("inspect") /\ row \in loop.inspect /\ row.status = "starting"
  /\ \/ UNCHANGED <<laneVars, status>>
     \/ /\ IF HeldBy(row.task) = {} THEN UNCHANGED laneVars
           ELSE \E l \in HeldBy(row.task) : BindLane(l, row.task)
        /\ IF Allowed(row.task, {"starting"}, "running")
           THEN Becomes(row.task, "running") ELSE UNCHANGED status
  /\ Inspected(row, "inspect", NoTask)
  /\ UNCHANGED <<job, container, attempt, queue, alive, stopping, launching, launch,
                 runs, counters>>

InspectRunning(row) ==
  /\ LoopAt("inspect") /\ row \in loop.inspect /\ row.status = "running"
  /\ Inspected(row, "inspect", NoTask)
  /\ UNCHANGED <<laneVars, rows, alive, stopping, launching, launch, runs, counters>>

\* persistTerminalSuccess: the completion, then the lane is given back, with
\* its session or, when the agent asked to exit, without.
InspectSuccess(row) ==
  /\ LoopAt("inspect") /\ row \in loop.inspect /\ row.status = "running"
  /\ IF Allowed(row.task, Failable, "completed")
     THEN Becomes(row.task, "completed") /\ Inspected(row, "release", row.task)
     ELSE UNCHANGED status /\ Inspected(row, "inspect", NoTask)
  /\ UNCHANGED <<laneVars, job, container, attempt, queue, alive, stopping, launching,
                 launch, runs, counters>>

\* persistTerminalFailure: an exit code, a container that is gone, a half
\* start or a stuck agent, found for a starting or a running task.
InspectFailure(row) ==
  /\ LoopAt("inspect") /\ row \in loop.inspect /\ row.status \in {"starting", "running"}
  /\ IF Allowed(row.task, Failable, "failed")
     THEN Becomes(row.task, "failed") /\ Inspected(row, "clean", row.task)
     ELSE UNCHANGED status /\ Inspected(row, "inspect", NoTask)
  /\ UNCHANGED <<laneVars, job, container, attempt, queue, alive, stopping, launching,
                 launch, runs, counters>>

LoopReleases ==
  /\ LoopAt("release")
  /\ \/ ReleaseLanes(loop.task) /\ UNCHANGED alive
     \/ /\ ResetLanes(loop.task)
        /\ alive' = alive \ {l \in HeldBy(loop.task) : session[l] # NoTask}
  /\ loop' = Loop("inspect")
  /\ UNCHANGED <<rows, stopping, launching, launch, runs, counters>>

LoopCleans ==
  /\ LoopAt("clean")
  /\ CleanUp(loop.task)
  /\ loop' = Loop("inspect")
  /\ UNCHANGED <<rows, stopping, launching, launch, runs, counters>>

\* Fault: only what the queue was told of is ever launched.
ReenqueueNothing ==
  /\ LoopAt("inspect") /\ loop.inspect = {}
  /\ loop' = IF stopping THEN NewLoop ELSE [Loop("backfill") EXCEPT !.pending = {}]
  /\ UNCHANGED <<laneVars, rows, alive, stopping, launching, launch, runs, counters>>

\* reenqueueMissingPendingTasks, on the pending rows of the snapshot.
Reenqueue ==
  /\ LoopAt("inspect") /\ loop.inspect = {}
  /\ IF stopping
     THEN loop' = NewLoop /\ UNCHANGED queue
     ELSE queue' = queue \cup loop.pending /\ loop' = [Loop("backfill") EXCEPT !.pending = {}]
  /\ UNCHANGED <<laneVars, job, status, container, attempt, alive, stopping, launching,
                 launch, runs, counters>>

\* backfillStageQueue
BackfillEnds ==
  /\ LoopAt("backfill")
  /\ stopping \/ loop.room <= 0 \/ queue = {}
  /\ loop' = NewLoop
  /\ UNCHANGED <<laneVars, rows, alive, stopping, launching, launch, runs, counters>>

\* The task leaves the queue before the job is looked at again.
Poll(t) ==
  /\ LoopAt("backfill") /\ ~stopping /\ loop.room > 0
  /\ t \in queue /\ queue' = queue \ {t}
  /\ IF job = "running"
     THEN loop' = [Loop("claim") EXCEPT !.task = t] /\ UNCHANGED stopping
     ELSE loop' = NewLoop /\ stopping' = TRUE
  /\ UNCHANGED <<laneVars, job, status, container, attempt, alive, launching, launch,
                 runs, counters>>

\* launchStageExecution: a lane is claimed before the task is; the job was
\* running when it was last looked at.
Claim ==
  /\ LoopAt("claim") /\ IdleLanes # {}
  /\ \E l \in Lanes :
       ClaimIdle(l, loop.task) /\ loop' = [Loop("mark") EXCEPT !.lane = l]
  /\ UNCHANGED <<rows, alive, stopping, launching, launch, runs, counters>>

ClaimRefused ==
  /\ LoopAt("claim")
  /\ job # "running" \/ IdleLanes = {}
  /\ queue' = IF job = "running" THEN queue \cup {loop.task} ELSE queue
  /\ loop' = NewLoop
  /\ UNCHANGED <<laneVars, job, status, container, attempt, alive, stopping, launching,
                 launch, runs, counters>>

\* Fault: the early return keeps the lane.
MarkRefusedKeeps ==
  /\ LoopAt("mark") /\ ~Allowed(loop.task, {"pending"}, "launching")
  /\ loop' = NewLoop
  /\ UNCHANGED <<laneVars, rows, alive, stopping, launching, launch, runs, counters>>

MarkRefused ==
  /\ LoopAt("mark") /\ ~Allowed(loop.task, {"pending"}, "launching")
  /\ ReleaseLanes(loop.task)
  /\ loop' = NewLoop
  /\ UNCHANGED <<rows, alive, stopping, launching, launch, runs, counters>>

\* pending -> launching, and the closure that launches the task.
Mark(i) ==
  /\ LoopAt("mark") /\ Allowed(loop.task, {"pending"}, "launching")
  /\ i \in FreeSlots /\ \A j \in FreeSlots : i <= j
  /\ Becomes(loop.task, "launching")
  /\ launching' = launching \cup {loop.task}
  /\ launch' = [launch EXCEPT ![i] = [step |-> "bind", task |-> loop.task,
                                      lane |-> loop.lane, attempt |-> attempt[loop.task],
                                      current |-> TRUE]]
  /\ loop' = [Loop("backfill") EXCEPT !.room = @ - 1, !.task = NoTask, !.lane = NoLane]
  /\ UNCHANGED <<laneVars, job, container, attempt, queue, alive, stopping, runs, counters>>

\* The directory or the input of the task is refused before the closure is
\* made.
MarkRejects ==
  /\ LoopAt("mark") /\ Allowed(loop.task, {"pending"}, "launching")
  /\ Becomes(loop.task, "launching")
  /\ loop' = Loop("reject")
  /\ UNCHANGED <<laneVars, job, container, attempt, queue, alive, stopping, launching,
                 launch, runs, counters>>

LoopRejects ==
  /\ LoopAt("reject")
  /\ IF Allowed(loop.task, Failable, "failed")
     THEN Becomes(loop.task, "failed") /\ loop' = Loop("clean")
     ELSE UNCHANGED status /\ loop' = Loop("backfill")
  /\ UNCHANGED <<laneVars, job, container, attempt, queue, alive, stopping, launching,
                 launch, runs, counters>>

Inspect(row) ==
  \/ InspectLaunched(row) \/ InspectLaunching(row) \/ RecoverLaunched(row)
  \/ RecoverPending(row) \/ InspectStarting(row) \/ InspectRunning(row)
  \/ InspectSuccess(row) \/ InspectFailure(row)

LoopNext ==
  \/ LoopBegins \/ LoopEnds \/ LoopReleases \/ LoopCleans \/ Reenqueue
  \/ \E row \in loop.inspect : Inspect(row)
  \/ BackfillEnds \/ Claim \/ ClaimRefused \/ MarkRefused \/ MarkRejects \/ LoopRejects
  \/ \E t \in Tasks : Poll(t)
  \/ \E i \in Launches : Mark(i)

-----------------------------------------------------------------------------
(* The launch closures. *)

Step(i, step) == launch' = [launch EXCEPT ![i].step = step]
LaunchAt(i, step) == launch[i].step = step

\* The finally block removes the task from the set of the closure's runtime.
Finish(i) ==
  /\ launch' = [launch EXCEPT ![i] = NoLaunch]
  /\ launching' = IF launch[i].current THEN launching \ {launch[i].task} ELSE launching

\* bindTaskRuntimeRepo: no guard on the status of the task.
LaunchBind(i) ==
  /\ LaunchAt(i, "bind")
  /\ container' = [container EXCEPT ![launch[i].task] = launch[i].lane]
  /\ Step(i, "start")
  /\ UNCHANGED <<laneVars, job, status, attempt, queue, alive, loop, stopping, launching,
                 runs, counters>>

\* startContainer, which reuses a container that runs, or throws.
LaunchStart(i) ==
  /\ LaunchAt(i, "start")
  /\ \/ alive' = alive \cup {launch[i].lane} /\ Step(i, "started")
     \/ UNCHANGED alive /\ Step(i, "error")
  /\ UNCHANGED <<laneVars, rows, loop, stopping, launching, runs, counters>>

\* resolveLaunchDisposition, of a launch that succeeded or failed.
LaunchReads(i) ==
  LET t == launch[i].task IN
  /\ launch[i].step \in {"started", "error"}
  /\ Step(i, IF job = "canceled" \/ status[t] = "canceled" THEN "clean"
             ELSE IF job = "paused" THEN "defer"
             ELSE IF LaunchAt(i, "started") THEN "answer" ELSE "failed")
  /\ UNCHANGED <<laneVars, rows, alive, loop, stopping, launching, runs, counters>>

\* Without "slow inspection", the loop is through with a snapshot in which
\* the launch had not begun.
Timely(t) ==
  "slow inspection" \in Disturbances
    \/ ~ \E row \in loop.inspect : row.task = t /\ row.lane = NoLane

LaunchAnswers(i) ==
  LET t == launch[i].task IN
  /\ LaunchAt(i, "answer") /\ Timely(t)
  /\ IF Allowed(t, {"launching"}, "launched")
     THEN Becomes(t, "launched") /\ Finish(i)
     ELSE Step(i, "clean") /\ UNCHANGED <<status, launching>>
  /\ UNCHANGED <<laneVars, job, container, attempt, queue, alive, loop, stopping, runs,
                 counters>>

\* Fault: the transition does not look at the status of the job.
LaunchDefersAnyway(i) ==
  LET t == launch[i].task IN
  /\ LaunchAt(i, "defer")
  /\ IF status[t] = "launching" THEN Requeued(t) ELSE UNCHANGED <<status, container>>
  /\ Step(i, "clean")
  /\ UNCHANGED <<laneVars, job, attempt, queue, alive, loop, stopping, launching, runs,
                 counters>>

\* discardInFlightLaunch of a paused job asks for pending, which is allowed
\* only if the job was resumed meanwhile.
LaunchDefers(i) ==
  LET t == launch[i].task IN
  /\ LaunchAt(i, "defer")
  /\ IF Allowed(t, {"launching"}, "pending") THEN Requeued(t) ELSE UNCHANGED <<status, container>>
  /\ Step(i, "clean")
  /\ UNCHANGED <<laneVars, job, attempt, queue, alive, loop, stopping, launching, runs,
                 counters>>

LaunchCleans(i) ==
  /\ LaunchAt(i, "clean")
  /\ CleanUp(launch[i].task)
  /\ Finish(i)
  /\ UNCHANGED <<rows, loop, stopping, runs, counters>>

\* persistTerminalFailure; the runtime is cleaned up even when it is refused.
LaunchFails(i) ==
  LET t == launch[i].task IN
  /\ LaunchAt(i, "failed")
  /\ IF Allowed(t, Failable, "failed") THEN Becomes(t, "failed") ELSE UNCHANGED status
  /\ Step(i, "clean")
  /\ UNCHANGED <<laneVars, job, container, attempt, queue, alive, loop, stopping, launching,
                 runs, counters>>

\* Fault: the attempts are not counted against their bound.
LaunchGivesUpAlways(i) ==
  LET t == launch[i].task IN
  /\ "transient" \in Disturbances
  /\ LaunchAt(i, "failed")
  /\ alive' = alive \ {IF container[t] # NoLane THEN container[t] ELSE launch[i].lane}
  /\ ReleaseLanes(t)
  /\ Step(i, "requeue")
  /\ UNCHANGED <<rows, loop, stopping, launching, runs, counters>>

\* A transient failure: the container and the lane are given up, the attempts
\* being those the row had when the launch began, ...
LaunchGivesUp(i) ==
  LET t == launch[i].task IN
  /\ "transient" \in Disturbances
  /\ LaunchAt(i, "failed") /\ launch[i].attempt < MaxAttempts
  /\ alive' = alive \ {IF container[t] # NoLane THEN container[t] ELSE launch[i].lane}
  /\ ReleaseLanes(t)
  /\ Step(i, "requeue")
  /\ UNCHANGED <<rows, loop, stopping, launching, runs, counters>>

\* ... then the task is made pending, ...
LaunchRequeues(i) ==
  LET t == launch[i].task IN
  /\ LaunchAt(i, "requeue")
  /\ IF Allowed(t, {"launching"}, "pending")
     THEN /\ Requeued(t) /\ attempt' = [attempt EXCEPT ![t] = launch[i].attempt + 1]
          /\ Step(i, "enqueue")
     ELSE Step(i, "clean") /\ UNCHANGED <<status, container, attempt>>
  /\ UNCHANGED <<laneVars, job, queue, alive, loop, stopping, launching, runs, counters>>

\* ... and then it is put in the queue.
LaunchEnqueues(i) ==
  /\ LaunchAt(i, "enqueue")
  /\ queue' = queue \cup {launch[i].task}
  /\ Finish(i)
  /\ UNCHANGED <<laneVars, job, status, container, attempt, alive, loop, stopping, runs,
                 counters>>

LaunchNext(i) ==
  \/ LaunchBind(i) \/ LaunchStart(i) \/ LaunchReads(i) \/ LaunchAnswers(i)
  \/ LaunchDefers(i) \/ LaunchCleans(i) \/ LaunchFails(i)
  \/ LaunchGivesUp(i) \/ LaunchRequeues(i) \/ LaunchEnqueues(i)

-----------------------------------------------------------------------------
(* The run closures: startStageRunAsync. *)

RunStep(r, step, lane) ==
  runs' = (runs \ {r}) \cup {[task |-> r.task, step |-> step, lane |-> lane]}

\* The agent reports its thread, and the lane of the task is looked up.
RunReports(r) ==
  /\ r.step = "run"
  /\ IF HeldBy(r.task) = {} THEN RunStep(r, "move", NoLane)
     ELSE \E l \in HeldBy(r.task) : RunStep(r, "bind", l)
  /\ UNCHANGED <<laneVars, rows, alive, loop, stopping, launching, launch, counters>>

RunBinds(r) ==
  /\ r.step = "bind"
  /\ BindLane(r.lane, r.task) /\ RunStep(r, "move", NoLane)
  /\ UNCHANGED <<rows, alive, loop, stopping, launching, launch, counters>>

RunMoves(r) ==
  /\ r.step = "move"
  /\ IF Allowed(r.task, {"starting"}, "running")
     THEN Becomes(r.task, "running") ELSE UNCHANGED status
  /\ runs' = runs \ {r}
  /\ UNCHANGED <<laneVars, job, container, attempt, queue, alive, loop, stopping, launching,
                 launch, counters>>

RunFails(r) ==
  /\ r.step = "run"
  /\ IF Allowed(r.task, Failable, "failed")
     THEN Becomes(r.task, "failed") /\ RunStep(r, "clean", NoLane)
     ELSE runs' = runs \ {r} /\ UNCHANGED status
  /\ UNCHANGED <<laneVars, job, container, attempt, queue, alive, loop, stopping, launching,
                 launch, counters>>

RunCleans(r) ==
  /\ r.step = "clean"
  /\ CleanUp(r.task)
  /\ runs' = runs \ {r}
  /\ UNCHANGED <<rows, loop, stopping, launching, launch, counters>>

RunNext(r) == RunReports(r) \/ RunBinds(r) \/ RunMoves(r) \/ RunFails(r) \/ RunCleans(r)

-----------------------------------------------------------------------------
(* API calls, and restarts. *)

\* pauseScanJob with stopPipelineRuntimesForScanJob
PauseJob ==
  /\ "pause" \in Disturbances /\ pauses < MaxPauses /\ pauses' = pauses + 1
  /\ job = "running" /\ job' = "paused"
  /\ stopping' = TRUE
  /\ UNCHANGED <<laneVars, status, container, attempt, queue, alive, loop, launching, launch,
                 runs, swept, crashes>>

\* resumeScanJob: a registered runtime is reused even if it is stopping; a
\* new one knows nothing of the launches of the one before.
ResumeJob ==
  /\ job = "paused" /\ job' = "running"
  /\ IF LoopAt("none") THEN loop' = NewLoop /\ stopping' = FALSE
     ELSE UNCHANGED <<loop, stopping>>
  /\ UNCHANGED <<laneVars, status, container, attempt, queue, alive, launching, launch, runs,
                 counters>>

\* cancelScanTask: the lane of the task is left alone.
StopTask(t) ==
  /\ "stop" \in Disturbances
  /\ status[t] \in OpenStatuses /\ job \in {"running", "paused"}
  /\ Becomes(t, "canceled")
  /\ queue' = queue \ {t}
  /\ alive' = alive \ {container[t]}
  /\ UNCHANGED <<laneVars, job, container, attempt, loop, stopping, launching, launch, runs,
                 counters>>

\* cancelScanJob: the rows and the runtime, then what the job occupies.
CancelJob ==
  /\ "cancel" \in Disturbances
  /\ job \in {"running", "paused"} /\ job' = "canceled"
  /\ status' = [t \in Tasks |-> IF status[t] \in OpenStatuses THEN "canceled" ELSE status[t]]
  /\ stopping' = TRUE
  /\ UNCHANGED <<laneVars, container, attempt, queue, alive, loop, launching, launch, runs,
                 counters>>

CancelSweeps ==
  /\ job = "canceled"
  /\ queue' = {} /\ alive' = {} /\ ResetAllLanes
  /\ swept' = TRUE
  /\ UNCHANGED <<job, status, container, attempt, loop, stopping, launching, launch, runs,
                 pauses, crashes>>

\* Closures and the set of launches are lost, containers and rows are not;
\* recoverPendingFullScanQueues starts the loop of a running job.
Restart ==
  /\ "restart" \in Disturbances /\ crashes < MaxCrashes /\ crashes' = crashes + 1
  /\ loop' = IF job = "running" THEN NewLoop ELSE NoLoop
  /\ stopping' = FALSE /\ launching' = {} /\ swept' = FALSE
  /\ launch' = [i \in Launches |-> NoLaunch] /\ runs' = {}
  /\ UNCHANGED <<laneVars, rows, alive, pauses>>

-----------------------------------------------------------------------------
LaunchInit ==
  /\ LanesInit
  /\ job = "running"
  /\ status = [t \in Tasks |-> "pending"]
  /\ container = [t \in Tasks |-> NoLane]
  /\ attempt = [t \in Tasks |-> 0]
  /\ queue = Tasks /\ alive = {}
  /\ loop = NewLoop /\ stopping = FALSE /\ launching = {}
  /\ launch = [i \in Launches |-> NoLaunch] /\ runs = {}
  /\ swept = FALSE /\ pauses = 0 /\ crashes = 0

Next ==
  \/ LoopNext
  \/ \E i \in Launches : LaunchNext(i)
  \/ \E r \in runs : RunNext(r)
  \/ PauseJob \/ ResumeJob \/ CancelJob \/ CancelSweeps \/ Restart
  \/ \E t \in Tasks : StopTask(t)

LaunchSpec == LaunchInit /\ [][Next]_vars

\* The event loop takes every step it can; a queued task is not passed over
\* forever, since the queue is first in, first out; an agent ends.
Fairness ==
  /\ WF_vars(LoopNext)
  /\ \A t \in Tasks :
       /\ SF_vars(Poll(t))
       /\ SF_vars(\E row \in loop.inspect :
                    row.task = t /\ (InspectSuccess(row) \/ InspectFailure(row)))
       /\ WF_vars(\E r \in runs : r.task = t /\ RunNext(r))
  /\ \A i \in Launches : WF_vars(LaunchNext(i))

FairLaunchSpec == LaunchSpec /\ Fairness

-----------------------------------------------------------------------------
Rows == [task : Tasks, status : ActiveStatuses, lane : Lanes \cup {NoLane}]
LoopStates ==
  [pc : {"none", "top", "inspect", "release", "clean", "backfill", "claim", "mark", "reject"},
   inspect : SUBSET Rows, pending : SUBSET Tasks, room : Int,
   task : Tasks \cup {NoTask}, lane : Lanes \cup {NoLane}]
LaunchStates ==
  [step : {"bind", "start", "started", "error", "answer", "failed", "defer", "clean",
           "requeue", "enqueue"},
   task : Tasks, lane : Lanes, attempt : 0 .. MaxAttempts, current : BOOLEAN]
RunStates ==
  [task : Tasks, step : {"run", "bind", "move", "clean"}, lane : Lanes \cup {NoLane}]

\* Every row, closure and step of the loop is one the code knows; a task is
\* never in a status it cannot leave by the transitions modelled, and is not
\* tried more often than MAX_TRANSIENT_LAUNCH_RETRIES allows.
LaunchTypeOK ==
  /\ LanesTypeOK
  /\ job \in {"running", "paused", "canceled"}
  /\ status \in [Tasks -> OpenStatuses \cup TerminalStatuses]
  /\ container \in [Tasks -> Lanes \cup {NoLane}]
  /\ attempt \in [Tasks -> 0 .. MaxAttempts]
  /\ queue \subseteq Tasks /\ alive \subseteq Lanes
  /\ loop \in LoopStates
  /\ stopping \in BOOLEAN /\ launching \subseteq Tasks
  /\ launch \in [Launches -> {NoLaunch} \cup LaunchStates]
  /\ runs \subseteq RunStates
  /\ swept \in BOOLEAN
  /\ pauses \in 0 .. MaxPauses /\ crashes \in 0 .. MaxCrashes

Unanswered == {i \in Launches :
  launch[i].step \in {"bind", "start", "started", "error", "answer"}}

\* No task is launched a second time while a first launch of it has not
\* answered, so that no late answer is taken for that of another launch.
OneLaunchPerTask ==
  \A i, j \in Unanswered : launch[i].task = launch[j].task => i = j

\* A task whose container was started until its end is recorded holds the
\* lane it runs in: two agents never share a container and a session.
RunsInItsLane ==
  \A t \in Tasks : status[t] \in {"launched", "starting", "running"} =>
    container[t] \in HeldBy(t)

\* The task of an ended launch, run or loop step that has yet to clean up.
CleaningUp ==
  {launch[i].task : i \in InFlight} \cup {r.task : r \in runs}
    \cup (IF loop.pc \in {"release", "clean", "claim", "mark", "reject"} THEN {loop.task} ELSE {})

\* No lane is lost: who holds one is active or about to give it back.
NoLaneLost ==
  \A l \in Lanes : holder[l] # NoTask =>
    \/ status[holder[l]] \in ActiveStatuses
    \/ holder[l] \in CleaningUp
    \/ job = "canceled" /\ ~swept

\* Once a cancellation has swept the job and its last closure has ended,
\* nothing of it is left: no container, no lane, no loop; a container that a
\* late launch starts after the sweep is removed by that launch.
CanceledLeavesNothing ==
  (swept /\ InFlight = {} /\ runs = {} /\ LoopAt("none")) =>
    alive = {} /\ IdleLanes = Lanes

\* While its runtime is not told to stop, a task of a running job that waits
\* for a lane or for its container ends or gets to run, also when its launch
\* was deferred by a pause: lanes are given back and a task found launching
\* without a launch is made pending again.
WaitingGetsToRun ==
  \A t \in Tasks :
    (status[t] \in {"pending", "launching"} /\ job = "running" /\ ~stopping)
      ~> (status[t] \notin {"pending", "launching"} \/ job # "running" \/ stopping)

\* The rows of this module as rows of the store, which has one status for the
\* four in-flight ones.
Store == INSTANCE ScanJobStore WITH
  Root <- CHOOSE t \in Tasks : TRUE,
  Children <- [t \in Tasks |-> {}],
  MaxTasks <- Cardinality(Tasks),
  jobStatus <- job,
  taskStatus <- [t \in Tasks |-> IF status[t] \in ActiveStatuses THEN "active" ELSE status[t]],
  dispatch <- [t \in Tasks |->
    IF job = "canceled" \/ status[t] \in {"failed", "canceled"} THEN "completed" ELSE "pending"],
  rootLevel <- Tasks,
  taskCount <- Cardinality(Tasks)

\* Whatever disturbs a launch, the loop and its closures write the rows by
\* transactions of the store only: none of their stale answers opens a task
\* of a paused or canceled job or a task that ended.
KeepsStore == [][Store!Next]_(Store!storeVars)
=============================================================================

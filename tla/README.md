# A verification of Vulseek's scan engine

Vulseek is a self-hosted deployment platform (a fork of Dokploy) with an engine
that runs security scans: a scan job is a graph of tasks, each an agent in a
container, expanded at run time from the outputs of the tasks before it. This
directory holds TLA+ modules that model that engine, the TLC configurations
that check them, and theorems that TLAPS proves. Paths below are relative to
`src/`; `S/` is `packages/server/src/services/`, `A/` is `apps/vulseek/server/`.

## 1. Inventory

| Component | State it keeps | Operations | Hard part | What makes it correct |
|---|---|---|---|---|
| Scan job rows (`S/scan/persistence/{scan-job,task,job-settlement}.repo.ts`) | `scan_jobs.status`, `taskCount`, `maxTasks`; `tasks.status`, `downstreamDispatchStatus`, `parentTaskId` | conditional updates in transactions | callers act on what they read before | types, budget, quiescence after cancel |
| Scans worker (`A/queues/scans-queue.ts`) and startup (`A/server.ts`, `recoverPendingFullScanQueues`) | BullMQ message in Redis | start, resume, catch, cleanup; recovery of unfinished jobs | redelivery, crash between two steps | a job is started once, a failed one is cleaned up |
| Execution slots (same file) | `active`, `waiters` in memory | acquire, release | barging, limit that changes | no slot leaked, no waiter lost |
| Pipeline runtime (`S/scan/pipeline/pipeline-runner.ts`) | registry of runtimes, launches in progress, wake signal | loop: dispatch, inspect, launch, settle | overlaps with API calls, stale claims | nothing unexpanded in a finished job |
| Scan API (`S/scan.ts`, `retry-failed-tasks.ts`) | none | pause, resume, cancel, stop, retry, rerun, candidates, sync | each reads, then writes in several transactions | only stopped jobs are reopened |
| Lanes, groups, containers (`stage-lane-runtime.repo.ts`) | lane rows, memberships | claim, bind, release, reset | claims of overlapping launches | one task per lane, sessions of one lineage |
| Task launch and inspection (`launchStageExecution`, `inspectActiveStageTask`) | four in-flight statuses, `launchingTaskIds` | launch, defer, recover, half-start detection | a launch outlives its runtime | one live container per task |
| Route selection, edge transforms (`pipeline-definition.ts`, `scan-pipeline-edge-transform.ts`) | none | output to children | fallbacks between retries | same children for the same output |
| Pipeline definitions (`S/pipeline*.ts`, YAML) | versions, frozen snapshot | compile, publish | none while a job runs | the snapshot is immutable |
| Agent driver (`S/scan/runtime`) and its stdout reader | stdout files, pids; `entries` of the reader | run, tail, parse | a file rewritten while several callers read it | what is read is what the whole file says |
| Projections (`candidate-*.repo.ts`, `research-*.repo.ts`) | derived tables | idempotent upserts | replays | equal to a recomputation |
| Dataset evaluation (`A/queues/dataset-evaluations-queue.ts`) | evaluation and trial rows, `activeEvaluations` | claim trial, run, score, finish | cancel, pause, restart | one active trial, no lost verdict |
| Automatic delta scans (`A/utils/auto-delta-scan.ts`) | last observed heads | poll, create run | restart between two steps | one run per new head |
| Deployments, schedules, backups, proxy, monitoring, UI | rows and files of the PaaS | sequential I/O | none of the kind studied here | not modelled |

How they interact: an API call or the poller creates a job and adds a message to
the scans queue. The worker takes a slot, moves the job from pending to running,
creates the root task and awaits the pipeline runtime. The runtime launches
pending tasks, completes them, expands each completed task into its children and,
once no task is open and no expansion is owed, settles the job: the job enters
`finalizing`, containers are removed, the rows are read again and the verdict is
written. API calls stop, resume or reopen the job from outside, through the same
rows, and, within the process, through the registry of runtimes. A restart keeps
the rows and the queue and loses everything else.

The dataset coordinator makes a scan job of every trial, polls its row and cancels
it when the evaluation is canceled or out of time. While an agent runs, the
runtime and the views of the UI poll its stdout file through one shared reader.

`PROJECT.json` lists the components, and the hazards with their lines. Smaller
hazards left off that list: a paused evaluation occupies the one handler of its
queue (`A/queues/dataset-evaluations-queue.ts:399`); its recovery message has a
fixed id, which the queue ignores while it keeps a completed one (482); a read of
stdout that ends inside a UTF-8 character (`driver-stdout-tail-reader.ts:138`);
overlapping reconciliations of `scan-monitoring-hub.ts:295`, which only reads.

## 2. Modules

| Module | What it is |
|---|---|
| `ScanJobStore` | the rows of one job and every transaction that writes a status, an expansion or the budget; `Next` lets anyone issue any transaction at any time |
| `ScanJobContract` | the abstract specification: a status, and whether work is outstanding |
| `ScanJobLifecycle` | extends the store with the processes: worker, runtime, dispatchers, settler, API calls, crash and recovery |
| `ScanExecutionSlots` | the semaphore of the scans worker |
| `ScanServer` | extends the slots with the jobs of one server: the handlers that hold slots, the runtimes they await, the calls that go around the slots, crash and startup |
| `StageLanes` | the lane rows of one persistent stage and their statements |
| `TaskLaunch` | extends the lanes with the loop of a runtime, the launches and runs it starts and does not await, queue, containers, API calls, restarts; refines the store |
| `DatasetEvaluation` | the coordinator of evaluations, the calls that write the same rows, and the scans of its trials |
| `DriverStdoutTail` | the incremental reader of the stdout file of an agent, and what happens to the file |
| `MC...` | constants for TLC |
| `...Proofs` | the theorems; those about launches are in `TaskLaunchProofs`, those about lanes, which rest on them, in `TaskLanesProofs` |

The two levels of the job model are deliberate. The store knows only what the
database enforces: row locks and `WHERE` clauses. What is proved of it holds under
any stale view a caller may have. The lifecycle adds who calls what and when;
`OnlyStoreWrites` states that it is a refinement of the store, so the store's
invariants carry over, and `KeepsContract` that it refines the contract.

### Rows and code

`jobStatus`, `taskStatus`, `dispatch` and `taskCount` are columns. `rootLevel` is
the set of tasks whose `parentTaskId` is null, which is how settlement finds the
root. A task row that does not exist is "absent". Ids made from a dispatch key are
members of `Children[t]`, so that inserting the same child twice finds the row;
ids drawn at random (reruns, candidate analyses) are `FreshIds`; the root has the
explicit id `scanJob.repositoryTaskId || scanJobId`.

A transaction that changes nothing (a `WHERE` that matches no row, a dispatch key
that exists) or that is rolled back (budget, duplicate id) is a stutter of the
store; the lifecycle has an action for what the caller does then.

### Processes and code

| Variable | Code |
|---|---|
| `message` | a message for the job in the scans queue |
| `worker` | the position of the handler in `scans-queue.ts`, or of `recoverPendingFullScanQueues` at startup ("boot", "recovering", "exiting") |
| `runtime` | the entry in the runtime registry: running, asked to stop, returning |
| `settler` | `trySettleScanJob` and `finalizeScanJob`: between the reads and writes of settlement |
| `claim` | the tasks being expanded by concurrent `dispatchPipelineDownstream` |
| `inFlight` | tasks with a launch or run closure alive, which goes on after its loop ended |
| `request` | API calls in progress: what was read, and the writes that are left |
| `crashes` | the bound on restarts |

Each `await` on the database between a read and a write that depends on it
separates two actions, so every other process may come between.

### Simplifications

- The statuses launching, launched, starting and running are one value. No
  transaction modelled here distinguishes them but by the list it starts from.
- The worker reads the job twice before it starts it and acts the same way on
  both; the model has one read, taken with the transition.
- `DispatchError` reads the job and writes the expansion in one step.
- `completeTerminalTaskDispatchesRepo`, called when a loop starts, changes nothing
  in a reachable state: that is `EndedBranchOwesNoDispatch`.
- One worker per job. BullMQ gives a message to one handler; a second message of
  the same job is the same `message`.
- A resume awaits the runtime it starts; the model lets the call end, because
  nothing is done after it.
- A retry refuses a job with a task in status "running"; the job it accepts is
  finished and has no open task, so the test is left out.
- The lookup of a candidate is replaced by the task it leads to.
- Definitions under a comment that begins with "Fault:" are plausible mistakes.
  They are not part of any specification; each was put in place of the
  definition it follows to make sure the property it aims at is then violated.

### Slots

`handler`, `limit`, `active`, `waiters` follow the file; `microtasks` is the part
of the microtask queue that holds woken waiters. A message keeps the limit it
read. The module has no crash: it is the semaphore alone, and `ScanServer` adds
what empties it.

### Several jobs in one server

`ScanJobLifecycle` follows one job through every transaction; `ScanServer` follows
several, each reduced to what they share a server for.

| Variable | Code |
|---|---|
| `status`, `rooted` | `scan_jobs.status` ("ended" is finished or failed), and whether the root task exists |
| `sent` | the messages that are in the queue or being processed |
| `runtime` | the registry of runtimes |
| `step` | where a handler with a slot is: first look, root, await, catch, finally |
| `call` | calls of `pauseScanJob`, `resumeScanJob`, `cancel` after their first transaction |
| `startup` | `recoverPendingFullScanQueues`: "list", "next" job, "start" it, "await" its runtime; "up" once the worker runs |
| `resumed` | not in the code: the jobs that were ever resumed |

A runtime of a job with a root task may settle it, and one without never ends: its
loop finds nothing to do and settlement finds no root. A runtime that fails reaches
whoever awaits it (`Fails`): the handler gives the job up, and the startup ends the
process, which is a `Reboots`, as is a crash.

Simplifications. The finalizing status is part of "ended": no handler and no call
modelled here treats it as running. The handler reads the job twice before it
starts it and acts the same way on both. The cleanup of the catch and the retries
of messages concern one job and are in the lifecycle. The server listens before
the startup is through, so calls may come at any time.

### Lanes and launches

| Variable | Code |
|---|---|
| `holder`, `session` | `activeTaskId` of a lane row, and the task that bound its container and thread |
| `status`, `container`, `attempt`, `queue` | columns of the tasks; the BullMQ queue of the stage |
| `loop` | the loop of the registered runtime with the snapshot it works on |
| `launching`, `stopping` | its `launchingTaskIds` and `stopRequested`; both die with the runtime |
| `launch`, `runs` | closures of `launchStageExecution` and `startStageRunAsync`; they outlive the runtime |
| `alive` | containers that run, whatever the rows say |
| `swept` | the cleanup of `cancelScanJob` is done |

The loop awaits what it inspects, one row of its snapshot after the other, and
does not await the closures. `Disturbances` says what may happen beside tasks
that succeed and fail, since several properties hold only without some of them.
`KeepsStore` states that, with the four in-flight statuses taken as one, every
step is a stutter or a transaction of `ScanJobStore`.

Simplifications. Finding the lane of a container, binding it and moving the task
to the next status is one step, as are the release and the requeue of a launch
that is recovered, the commit of a pause or stop with the `stopRequested` that
follows, the parts of `cleanupFailedTaskRuntime` (find, remove, reset) and the
sweep of a cancellation. A failure before the closure of a launch begins
(`pipeline-runner.ts:2703`) is left out, and the failure of a stuck task
is one of the ends that `InspectFailure` stands for. There is one persistent
stage; groups of stages that share lanes, the lineage of forked sessions, and
stages without lanes, with their container index, are not modelled.
`MAX_TRANSIENT_LAUNCH_RETRIES` is 5 in the code and `MaxAttempts` in the model.

### Evaluations

`evaluation`, `trial`, `linked` are columns of `dataset_evaluations` and
`dataset_evaluation_trials`; `scan` is the status of the job of a trial and
`scanMessage` its message in the scans queue; `messages` is the queue of
evaluations; `coordinator` is the position of `runDatasetEvaluation` with what it
last read; `request` holds calls between their read and their write. `startup` is
where `recoverPendingFullScanQueues` is with each scan: `server.ts:103` awaits it,
and it awaits the runtime of one scan after the other, before the two workers are
started (`Served`). A scan canceled just before its runtime is made makes that await
throw, and `exitOnStartupError` ends the process, which starts again
(`RecoveryExits`); once there is a runtime, it just ends. The model allows both
throughout.

A scan is open (pending, running, paused), finalizing, or over. It settles in two
steps, as in section 3: `ScanSettles` when its tasks are done, `ScanFinishes` when it
gets its status; `ScanFails` is the worker whose runtime threw. A finalizing scan is
neither in `TERMINAL_SCAN_STATUSES`, for which the coordinator waits, nor in
`CANCELLABLE_JOB_STATUSES`: `cancelScanJob` answers that it already stopped and
changes nothing (`Closed`), and so a trial can time out beside a scan that is
finalizing. That a finalizing scan gets its status is not assumed: its cleanup may
fail, and `cancelScanJob` stops the runtime that would try again.

The two kinds of scan that end with results (finished, partially finished) are one
value. The wait for a scan reads the evaluation and then the job; the model reads
both at once, which leads to the same decision or to that of the next poll.
`cancelScanJob` succeeds. A scan recovered as pending has no root task (see section
3) and would never finish; the model lets it. A second recovery message with the id of a completed
one is accepted, where the queue would ignore it. A paused evaluation may begin
one more scan, when the pause comes after the last look at it; nothing here says
otherwise. Calls of the scan API for the scan of a trial (a retry that reopens it, a
cancellation of its own) are left out: the scan is acted on through its evaluation.

### The stdout reader

A unit of `file.data` stands for a character, and a line of one unit is an event.
Size, inode and time follow the stat of the file; the two times of the code change
together. `Reads`, `Stats` and `Fetches` are the parts of `read` and `readInternal`
between its awaits. `gen` and `mixed` are not in the code: they record the rewrite
an entry was last compared with, and that a rewrite left no sign the code could
see (`Hidden`), which the properties excuse. A read that ends inside a character of
several bytes, which `buffer.toString("utf8", ...)` would garble, is left out: units
are not cut.

## 3. Runs

| Run | What it asks | Bounds |
|---|---|---|
| `undisturbed` | Is a job settled only when all it expanded is done, with two dispatchers, stale claims, pause, resume, cancel, stop and a restart? | root, child, leaf; budget 3; one crash |
| `reopened` | Are verdict and contract kept, canceled jobs quiescent and ended branches closed when jobs are retried, rerun, synchronised and canceled, one call at a time, with a restart? | root, child, one fresh id; budget 3; one crash |
| `candidates` | Do candidate calls, too, write the rows by transactions of the store only, within the budget? | root, child, fresh id; budget 2 |
| `liveness` | Does a running job end, when the budget suffices and the server stays up? | root, child; pause, cancel, stop of a task |
| `scan_server` | Are slots counted, waiters kept and the limit respected while the limit changes, jobs are stopped and resumed, runtimes fail and the server restarts? Is no running job left alone, and does every pending job get its turn? | three jobs, one of them paused before; three handlers, limits 1 and 2; one call; one crash |
| `task_launch` | Does no launch overlap another of its task, does every agent run in the lane its task holds, and does a cancellation leave nothing behind? | two tasks, two lanes, two launches; stop, cancel, one restart |
| `launch_disturbed` | Do launches, runs and their late answers write the rows only by transactions of the store? | one task, one lane, two launches; every disturbance, one pause, one restart |
| `launch_liveness` | Is no lane lost, and does every waiting task get to run? | two tasks that share one lane; one pause |
| `dataset_evaluation` | Are trials run one at a time, and does each get one verdict that fits its scan? | one evaluation of two trials; two calls that overlap, scans and queues that fail, one crash |
| `dataset_liveness` | Does every trial get a verdict within the budget, and is the scan of a canceled evaluation stopped? | one evaluation of two trials; two calls, one at a time; no refused scans or messages; no restart |
| `stdout_tail` | Do two pollers share their reads and see what the whole file says? | files of three units, two rewrites, two readings of the clock |
| `ghost_container` | (expects a violation) Does a cancellation leave nothing behind when the job was paused and resumed before? | two tasks, two lanes, two launches, one pause |

Why the bounds are enough to be interesting. Three task ids give a root, a task
made by expansion and a task made by a call, which are the three ways a row comes
to be; a chain of three makes expansion happen after expansion. Two dispatchers
are what a stale claim needs. One restart between any two steps shows what is
lost; a second one finds nothing the first did not leave. Three jobs fill the
worker, one or two of them hold slots, and a newcomer can overtake a woken waiter;
the job that is paused at the start can be resumed beside them by the one call.
Two launches are what an overtaken one and
its successor need; one lane for two tasks makes one of them wait for the lane.
Two trials make the order of trials matter, two calls in progress are a start
that waits while the other call pauses or cancels. Three units are a line and half
of the next; two rewrites within two ticks include one the clock does not show.
`CHECK_DEADLOCK FALSE` is there because a job, an evaluation, a stage or a server
really may come to rest for good.
`LaunchLiveness` has one slot for launches: overlapping launches are the subject of
the other two.

Fairness (`FairSpec` of the lifecycle). A process of a live server that has a next
step takes it (weak fairness: the event loop and the database answer). Strong
fairness stands for what the loop retries in every iteration: launches,
expansions, the cleanup before the verdict; a transient failure does not repeat
forever. That an agent ends is the timeout of its driver. No fairness is given to
a user, to a crash or to a failure of a runtime. In `ScanServer` slots, handlers,
calls and the startup go on (weak), and runtimes settle jobs that have a root task
(strong: a recovered runtime whose error ends the process again and again is
assumed to succeed once).
In `TaskLaunch` closures and the loop go on (weak), an agent that is inspected
again and again ends, and a queued task is not passed over forever, as the queue
is first in, first out (strong). In `DatasetEvaluation` the coordinator, the calls
the scans worker and the startup go on, and nothing says that a scan ends: the time
budget is what makes `TrialsGetVerdicts` hold, for scans that stay finalizing too.
In `DriverStdoutTail` callers poll and the file system answers.

### What the code does not do

`ghost_container` contradicts
`plans/research-scan-regression-and-resilience-testing.md:273`. A launch has claimed
a lane and written the name of its container; the job is paused and the loop ends;
the resumed job has a new runtime that does not know of the launch, takes the task
for interrupted, releases the lane and clears the name; the job is canceled and
swept while nothing runs yet. Then the old launch starts its container, learns that
the job is canceled, and its cleanup finds neither name nor lane: the container
runs for good.

Limits of the other launch properties, each found by TLC when the disturbance is
added to the run:

- `OneLaunchPerTask` fails with pauses (the set of launches belongs to a runtime)
  and with transient failures (the failed launch enqueues a task the loop has
  already launched again).
- `RunsInItsLane` fails with the same two, and with "slow inspection": the loop
  recovers a task from a snapshot older than its launch.
- `NoLaneLost` fails with restarts (a lane claimed for a task that is still pending,
  or held by one that is completed) and with stops of single tasks, whose lane is
  never given back. With stops, `WaitingGetsToRun` fails too: a stage with one lane
  is blocked for the rest of the job.

Limits of the job properties, found the same way:

- A rerun between the read and the write of settlement leaves an open task in a
  finalizing job. The second read, in finalization, keeps the verdict right, but the
  task cannot be launched and the job stays in finalizing.
- Analysis or verification of a candidate puts a finalizing job back to running.
- After a retry the worker inserts the root again, fails on the duplicate id and
  cancels the tasks just requeued.
- An expansion refused by the budget is retried forever and the job stays running.
- A job paused before its message was taken has no root when it is resumed.
- A cleanup that fails during startup recovery is not tried again.
- With retries and a crash `FinishedIsExpanded` fails, because a requeued task keeps
  the expansion status of its first end.
- With candidate calls that overlap a cancellation, the stale reset undoes it.
- With pauses and resumes `RunningEnds` fails because a resume can reuse a runtime
  that is stopping, or be overtaken by the stop of the pause before it.

Limits of the server properties:

- `EveryJobGetsItsTurn` excuses a runtime that has no work and never ends while a
  handler with a slot or the startup awaits it (`Stuck`). Without the excuse TLC
  finds a crash before the first message of a job is taken: the startup makes the
  job running without a root task and awaits its runtime, and the worker is never
  started. A job that is paused and resumed before its message is taken blocks one
  slot the same way.
- `LimitIsKept` leaves out the runtimes that a resumption or the startup awaits:
  they need no slot.
- `RunningIsCaredFor` leaves out jobs that were resumed: the resumption may reuse a
  runtime that is stopping, or fail, and the job is left running without one.

Limits of the evaluation properties: `VerdictFitsScan` does not say that the scan of
a trial that timed out has ended. `plans/dataset-evaluation.md:68` has the timeout
cancel the scan, and the code does so for an open one only. With `scan[t] \in
ScanEnds` in its last clause TLC finds a scan that settles before the budget runs
out: the cancellation changes nothing, the trial is `timed_out`
(`A/queues/dataset-evaluations-queue.ts:201-211`), the next trial may begin, and the
scan may yet be finished, or stay finalizing until a restart. `OneScanAtATime`
counts open scans for the same reason. What is claimed is that no such scan is open,
or opens again, once the verdict is written. Both liveness properties are checked without
restarts. With one, TLC finds three things. The startup first awaits the runtimes
of all unfinished scans, so that the coordinator, which alone enforces the budget
of a trial, is not there while a recovered scan goes on
(`plans/dataset-evaluation.md:77` has the restart recover coordinator and
timeout). A crash between the two halves of a pause leaves an evaluation that
waits for a paused scan. A cancellation that came before the scan was linked is
forgotten.

## 4. Proofs

| Theorem | Assumes | Says |
|---|---|---|
| `StoreTypeCorrect`, `BudgetIsRespected`, `CanceledStaysQuiescent` | constants' assumptions | the store's invariants, for any tasks, fan-out and budget |
| `StoreIsImplemented` | same | the lifecycle refines the store, for any number of calls, dispatchers and crashes |
| `LifecycleTypeCorrect` | same | types of the processes, and the store's invariants of the program |
| `VerdictIsRight` | one call at a time and no candidate calls, or any calls that reopen nothing (`CallsInTurn`) | a finished job is settled and its verdict is right |
| `ContractIsKept` | same | the lifecycle refines `ScanJobContract` |
| `EndedBranchesStayClosed` | constants' assumptions | a failed, exited or canceled task owes no expansion |
| `SettlementIsNotStale`, `ResetsMeetStoppedJobs` | as for `VerdictIsRight` | what settlement read still holds when it writes; a reset finds the job stopped |
| `FinalizingIsQuiet`, `FinishedJobsAreExpanded` | calls that reopen nothing: no retry, rerun or candidate call (`NothingReopens`) | a finalizing job has no open task; a finished job has inserted the children of all it completed |
| `SlotsAreSafe`, `WaitersStayInLine`, `NoWakeupIsLost` | constants' assumptions | slots are counted, every waiter is in line once, no wakeup is lost |
| `ServerTypeCorrect`, `ServerSlotsAreSafe`, `TheLimitIsKept`, `RunningJobsAreCaredFor` | same | the safety properties of `ScanServer`, for any jobs, limits, calls and crashes |
| `LaunchTypeCorrect`, `LaunchKeepsStore` | same | types of launches, runs and loop; every step is a transaction of the store, under every disturbance |
| `LaunchesDoNotOverlap` | no pauses, no transient failures | at most one unanswered launch per task |
| `TasksKeepTheirLanes` | no pauses, no transient failures, no slow inspections | every agent runs in the lane its task holds |
| `CancellationLeavesNothing` | no pauses, no transient failures | a canceled job leaves no container and no held lane |
| `LanesAreNotLost` | no stops of single tasks, no restarts, no transient failures | who holds a lane is active or will give it back |
| `EvaluationTypeCorrect`, `TrialsAreInOrder`, `ScansDoNotOverlap`, `VerdictsAreRight`, `SummariesAreRight`, `VerdictsAreFinal` | constants' assumptions | the safety properties of `DatasetEvaluation`, for any evaluations, trials, calls and restarts |
| `ReadsAreShared` | same | two callers never read the file at the same time |
| `TailTypeCorrect`, `WhatIsReadIsRight` | same | types of file, entry and reads; an entry that matches the file says what the whole file says, for files of any length, cut into reads in any way |

Store. `TypeOK` is inductive. `BudgetRespected` needs that exactly one transaction
inserts a row and only an absent one (`CreateAddsOne`), and that the others keep
the set of rows. `CanceledIsQuiescent` is inductive with the types, because every
transaction that opens a task or takes a claim tests the status of the job in the
transaction, and the one that does not, `ResetJob`, leaves "canceled".

Refinement of the store. Each process step is a stutter of the rows or one
transaction with arguments the store allows (`StepKinds`). `ProcessTypes` gives
the arguments, `NarrowerCalls` that a call for fewer job statuses is a call.

Verdict. `FinishedIsSettled` alone is not inductive: the verdict is written from a
value read earlier. The invariant is
`VerdictInv == SettlerIsCurrent /\ ReopensOnlyStopped /\ FinishedIsSettled`:
between read and write the job stays in finalizing and the rows that matter do not
change (`SettledRowsStay`: with no open task and every expansion completed, every
ordinary transaction leaves `Ready` and `Outcome` alone in a settling job), and the
unconditional reset meets only stopped jobs (`StoppedStays`). The assumption
`CallsInTurn` is needed: a candidate call resets a finalizing job, and of two
overlapping calls one can make the reset of the other stale. Calls that reopen
nothing never reset, so any number of them may overlap.

Expansion. `GraphInv` says that claims are held on completed tasks only and open
tasks owe their expansion (`ClaimsAreOwed`), that what is marked expanded has its
children (`Expanded`, which a job that failed or was canceled gives up), and that
whoever is about to enter finalizing read a graph that is still ready: nothing
reopens, so a ready graph stays ready (`MaySettle => Ready`). That is the part the
code does not lock: the graph is read before the transaction that uses it. With
retries the read may be stale, and a retried task keeps an old expansion status,
which is what `NothingReopens` rules out.

Slots. A release with a waiter moves one unit from `active` to `microtasks`, so
their sum does not change; a newcomer that takes the slot raises it; a waiter that
tries in vain has just seen `active >= limit`. That the line is duplicate-free is
needed to know that whoever is at its head is really waiting.

Server. `ServerInv` adds to the slots that every runtime is awaited by a handler
that holds a slot, by a call or by the startup (`RuntimesAreAwaited`), so that the
runtimes nobody else awaits are at most as many as the slots in use, that a call
knows the status its job has unless it was resumed since (`CallsKnow`), and that a
runtime is asked to stop only when its job was stopped (`StoppingIsStopped`). The
last two are what makes `RunningIsCaredFor` inductive: a runtime that ends leaves
no job running, and one that fails has a handler that will give the job up.

Launches. `LaunchInv` is the types with what each position implies: the loop has a
task and a lane where it uses them, and a launch that gave up had an attempt left.
Every step is then one of the transactions of the store (`ProcessStores`, `CallStores`) with a list of statuses the store allows. `OneLaunchPerTask` needs more
(`OnceInv`): the loop that began a launch lives as long as the job runs, so every
live launch is in its `launching`, its task is not pending, and neither the
inspection nor the backfill begins another one. A pause breaks the first
half, a transient failure the second; hence the assumption.

Lanes. All three invariants were checked by TLC first, and so was what each assumption
excludes.

- `KeepInv` follows one task through its positions: whoever knows a lane of it, be
  it the loop, a row of its snapshot, a launch or a run, knows the one it holds
  (`LaneKept`, `WaitKept`, `EndKept`, `LaunchesKept`, `RunsKept`, `RowsKept`). A step
  is about one task and leaves the others alone (`LeftAlone`, `LeftAloneIsKept`), so
  the proof has one lemma per step and looks at one task. It rests on `OnceInv`: that
  a task has one launch is why the lane of a launch is the lane of its task. A pause,
  a transient failure or a slow inspection alone breaks it.
- `SweptInv` says who may still hold something after the sweep of a cancellation:
  the loop that is about to be refused, and launches that have started a container
  and will find it, because the row still has the lane they bound (`BoundInv`). Slow
  inspections, stops and restarts do it no harm; a pause or a transient failure,
  followed by a cancellation, breaks it, and the former is `ghost_container`.
- `LostInv` names for every held lane who owes it (`Owes`). It needs no order of
  launches, so pauses, cancellations and slow inspections are allowed. A stop or a
  restart alone breaks it; a transient failure breaks it together with a pause, a
  cancellation and a slow inspection.

Evaluations. `EvaluationInv` adds to the types that trials are decided in their
order (`DecidedFirst`), that a scan belongs to a trial that was begun
(`ScansFollow`), and that what the coordinator remembers from its reads stays true
although a cancellation may decide the trial at any moment (`CoordinatorKnows`).
A wait that ends because the evaluation was canceled may call a finalizing scan
failed; that this is never written needs `CanceledIsDecided`: a cancellation decides
all trials before it writes the evaluation.
A verdict is written by updates that test that there is none, which makes
`VerdictIsFinal` a step property of the same invariant.

Reader. `ReadsInv`: whoever awaits a read awaits one that goes on, and a read that
goes on is announced in the entry. The second half is what a first read without
placeholder would break.

`TailInv` adds what was read. An entry that belongs to the file as it is, and was
not compared with a hidden rewrite, has read a beginning of the file: the line it
keeps is the open line of that beginning (`KeepsRest`) and what it learned is what
the lines before say (`KeepsParsed`); a read between stat and data has a size the
file still reaches. A stat that sees no reason to begin again either finds the
entry of this file or marks it `mixed`: the conditions of `NeedsReset` and
`Hidden` cover all rewrites between them (`StatsKeepsTail`). That one read after
another amounts to reading the file at once is `ConsumeKeeps`, an induction over the
units of the text. The induction theorems of the library take an operator and cannot
be instantiated by the provers, so it is done with sets: `LeastNumber` (every
nonempty set of numbers has a least element, from `WFMin`) refutes a first unit
after which it fails. The same argument shows that the recursive function in
`Consume` exists (`LoopRuns`).

Only model-checked, within the bounds of the runs: liveness under fairness
(`RunningEnds`, `EveryJobGetsItsTurn`, `WaitingGetsToRun`, `TrialsGetVerdicts`,
`CanceledScanStops`, `CatchesUp`), which is beyond the prover. Every other property of
a passing run is proved, under the assumptions of the table.

## 5. Plan

Done: the store, the lifecycle, the contract, the slots and the server around them,
the lanes, the launches, the coordinator of evaluations, the stdout reader, and
their theorems.

What is left, in the order of what it would add:

1. Groups of stages with their memberships, lineage of sessions, and the container
   index of stages without lanes, in `StageLanes` and `TaskLaunch`.
2. Several evaluations that wait for the one handler of their queue, on top of
   `ScanServer`.
3. `RouteSelection`: routes and transforms as operators, against a reference
   definition over small outputs.

## 6. Not modelled

Pure I/O (containers, drivers, git, registries, proxies, notifications, backups),
read-only queries and views, web UI, authorization, the inherited deployment
platform, vendored code and agent skills. Automatic delta scans
poll one repository after the other in one process and handle each head before the
next: nothing interleaves. The monitoring hub and the consistency script read rows
or repair them offline. Route selection and transforms are pure functions, for which
`Children` stands. Projections of candidates and research tracks are derived tables
that no status depends on. Within the modelled parts: token and
cost accounting, names and other descriptive columns, deletion of a job, deadlines
(the second reason the budget can refuse; it refuses like the first), PostgreSQL
lock conflicts (a transaction is one step; an aborted one is an error of its
caller).

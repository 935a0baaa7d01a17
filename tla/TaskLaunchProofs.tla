-------------------------- MODULE TaskLaunchProofs --------------------------
(***************************************************************************)
(* That TaskLaunch keeps its types and writes the rows of tasks and job    *)
(* only as ScanJobStore allows, for any tasks, lanes, overlapping launches *)
(* and disturbances.  The inductive invariant adds to the types that the   *)
(* loop has a task and a lane where it uses them, and that a launch that   *)
(* gave up had an attempt left.  At the end: that launches of a task never *)
(* overlap while jobs are not paused and launches not retried.             *)
(***************************************************************************)
EXTENDS TaskLaunch, FiniteSetTheorems, TLAPS

Holding == {"release", "clean", "claim", "mark", "reject"}

LoopInv ==
  /\ loop \in LoopStates
  /\ loop.pc \in Holding => loop.task \in Tasks
  /\ loop.pc = "mark" => loop.lane \in Lanes

LaunchesInv ==
  /\ launch \in [Launches -> {NoLaunch} \cup LaunchStates]
  /\ \A i \in Launches : LaunchAt(i, "requeue") => launch[i].attempt < MaxAttempts

RowsInv ==
  /\ job \in {"running", "paused", "canceled"}
  /\ status \in [Tasks -> OpenStatuses \cup TerminalStatuses]
  /\ container \in [Tasks -> Lanes \cup {NoLane}]
  /\ attempt \in [Tasks -> 0 .. MaxAttempts]
  /\ queue \subseteq Tasks

RestInv ==
  /\ alive \subseteq Lanes
  /\ stopping \in BOOLEAN /\ launching \subseteq Tasks
  /\ runs \subseteq RunStates
  /\ swept \in BOOLEAN
  /\ pauses \in 0 .. MaxPauses /\ crashes \in 0 .. MaxCrashes

LaunchInv == LanesTypeOK /\ RowsInv /\ LoopInv /\ LaunchesInv /\ RestInv

-----------------------------------------------------------------------------
(* What the operators of the modules keep. *)

LEMMA LaneSteps ==
  ASSUME LanesTypeOK, NEW t \in Tasks, NEW l \in Lanes,
         ClaimIdle(l, t) \/ BindLane(l, t) \/ ReleaseLanes(t) \/ ResetLanes(t)
           \/ ResetAllLanes \/ UNCHANGED laneVars
  PROVE  LanesTypeOK'
BY DEF LanesTypeOK, ClaimIdle, BindLane, ReleaseLanes, ResetLanes, ResetAllLanes, laneVars

LEMMA StatusSteps ==
  ASSUME RowsInv, NEW t \in Tasks, NEW to \in OpenStatuses \cup TerminalStatuses, Becomes(t, to)
  PROVE  status' \in [Tasks -> OpenStatuses \cup TerminalStatuses]
BY DEF RowsInv, Becomes

LEMMA LaunchSteps ==
  ASSUME LaunchesInv, NEW i \in Launches, launch[i] # NoLaunch,
         NEW step \in {"bind", "start", "started", "error", "answer", "failed", "defer",
                       "clean", "requeue", "enqueue"},
         step = "requeue" => launch[i].attempt < MaxAttempts,
         Step(i, step)
  PROVE  LaunchesInv'
BY DEF LaunchesInv, Step, LaunchStates, LaunchAt, NoLaunch

LEMMA FinishSteps ==
  ASSUME LaunchesInv, RestInv, NEW i \in Launches, launch[i] # NoLaunch, Finish(i)
  PROVE  LaunchesInv' /\ launching' \subseteq Tasks
BY DEF LaunchesInv, RestInv, Finish, LaunchStates, LaunchAt, NoLaunch

\* The fields of a launch in progress.
LEMMA LaunchFields ==
  ASSUME LaunchesInv, NEW i \in Launches, launch[i].step # "none"
  PROVE  /\ launch[i] # NoLaunch /\ launch[i] \in LaunchStates
         /\ launch[i].task \in Tasks /\ launch[i].lane \in Lanes
         /\ launch[i].attempt \in 0 .. MaxAttempts
BY DEF LaunchesInv, LaunchStates, NoLaunch

LEMMA RoomIsInt ==
  ASSUME NEW S \in SUBSET Tasks PROVE Cardinality(S) \in Nat
BY TasksAssumption, FS_Subset, FS_CardinalityType

\* A loop or a slot that does nothing.
LEMMA Resting ==
  /\ NoLaunch.step = "none"
  /\ \A new \in {NewLoop, NoLoop} :
       new \in LoopStates /\ new.pc \notin Holding /\ new.pc # "mark"
<1>1. NoLaunch.step = "none"
  BY DEF NoLaunch
<1>2. NoLoop \in LoopStates /\ NoLoop.pc = "none"
  BY DEF NoLoop, LoopStates
<1>3. NewLoop = [NoLoop EXCEPT !.pc = "top"]
  BY DEF NewLoop
<1>4. NewLoop \in LoopStates /\ NewLoop.pc = "top"
  BY <1>2, <1>3 DEF LoopStates
<1> QED BY <1>1, <1>2, <1>4 DEF Holding

LEMMA LaunchInvInit == LaunchInit => LaunchInv
<1> SUFFICES ASSUME LaunchInit PROVE LaunchInv
  OBVIOUS
<1>1. LanesTypeOK
  BY DEF LaunchInit, LanesInit, LanesTypeOK
<1>2. RowsInv
  BY BoundsAssumption DEF LaunchInit, RowsInv, OpenStatuses
<1>3. LoopInv
  BY DEF LaunchInit, LoopInv, NewLoop, NoLoop, LoopStates, Rows, Holding
<1>4. LaunchesInv
  <2>1. launch = [i \in Launches |-> NoLaunch]
    BY DEF LaunchInit
  <2>2. \A i \in Launches : launch[i].step = "none"
    BY <2>1, Resting
  <2> QED BY <2>1, <2>2 DEF LaunchesInv, LaunchAt
<1>5. RestInv
  <2>1. stopping \in BOOLEAN /\ swept \in BOOLEAN
    BY Zenon DEF LaunchInit
  <2>2. /\ alive \subseteq Lanes /\ launching \subseteq Tasks /\ runs \subseteq RunStates
        /\ pauses \in 0 .. MaxPauses /\ crashes \in 0 .. MaxCrashes
    BY BoundsAssumption DEF LaunchInit
  <2> QED BY <2>1, <2>2 DEF RestInv
<1> QED BY <1>1, <1>2, <1>3, <1>4, <1>5 DEF LaunchInv

-----------------------------------------------------------------------------
(* The steps of the closures. *)

LEMMA LaunchNextStep ==
  ASSUME LaunchInv, NEW i \in Launches, LaunchNext(i)
  PROVE  LaunchInv'
<1> DEFINE t == launch[i].task
<1>1. launch[i].step # "none" /\ UNCHANGED <<job, loop, stopping, runs, swept, pauses, crashes>>
  BY DEF LaunchNext, LaunchBind, LaunchStart, LaunchReads, LaunchAnswers, LaunchDefers,
    LaunchCleans, LaunchFails, LaunchGivesUp, LaunchRequeues, LaunchEnqueues, LaunchAt,
    rows, counters
<1>2. /\ launch[i] # NoLaunch /\ t \in Tasks /\ launch[i].lane \in Lanes
      /\ launch[i].attempt \in 0 .. MaxAttempts
  BY <1>1, LaunchFields DEF LaunchInv
<1>3. LoopInv'
  BY <1>1 DEF LaunchInv, LoopInv, LoopStates, Rows
<1>4. LanesTypeOK'
  BY <1>2, LaneSteps DEF LaunchNext, LaunchBind, LaunchStart, LaunchReads, LaunchAnswers,
    LaunchDefers, LaunchCleans, LaunchFails, LaunchGivesUp, LaunchRequeues, LaunchEnqueues,
    CleanUp, LaunchInv
<1>5. RowsInv'
  <2> USE <1>1, <1>2 DEF LaunchInv, RowsInv
  <2>1. CASE LaunchBind(i)
    BY <2>1 DEF LaunchBind
  <2>2. CASE LaunchStart(i) \/ LaunchReads(i) \/ LaunchCleans(i) \/ LaunchGivesUp(i)
    BY <2>2 DEF LaunchStart, LaunchReads, LaunchCleans, LaunchGivesUp, rows
  <2>3. CASE LaunchAnswers(i) \/ LaunchFails(i)
    BY <2>3 DEF LaunchAnswers, LaunchFails, Becomes, OpenStatuses, TerminalStatuses
  <2>4. CASE LaunchDefers(i)
    BY <2>4 DEF LaunchDefers, Requeued, Becomes, OpenStatuses
  <2>5. CASE LaunchRequeues(i)
    <3>1. launch[i].attempt + 1 \in 0 .. MaxAttempts
      BY <2>5, BoundsAssumption DEF LaunchRequeues, LaunchesInv
    <3> QED BY <2>5, <3>1 DEF LaunchRequeues, Requeued, Becomes, OpenStatuses
  <2>6. CASE LaunchEnqueues(i)
    BY <2>6 DEF LaunchEnqueues
  <2> QED BY <2>1, <2>2, <2>3, <2>4, <2>5, <2>6 DEF LaunchNext
<1>6. LaunchesInv' /\ launching' \subseteq Tasks
  <2>1. CASE Finish(i)
    BY <1>2, <2>1, FinishSteps DEF LaunchInv
  <2>2. CASE ~Finish(i)
    <3>1. launching' \subseteq Tasks
      BY <2>2 DEF LaunchInv, RestInv, LaunchNext, LaunchBind, LaunchStart, LaunchReads,
        LaunchAnswers, LaunchDefers, LaunchCleans, LaunchFails, LaunchGivesUp,
        LaunchRequeues, LaunchEnqueues
    <3>2. \E step \in {"bind", "start", "started", "error", "answer", "failed", "defer",
                       "clean", "requeue", "enqueue"} :
            Step(i, step) /\ (step = "requeue" => launch[i].attempt < MaxAttempts)
      BY <2>2 DEF LaunchNext, LaunchBind, LaunchStart, LaunchReads, LaunchAnswers,
        LaunchDefers, LaunchCleans, LaunchFails, LaunchGivesUp, LaunchRequeues, LaunchEnqueues
    <3> QED BY <1>2, <3>1, <3>2, LaunchSteps DEF LaunchInv
  <2> QED BY <2>1, <2>2
<1>7. alive' \subseteq Lanes
  BY <1>2 DEF LaunchInv, RestInv, LaunchNext, LaunchBind, LaunchStart, LaunchReads,
    LaunchAnswers, LaunchDefers, LaunchCleans, LaunchFails, LaunchGivesUp, LaunchRequeues,
    LaunchEnqueues, CleanUp
<1>8. RestInv'
  BY <1>1, <1>6, <1>7 DEF LaunchInv, RestInv
<1> QED BY <1>3, <1>4, <1>5, <1>6, <1>8 DEF LaunchInv

LEMMA RunNextStep ==
  ASSUME LaunchInv, NEW r \in runs, RunNext(r)
  PROVE  LaunchInv'
<1>1. UNCHANGED <<job, container, attempt, queue, loop, stopping, launching, launch,
                  swept, pauses, crashes>>
  BY DEF RunNext, RunReports, RunBinds, RunMoves, RunFails, RunCleans, rows, counters
<1>2. r \in RunStates /\ r.task \in Tasks
  BY DEF LaunchInv, RestInv, RunStates
<1>3. LoopInv' /\ LaunchesInv'
  BY <1>1 DEF LaunchInv, LoopInv, LoopStates, Rows, LaunchesInv, LaunchAt
<1>4. RowsInv'
  BY <1>1, <1>2 DEF LaunchInv, RowsInv, RunNext, RunReports, RunBinds, RunMoves, RunFails,
    RunCleans, rows, Becomes, OpenStatuses, TerminalStatuses
<1>5. runs' \subseteq RunStates
  <2>1. ASSUME NEW step \in {"run", "bind", "move", "clean"}, NEW l \in Lanes \cup {NoLane},
               RunStep(r, step, l)
        PROVE  runs' \subseteq RunStates
    BY <1>2, <2>1 DEF LaunchInv, RestInv, RunStep, RunStates
  <2> QED BY <2>1 DEF LaunchInv, RestInv, RunNext, RunReports, RunBinds, RunMoves,
            RunFails, RunCleans, HeldBy
<1>6. LanesTypeOK' /\ alive' \subseteq Lanes
  <2>1. CASE RunBinds(r)
    BY <1>2, <2>1 DEF RunBinds, BindLane, LaunchInv, LanesTypeOK, RestInv
  <2>2. CASE RunCleans(r)
    BY <1>2, <2>2 DEF RunCleans, CleanUp, ResetLanes, LaunchInv, LanesTypeOK, RestInv
  <2>3. CASE RunReports(r) \/ RunMoves(r) \/ RunFails(r)
    BY <2>3 DEF RunReports, RunMoves, RunFails, laneVars, LaunchInv, LanesTypeOK, RestInv
  <2> QED BY <2>1, <2>2, <2>3 DEF RunNext
<1> QED BY <1>1, <1>3, <1>4, <1>5, <1>6 DEF LaunchInv, RestInv

-----------------------------------------------------------------------------
(* The steps of the loop. *)

\* A transition that the code asks for leaves the rows well-typed.
LEMMA RowsAfter ==
  ASSUME RowsInv, NEW t \in Tasks, UNCHANGED job, UNCHANGED attempt,
         container' = container \/ Requeued(t),
         UNCHANGED status \/ Requeued(t)
           \/ \E to \in OpenStatuses \cup TerminalStatuses : Becomes(t, to),
         queue' \subseteq Tasks
  PROVE  RowsInv'
BY DEF RowsInv, Becomes, Requeued, OpenStatuses

\* The loop takes up the row of one task.
LEMMA InspectStep ==
  ASSUME LaunchInv, NEW row \in loop.inspect, Inspect(row)
  PROVE  LaunchInv'
<1> DEFINE t == row.task
<1>1. UNCHANGED <<job, attempt, alive, stopping, launching, launch, swept, pauses, crashes>>
  BY DEF Inspect, InspectLaunched, InspectLaunching, RecoverLaunched, RecoverPending,
    InspectStarting, InspectRunning, InspectSuccess, InspectFailure, rows, counters
<1>2. loop.inspect \subseteq Rows /\ row \in Rows /\ t \in Tasks
  BY DEF LaunchInv, LoopInv, LoopStates, Rows
<1>3. ASSUME NEW pc \in {"inspect", "release", "clean"}, NEW u \in Tasks \cup {NoTask},
             pc # "inspect" => u \in Tasks, Inspected(row, pc, u)
      PROVE  LoopInv'
  BY <1>2, <1>3 DEF Inspected, LaunchInv, LoopInv, LoopStates, Holding
<1>4. LoopInv'
  BY <1>2, <1>3 DEF Inspect, InspectLaunched, InspectLaunching, RecoverLaunched,
    RecoverPending, InspectStarting, InspectRunning, InspectSuccess, InspectFailure
<1>5. LanesTypeOK'
  BY <1>2, LaneSteps, LaneCountAssumption DEF Inspect, InspectLaunched, InspectLaunching,
    RecoverLaunched, RecoverPending, InspectStarting, InspectRunning, InspectSuccess,
    InspectFailure, HeldBy, LaunchInv, Lanes
<1>6. RowsInv'
  <2>1. queue' \subseteq Tasks
    BY <1>2 DEF Inspect, InspectLaunched, InspectLaunching, RecoverLaunched, RecoverPending,
      InspectStarting, InspectRunning, InspectSuccess, InspectFailure, LaunchInv, RowsInv, rows
  <2>2. container' = container \/ Requeued(t)
    BY DEF Inspect, InspectLaunched, InspectLaunching, RecoverLaunched, RecoverPending,
      InspectStarting, InspectRunning, InspectSuccess, InspectFailure, rows
  <2>3. \/ UNCHANGED status \/ Requeued(t)
        \/ \E to \in OpenStatuses \cup TerminalStatuses : Becomes(t, to)
    BY DEF Inspect, InspectLaunched, InspectLaunching, RecoverLaunched, RecoverPending,
      InspectStarting, InspectRunning, InspectSuccess, InspectFailure, rows,
      OpenStatuses, TerminalStatuses
  <2> QED BY <1>1, <1>2, <2>1, <2>2, <2>3, RowsAfter DEF LaunchInv
<1>7. runs' \subseteq RunStates
  BY <1>2 DEF Inspect, InspectLaunched, InspectLaunching, RecoverLaunched, RecoverPending,
    InspectStarting, InspectRunning, InspectSuccess, InspectFailure, LaunchInv, RestInv, RunStates
<1> QED BY <1>1, <1>4, <1>5, <1>6, <1>7 DEF LaunchInv, LaunchesInv, LaunchAt, RestInv

\* The other steps of the loop.
LEMMA LoopNextStep ==
  ASSUME LaunchInv, LoopNext
  PROVE  LaunchInv'
<1> USE DEF LaunchInv
<1>1. CASE LoopBegins
  <2> DEFINE active == {u \in Tasks : status[u] \in ActiveStatuses}
             snapshot == {[task |-> t, status |-> status[t], lane |-> container[t]] : t \in active}
  <2>1. snapshot \subseteq Rows
    BY DEF Rows, RowsInv
  <2>2. LaneCount - Cardinality(active) \in Int
    BY RoomIsInt, LaneCountAssumption
  <2>3. loop' = [NoLoop EXCEPT !.pc = "inspect", !.inspect = snapshot,
                   !.pending = {t \in Tasks : status[t] = "pending"},
                   !.room = LaneCount - Cardinality(active)]
    BY <1>1 DEF LoopBegins
  <2> HIDE DEF active, snapshot
  <2>4. LoopInv'
    BY <2>1, <2>2, <2>3 DEF LoopInv, LoopStates, NoLoop, Holding
  <2>5. UNCHANGED <<laneVars, rows, alive, stopping, launching, launch, runs, counters>>
    BY <1>1 DEF LoopBegins
  <2> QED BY <2>4, <2>5 DEF laneVars, rows, counters, LanesTypeOK, RowsInv, LaunchesInv, LaunchAt, RestInv
<1>2. CASE LoopEnds
  <2>1. LaunchesInv'
    <3>1. ASSUME NEW i \in Launches
          PROVE  /\ [launch[i] EXCEPT !.current = FALSE] \in {NoLaunch} \cup LaunchStates
                 /\ [launch[i] EXCEPT !.current = FALSE].step = launch[i].step
                 /\ [launch[i] EXCEPT !.current = FALSE].attempt = launch[i].attempt
      <4>1. CASE launch[i] = NoLaunch
        <5>1. NoLaunch.current = FALSE
          BY DEF NoLaunch
        <5>2. NoLaunch = [NoLaunch EXCEPT !.current = NoLaunch.current]
          BY DEF NoLaunch
        <5> QED BY <4>1, <5>1, <5>2
      <4>2. CASE launch[i] \in LaunchStates
        BY <4>2 DEF LaunchStates
      <4> QED BY <4>1, <4>2 DEF LaunchesInv
    <3>2. launch' = [i \in Launches |-> [launch[i] EXCEPT !.current = FALSE]]
      BY <1>2 DEF LoopEnds
    <3> QED BY <3>1, <3>2 DEF LaunchesInv, LaunchAt
  <2>2. LoopInv'
    BY <1>2, Resting DEF LoopEnds, LoopInv
  <2>3. UNCHANGED <<laneVars, rows, alive, stopping, runs, counters>> /\ launching' = {}
    BY <1>2 DEF LoopEnds
  <2> QED BY <2>1, <2>2, <2>3 DEF laneVars, rows, counters, LanesTypeOK, RowsInv, RestInv
<1>3. CASE LoopReleases \/ LoopCleans
  <2>1. loop.task \in Tasks
    BY <1>3 DEF LoopReleases, LoopCleans, LoopAt, LoopInv, Holding
  <2>2. LanesTypeOK'
    BY <1>3, <2>1 DEF LoopReleases, LoopCleans, CleanUp, ReleaseLanes, ResetLanes, LanesTypeOK
  <2>3. LoopInv'
    BY <1>3 DEF LoopReleases, LoopCleans, Loop, LoopInv, LoopStates, Holding
  <2>4. alive' \subseteq Lanes
    BY <1>3 DEF LoopReleases, LoopCleans, CleanUp, RestInv
  <2>5. UNCHANGED <<rows, stopping, launching, launch, runs, counters>>
    BY <1>3 DEF LoopReleases, LoopCleans
  <2> QED BY <2>2, <2>3, <2>4, <2>5 DEF rows, counters, RowsInv, LaunchesInv, LaunchAt, RestInv
<1>4. CASE Reenqueue \/ BackfillEnds \/ ClaimRefused \/ \E t \in Tasks : Poll(t)
  <2>1. LoopInv'
    <3>1. CASE loop' = NewLoop
      BY <3>1, Resting DEF LoopInv
    <3>2. CASE \/ loop' = [Loop("backfill") EXCEPT !.pending = {}]
               \/ \E t \in Tasks : loop' = [Loop("claim") EXCEPT !.task = t]
      BY <3>2 DEF Loop, LoopInv, LoopStates, Holding
    <3> QED BY <1>4, <3>1, <3>2 DEF Reenqueue, BackfillEnds, ClaimRefused, Poll
  <2>2. queue' \subseteq Tasks
    BY <1>4 DEF Reenqueue, BackfillEnds, ClaimRefused, Poll, LoopAt, LoopInv, LoopStates,
      Holding, RowsInv, rows
  <2>3. stopping' \in BOOLEAN
    BY <1>4 DEF Reenqueue, BackfillEnds, ClaimRefused, Poll, RestInv
  <2>4. UNCHANGED <<laneVars, job, status, container, attempt, alive, launching, launch, runs,
                    counters>>
    BY <1>4 DEF Reenqueue, BackfillEnds, ClaimRefused, Poll, rows
  <2> QED BY <2>1, <2>2, <2>3, <2>4
          DEF laneVars, counters, LanesTypeOK, RowsInv, LaunchesInv, LaunchAt, RestInv
<1>5. CASE Claim
  <2>1. loop.task \in Tasks
    BY <1>5 DEF Claim, LoopAt, LoopInv, Holding
  <2>2. PICK l \in Lanes : ClaimIdle(l, loop.task) /\ loop' = [Loop("mark") EXCEPT !.lane = l]
    BY <1>5 DEF Claim
  <2>3. LanesTypeOK'
    BY <2>1, <2>2, LaneSteps
  <2>4. LoopInv'
    BY <2>1, <2>2 DEF Loop, LoopInv, LoopStates, Holding
  <2>5. UNCHANGED <<rows, alive, stopping, launching, launch, runs, counters>>
    BY <1>5 DEF Claim
  <2> QED BY <2>3, <2>4, <2>5 DEF rows, counters, RowsInv, LaunchesInv, LaunchAt, RestInv
<1>6. CASE MarkRefused
  <2>1. loop.task \in Tasks
    BY <1>6 DEF MarkRefused, LoopAt, LoopInv, Holding
  <2>2. LanesTypeOK'
    BY <1>6, <2>1 DEF MarkRefused, ReleaseLanes, LanesTypeOK
  <2>3. LoopInv'
    BY <1>6, Resting DEF MarkRefused, LoopInv
  <2>4. UNCHANGED <<rows, alive, stopping, launching, launch, runs, counters>>
    BY <1>6 DEF MarkRefused
  <2> QED BY <2>2, <2>3, <2>4 DEF rows, counters, RowsInv, LaunchesInv, LaunchAt, RestInv
<1>7. CASE MarkRejects \/ LoopRejects
  <2>1. loop.task \in Tasks
    BY <1>7 DEF MarkRejects, LoopRejects, LoopAt, LoopInv, Holding
  <2>2. LoopInv'
    BY <1>7, <2>1 DEF MarkRejects, LoopRejects, Loop, LoopInv, LoopStates, Holding
  <2>3. RowsInv'
    BY <1>7, <2>1 DEF MarkRejects, LoopRejects, Becomes, RowsInv, OpenStatuses, TerminalStatuses
  <2>4. UNCHANGED <<laneVars, alive, stopping, launching, launch, runs, counters>>
    BY <1>7 DEF MarkRejects, LoopRejects
  <2> QED BY <2>2, <2>3, <2>4 DEF laneVars, counters, LanesTypeOK, LaunchesInv, LaunchAt, RestInv
<1>8. ASSUME NEW i \in Launches, Mark(i) PROVE LaunchInv'
  <2> DEFINE new == [step |-> "bind", task |-> loop.task, lane |-> loop.lane,
                     attempt |-> attempt[loop.task], current |-> TRUE]
  <2>1. loop.task \in Tasks /\ loop.lane \in Lanes
    BY <1>8 DEF Mark, LoopAt, LoopInv, Holding
  <2>2. new \in LaunchStates
    BY <2>1 DEF LaunchStates, RowsInv
  <2>3. launch' = [launch EXCEPT ![i] = new] /\ new.step = "bind"
    BY <1>8 DEF Mark
  <2> HIDE DEF new
  <2>4. LaunchesInv'
    BY <2>2, <2>3 DEF LaunchesInv, LaunchAt
  <2>5. LoopInv'
    <3>1. loop' = [Loop("backfill") EXCEPT !.room = @ - 1, !.task = NoTask, !.lane = NoLane]
      BY <1>8 DEF Mark
    <3>2. loop.room - 1 \in Int
      BY DEF LoopInv, LoopStates
    <3>3. loop' = [loop EXCEPT !.pc = "backfill", !.room = loop.room - 1, !.task = NoTask,
                               !.lane = NoLane]
      BY <3>1 DEF Loop, LoopInv, LoopStates
    <3> QED BY <3>2, <3>3 DEF LoopInv, LoopStates, Holding
  <2>6. RowsInv'
    BY <1>8, <2>1 DEF Mark, Becomes, RowsInv, OpenStatuses
  <2>7. launching' \subseteq Tasks
    BY <1>8, <2>1 DEF Mark, RestInv
  <2>8. UNCHANGED <<laneVars, alive, stopping, runs, counters>>
    BY <1>8 DEF Mark
  <2> QED BY <2>4, <2>5, <2>6, <2>7, <2>8 DEF laneVars, counters, LanesTypeOK, RestInv
<1> QED BY <1>1, <1>2, <1>3, <1>4, <1>5, <1>6, <1>7, <1>8, InspectStep DEF LoopNext

-----------------------------------------------------------------------------
(* API calls and restarts. *)

LEMMA CallStep ==
  ASSUME LaunchInv,
         PauseJob \/ ResumeJob \/ CancelJob \/ CancelSweeps \/ Restart \/ \E t \in Tasks : StopTask(t)
  PROVE  LaunchInv'
<1> USE DEF LaunchInv
<1>1. CASE PauseJob \/ ResumeJob
  <2>1. loop' = loop \/ loop' = NewLoop
    BY <1>1 DEF PauseJob, ResumeJob
  <2>2. LoopInv'
    BY <2>1, Resting DEF LoopInv
  <2>3. pauses' \in 0 .. MaxPauses
    BY <1>1, BoundsAssumption DEF PauseJob, ResumeJob, RestInv, counters
  <2>4. UNCHANGED <<laneVars, status, container, attempt, queue, alive, launching, launch,
                    runs, swept, crashes>>
    BY <1>1 DEF PauseJob, ResumeJob, counters
  <2>5. stopping' \in BOOLEAN /\ job' \in {"running", "paused"}
    BY <1>1 DEF PauseJob, ResumeJob, RestInv
  <2> QED BY <2>2, <2>3, <2>4, <2>5
          DEF laneVars, LanesTypeOK, RowsInv, LaunchesInv, LaunchAt, RestInv
<1>2. CASE CancelJob \/ CancelSweeps
  <2>1. RowsInv'
    BY <1>2 DEF CancelJob, CancelSweeps, RowsInv, OpenStatuses, TerminalStatuses
  <2>2. LanesTypeOK'
    BY <1>2 DEF CancelJob, CancelSweeps, ResetAllLanes, laneVars, LanesTypeOK
  <2> QED BY <1>2, <2>1, <2>2 DEF CancelJob, CancelSweeps, counters, LaunchesInv, LaunchAt,
            RestInv, LoopInv, LoopStates, Rows
<1>3. CASE Restart
  <2>1. LoopInv'
    BY <1>3, Resting DEF Restart, LoopInv
  <2>2. LaunchesInv'
    <3>1. launch' = [i \in Launches |-> NoLaunch]
      BY <1>3 DEF Restart
    <3>2. \A i \in Launches : launch'[i].step = "none"
      BY <3>1, Resting
    <3> QED BY <3>1, <3>2 DEF LaunchesInv, LaunchAt
  <2>3. RestInv'
    <3>1. stopping' \in BOOLEAN /\ swept' \in BOOLEAN
      BY <1>3, Zenon DEF Restart
    <3>2. /\ alive' \subseteq Lanes /\ launching' \subseteq Tasks /\ runs' \subseteq RunStates
          /\ pauses' \in 0 .. MaxPauses /\ crashes' \in 0 .. MaxCrashes
      BY <1>3, BoundsAssumption DEF Restart, RestInv
    <3> QED BY <3>1, <3>2 DEF RestInv
  <2>4. UNCHANGED <<laneVars, rows>>
    BY <1>3 DEF Restart
  <2> QED BY <2>1, <2>2, <2>3, <2>4 DEF laneVars, rows, LanesTypeOK, RowsInv
<1>4. ASSUME NEW t \in Tasks, StopTask(t) PROVE LaunchInv'
  BY <1>4 DEF StopTask, Becomes, laneVars, counters, LanesTypeOK, RowsInv, LaunchesInv,
    LaunchAt, RestInv, LoopInv, LoopStates, Rows, TerminalStatuses
<1> QED BY <1>1, <1>2, <1>3, <1>4

\* The invariant of the launches holds in every reachable state.
THEOREM LaunchInvariance == LaunchSpec => []LaunchInv
<1>1. LaunchInv /\ [Next]_vars => LaunchInv'
  <2> SUFFICES ASSUME LaunchInv, [Next]_vars PROVE LaunchInv'
    OBVIOUS
  <2>1. CASE UNCHANGED vars
    BY <2>1 DEF vars, laneVars, rows, counters, LaunchInv, LanesTypeOK, RowsInv, LoopInv,
      LaunchesInv, LaunchAt, RestInv
  <2>2. CASE LoopNext
    BY <2>2, LoopNextStep
  <2>3. CASE \E i \in Launches : LaunchNext(i)
    BY <2>3, LaunchNextStep
  <2>4. CASE \E r \in runs : RunNext(r)
    BY <2>4, RunNextStep
  <2>5. CASE PauseJob \/ ResumeJob \/ CancelJob \/ CancelSweeps \/ Restart
               \/ \E t \in Tasks : StopTask(t)
    BY <2>5, CallStep
  <2> QED BY <2>1, <2>2, <2>3, <2>4, <2>5 DEF Next
<1> QED BY <1>1, LaunchInvInit, PTL DEF LaunchSpec

\* Rows, loop and closures keep their types whatever disturbs them, and no
\* task is tried again more often than its attempts allow.
THEOREM LaunchTypeCorrect == LaunchSpec => []LaunchTypeOK
<1>1. LaunchInv => LaunchTypeOK
  BY DEF LaunchInv, RowsInv, LoopInv, LaunchesInv, RestInv, LaunchTypeOK
<1> QED BY <1>1, LaunchInvariance, PTL

-----------------------------------------------------------------------------
(* The rows are written as the store allows. *)

\* A transition asked of an open task in a job that allows it is one of the
\* store, or changes one in-flight status into another.
LEMMA StoreChange ==
  ASSUME RowsInv, NEW t \in Tasks, NEW to \in OpenStatuses \cup TerminalStatuses,
         Becomes(t, to), UNCHANGED job,
         \/ to \in {"completed", "failed"} /\ status[t] \in ActiveStatuses
              /\ job \in {"running", "paused"}
         \/ to = "pending" /\ status[t] \in ActiveStatuses /\ job = "running"
         \/ to \in ActiveStatuses /\ status[t] \in OpenStatuses /\ job = "running"
         \/ to = "canceled" /\ status[t] \in OpenStatuses /\ job \in {"running", "paused"}
  PROVE  [Store!Next]_(Store!storeVars)
<1> DEFINE asStored(s) == IF s \in ActiveStatuses THEN "active" ELSE s
           stored == [u \in Tasks |-> asStored(status[u])]
           owed == [u \in Tasks |->
             IF job = "canceled" \/ status[u] \in {"failed", "canceled"}
             THEN "completed" ELSE "pending"]
           change == <<asStored(status[t]), asStored(to)>>
<1>1. status' = [status EXCEPT ![t] = to] /\ job # "canceled"
  BY DEF Becomes
<1>2. stored' = [stored EXCEPT ![t] = asStored(to)]
  BY <1>1 DEF RowsInv
<1>3. CASE to \in ActiveStatuses /\ status[t] \in ActiveStatuses
  <2>1. stored' = stored
    BY <1>2, <1>3
  <2>2. owed' = owed
    BY <1>1, <1>3 DEF RowsInv, ActiveStatuses, OpenStatuses
  <2> QED BY <2>1, <2>2 DEF Store!storeVars
<1>4. CASE ~(to \in ActiveStatuses /\ status[t] \in ActiveStatuses)
  <2>1. change \in Store!TaskTransitions
    BY <1>4 DEF Store!TaskTransitions, ActiveStatuses, OpenStatuses
  <2>2. job \in Store!AllowedJobStatuses(asStored(to))
    BY <1>4 DEF Store!AllowedJobStatuses, Store!Cancellable, ActiveStatuses, OpenStatuses
  <2>3. owed' = [owed EXCEPT ![t] =
          IF asStored(to) \in Store!BranchEnds THEN "completed" ELSE owed[t]]
    BY <1>1, <1>4 DEF Store!BranchEnds, RowsInv, ActiveStatuses, OpenStatuses, TerminalStatuses
  <2>4. PICK c \in Store!TaskTransitions : c = change
    BY <2>1
  <2>5. Store!TransitionTask(t, c[1], c[2])
    BY <1>2, <2>2, <2>3, <2>4 DEF Store!TransitionTask
  <2>6. Store!TaskNext(t)
    BY <2>5 DEF Store!TaskNext
  <2> QED BY <2>6 DEF Store!Next
<1> QED BY <1>3, <1>4

\* The loop and the closures ask for nothing else.
LEMMA ProcessStores ==
  ASSUME LaunchInv,
         LoopNext \/ (\E i \in Launches : LaunchNext(i)) \/ (\E r \in runs : RunNext(r))
  PROVE  [Store!Next]_(Store!storeVars)
<1> USE DEF LaunchInv
<1>1. CASE UNCHANGED <<job, status>>
  BY <1>1 DEF Store!storeVars
<1>2. ASSUME NEW t \in Tasks, NEW from, NEW to \in OpenStatuses \cup TerminalStatuses,
             Allowed(t, from, to), Becomes(t, to), UNCHANGED job,
             \/ to \in {"completed", "failed", "pending"} /\ from \subseteq ActiveStatuses
             \/ to \in ActiveStatuses /\ from \subseteq OpenStatuses
      PROVE  [Store!Next]_(Store!storeVars)
  BY <1>2, StoreChange DEF Allowed, ActiveStatuses, OpenStatuses
<1>3. ASSUME NEW row \in loop.inspect, Inspect(row)
      PROVE  [Store!Next]_(Store!storeVars)
  <2>1. row.task \in Tasks
    BY DEF LoopInv, LoopStates, Rows
  <2> QED BY <1>1, <1>2, <1>3, <2>1 DEF Inspect, InspectLaunched, InspectLaunching,
    RecoverLaunched, RecoverPending, InspectStarting, InspectRunning, InspectSuccess,
    InspectFailure, rows, Requeued, Failable, ActiveStatuses, OpenStatuses, TerminalStatuses
<1>4. CASE MarkRejects \/ LoopRejects \/ \E i \in Launches : Mark(i)
  <2>1. loop.task \in Tasks
    BY <1>4 DEF MarkRejects, LoopRejects, Mark, LoopAt, LoopInv, Holding
  <2> QED BY <1>1, <1>2, <1>4, <2>1 DEF MarkRejects, LoopRejects, Mark, Failable,
            ActiveStatuses, OpenStatuses, TerminalStatuses
<1>5. CASE \/ LoopBegins \/ LoopEnds \/ LoopReleases \/ LoopCleans \/ Reenqueue \/ BackfillEnds
           \/ Claim \/ ClaimRefused \/ MarkRefused \/ \E t \in Tasks : Poll(t)
  <2>1. UNCHANGED <<job, status>>
    BY <1>5 DEF LoopBegins, LoopEnds, LoopReleases, LoopCleans, Reenqueue, BackfillEnds, Claim,
      ClaimRefused, MarkRefused, Poll, rows
  <2> QED BY <1>1, <2>1
<1>6. ASSUME NEW i \in Launches, LaunchNext(i)
      PROVE  [Store!Next]_(Store!storeVars)
  <2>1. CASE LaunchAnswers(i) \/ LaunchDefers(i) \/ LaunchFails(i) \/ LaunchRequeues(i)
    <3>1. launch[i].task \in Tasks
      BY <2>1, LaunchFields DEF LaunchAnswers, LaunchDefers, LaunchFails, LaunchRequeues, LaunchAt
    <3> QED BY <1>1, <1>2, <2>1, <3>1 DEF LaunchAnswers, LaunchDefers, LaunchFails,
      LaunchRequeues, Requeued, Failable, ActiveStatuses, OpenStatuses, TerminalStatuses
  <2>2. CASE \/ LaunchBind(i) \/ LaunchStart(i) \/ LaunchReads(i) \/ LaunchCleans(i)
             \/ LaunchGivesUp(i) \/ LaunchEnqueues(i)
    <3>1. UNCHANGED <<job, status>>
      BY <2>2 DEF LaunchBind, LaunchStart, LaunchReads, LaunchCleans, LaunchGivesUp,
        LaunchEnqueues, rows
    <3> QED BY <1>1, <3>1
  <2> QED BY <1>6, <2>1, <2>2 DEF LaunchNext
<1>7. ASSUME NEW r \in runs, RunNext(r)
      PROVE  [Store!Next]_(Store!storeVars)
  <2>1. r.task \in Tasks
    BY DEF RestInv, RunStates
  <2> QED BY <1>1, <1>2, <1>7, <2>1 DEF RunNext, RunReports, RunBinds, RunMoves, RunFails,
    RunCleans, rows, Failable, ActiveStatuses, OpenStatuses, TerminalStatuses
<1> QED BY <1>3, <1>4, <1>5, <1>6, <1>7 DEF LoopNext

\* A pause, a resume, a cancellation and a stop are the store's own.
LEMMA CallStores ==
  ASSUME LaunchInv,
         PauseJob \/ ResumeJob \/ CancelJob \/ CancelSweeps \/ Restart \/ \E t \in Tasks : StopTask(t)
  PROVE  [Store!Next]_(Store!storeVars)
<1> USE DEF LaunchInv
<1> DEFINE stored == [u \in Tasks |-> IF status[u] \in ActiveStatuses THEN "active" ELSE status[u]]
           owed == [u \in Tasks |->
             IF job = "canceled" \/ status[u] \in {"failed", "canceled"}
             THEN "completed" ELSE "pending"]
<1>1. CASE PauseJob \/ ResumeJob
  <2>1. stored' = stored /\ owed' = owed
    BY <1>1 DEF PauseJob, ResumeJob
  <2>2. Store!PauseJob \/ Store!ResumeJob
    BY <1>1, <2>1 DEF PauseJob, ResumeJob, Store!PauseJob, Store!ResumeJob, Store!TransitionJob
  <2> QED BY <2>2 DEF Store!Next, Store!JobNext
<1>2. CASE CancelJob
  <2>1. job \in Store!Cancellable /\ job' = "canceled"
    BY <1>2 DEF CancelJob, Store!Cancellable
  <2>2. stored' = [t \in Tasks |-> IF t \in Store!Open THEN "canceled" ELSE stored[t]]
    <3>1. ASSUME NEW t \in Tasks
          PROVE  stored'[t] = IF t \in Store!Open THEN "canceled" ELSE stored[t]
      <4>1. status'[t] = IF status[t] \in OpenStatuses THEN "canceled" ELSE status[t]
        BY <1>2 DEF CancelJob
      <4>2. t \in Store!Open <=> status[t] \in OpenStatuses
        BY DEF Store!Open, Store!OpenStatuses, RowsInv, ActiveStatuses, OpenStatuses,
          TerminalStatuses
      <4> QED BY <4>1, <4>2 DEF ActiveStatuses, OpenStatuses
    <3> QED BY <3>1
  <2>3. \A t \in Tasks : t \in Store!Created
    BY DEF Store!Created, RowsInv, ActiveStatuses, OpenStatuses, TerminalStatuses
  <2>4. owed' = [t \in Tasks |-> IF t \in Store!Created THEN "completed" ELSE owed[t]]
    BY <2>1, <2>3
  <2>5. Store!CancelJob
    BY <2>1, <2>2, <2>4 DEF Store!CancelJob, Store!CloseOpenTasks
  <2> QED BY <2>5 DEF Store!Next, Store!JobNext
<1>3. CASE CancelSweeps \/ Restart
  BY <1>3 DEF CancelSweeps, Restart, rows, Store!storeVars
<1>4. ASSUME NEW t \in Tasks, StopTask(t) PROVE [Store!Next]_(Store!storeVars)
  BY <1>4, StoreChange DEF StopTask, TerminalStatuses
<1> QED BY <1>1, <1>2, <1>3, <1>4

\* Whatever disturbs a launch, the loop and its closures write the rows by
\* transactions of ScanJobStore only, for any number of tasks, lanes and
\* overlapping launches: TaskLaunch refines the store.
THEOREM LaunchKeepsStore == LaunchSpec => KeepsStore
<1>1. LaunchInv /\ [Next]_vars => [Store!Next]_(Store!storeVars)
  <2> SUFFICES ASSUME LaunchInv, [Next]_vars PROVE [Store!Next]_(Store!storeVars)
    OBVIOUS
  <2>1. CASE UNCHANGED vars
    BY <2>1 DEF vars, rows, Store!storeVars
  <2> QED BY <2>1, ProcessStores, CallStores DEF Next
<1> QED BY <1>1, LaunchInvariance, PTL DEF LaunchSpec, KeepsStore

-----------------------------------------------------------------------------
(* Without pauses and without launches that are tried again, no task has   *)
(* two launches: the loop that began a launch lives as long as the job     *)
(* runs, remembers it, and makes no task pending that is being launched.   *)

Remembered(i) ==
  launch[i].current /\ launch[i].task \in launching /\ status[launch[i].task] # "pending"

OnceInv ==
  /\ job # "paused"
  /\ job = "running" => ~stopping
  /\ \A i \in Launches : launch[i] # NoLaunch =>
       /\ launch[i].step \notin {"defer", "requeue", "enqueue"}
       /\ job = "running" => Remembered(i)
       /\ \A j \in Launches :
            launch[j] # NoLaunch /\ launch[i].task = launch[j].task => i = j

LEMMA OnceClosure ==
  ASSUME LaunchInv, OnceInv, "transient" \notin Disturbances, NEW i \in Launches, LaunchNext(i)
  PROVE  OnceInv'
<1> DEFINE t == launch[i].task
<1>1. /\ launch[i] # NoLaunch /\ t \in Tasks /\ UNCHANGED <<job, stopping>>
  BY LaunchFields DEF LaunchInv, LaunchNext, LaunchBind, LaunchStart, LaunchReads, LaunchAnswers,
    LaunchDefers, LaunchCleans, LaunchFails, LaunchGivesUp, LaunchRequeues, LaunchEnqueues,
    LaunchAt, rows
<1>2. status' = status \/ \E to \in {"launched", "failed"} : Becomes(t, to)
  BY <1>1 DEF LaunchNext, LaunchBind, LaunchStart, LaunchReads, LaunchAnswers, LaunchDefers,
    LaunchCleans, LaunchFails, LaunchGivesUp, LaunchRequeues, LaunchEnqueues, LaunchAt,
    rows, OnceInv
<1>3. \A u \in Tasks : status[u] # "pending" => status'[u] # "pending"
  BY <1>1, <1>2 DEF LaunchInv, RowsInv, Becomes
<1>4. CASE Finish(i)
  <2>1. \A j \in Launches : j # i => launch'[j] = launch[j]
    BY <1>4 DEF Finish, LaunchInv, LaunchesInv
  <2>2. launch'[i] = NoLaunch
    BY <1>4 DEF Finish, LaunchInv, LaunchesInv
  <2>3. \A u \in launching : u # t => u \in launching'
    BY <1>4 DEF Finish
  <2>4. ASSUME NEW j \in Launches, launch[j] # NoLaunch, j # i
        PROVE  launch[j].task # t /\ launch[j].task \in Tasks
    BY <1>1, <2>4, LaunchFields DEF OnceInv, LaunchInv, LaunchesInv, LaunchStates
  <2> QED BY <1>1, <1>3, <2>1, <2>2, <2>3, <2>4 DEF OnceInv, Remembered
<1>5. CASE ~Finish(i)
  <2>1. /\ UNCHANGED launching
        /\ \E step \in {"start", "started", "error", "answer", "failed", "clean"} : Step(i, step)
    BY <1>5 DEF LaunchNext, LaunchBind, LaunchStart, LaunchReads, LaunchAnswers, LaunchDefers,
      LaunchCleans, LaunchFails, LaunchGivesUp, LaunchRequeues, LaunchEnqueues, LaunchAt,
      OnceInv, NoLaunch
  <2>2. PICK step \in {"start", "started", "error", "answer", "failed", "clean"} : Step(i, step)
    BY <2>1
  <2>3. launch[i] \in LaunchStates /\ launch' = [launch EXCEPT ![i].step = step]
    BY <1>1, <2>2 DEF Step, LaunchInv, LaunchesInv
  <2>4. /\ \A j \in Launches : j # i => launch'[j] = launch[j]
        /\ launch'[i].step = step /\ launch'[i].task = t
        /\ launch'[i].current = launch[i].current
    BY <2>3 DEF LaunchInv, LaunchesInv, LaunchStates
  <2>5. \A j \in Launches : launch[j] # NoLaunch => launch[j].task \in Tasks
    BY DEF LaunchInv, LaunchesInv, LaunchStates
  <2> QED BY <1>1, <1>3, <2>1, <2>4, <2>5 DEF OnceInv, Remembered
<1> QED BY <1>4, <1>5

LEMMA OnceRun ==
  ASSUME LaunchInv, OnceInv, NEW r \in runs, RunNext(r)
  PROVE  OnceInv'
<1>1. UNCHANGED <<job, stopping, launching, launch>>
  BY DEF RunNext, RunReports, RunBinds, RunMoves, RunFails, RunCleans, rows
<1>2. status' = status \/ \E to \in {"running", "failed"} : Becomes(r.task, to)
  BY DEF RunNext, RunReports, RunBinds, RunMoves, RunFails, RunCleans, rows
<1>3. \A i \in Launches : launch[i] # NoLaunch => launch[i].task \in Tasks
  BY DEF LaunchInv, LaunchesInv, LaunchStates
<1>4. \A u \in Tasks : status[u] # "pending" => status'[u] # "pending"
  BY <1>2 DEF LaunchInv, RowsInv, Becomes
<1> QED BY <1>1, <1>3, <1>4 DEF OnceInv, Remembered

LEMMA OnceLoop ==
  ASSUME LaunchInv, OnceInv, LoopNext
  PROVE  OnceInv'
<1>1. \A i \in Launches : launch[i] # NoLaunch => launch[i].task \in Tasks
  BY DEF LaunchInv, LaunchesInv, LaunchStates
<1>2. UNCHANGED job
  BY DEF LoopNext, Inspect, InspectLaunched, InspectLaunching, RecoverLaunched, RecoverPending,
    InspectStarting, InspectRunning, InspectSuccess, InspectFailure, LoopBegins, LoopEnds,
    LoopReleases, LoopCleans, Reenqueue, BackfillEnds, Claim, ClaimRefused, MarkRefused,
    MarkRejects, LoopRejects, Poll, Mark, rows
<1>3. ASSUME NEW i \in Launches, Mark(i) PROVE OnceInv'
  <2>1. /\ job = "running" /\ status[loop.task] = "pending" /\ launch[i] = NoLaunch
        /\ launching' = launching \cup {loop.task} /\ UNCHANGED stopping
    BY <1>3 DEF Mark, Allowed, FreeSlots, InFlight
  <2>2. loop.task \in Tasks
    BY <1>3 DEF Mark, LoopAt, LaunchInv, LoopInv, Holding
  <2>3. /\ \A j \in Launches : j # i => launch'[j] = launch[j]
        /\ launch'[i].task = loop.task /\ launch'[i].step = "bind" /\ launch'[i].current = TRUE
    BY <1>3 DEF Mark, LaunchInv, LaunchesInv
  <2>4. \A j \in Launches : launch[j] # NoLaunch => launch[j].task # loop.task
    BY <2>1 DEF OnceInv, Remembered
  <2>5. \A u \in Tasks : (u = loop.task \/ status[u] # "pending") => status'[u] # "pending"
    BY <1>3, <2>2 DEF Mark, Becomes, LaunchInv, RowsInv
  <2> QED BY <1>1, <1>2, <2>1, <2>2, <2>3, <2>4, <2>5 DEF OnceInv, Remembered
<1>4. CASE LoopEnds
  <2>1. job # "running" /\ UNCHANGED stopping
    BY <1>4 DEF LoopEnds, OnceInv
  <2>2. ASSUME NEW i \in Launches, launch'[i] # NoLaunch
        PROVE  /\ launch[i] # NoLaunch /\ launch'[i].step = launch[i].step
               /\ launch'[i].task = launch[i].task
    <3>1. launch'[i] = [launch[i] EXCEPT !.current = FALSE]
      BY <1>4 DEF LoopEnds
    <3>2. CASE launch[i] = NoLaunch
      <4>1. NoLaunch.current = FALSE
        BY DEF NoLaunch
      <4>2. NoLaunch = [NoLaunch EXCEPT !.current = NoLaunch.current]
        BY DEF NoLaunch
      <4> QED BY <2>2, <3>1, <3>2, <4>1, <4>2
    <3>3. CASE launch[i] \in LaunchStates /\ launch[i] # NoLaunch
      BY <3>1, <3>3 DEF LaunchStates
    <3> QED BY <3>2, <3>3 DEF LaunchInv, LaunchesInv
  <2> QED BY <1>2, <2>1, <2>2 DEF OnceInv
<1>5. ASSUME NEW row \in loop.inspect, RecoverPending(row) PROVE OnceInv'
  <2>1. /\ UNCHANGED <<launch, launching, stopping>> /\ row.task \notin launching
        /\ UNCHANGED status \/ (job = "running" /\ Becomes(row.task, "pending"))
    BY <1>5 DEF RecoverPending, Requeued, Allowed
  <2>2. \A u \in Tasks : u # row.task /\ status[u] # "pending" => status'[u] # "pending"
    BY <2>1 DEF LaunchInv, RowsInv, Becomes
  <2> QED BY <1>1, <1>2, <2>1, <2>2 DEF OnceInv, Remembered
<1>6. CASE \E t \in Tasks : Poll(t)
  BY <1>2, <1>6 DEF Poll, OnceInv, Remembered
<1>7. CASE \/ LoopBegins \/ LoopReleases \/ LoopCleans \/ Reenqueue \/ BackfillEnds \/ Claim
           \/ ClaimRefused \/ MarkRefused
  BY <1>2, <1>7 DEF LoopBegins, LoopReleases, LoopCleans, Reenqueue, BackfillEnds, Claim,
    ClaimRefused, MarkRefused, rows, OnceInv, Remembered
<1>8. CASE \/ MarkRejects \/ LoopRejects
           \/ \E row \in loop.inspect : Inspect(row) /\ ~RecoverPending(row)
  <2>1. UNCHANGED <<stopping, launching, launch>>
    BY <1>8 DEF MarkRejects, LoopRejects, Inspect, InspectLaunched, InspectLaunching,
      RecoverLaunched, InspectStarting, InspectRunning, InspectSuccess, InspectFailure
  <2>2. status' = status
          \/ \E u, to : Becomes(u, to)
               /\ to \in {"launching", "launched", "starting", "running", "completed", "failed"}
    BY <1>8 DEF MarkRejects, LoopRejects, Inspect, InspectLaunched, InspectLaunching,
      RecoverLaunched, InspectStarting, InspectRunning, InspectSuccess, InspectFailure, rows
  <2>3. \A u \in Tasks : status[u] # "pending" => status'[u] # "pending"
    BY <2>2 DEF LaunchInv, RowsInv, Becomes
  <2> QED BY <1>1, <1>2, <2>1, <2>3 DEF OnceInv, Remembered
<1> QED BY <1>3, <1>4, <1>5, <1>6, <1>7, <1>8 DEF LoopNext

LEMMA OnceCalls ==
  ASSUME LaunchInv, OnceInv, "pause" \notin Disturbances,
         PauseJob \/ ResumeJob \/ CancelJob \/ CancelSweeps \/ Restart \/ \E t \in Tasks : StopTask(t)
  PROVE  OnceInv'
<1>1. ~PauseJob /\ ~ResumeJob
  BY DEF PauseJob, ResumeJob, OnceInv
<1>2. CASE CancelJob \/ CancelSweeps
  BY <1>2 DEF CancelJob, CancelSweeps, OnceInv
<1>3. CASE Restart
  BY <1>3 DEF Restart, rows, OnceInv
<1>4. ASSUME NEW t \in Tasks, StopTask(t) PROVE OnceInv'
  <2>1. UNCHANGED <<job, stopping, launching, launch>>
    BY <1>4 DEF StopTask
  <2>2. \A u \in Tasks : status[u] # "pending" => status'[u] # "pending"
    BY <1>4 DEF StopTask, Becomes, LaunchInv, RowsInv
  <2>3. \A i \in Launches : launch[i] # NoLaunch => launch[i].task \in Tasks
    BY DEF LaunchInv, LaunchesInv, LaunchStates
  <2> QED BY <2>1, <2>2, <2>3 DEF OnceInv, Remembered
<1> QED BY <1>1, <1>2, <1>3, <1>4

LEMMA OnceInvariance ==
  ASSUME "pause" \notin Disturbances, "transient" \notin Disturbances
  PROVE  LaunchSpec => []OnceInv
<1>1. LaunchInit => OnceInv
  BY DEF LaunchInit, OnceInv
<1>2. LaunchInv /\ OnceInv /\ [Next]_vars => OnceInv'
  <2> SUFFICES ASSUME LaunchInv, OnceInv, [Next]_vars PROVE OnceInv'
    OBVIOUS
  <2>1. CASE UNCHANGED vars
    BY <2>1 DEF vars, rows, OnceInv, Remembered
  <2> QED BY <2>1, OnceClosure, OnceRun, OnceLoop, OnceCalls DEF Next
<1> QED BY <1>1, <1>2, LaunchInvariance, PTL DEF LaunchSpec

\* Cancellations, stopped tasks, restarts and inspections of stale rows do not
\* make the loop launch a task twice, for any number of tasks, lanes and
\* launches, unless the job is paused or a launch is tried again.
THEOREM LaunchesDoNotOverlap ==
  ASSUME "pause" \notin Disturbances, "transient" \notin Disturbances
  PROVE  LaunchSpec => []OneLaunchPerTask
<1>1. OnceInv => OneLaunchPerTask
  BY Resting DEF OnceInv, OneLaunchPerTask, Unanswered
<1> QED BY <1>1, OnceInvariance, PTL
=============================================================================

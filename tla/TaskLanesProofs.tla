--------------------------- MODULE TaskLanesProofs ---------------------------
(***************************************************************************)
(* What becomes of the lanes of a stage in TaskLaunch, for any tasks,      *)
(* lanes and overlapping launches: that a task runs in the lane it holds,  *)
(* that a canceled job leaves nothing behind and that no lane is lost.     *)
(* The first needs to know of every task who is at work on it - the queue, *)
(* the loop, one launch or one run, never two of them - and what the       *)
(* snapshot of the loop still says of it (TaskKept); that a step works on  *)
(* one task and leaves the others alone is shown once (LeftAloneIsKept),   *)
(* so that an action is looked at for the task it is about.  It rests on   *)
(* OnceInv of TaskLaunchProofs, as the second does.                        *)
(***************************************************************************)
EXTENDS TaskLaunchProofs

Live(i) == launch[i] # NoLaunch
Lasting == {"launched", "starting", "running"}
Begun == {"starting", "running"}
Keeps(t, l) == l \in Lanes /\ holder[l] = t
LoopOn(t, pcs) == loop.pc \in pcs /\ loop.task = t
Waits(t) == t \in queue \cup loop.pending \/ LoopOn(t, {"claim", "mark", "reject"})

\* An active task holds the lane its container is named after, ...
LaneKept(t) ==
  /\ status[t] = "pending" => container[t] = NoLane
  /\ status[t] \in ActiveStatuses /\ container[t] # NoLane => Keeps(t, container[t])
  /\ status[t] \in Lasting => container[t] # NoLane

\* ... a task that waits to be launched is pending or over, ...
WaitKept(t) ==
  /\ t \in queue \cup loop.pending \/ LoopOn(t, {"claim", "mark"})
       => status[t] \in {"pending"} \cup TerminalStatuses
  /\ LoopOn(t, {"reject"}) => status[t] \in {"launching"} \cup TerminalStatuses
  /\ LoopOn(t, {"claim", "mark", "reject"}) => t \notin queue
  /\ LoopOn(t, {"mark"}) /\ status[t] = "pending" => Keeps(t, loop.lane)

\* ... the loop cleans up after a task whose end it has written, ...
EndKept(t) ==
  /\ LoopOn(t, {"release"}) => status[t] = "completed"
  /\ LoopOn(t, {"clean"}) =>
       status[t] = "failed" /\ (container[t] # NoLane => Keeps(t, container[t]))
  /\ LoopOn(t, {"release", "clean"}) => \A i \in Launches : Live(i) => launch[i].task # t

\* ... a launch has the lane to itself until it answers or has cleaned up, ...
LaunchKept(i, t) ==
  /\ Keeps(t, launch[i].lane) /\ ~Waits(t)
  /\ status[t] \in {"launching"} \cup TerminalStatuses
  /\ launch[i].step = "clean" => status[t] \in TerminalStatuses
  /\ container[t] = IF launch[i].step = "bind" THEN NoLane ELSE launch[i].lane
  /\ launch[i].step \in {"started", "answer"} /\ status[t] = "launching"
       => launch[i].lane \in alive
LaunchesKept(t) == \A i \in Launches : Live(i) /\ launch[i].task = t => LaunchKept(i, t)

\* ... and so does a run, ...
RunKept(r, t) ==
  /\ status[t] \in Begun \cup TerminalStatuses /\ ~Waits(t)
  /\ \A s \in runs : s.task = t => r = s
  /\ \A i \in Launches : Live(i) => launch[i].task # t
  /\ r.step = "clean" =>
       /\ status[t] = "failed" /\ ~LoopOn(t, {"clean"})
       /\ container[t] # NoLane => Keeps(t, container[t])
RunsKept(t) == \A r \in runs : r.task = t => RunKept(r, t)

\* ... and what the snapshot says of a task is not less than what is the case
\* but for launches that have answered.
RowKept(row, t) ==
  /\ status[t] # "pending"
  /\ \A other \in loop.inspect : other.task = t => row = other
  /\ row.status \in Begun => status[t] \in Begun \cup TerminalStatuses
  /\ row.status = "launched" => status[t] # "launching"
  /\ row.status \in {"launching", "launched"} => \A r \in runs : r.task # t
  /\ row.status = "launching" /\ row.lane # NoLane /\ status[t] \in ActiveStatuses
       => row.lane = container[t]
  /\ row.status = "launching" /\ status[t] \in Lasting => row.lane \in alive
RowsKept(t) == \A row \in loop.inspect : row.task = t => RowKept(row, t)

TaskKept(t) ==
  LaneKept(t) /\ WaitKept(t) /\ EndKept(t) /\ LaunchesKept(t) /\ RunsKept(t) /\ RowsKept(t)

LoopShape ==
  loop.pc \notin {"inspect", "release", "clean"} => loop.inspect = {} /\ loop.pending = {}

KeepInv ==
  /\ job = "canceled" => \A t \in Tasks : status[t] \in TerminalStatuses
  /\ job = "running" => LoopShape /\ \A t \in Tasks : TaskKept(t)

\* A step leaves alone what there is of a task.
LeftAlone(u) ==
  /\ status'[u] = status[u] /\ container'[u] = container[u]
  /\ \A l \in Lanes : holder[l] = u => holder'[l] = u /\ (l \in alive => l \in alive')
  /\ u \in queue' \cup loop'.pending => u \in queue \cup loop.pending
  /\ \A row \in loop'.inspect : row.task = u => row \in loop.inspect
  /\ \A r \in runs' : r.task = u => r \in runs
  /\ \A i \in Launches : Live(i)' /\ launch'[i].task = u => launch'[i] = launch[i]
  /\ loop'.pc \in Holding /\ loop'.task = u =>
       loop'.pc = loop.pc /\ loop'.task = loop.task /\ loop'.lane = loop.lane

LEMMA LeftAloneIsKept ==
  ASSUME LaunchInv, LoopShape, NEW u \in Tasks, TaskKept(u), LeftAlone(u)
  PROVE  TaskKept(u)'
<1> USE DEF LeftAlone
<1>0. LaneKept(u) /\ WaitKept(u) /\ EndKept(u) /\ LaunchesKept(u) /\ RunsKept(u) /\ RowsKept(u)
  BY DEF TaskKept
<1>1. LaneKept(u)'
  BY <1>0 DEF LaneKept, Keeps
<1>2. \A i \in Launches : Live(i)' /\ launch'[i].task = u => Live(i) /\ launch'[i] = launch[i]
  BY DEF Live
<1>3. Waits(u)' => Waits(u)
  BY DEF Waits, LoopOn, Holding
<1>4. WaitKept(u)'
  BY <1>0 DEF WaitKept, LoopOn, Holding, Keeps, LoopShape
<1>5. EndKept(u)'
  BY <1>0, <1>2 DEF EndKept, LoopOn, Holding, Keeps
<1>6. LaunchesKept(u)'
  <2> SUFFICES ASSUME NEW i \in Launches, Live(i)', launch'[i].task = u PROVE LaunchKept(i, u)'
    BY DEF LaunchesKept
  <2>1. LaunchKept(i, u) /\ launch'[i] = launch[i]
    BY <1>0, <1>2 DEF LaunchesKept
  <2> QED BY <2>1, <1>3 DEF LaunchKept, Keeps
<1>7. RunsKept(u)'
  <2> SUFFICES ASSUME NEW r \in runs', r.task = u PROVE RunKept(r, u)'
    BY DEF RunsKept
  <2>1. RunKept(r, u)
    BY <1>0 DEF RunsKept
  <2>2. LoopOn(u, {"clean"})' => LoopOn(u, {"clean"})
    BY DEF LoopOn, Holding
  <2> QED BY <2>1, <2>2, <1>2, <1>3 DEF RunKept, Keeps
<1>8. RowsKept(u)'
  <2> SUFFICES ASSUME NEW row \in loop'.inspect, row.task = u PROVE RowKept(row, u)'
    BY DEF RowsKept
  <2>1. RowKept(row, u)
    BY <1>0 DEF RowsKept
  <2>2. row.status = "launching" /\ status[u] \in Lasting => row.lane \in alive'
    BY <1>0, <2>1, NoLaneAssumption DEF LaneKept, Keeps, RowKept, LaunchInv, RestInv, Lasting,
      ActiveStatuses, OpenStatuses
  <2> QED BY <2>1, <2>2 DEF RowKept
<1> QED BY <1>1, <1>4, <1>5, <1>6, <1>7, <1>8 DEF TaskKept

LEMMA KeptByTheStep ==
  ASSUME LaunchInv, KeepInv, job = "running", job' = "running", LoopShape',
         NEW t, \A u \in Tasks : u # t => LeftAlone(u), t \in Tasks => TaskKept(t)'
  PROVE  KeepInv'
BY LeftAloneIsKept DEF KeepInv

\* A task that is over and that nothing is at work on.
LEMMA OverIsKept ==
  ASSUME NEW t \in Tasks, status'[t] \in TerminalStatuses,
         \A i \in Launches : Live(i)' => launch'[i].task # t,
         \A r \in runs' : r.task # t,
         ~ (loop'.pc \in Holding /\ loop'.task = t),
         \A row, other \in loop'.inspect : row.task = t /\ other.task = t => row = other
  PROVE  TaskKept(t)'
BY DEF TaskKept, LaneKept, WaitKept, EndKept, LaunchesKept, RunsKept, RowsKept, RowKept, LoopOn,
  Holding, TerminalStatuses, ActiveStatuses, OpenStatuses, Lasting, Begun

\* Whoever gives the lanes of one task back takes none of another.
LEMMA GivesBack ==
  ASSUME LaunchInv, NEW t \in Tasks, NEW u \in Tasks, u # t, NEW l \in Lanes, holder[l] = u,
         ReleaseLanes(t) \/ ResetLanes(t)
  PROVE  holder'[l] = u /\ l \notin HeldBy(t)
BY DEF ReleaseLanes, ResetLanes, HeldBy

-----------------------------------------------------------------------------
(* The launch closures. *)

Steps == {"bind", "start", "started", "error", "answer", "failed", "defer", "clean", "requeue",
          "enqueue"}

LEMMA StepOfLaunch ==
  ASSUME LaunchInv, NEW i \in Launches, Live(i), NEW step \in Steps, Step(i, step)
  PROVE  /\ \A j \in Launches : j # i => launch'[j] = launch[j]
         /\ launch'[i].step = step /\ launch'[i].task = launch[i].task
         /\ launch'[i].lane = launch[i].lane /\ Live(i)'
         /\ \A j \in Launches : Live(j)' <=> Live(j)
BY Resting DEF LaunchInv, LaunchesInv, LaunchStates, Step, Live, Steps

LEMMA EndOfLaunch ==
  ASSUME LaunchInv, NEW i \in Launches, Finish(i)
  PROVE  /\ \A j \in Launches : j # i => launch'[j] = launch[j]
         /\ \A j \in Launches : Live(j)' <=> Live(j) /\ j # i
BY DEF LaunchInv, LaunchesInv, Finish, Live

\* Nothing else is at work on a task that is being launched.
LEMMA LaunchIsAlone ==
  ASSUME LaunchInv, OnceInv, KeepInv, job = "running", NEW i \in Launches, Live(i)
  PROVE  /\ launch[i].task \in Tasks /\ launch[i].lane \in Lanes
         /\ LaunchKept(i, launch[i].task) /\ TaskKept(launch[i].task) /\ LoopShape
         /\ ~ (loop.pc \in Holding /\ loop.task = launch[i].task)
         /\ launch[i].task \notin queue \cup loop.pending
         /\ \A r \in runs : r.task # launch[i].task
         /\ \A j \in Launches : Live(j) /\ launch[j].task = launch[i].task => j = i
         /\ launch[i].step \notin {"defer", "requeue", "enqueue"}
<1> DEFINE t == launch[i].task
<1>1. t \in Tasks /\ launch[i].lane \in Lanes
  BY DEF LaunchInv, LaunchesInv, LaunchStates, Live
<1>2. TaskKept(t) /\ LoopShape
  BY <1>1 DEF KeepInv
<1>3. LaunchKept(i, t)
  BY <1>2 DEF TaskKept, LaunchesKept
<1>4. ~ (loop.pc \in Holding /\ loop.task = t) /\ t \notin queue \cup loop.pending
  BY <1>2, <1>3 DEF TaskKept, EndKept, LaunchKept, Waits, LoopOn, Holding
<1>5. \A r \in runs : r.task # t
  BY <1>2 DEF TaskKept, RunsKept, RunKept
<1>6. /\ \A j \in Launches : Live(j) /\ launch[j].task = t => j = i
      /\ launch[i].step \notin {"defer", "requeue", "enqueue"}
  BY DEF OnceInv, Live
<1> QED BY <1>1, <1>2, <1>3, <1>4, <1>5, <1>6

\* A launch goes one step further.
LEMMA LaunchGoesOn ==
  ASSUME LaunchInv, OnceInv, KeepInv, job = "running", NEW i \in Launches, Live(i),
         NEW step \in Steps \ {"bind"}, Step(i, step),
         UNCHANGED <<holder, loop, runs, queue, job>>,
         alive \subseteq alive',
         container' = [container EXCEPT ![launch[i].task] = launch[i].lane],
         UNCHANGED status \/ Becomes(launch[i].task, "failed"),
         step = "clean" => status'[launch[i].task] \in TerminalStatuses,
         step \in {"started", "answer"} =>
           status'[launch[i].task] # "launching" \/ launch[i].lane \in alive'
  PROVE  KeepInv'
<1>0. PICK t \in Tasks : t = launch[i].task
  BY LaunchIsAlone
<1>1. /\ \A j \in Launches : j # i => launch'[j] = launch[j]
      /\ launch'[i].step = step /\ launch'[i].task = t /\ launch'[i].lane = launch[i].lane
      /\ \A j \in Launches : Live(j)' <=> Live(j)
  BY <1>0, StepOfLaunch
<1>2. /\ t \in Tasks /\ launch[i].lane \in Lanes /\ LaunchKept(i, t) /\ TaskKept(t) /\ LoopShape
      /\ ~ (loop.pc \in Holding /\ loop.task = t) /\ t \notin queue \cup loop.pending
      /\ \A r \in runs : r.task # t
      /\ \A j \in Launches : Live(j) /\ launch[j].task = t => j = i
  BY <1>0, LaunchIsAlone
<1>3. /\ \A u \in Tasks : u # t => status'[u] = status[u] /\ container'[u] = container[u]
      /\ container'[t] = launch[i].lane
      /\ status'[t] \in {status[t], "failed"}
  BY <1>0, <1>2 DEF LaunchInv, RowsInv, Becomes
<1>4. ASSUME NEW u \in Tasks, u # t PROVE LeftAlone(u)
  BY <1>1, <1>3, <1>4 DEF LeftAlone
<1>5. LaunchKept(i, t)'
  BY <1>0, <1>1, <1>2, <1>3 DEF LaunchKept, Keeps, Waits, LoopOn, Holding, TerminalStatuses
<1>6. LaunchesKept(t)'
  BY <1>1, <1>2, <1>5 DEF LaunchesKept
<1>7. LaneKept(t)'
  BY <1>2, <1>5, <1>1, <1>3 DEF LaneKept, LaunchKept, TerminalStatuses, Lasting
<1>8. WaitKept(t)' /\ EndKept(t)' /\ RunsKept(t)'
  BY <1>2, <1>1 DEF WaitKept, EndKept, RunsKept, LoopOn, Holding
<1>9. RowsKept(t)'
  <2> SUFFICES ASSUME NEW row \in loop.inspect, row.task = t PROVE RowKept(row, t)'
    BY DEF RowsKept
  <2>1. RowKept(row, t)
    BY <1>2 DEF TaskKept, RowsKept
  <2>2. row.status = "launching" /\ row.lane # NoLane /\ status'[t] \in ActiveStatuses =>
          row.lane = launch[i].lane
    BY <2>1, <1>2, <1>3, <1>5 DEF RowKept, LaunchKept, TerminalStatuses, ActiveStatuses,
      OpenStatuses
  <2> QED BY <1>2, <1>3, <1>5, <2>1, <2>2 DEF RowKept, LaunchKept, TerminalStatuses, Lasting, Begun
<1>10. TaskKept(t)' /\ LoopShape'
  BY <1>2, <1>6, <1>7, <1>8, <1>9 DEF TaskKept, LoopShape
<1> QED BY <1>4, <1>10, KeptByTheStep

\* A launch answers, in time: the row of the snapshot, if there is one, has
\* the lane.
LEMMA LaunchEndsWell ==
  ASSUME LaunchInv, OnceInv, KeepInv, job = "running", "slow inspection" \notin Disturbances,
         NEW i \in Launches, LaunchAnswers(i), Finish(i)
  PROVE  KeepInv'
<1>1. LaunchAt(i, "answer") /\ Live(i)
  BY LaunchFields DEF LaunchAnswers, LaunchAt, Live, LaunchInv
<1>2. PICK t \in Tasks : t = launch[i].task
  BY <1>1, LaunchIsAlone
<1>3. /\ launch[i].lane \in Lanes /\ LaunchKept(i, t) /\ TaskKept(t) /\ LoopShape
      /\ ~ (loop.pc \in Holding /\ loop.task = t) /\ t \notin queue \cup loop.pending
      /\ \A r \in runs : r.task # t
      /\ \A j \in Launches : Live(j) /\ launch[j].task = t => j = i
  BY <1>1, <1>2, LaunchIsAlone
<1>4. ~ Step(i, "clean")
  BY <1>1, StepOfLaunch, EndOfLaunch DEF Steps
<1>5. /\ status[t] = "launching" /\ status' = [status EXCEPT ![t] = "launched"]
      /\ UNCHANGED <<holder, job, container, queue, alive, loop, runs>>
      /\ \A row \in loop.inspect : row.task = t => row.lane # NoLane
  BY <1>2, <1>4 DEF LaunchAnswers, Allowed, Becomes, Timely, laneVars
<1>6. /\ \A j \in Launches : Live(j)' => Live(j) /\ j # i /\ launch'[j] = launch[j]
  BY EndOfLaunch
<1>7. /\ status'[t] = "launched" /\ \A u \in Tasks : u # t => status'[u] = status[u]
  BY <1>5 DEF LaunchInv, RowsInv
<1>8. ASSUME NEW u \in Tasks, u # t PROVE LeftAlone(u)
  BY <1>5, <1>6, <1>7, <1>8 DEF LeftAlone
<1>9. /\ container[t] = launch[i].lane /\ Keeps(t, launch[i].lane)
      /\ launch[i].lane \in alive
  BY <1>1, <1>3, <1>5 DEF LaunchKept, LaunchAt
<1>10. \A j \in Launches : Live(j)' => launch'[j].task # t
  BY <1>3, <1>6
<1>11. LaneKept(t)' /\ LaunchesKept(t)'
  BY <1>3, <1>5, <1>7, <1>9, <1>10, NoLaneAssumption DEF LaneKept, Keeps, LaunchesKept
<1>12. WaitKept(t)' /\ EndKept(t)' /\ RunsKept(t)'
  BY <1>3, <1>5 DEF WaitKept, EndKept, RunsKept, LoopOn, Holding
<1>13. RowsKept(t)'
  <2> SUFFICES ASSUME NEW row \in loop.inspect, row.task = t PROVE RowKept(row, t)'
    BY <1>5 DEF RowsKept
  <2>1. RowKept(row, t) /\ row.lane # NoLane /\ row.status \in ActiveStatuses
    BY <1>3, <1>5 DEF TaskKept, RowsKept, LaunchInv, LoopInv, LoopStates, Rows
  <2>2. row.status = "launching" /\ row.lane = launch[i].lane
    BY <1>5, <1>9, <2>1 DEF RowKept, ActiveStatuses, OpenStatuses, Begun, TerminalStatuses
  <2> QED BY <1>5, <1>7, <1>9, <2>1, <2>2 DEF RowKept, Begun
<1>14. TaskKept(t)' /\ LoopShape'
  BY <1>3, <1>5, <1>11, <1>12, <1>13 DEF TaskKept, LoopShape
<1> QED BY <1>5, <1>8, <1>14, KeptByTheStep

LEMMA LaunchCleansUp ==
  ASSUME LaunchInv, OnceInv, KeepInv, job = "running", NEW i \in Launches, LaunchCleans(i)
  PROVE  KeepInv'
<1>1. LaunchAt(i, "clean") /\ Live(i)
  BY LaunchFields DEF LaunchCleans, LaunchAt, Live, LaunchInv
<1>2. PICK t \in Tasks : t = launch[i].task
  BY <1>1, LaunchIsAlone
<1>3. /\ launch[i].lane \in Lanes /\ LaunchKept(i, t) /\ TaskKept(t) /\ LoopShape
      /\ ~ (loop.pc \in Holding /\ loop.task = t) /\ t \notin queue \cup loop.pending
      /\ \A r \in runs : r.task # t
      /\ \A j \in Launches : Live(j) /\ launch[j].task = t => j = i
  BY <1>1, <1>2, LaunchIsAlone
<1>4. status[t] \in TerminalStatuses /\ container[t] \in HeldBy(t)
  BY <1>1, <1>3 DEF LaunchKept, LaunchAt, Keeps, HeldBy
<1>5. /\ UNCHANGED <<job, status, container, queue, loop, runs>> /\ Finish(i)
      /\ ResetLanes(t) /\ alive \ HeldBy(t) \subseteq alive'
  BY <1>2, <1>4 DEF LaunchCleans, CleanUp, rows
<1>6. /\ \A j \in Launches : Live(j)' => Live(j) /\ j # i /\ launch'[j] = launch[j]
  BY <1>5, EndOfLaunch
<1>8. ASSUME NEW u \in Tasks, u # t PROVE LeftAlone(u)
  <2>1. \A l \in Lanes : holder[l] = u => holder'[l] = u /\ (l \in alive => l \in alive')
    BY <1>5, <1>8, GivesBack
  <2> QED BY <1>5, <1>6, <2>1 DEF LeftAlone
<1>9. TaskKept(t)'
  <2>1. \A row, other \in loop.inspect : row.task = t /\ other.task = t => row = other
    BY <1>3 DEF TaskKept, RowsKept, RowKept
  <2>2. \A j \in Launches : Live(j)' => launch'[j].task # t
    BY <1>3, <1>6
  <2> QED BY <1>3, <1>4, <1>5, <2>1, <2>2, OverIsKept
<1> QED BY <1>3, <1>5, <1>8, <1>9, KeptByTheStep DEF LoopShape

LEMMA LaunchKeepsLanes ==
  ASSUME LaunchInv, OnceInv, KeepInv, job = "running", "slow inspection" \notin Disturbances,
         "transient" \notin Disturbances, NEW i \in Launches, LaunchNext(i)
  PROVE  KeepInv'
<1>1. Live(i) /\ UNCHANGED <<job, loop, runs>>
  BY LaunchFields DEF LaunchInv, LaunchNext, LaunchBind, LaunchStart, LaunchReads, LaunchAnswers,
    LaunchDefers, LaunchCleans, LaunchFails, LaunchGivesUp, LaunchRequeues, LaunchEnqueues,
    LaunchAt, rows, Live
<1>2. PICK t \in Tasks : t = launch[i].task
  BY <1>1, LaunchIsAlone
<1>3. /\ launch[i].lane \in Lanes /\ LaunchKept(i, t)
      /\ launch[i].step \notin {"defer", "requeue", "enqueue"}
  BY <1>1, <1>2, LaunchIsAlone
<1>4. launch[i].step # "bind" =>
        container = [container EXCEPT ![launch[i].task] = launch[i].lane]
  BY <1>2, <1>3 DEF LaunchKept, LaunchInv, RowsInv
<1>5. CASE LaunchBind(i)
  BY <1>1, <1>5, LaunchGoesOn DEF LaunchBind, laneVars, Steps
<1>6. CASE LaunchStart(i)
  <2>1. /\ UNCHANGED <<holder, status, container, queue>> /\ launch[i].step # "bind"
        /\ alive \subseteq alive'
    BY <1>6 DEF LaunchStart, LaunchAt, laneVars, rows
  <2>2. CASE Step(i, "started") /\ launch[i].lane \in alive'
    BY <1>1, <1>4, <2>1, <2>2, LaunchGoesOn DEF Steps
  <2>3. CASE Step(i, "error")
    BY <1>1, <1>4, <2>1, <2>3, LaunchGoesOn DEF Steps
  <2> QED BY <1>6, <2>2, <2>3 DEF LaunchStart
<1>7. CASE LaunchReads(i)
  <2>1. /\ UNCHANGED <<holder, status, container, queue, alive>> /\ launch[i].step # "bind"
        /\ \/ Step(i, "clean") /\ status[t] \in TerminalStatuses
           \/ Step(i, "answer") /\ launch[i].step = "started"
           \/ Step(i, "failed")
    BY <1>2, <1>7 DEF LaunchReads, LaunchAt, laneVars, rows, TerminalStatuses
  <2>2. launch[i].step = "started" => status[t] # "launching" \/ launch[i].lane \in alive
    BY <1>3 DEF LaunchKept
  <2> QED BY <1>1, <1>2, <1>4, <2>1, <2>2, LaunchGoesOn DEF Steps
<1>8. CASE LaunchAnswers(i)
  <2>1. CASE Finish(i)
    BY <1>8, <2>1, LaunchEndsWell
  <2>2. CASE ~Finish(i)
    <3>1. /\ UNCHANGED <<holder, status, container, queue, alive>> /\ launch[i].step # "bind"
          /\ Step(i, "clean") /\ status[t] # "launching"
      BY <1>2, <1>8, <2>2 DEF LaunchAnswers, LaunchAt, laneVars, Allowed
    <3>2. status[t] \in TerminalStatuses
      BY <1>3, <3>1 DEF LaunchKept
    <3> QED BY <1>1, <1>2, <1>4, <3>1, <3>2, LaunchGoesOn DEF Steps
  <2> QED BY <2>1, <2>2
<1>9. CASE LaunchFails(i)
  <2>1. /\ UNCHANGED <<holder, container, queue, alive>> /\ launch[i].step # "bind"
        /\ Step(i, "clean")
        /\ UNCHANGED status \/ Becomes(t, "failed")
        /\ status[t] = "launching" => Becomes(t, "failed")
    BY <1>2, <1>9 DEF LaunchFails, LaunchAt, laneVars, Allowed, Failable
  <2>2. status'[t] \in TerminalStatuses
    BY <1>3, <2>1 DEF LaunchKept, Becomes, LaunchInv, RowsInv, TerminalStatuses
  <2> QED BY <1>1, <1>2, <1>4, <2>1, <2>2, LaunchGoesOn DEF Steps
<1>10. CASE LaunchCleans(i)
  BY <1>10, LaunchCleansUp
<1> QED BY <1>3, <1>5, <1>6, <1>7, <1>8, <1>9, <1>10 DEF LaunchNext, LaunchDefers, LaunchGivesUp,
          LaunchRequeues, LaunchEnqueues, LaunchAt

-----------------------------------------------------------------------------
(* The run closures. *)

LEMMA RunKeepsLanes ==
  ASSUME LaunchInv, KeepInv, job = "running", NEW r \in runs, RunNext(r)
  PROVE  KeepInv'
<1>1. PICK t \in Tasks : t = r.task
  BY DEF LaunchInv, RestInv, RunStates
<1>2. TaskKept(t) /\ LoopShape /\ RunKept(r, t) /\ LoopShape'
  BY <1>1 DEF KeepInv, TaskKept, RunsKept, LoopShape, RunNext, RunReports, RunBinds, RunMoves,
    RunFails, RunCleans
<1>3. UNCHANGED <<job, container, queue, loop, launch>>
  BY DEF RunNext, RunReports, RunBinds, RunMoves, RunFails, RunCleans, rows
<1>4. /\ ~Waits(t) /\ ~Waits(t)'
      /\ \A i \in Launches : Live(i)' => launch'[i].task # t
      /\ \A s \in runs : s.task = t => s = r
  BY <1>2, <1>3 DEF RunKept, Waits, LoopOn, Live
<1>5. CASE RunCleans(r)
  <2>1. /\ status[t] = "failed" /\ UNCHANGED status /\ runs' = runs \ {r} /\ ResetLanes(t)
        /\ container[t] # NoLane => container[t] \in HeldBy(t)
        /\ r.step = "clean"
    BY <1>1, <1>2, <1>5 DEF RunCleans, CleanUp, RunKept, Keeps, HeldBy, rows
  <2>2. \A l \in alive : l # container[t] /\ l \notin HeldBy(t) => l \in alive'
    BY <1>1, <1>5 DEF RunCleans, CleanUp
  <2>3. ASSUME NEW u \in Tasks, u # t PROVE LeftAlone(u)
    <3>1. \A l \in Lanes : holder[l] = u => holder'[l] = u /\ l \notin HeldBy(t)
      BY <2>1, <2>3, GivesBack
    <3>2. container[t] \notin HeldBy(t) => container[t] \notin Lanes
      BY <2>1, NoLaneAssumption
    <3>3. \A l \in Lanes : holder[l] = u => holder'[l] = u /\ (l \in alive => l \in alive')
      BY <2>2, <3>1, <3>2
    <3> QED BY <1>3, <2>1, <3>3 DEF LeftAlone
  <2>4. ~ (loop'.pc \in Holding /\ loop'.task = t)
    BY <1>2, <1>3, <1>4, <2>1 DEF TaskKept, EndKept, RunKept, Waits, LoopOn, Holding
  <2>5. \A row, other \in loop'.inspect : row.task = t /\ other.task = t => row = other
    BY <1>2, <1>3 DEF TaskKept, RowsKept, RowKept
  <2>6. \A s \in runs' : s.task # t
    BY <1>4, <2>1
  <2>7. TaskKept(t)'
    BY <1>4, <2>1, <2>4, <2>5, <2>6, OverIsKept DEF TerminalStatuses
  <2> QED BY <1>2, <1>3, <2>3, <2>7, KeptByTheStep
<1>6. CASE ~RunCleans(r)
  <2>1. /\ UNCHANGED <<holder, alive>>
        /\ \/ UNCHANGED status
           \/ Becomes(t, "running") /\ status[t] = "starting"
           \/ Becomes(t, "failed") /\ status[t] \in Failable
    <3>1. CASE RunReports(r) \/ RunBinds(r)
      BY <3>1 DEF RunReports, RunBinds, laneVars, BindLane, rows
    <3>2. CASE RunMoves(r) \/ RunFails(r)
      BY <1>1, <3>2 DEF RunMoves, RunFails, Allowed, laneVars
    <3> QED BY <1>6, <3>1, <3>2 DEF RunNext
  <2>2. \E x : /\ runs' \subseteq (runs \ {r}) \cup {x} /\ x.task = t
               /\ x.step = "clean" => Becomes(t, "failed") /\ status[t] \in Failable
    <3> DEFINE x(step, l) == [task |-> r.task, step |-> step, lane |-> l]
    <3>1. \A step, l : x(step, l).task = t /\ x(step, l).step = step
      BY <1>1
    <3>2. \/ \E l : runs' \subseteq (runs \ {r}) \cup {x("move", l)}
          \/ \E l : runs' \subseteq (runs \ {r}) \cup {x("bind", l)}
          \/ \E l : /\ runs' \subseteq (runs \ {r}) \cup {x("clean", l)}
                    /\ Becomes(t, "failed") /\ status[t] \in Failable
      BY <1>1, <1>6 DEF RunNext, RunReports, RunBinds, RunMoves, RunFails, RunStep, Allowed
    <3> HIDE DEF x
    <3> QED BY <3>1, <3>2
  <2>3. PICK x : /\ runs' \subseteq (runs \ {r}) \cup {x} /\ x.task = t
                 /\ x.step = "clean" => Becomes(t, "failed") /\ status[t] \in Failable
    BY <2>2
  <2>4. /\ \A u \in Tasks : u # t => status'[u] = status[u]
        /\ status[t] \in Begun \cup TerminalStatuses /\ status'[t] \in Begun \cup TerminalStatuses
        /\ status'[t] = status[t] \/ (status'[t] = "running" /\ status[t] = "starting")
             \/ (status'[t] = "failed" /\ status[t] \in Begun)
        /\ x.step = "clean" => status'[t] = "failed" /\ status[t] \in Begun
    BY <1>2, <2>1, <2>3 DEF RunKept, Becomes, Begun, Failable, TerminalStatuses, LaunchInv, RowsInv
  <2>5. ASSUME NEW u \in Tasks, u # t PROVE LeftAlone(u)
    BY <1>1, <1>3, <2>1, <2>3, <2>4, <2>5 DEF LeftAlone
  <2>6. LaneKept(t)'
    BY <1>2, <1>3, <2>1, <2>4 DEF TaskKept, LaneKept, Keeps, Begun, Lasting, TerminalStatuses,
      ActiveStatuses, OpenStatuses
  <2>7. WaitKept(t)'
    BY <1>4 DEF WaitKept, Waits, LoopOn
  <2>8. EndKept(t)'
    BY <1>2, <1>3, <1>4, <2>1, <2>4 DEF TaskKept, EndKept, LoopOn, Keeps, Begun
  <2>9. LaunchesKept(t)'
    BY <1>4 DEF LaunchesKept
  <2>10. RunsKept(t)'
    <3> SUFFICES ASSUME NEW s \in runs', s.task = t PROVE RunKept(s, t)'
      BY DEF RunsKept
    <3>1. s = x /\ \A other \in runs' : other.task = t => other = x
      BY <1>4, <2>3
    <3>2. x.step = "clean" => /\ ~LoopOn(t, {"clean"})'
                              /\ container'[t] # NoLane => Keeps(t, container[t])'
      BY <1>2, <1>3, <2>1, <2>4 DEF TaskKept, EndKept, LaneKept, Keeps, LoopOn, Begun,
        ActiveStatuses, OpenStatuses
    <3> QED BY <1>3, <1>4, <2>4, <3>1, <3>2 DEF RunKept
  <2>11. RowsKept(t)'
    <3> SUFFICES ASSUME NEW row \in loop.inspect, row.task = t PROVE RowKept(row, t)'
      BY <1>3 DEF RowsKept
    <3>1. RowKept(row, t) /\ row.status \notin {"launching", "launched"}
      BY <1>1, <1>2 DEF TaskKept, RowsKept, RowKept
    <3> QED BY <1>3, <2>4, <3>1 DEF RowKept, Begun, TerminalStatuses
  <2>12. TaskKept(t)'
    BY <2>6, <2>7, <2>8, <2>9, <2>10, <2>11 DEF TaskKept
  <2> QED BY <1>2, <1>3, <2>5, <2>12, KeptByTheStep
<1> QED BY <1>5, <1>6

-----------------------------------------------------------------------------
(* The steps of the loop. *)

\* What the loop knows of the task of a row, and what is left of the snapshot
\* when it is through with the row.
LEMMA RowIsTakenUp ==
  ASSUME LaunchInv, KeepInv, job = "running", NEW row \in loop.inspect, LoopAt("inspect"),
         NEW pc \in {"inspect", "release", "clean"}, NEW v, Inspected(row, pc, v)
  PROVE  /\ row.task \in Tasks /\ row.status \in ActiveStatuses
         /\ TaskKept(row.task) /\ RowKept(row, row.task)
         /\ loop'.pc = pc /\ loop'.task = v /\ loop'.pending = loop.pending
         /\ loop'.inspect \subseteq loop.inspect
         /\ \A other \in loop'.inspect : other.task # row.task
         /\ loop.pc \notin Holding
         /\ LoopShape'
<1>1. row.task \in Tasks /\ row.status \in ActiveStatuses
  BY DEF LaunchInv, LoopInv, LoopStates, Rows
<1>2. TaskKept(row.task) /\ RowKept(row, row.task)
  BY <1>1 DEF KeepInv, TaskKept, RowsKept
<1>3. /\ loop'.pc = pc /\ loop'.task = v /\ loop'.pending = loop.pending
      /\ loop'.inspect = loop.inspect \ {row}
  BY DEF Inspected, LaunchInv, LoopInv, LoopStates
<1>4. \A other \in loop'.inspect : other.task # row.task
  BY <1>2, <1>3 DEF RowKept
<1> QED BY <1>1, <1>2, <1>3, <1>4 DEF LoopAt, Holding, LoopShape

\* The loop looks at a row, and writes its task at most.
LEMMA RowIsLeft ==
  ASSUME LaunchInv, KeepInv, job = "running", NEW row \in loop.inspect, LoopAt("inspect"),
         NEW pc \in {"inspect", "release", "clean"}, NEW v, Inspected(row, pc, v),
         pc # "inspect" => v = row.task,
         UNCHANGED <<holder, job, container, queue, alive, launch>>,
         \A u \in Tasks : u # row.task => status'[u] = status[u],
         \A r \in runs' : r.task # row.task => r \in runs,
         row.task \in Tasks => TaskKept(row.task)'
  PROVE  KeepInv'
<1>1. /\ loop'.pc = pc /\ loop'.task = v /\ loop'.pending = loop.pending
      /\ loop'.inspect \subseteq loop.inspect
      /\ LoopShape'
  BY RowIsTakenUp
<1>2. ASSUME NEW u \in Tasks, u # row.task PROVE LeftAlone(u)
  BY <1>1, <1>2 DEF LeftAlone, Holding
<1> QED BY <1>1, <1>2, KeptByTheStep

LEMMA NothingIsWritten ==
  ASSUME LaunchInv, KeepInv, job = "running", NEW row \in loop.inspect, LoopAt("inspect"),
         Inspected(row, "inspect", NoTask),
         UNCHANGED <<holder, status, job, container, queue, alive, launch, runs>>
  PROVE  KeepInv'
<1>1. /\ row.task \in Tasks /\ TaskKept(row.task)
      /\ loop'.pc = "inspect" /\ loop'.pending = loop.pending
      /\ loop'.inspect \subseteq loop.inspect
  BY RowIsTakenUp
<1>2. LeftAlone(row.task)
  BY <1>1 DEF LeftAlone, Holding
<1>3. PICK t \in Tasks : t = row.task
  BY <1>1
<1>4. TaskKept(t)'
  BY <1>1, <1>2, <1>3, LeftAloneIsKept DEF KeepInv
<1> QED BY <1>3, <1>4, RowIsLeft

\* The lane of a task stays with it while its status moves on.
LEMMA RunBegins ==
  ASSUME LaunchInv, KeepInv, job = "running", NEW row \in loop.inspect, InspectLaunched(row)
  PROVE  KeepInv'
<1>1. LoopAt("inspect") /\ Inspected(row, "inspect", NoTask) /\ row.status = "launched"
  BY DEF InspectLaunched
<1>2. PICK t \in Tasks : t = row.task
  BY <1>1, RowIsTakenUp
<1>3. /\ TaskKept(t) /\ RowKept(row, t)
      /\ loop'.pc = "inspect" /\ loop'.task = NoTask /\ loop'.pending = loop.pending
      /\ \A other \in loop'.inspect : other.task # t
      /\ loop.pc \notin Holding
  BY <1>1, <1>2, RowIsTakenUp
<1>4. UNCHANGED <<holder, job, container, queue, alive, launch>>
  BY DEF InspectLaunched, laneVars
<1>5. CASE ~Allowed(t, {"launched"}, "starting")
  BY <1>1, <1>2, <1>4, <1>5, NothingIsWritten DEF InspectLaunched
<1>6. CASE Allowed(t, {"launched"}, "starting")
  <2> DEFINE x == [task |-> t, step |-> "run", lane |-> NoLane]
  <2>1. status[t] = "launched" /\ Becomes(t, "starting") /\ runs' = runs \cup {x}
    BY <1>2, <1>6 DEF InspectLaunched, Allowed
  <2>2. x.task = t /\ x.step = "run"
    OBVIOUS
  <2> HIDE DEF x
  <2>3. status'[t] = "starting" /\ \A u \in Tasks : u # t => status'[u] = status[u]
    BY <2>1 DEF Becomes, LaunchInv, RowsInv
  <2>4. \A i \in Launches : Live(i)' => launch'[i].task # t
    BY <1>3, <1>4, <2>1 DEF TaskKept, LaunchesKept, LaunchKept, TerminalStatuses, Live
  <2>5. \A r \in runs : r.task # t
    BY <1>1, <1>3 DEF RowKept
  <2>6. ~Waits(t)'
    BY <1>3, <1>4, <2>1 DEF Waits, LoopOn, TaskKept, WaitKept, TerminalStatuses
  <2>7. LaneKept(t)'
    BY <1>3, <1>4, <2>1, <2>3 DEF TaskKept, LaneKept, Keeps, Lasting, ActiveStatuses, OpenStatuses
  <2>8. WaitKept(t)' /\ EndKept(t)' /\ LaunchesKept(t)' /\ RowsKept(t)'
    BY <1>3, <2>4, <2>6 DEF WaitKept, Waits, LoopOn, EndKept, LaunchesKept, RowsKept
  <2>9. RunsKept(t)'
    BY <2>1, <2>2, <2>3, <2>4, <2>5, <2>6 DEF RunsKept, RunKept, Begun
  <2>10. TaskKept(t)'
    BY <2>7, <2>8, <2>9 DEF TaskKept
  <2>11. \A r \in runs' : r.task # t => r \in runs
    BY <2>1, <2>2
  <2> QED BY <1>1, <1>2, <1>4, <2>3, <2>10, <2>11, RowIsLeft
<1> QED BY <1>5, <1>6

LEMMA LaunchIsRecovered ==
  ASSUME LaunchInv, OnceInv, KeepInv, job = "running", NEW row \in loop.inspect,
         RecoverLaunched(row)
  PROVE  KeepInv'
<1>1. LoopAt("inspect") /\ Inspected(row, "inspect", NoTask) /\ row.status = "launching"
  BY DEF RecoverLaunched
<1>2. PICK t \in Tasks : t = row.task
  BY <1>1, RowIsTakenUp
<1>3. /\ TaskKept(t) /\ RowKept(row, t)
      /\ loop'.pc = "inspect" /\ loop'.task = NoTask /\ loop'.pending = loop.pending
      /\ \A other \in loop'.inspect : other.task # t
      /\ loop.pc \notin Holding
  BY <1>1, <1>2, RowIsTakenUp
<1>4. UNCHANGED <<holder, job, container, queue, alive, launch, runs>>
  BY DEF RecoverLaunched, laneVars
<1>5. CASE ~Allowed(t, {"launching"}, "launched")
  BY <1>1, <1>2, <1>4, <1>5, NothingIsWritten DEF RecoverLaunched
<1>6. CASE Allowed(t, {"launching"}, "launched")
  <2>1. /\ status[t] = "launching" /\ Becomes(t, "launched")
        /\ t \notin launching /\ row.lane \in alive
    BY <1>2, <1>6 DEF RecoverLaunched, Allowed
  <2>2. status'[t] = "launched" /\ \A u \in Tasks : u # t => status'[u] = status[u]
    BY <2>1 DEF Becomes, LaunchInv, RowsInv
  <2>3. \A i \in Launches : Live(i)' => launch'[i].task # t
    BY <1>4, <2>1 DEF OnceInv, Remembered, Live
  <2>4. \A r \in runs : r.task # t
    BY <1>1, <1>3 DEF RowKept
  <2>5. ~Waits(t)'
    BY <1>3, <1>4, <2>1 DEF Waits, LoopOn, TaskKept, WaitKept, TerminalStatuses
  <2>6. container[t] # NoLane /\ Keeps(t, container[t])
    BY <1>1, <1>3, <2>1, NoLaneAssumption DEF RowKept, TaskKept, LaneKept, LaunchInv, RestInv,
      ActiveStatuses, OpenStatuses
  <2>7. LaneKept(t)'
    BY <1>4, <2>2, <2>6 DEF LaneKept, Keeps
  <2>8. WaitKept(t)' /\ EndKept(t)' /\ LaunchesKept(t)' /\ RowsKept(t)' /\ RunsKept(t)'
    BY <1>3, <1>4, <2>3, <2>4, <2>5
    DEF WaitKept, Waits, LoopOn, EndKept, LaunchesKept, RowsKept, RunsKept
  <2>9. TaskKept(t)'
    BY <2>7, <2>8 DEF TaskKept
  <2> QED BY <1>1, <1>2, <1>4, <2>2, <2>9, RowIsLeft
<1> QED BY <1>5, <1>6

\* A launch that came to nothing gives its lane back, and waits again.
LEMMA LaunchIsTakenBack ==
  ASSUME LaunchInv, OnceInv, KeepInv, job = "running", NEW row \in loop.inspect,
         RecoverPending(row)
  PROVE  KeepInv'
<1>1. LoopAt("inspect") /\ Inspected(row, "inspect", NoTask) /\ row.status = "launching"
  BY DEF RecoverPending
<1>2. PICK t \in Tasks : t = row.task
  BY <1>1, RowIsTakenUp
<1>3. /\ TaskKept(t) /\ RowKept(row, t)
      /\ loop'.pc = "inspect" /\ loop'.task = NoTask /\ loop'.pending = loop.pending
      /\ loop'.inspect \subseteq loop.inspect
      /\ \A other \in loop'.inspect : other.task # t
      /\ loop.pc \notin Holding /\ LoopShape'
  BY <1>1, <1>2, RowIsTakenUp
<1>4. /\ UNCHANGED <<job, alive, launch, runs>> /\ t \notin launching /\ row.lane \notin alive
      /\ ReleaseLanes(t)
  BY <1>2 DEF RecoverPending
<1>5. \A i \in Launches : Live(i)' => launch'[i].task # t
  BY <1>4 DEF OnceInv, Remembered, Live
<1>6. \A r \in runs : r.task # t
  BY <1>1, <1>3 DEF RowKept
<1>7. \/ UNCHANGED <<status, container, queue>> /\ status[t] # "launching"
      \/ Requeued(t) /\ queue' = queue \cup {t}
  BY <1>2 DEF RecoverPending, Allowed
<1>8. /\ \A u \in Tasks : u # t => status'[u] = status[u] /\ container'[u] = container[u]
      /\ queue' \subseteq queue \cup {t}
  BY <1>7 DEF Requeued, Becomes, LaunchInv, RowsInv
<1>9. ASSUME NEW u \in Tasks, u # t PROVE LeftAlone(u)
  <2>1. \A l \in Lanes : holder[l] = u => holder'[l] = u
    BY <1>4, <1>9, GivesBack
  <2> QED BY <1>3, <1>4, <1>8, <1>9, <2>1 DEF LeftAlone, Holding
<1>10. TaskKept(t)'
  <2>1. CASE UNCHANGED <<status, container, queue>> /\ status[t] # "launching"
    <3>1. status[t] \in TerminalStatuses
      BY <1>1, <1>3, <1>4, <2>1 DEF RowKept, Lasting, LaunchInv, RowsInv, OpenStatuses
    <3> QED BY <1>3, <1>4, <1>5, <1>6, <2>1, <3>1, OverIsKept DEF Holding
  <2>2. CASE Requeued(t)
    <3>1. status'[t] = "pending" /\ container'[t] = NoLane
      BY <2>2 DEF Requeued, Becomes, LaunchInv, RowsInv
    <3> QED BY <1>3, <1>4, <1>5, <1>6, <3>1 DEF TaskKept, LaneKept, WaitKept, EndKept,
      LaunchesKept, RunsKept, RowsKept, LoopOn, ActiveStatuses, Lasting
  <2> QED BY <1>7, <2>1, <2>2
<1> QED BY <1>3, <1>4, <1>9, <1>10, KeptByTheStep

LEMMA RunIsConfirmed ==
  ASSUME LaunchInv, KeepInv, job = "running", NEW row \in loop.inspect, InspectStarting(row)
  PROVE  KeepInv'
<1>1. LoopAt("inspect") /\ Inspected(row, "inspect", NoTask) /\ row.status = "starting"
  BY DEF InspectStarting
<1>2. PICK t \in Tasks : t = row.task
  BY <1>1, RowIsTakenUp
<1>3. /\ TaskKept(t) /\ RowKept(row, t)
      /\ loop'.pc = "inspect" /\ loop'.task = NoTask /\ loop'.pending = loop.pending
      /\ \A other \in loop'.inspect : other.task # t
      /\ loop.pc \notin Holding
  BY <1>1, <1>2, RowIsTakenUp
<1>4. UNCHANGED <<holder, job, container, queue, alive, launch, runs>>
  BY DEF InspectStarting, laneVars, BindLane
<1>5. UNCHANGED status \/ (status[t] = "starting" /\ Becomes(t, "running"))
  BY <1>2 DEF InspectStarting, Allowed
<1>6. CASE UNCHANGED status
  BY <1>1, <1>4, <1>6, NothingIsWritten
<1>7. CASE status[t] = "starting" /\ Becomes(t, "running")
  <2>1. status'[t] = "running" /\ \A u \in Tasks : u # t => status'[u] = status[u]
    BY <1>7 DEF Becomes, LaunchInv, RowsInv
  <2>2. ~Waits(t)' /\ \A i \in Launches : Live(i)' => launch'[i].task # t
    BY <1>3, <1>4, <1>7 DEF Waits, LoopOn, TaskKept, WaitKept, LaunchesKept, LaunchKept,
      TerminalStatuses, Live
  <2>3. LaneKept(t)'
    BY <1>3, <1>4, <1>7, <2>1 DEF TaskKept, LaneKept, Keeps, Lasting, ActiveStatuses, OpenStatuses
  <2>4. WaitKept(t)' /\ EndKept(t)' /\ LaunchesKept(t)' /\ RowsKept(t)'
    BY <1>3, <2>2 DEF WaitKept, Waits, LoopOn, EndKept, LaunchesKept, RowsKept
  <2>5. RunsKept(t)'
    BY <1>3, <1>4, <1>7, <2>1, <2>2 DEF TaskKept, RunsKept, RunKept, Begun
  <2>6. TaskKept(t)'
    BY <2>3, <2>4, <2>5 DEF TaskKept
  <2> QED BY <1>1, <1>2, <1>4, <2>1, <2>6, RowIsLeft
<1> QED BY <1>5, <1>6, <1>7

LEMMA RunIsEnded ==
  ASSUME LaunchInv, KeepInv, job = "running", NEW row \in loop.inspect,
         InspectSuccess(row) \/ InspectFailure(row)
  PROVE  KeepInv'
<1>1. LoopAt("inspect") /\ row.status \in Begun
  BY DEF InspectSuccess, InspectFailure, Begun
<1>2. /\ UNCHANGED <<holder, job, container, queue, alive, launch, runs>>
      /\ \/ Inspected(row, "inspect", NoTask) /\ UNCHANGED status
         \/ /\ Inspected(row, "release", row.task) /\ Becomes(row.task, "completed")
            /\ status[row.task] \in Failable
         \/ /\ Inspected(row, "clean", row.task) /\ Becomes(row.task, "failed")
            /\ status[row.task] \in Failable
  BY DEF InspectSuccess, InspectFailure, Allowed, laneVars
<1>3. CASE Inspected(row, "inspect", NoTask) /\ UNCHANGED status
  BY <1>1, <1>2, <1>3, NothingIsWritten
<1>4. ASSUME NEW pc \in {"release", "clean"}, Inspected(row, pc, row.task),
             Becomes(row.task, IF pc = "clean" THEN "failed" ELSE "completed"),
             status[row.task] \in Failable
      PROVE  KeepInv'
  <2>1. PICK t \in Tasks : t = row.task
    BY <1>1, <1>4, RowIsTakenUp
  <2>2. /\ TaskKept(t) /\ RowKept(row, t)
        /\ loop'.pc = pc /\ loop'.task = t /\ loop'.pending = loop.pending
        /\ \A other \in loop'.inspect : other.task # t
        /\ loop.pc \notin Holding
    BY <1>1, <1>4, <2>1, RowIsTakenUp
  <2>3. /\ status'[t] = (IF pc = "clean" THEN "failed" ELSE "completed")
        /\ \A u \in Tasks : u # t => status'[u] = status[u]
        /\ status[t] \in Begun
    BY <1>1, <1>4, <2>1, <2>2 DEF RowKept, Failable, Begun, TerminalStatuses, Becomes,
      LaunchInv, RowsInv
  <2>4. /\ ~Waits(t)' /\ \A i \in Launches : Live(i)' => launch'[i].task # t
    BY <1>2, <2>2, <2>3 DEF Waits, LoopOn, TaskKept, WaitKept, LaunchesKept, LaunchKept,
      TerminalStatuses, Live, Begun
  <2>5. container'[t] # NoLane => Keeps(t, container[t])'
    BY <1>2, <2>2, <2>3 DEF TaskKept, LaneKept, Keeps, Begun, ActiveStatuses, OpenStatuses
  <2>6. LaneKept(t)'
    BY <2>3 DEF LaneKept, Lasting, ActiveStatuses, OpenStatuses
  <2>7. EndKept(t)'
    BY <2>2, <2>3, <2>4, <2>5 DEF EndKept, LoopOn
  <2>8. WaitKept(t)' /\ LaunchesKept(t)' /\ RowsKept(t)'
    BY <2>2, <2>4 DEF WaitKept, Waits, LoopOn, LaunchesKept, RowsKept
  <2>9. RunsKept(t)'
    BY <1>2, <2>2, <2>3, <2>4 DEF TaskKept, RunsKept, RunKept, Begun, TerminalStatuses
  <2>10. TaskKept(t)'
    BY <2>6, <2>7, <2>8, <2>9 DEF TaskKept
  <2> QED BY <1>1, <1>2, <1>4, <2>1, <2>3, <2>10, RowIsLeft
<1> QED BY <1>2, <1>3, <1>4

LEMMA InspectionKeepsLanes ==
  ASSUME LaunchInv, OnceInv, KeepInv, job = "running", NEW row \in loop.inspect, Inspect(row)
  PROVE  KeepInv'
<1>1. CASE InspectLaunching(row) \/ InspectRunning(row)
  BY <1>1, NothingIsWritten DEF InspectLaunching, InspectRunning, laneVars, rows
<1> QED BY <1>1, RunBegins, LaunchIsRecovered, LaunchIsTakenBack, RunIsConfirmed, RunIsEnded
        DEF Inspect

\* The loop gives back what a task held whose end it has written.
LEMMA LoopGivesBack ==
  ASSUME LaunchInv, KeepInv, job = "running", LoopReleases \/ LoopCleans
  PROVE  KeepInv'
<1>1. loop.pc \in {"release", "clean"} /\ loop.task \in Tasks
  BY DEF LoopReleases, LoopCleans, LoopAt, LaunchInv, LoopInv, Holding
<1>2. PICK t \in Tasks : t = loop.task
  BY <1>1
<1>3. TaskKept(t)
  BY DEF KeepInv
<1>4. /\ status[t] \in {"completed", "failed"}
      /\ \A i \in Launches : Live(i) => launch[i].task # t
      /\ LoopCleans /\ container[t] # NoLane => Keeps(t, container[t])
  BY <1>1, <1>2, <1>3 DEF TaskKept, EndKept, LoopOn, LoopCleans, LoopAt
<1>5. /\ UNCHANGED <<job, status, container, queue, launch, runs>>
      /\ ReleaseLanes(t) \/ ResetLanes(t)
      /\ loop'.pc = "inspect" /\ loop'.inspect = loop.inspect /\ loop'.pending = loop.pending
  BY <1>2 DEF LoopReleases, LoopCleans, CleanUp, Loop, rows, LaunchInv, LoopInv, LoopStates
<1>6. \A l \in alive : l \notin HeldBy(t) /\ (LoopCleans => l # container[t]) => l \in alive'
  BY <1>2 DEF LoopReleases, LoopCleans, CleanUp
<1>7. ASSUME NEW u \in Tasks, u # t PROVE LeftAlone(u)
  <2>1. \A l \in Lanes : holder[l] = u => holder'[l] = u /\ l \notin HeldBy(t)
    BY <1>5, <1>7, GivesBack
  <2>2. LoopCleans /\ container[t] \notin HeldBy(t) => container[t] \notin Lanes
    BY <1>4, NoLaneAssumption DEF Keeps, HeldBy
  <2>3. \A l \in Lanes : holder[l] = u => holder'[l] = u /\ (l \in alive => l \in alive')
    BY <1>6, <2>1, <2>2
  <2> QED BY <1>5, <2>3 DEF LeftAlone, Holding
<1>8. TaskKept(t)'
  <2>1. RunsKept(t)'
    <3> SUFFICES ASSUME NEW r \in runs, r.task = t PROVE RunKept(r, t)'
      BY <1>5 DEF RunsKept
    <3>1. RunKept(r, t)
      BY <1>3 DEF TaskKept, RunsKept
    <3>2. r.step # "clean"
      BY <1>1, <1>2, <1>3, <3>1 DEF RunKept, TaskKept, EndKept, LoopOn
    <3> QED BY <1>4, <1>5, <3>1, <3>2 DEF RunKept, Waits, LoopOn, Live
  <2>2. RowsKept(t)'
    BY <1>3, <1>4, <1>5 DEF TaskKept, RowsKept, RowKept, TerminalStatuses, ActiveStatuses,
      OpenStatuses, Lasting
  <2> QED BY <1>4, <1>5, <2>1, <2>2 DEF TaskKept, LaneKept, WaitKept, EndKept, LaunchesKept,
    LoopOn, TerminalStatuses, ActiveStatuses, OpenStatuses, Lasting, Live
<1> QED BY <1>5, <1>7, <1>8, KeptByTheStep DEF LoopShape

LEMMA SnapshotIsTrue ==
  ASSUME LaunchInv, KeepInv, job = "running", LoopBegins
  PROVE  KeepInv'
<1> DEFINE shot == {[task |-> t, status |-> status[t], lane |-> container[t]] :
                      t \in {u \in Tasks : status[u] \in ActiveStatuses}}
<1>1. /\ UNCHANGED <<holder, job, status, container, queue, alive, launch, runs>>
      /\ loop.pc = "top"
  BY DEF LoopBegins, laneVars, rows, LoopAt
<1>2. /\ loop'.pc = "inspect" /\ loop'.task = NoTask /\ loop'.inspect = shot
      /\ loop'.pending = {t \in Tasks : status[t] = "pending"}
  BY DEF LoopBegins, NoLoop
<1>3. \A row \in shot :
        /\ row.task \in Tasks /\ row.status = status[row.task] /\ row.lane = container[row.task]
        /\ status[row.task] \in ActiveStatuses
        /\ \A other \in shot : other.task = row.task => row = other
  OBVIOUS
<1> HIDE DEF shot
<1> SUFFICES ASSUME NEW t \in Tasks PROVE TaskKept(t)'
  BY <1>1, <1>2 DEF KeepInv, LoopShape
<1>4. TaskKept(t)
  BY DEF KeepInv
<1>5. Waits(t)' => Waits(t) \/ status[t] = "pending"
  BY <1>1, <1>2 DEF Waits, LoopOn
<1>6. LaneKept(t)' /\ WaitKept(t)' /\ EndKept(t)'
  BY <1>1, <1>2, <1>4 DEF TaskKept, LaneKept, WaitKept, EndKept, LoopOn, Keeps
<1>7. LaunchesKept(t)'
  <2> SUFFICES ASSUME NEW i \in Launches, Live(i), launch[i].task = t PROVE LaunchKept(i, t)'
    BY <1>1 DEF LaunchesKept, Live
  <2>1. LaunchKept(i, t)
    BY <1>4 DEF TaskKept, LaunchesKept
  <2> QED BY <1>1, <1>5, <2>1 DEF LaunchKept, Keeps, TerminalStatuses
<1>8. RunsKept(t)'
  <2> SUFFICES ASSUME NEW r \in runs, r.task = t PROVE RunKept(r, t)'
    BY <1>1 DEF RunsKept
  <2>1. RunKept(r, t)
    BY <1>4 DEF TaskKept, RunsKept
  <2> QED BY <1>1, <1>2, <1>5, <2>1 DEF RunKept, Keeps, TerminalStatuses, Begun, LoopOn, Live
<1>9. RowsKept(t)'
  <2> SUFFICES ASSUME NEW row \in shot, row.task = t PROVE RowKept(row, t)'
    BY <1>2 DEF RowsKept
  <2>1. \A r \in runs : r.task = t => status[t] \notin {"launching", "launched"}
    BY <1>4 DEF TaskKept, RunsKept, RunKept, Begun, TerminalStatuses
  <2> QED BY <1>1, <1>2, <1>3, <2>1 DEF RowKept, ActiveStatuses, OpenStatuses, Lasting
<1> QED BY <1>6, <1>7, <1>8, <1>9 DEF TaskKept

\* Nothing is lost between the snapshot, the queue and the loop.
LEMMA QueueKeepsLanes ==
  ASSUME LaunchInv, OnceInv, KeepInv, job = "running",
         Reenqueue \/ BackfillEnds \/ ClaimRefused \/ \E t \in Tasks : Poll(t)
  PROVE  KeepInv'
<1>1. /\ UNCHANGED <<holder, job, status, container, alive, launch, runs>> /\ ~stopping
      /\ loop.pc \notin {"release", "clean", "mark", "reject"}
  BY DEF Reenqueue, BackfillEnds, ClaimRefused, Poll, laneVars, rows, OnceInv, LoopAt
<1>2. loop'.pc \notin {"inspect", "release", "clean", "mark", "reject"}
      /\ loop'.inspect = {} /\ loop'.pending = {}
  <2>1. CASE Reenqueue
    BY <1>1, <2>1 DEF Reenqueue, Loop, LaunchInv, LoopInv, LoopStates
  <2>2. CASE BackfillEnds \/ ClaimRefused
    BY <2>2 DEF BackfillEnds, ClaimRefused, NewLoop, NoLoop
  <2>3. CASE \E t \in Tasks : Poll(t)
    BY <1>1, <2>3 DEF Poll, Loop, LaunchInv, LoopInv, LoopStates, KeepInv, LoopShape, LoopAt,
      NewLoop, NoLoop
  <2> QED BY <2>1, <2>2, <2>3
<1>3. \A t \in Tasks : /\ Waits(t)' => Waits(t)
                       /\ LoopOn(t, {"claim"})' => t \notin queue'
  <2>1. CASE Reenqueue
    BY <1>1, <2>1 DEF Reenqueue, Waits, LoopOn, Loop, LaunchInv, LoopInv, LoopStates
  <2>2. CASE BackfillEnds \/ ClaimRefused
    <3>1. loop'.pc = "top"
      BY <2>2 DEF BackfillEnds, ClaimRefused, NewLoop, NoLoop
    <3>2. queue' \subseteq queue \/ (loop.pc = "claim" /\ queue' \subseteq queue \cup {loop.task})
      BY <2>2 DEF BackfillEnds, ClaimRefused, rows, LoopAt
    <3> QED BY <1>2, <3>1, <3>2 DEF Waits, LoopOn
  <2>3. CASE \E t \in Tasks : Poll(t)
    BY <1>1, <2>3 DEF Poll, Waits, LoopOn, Loop, LaunchInv, LoopInv, LoopStates, NewLoop, NoLoop
  <2> QED BY <2>1, <2>2, <2>3
<1> SUFFICES ASSUME NEW t \in Tasks PROVE TaskKept(t)'
  BY <1>1, <1>2 DEF KeepInv, LoopShape
<1>4. TaskKept(t)
  BY DEF KeepInv
<1>5. LaneKept(t)' /\ EndKept(t)' /\ RowsKept(t)'
  BY <1>1, <1>2, <1>4 DEF TaskKept, LaneKept, EndKept, RowsKept, LoopOn, Keeps
<1>6. WaitKept(t)'
  BY <1>1, <1>2, <1>3, <1>4 DEF TaskKept, WaitKept, Waits, LoopOn
<1>7. LaunchesKept(t)'
  BY <1>1, <1>3, <1>4 DEF TaskKept, LaunchesKept, LaunchKept, Keeps, Live
<1>8. RunsKept(t)'
  BY <1>1, <1>2, <1>3, <1>4 DEF TaskKept, RunsKept, RunKept, Keeps, Live, LoopOn
<1> QED BY <1>5, <1>6, <1>7, <1>8 DEF TaskKept

\* The loop works on one task that it took from the queue.
LEMMA BackfillKeepsLanes ==
  ASSUME LaunchInv, OnceInv, KeepInv, job = "running",
         Claim \/ MarkRefused \/ MarkRejects \/ LoopRejects \/ \E i \in Launches : Mark(i)
  PROVE  KeepInv'
<1>1. /\ loop.pc \in {"claim", "mark", "reject"} /\ loop.task \in Tasks
      /\ loop.pc = "mark" => loop.lane \in Lanes
  BY DEF Claim, MarkRefused, MarkRejects, LoopRejects, Mark, LoopAt, LaunchInv, LoopInv, Holding
<1>2. PICK t \in Tasks : t = loop.task
  BY <1>1
<1>3. TaskKept(t) /\ LoopShape
  BY DEF KeepInv
<1>4. /\ loop.inspect = {} /\ loop.pending = {} /\ Waits(t) /\ t \notin queue
      /\ \A i \in Launches : Live(i) => launch[i].task # t
      /\ \A r \in runs : r.task # t
  BY <1>1, <1>2, <1>3 DEF LoopShape, TaskKept, WaitKept, LaunchesKept, LaunchKept, RunsKept,
    RunKept, Waits, LoopOn
<1>5. UNCHANGED <<job, container, queue, alive, runs>>
  BY DEF Claim, MarkRefused, MarkRejects, LoopRejects, Mark, rows
<1>6. CASE Claim
  <2>1. /\ UNCHANGED <<status, launch>> /\ loop'.pc = "mark" /\ loop'.task = t
        /\ loop'.inspect = {} /\ loop'.pending = {}
        /\ loop'.lane \in IdleLanes /\ holder' = [holder EXCEPT ![loop'.lane] = t]
        /\ loop.pc = "claim"
    BY <1>2, <1>4, <1>6 DEF Claim, rows, ClaimIdle, LoopAt, Loop, LaunchInv, LoopInv, LoopStates
  <2>2. /\ \A l \in Lanes : holder[l] \in Tasks => holder'[l] = holder[l]
        /\ Keeps(t, loop.lane)'
    BY <2>1, TasksAssumption DEF IdleLanes, HeldBy, Keeps, LaunchInv, LanesTypeOK
  <2>3. ASSUME NEW u \in Tasks, u # t PROVE LeftAlone(u)
    BY <1>5, <2>1, <2>2, <2>3 DEF LeftAlone
  <2>4. TaskKept(t)'
    BY <1>2, <1>3, <1>4, <1>5, <2>1, <2>2 DEF TaskKept, LaneKept, WaitKept, EndKept,
      LaunchesKept, RunsKept, RowsKept, LoopOn, Keeps, Live
  <2> QED BY <1>5, <2>1, <2>3, <2>4, KeptByTheStep DEF LoopShape
<1>7. CASE MarkRefused
  <2>1. /\ UNCHANGED <<status, launch>> /\ loop'.pc = "top" /\ loop'.task = NoTask
        /\ loop'.inspect = {} /\ loop'.pending = {}
        /\ ReleaseLanes(t) /\ status[t] # "pending" /\ loop.pc = "mark"
    BY <1>2, <1>7 DEF MarkRefused, rows, LoopAt, NewLoop, NoLoop, Allowed
  <2>2. status[t] \in TerminalStatuses
    BY <1>2, <1>3, <2>1 DEF TaskKept, WaitKept, LoopOn
  <2>3. ASSUME NEW u \in Tasks, u # t PROVE LeftAlone(u)
    <3>1. \A l \in Lanes : holder[l] = u => holder'[l] = u
      BY <2>1, <2>3, GivesBack
    <3> QED BY <1>5, <2>1, <3>1 DEF LeftAlone, Holding
  <2>4. TaskKept(t)'
    BY <1>4, <1>5, <2>1, <2>2, OverIsKept DEF Holding, Live
  <2> QED BY <1>5, <2>1, <2>3, <2>4, KeptByTheStep DEF LoopShape
<1>8. ASSUME NEW i \in Launches, Mark(i) PROVE KeepInv'
  <2>1. /\ UNCHANGED holder /\ loop.pc = "mark" /\ loop'.pc = "backfill" /\ loop'.task = NoTask
        /\ loop'.inspect = {} /\ loop'.pending = {}
        /\ status[t] = "pending" /\ status' = [status EXCEPT ![t] = "launching"]
    BY <1>2, <1>4, <1>8 DEF Mark, laneVars, LoopAt, Loop, LaunchInv, LoopInv, LoopStates, Allowed,
      Becomes
  <2>2. /\ status'[t] = "launching" /\ \A u \in Tasks : u # t => status'[u] = status[u]
    BY <2>1 DEF LaunchInv, RowsInv
  <2>3. /\ \A j \in Launches : j # i => launch'[j] = launch[j]
        /\ launch'[i].task = t /\ launch'[i].step = "bind" /\ launch'[i].lane = loop.lane
    BY <1>2, <1>8 DEF Mark, LaunchInv, LaunchesInv
  <2>4. Keeps(t, loop.lane) /\ container[t] = NoLane
    BY <1>2, <1>3, <2>1 DEF TaskKept, WaitKept, LaneKept, LoopOn
  <2>5. ASSUME NEW u \in Tasks, u # t PROVE LeftAlone(u)
    BY <1>5, <2>1, <2>2, <2>3, <2>5 DEF LeftAlone, Holding
  <2>6. LaunchKept(i, t)'
    BY <1>4, <1>5, <2>1, <2>2, <2>3, <2>4 DEF LaunchKept, Keeps, Waits, LoopOn
  <2>7. LaunchesKept(t)'
    BY <1>4, <2>3, <2>6 DEF LaunchesKept, Live
  <2>8. LaneKept(t)' /\ WaitKept(t)' /\ EndKept(t)' /\ RunsKept(t)' /\ RowsKept(t)'
    BY <1>4, <1>5, <2>1, <2>2, <2>4 DEF LaneKept, WaitKept, EndKept, RunsKept, RowsKept, LoopOn,
      Lasting
  <2>9. TaskKept(t)'
    BY <2>7, <2>8 DEF TaskKept
  <2> QED BY <1>5, <2>1, <2>5, <2>9, KeptByTheStep DEF LoopShape
<1>9. CASE MarkRejects
  <2>1. /\ UNCHANGED <<holder, launch>> /\ loop.pc = "mark" /\ loop'.pc = "reject"
        /\ loop'.task = t /\ loop'.inspect = {} /\ loop'.pending = {}
        /\ status[t] = "pending" /\ status' = [status EXCEPT ![t] = "launching"]
    BY <1>2, <1>4, <1>9 DEF MarkRejects, laneVars, LoopAt, Loop, LaunchInv, LoopInv, LoopStates,
      Allowed, Becomes
  <2>2. /\ status'[t] = "launching" /\ \A u \in Tasks : u # t => status'[u] = status[u]
    BY <2>1 DEF LaunchInv, RowsInv
  <2>3. ASSUME NEW u \in Tasks, u # t PROVE LeftAlone(u)
    BY <1>5, <2>1, <2>2, <2>3 DEF LeftAlone
  <2>4. container[t] = NoLane
    BY <1>3, <2>1 DEF TaskKept, LaneKept
  <2>5. TaskKept(t)'
    BY <1>4, <1>5, <2>1, <2>2, <2>4 DEF TaskKept, LaneKept, WaitKept, EndKept, LaunchesKept,
      RunsKept, RowsKept, LoopOn, Lasting, Live
  <2> QED BY <1>5, <2>1, <2>3, <2>5, KeptByTheStep DEF LoopShape
<1>10. CASE LoopRejects
  <2>1. /\ UNCHANGED <<holder, launch>> /\ loop.pc = "reject"
        /\ loop'.inspect = {} /\ loop'.pending = {}
        /\ \/ /\ loop'.pc = "clean" /\ loop'.task = t /\ status[t] \in Failable
              /\ status' = [status EXCEPT ![t] = "failed"]
           \/ loop'.pc = "backfill" /\ UNCHANGED status /\ status[t] \notin Failable
    BY <1>2, <1>4, <1>10 DEF LoopRejects, laneVars, LoopAt, Loop, LaunchInv, LoopInv, LoopStates,
      Allowed, Becomes
  <2>2. /\ status'[t] \in TerminalStatuses /\ \A u \in Tasks : u # t => status'[u] = status[u]
        /\ loop'.pc = "clean" => status'[t] = "failed" /\ status[t] \in ActiveStatuses
    BY <1>2, <1>3, <2>1 DEF LaunchInv, RowsInv, TaskKept, WaitKept, LoopOn, Failable,
      TerminalStatuses, ActiveStatuses, OpenStatuses
  <2>3. ASSUME NEW u \in Tasks, u # t PROVE LeftAlone(u)
    BY <1>5, <2>1, <2>2, <2>3 DEF LeftAlone, Holding
  <2>4. loop'.pc = "clean" => (container[t] # NoLane => Keeps(t, container[t])')
    BY <1>3, <1>5, <2>1, <2>2 DEF TaskKept, LaneKept, Keeps
  <2>5. TaskKept(t)'
    BY <1>4, <1>5, <2>1, <2>2, <2>4 DEF TaskKept, LaneKept, WaitKept, EndKept, LaunchesKept,
      RunsKept, RowsKept, LoopOn, Lasting, Live, TerminalStatuses, ActiveStatuses, OpenStatuses
  <2> QED BY <1>5, <2>1, <2>3, <2>5, KeptByTheStep DEF LoopShape
<1> QED BY <1>6, <1>7, <1>8, <1>9, <1>10

LEMMA LoopKeepsLanes ==
  ASSUME LaunchInv, OnceInv, KeepInv, job = "running", LoopNext
  PROVE  KeepInv'
<1>1. ~LoopEnds
  BY DEF LoopEnds, OnceInv
<1> QED BY <1>1, InspectionKeepsLanes, LoopGivesBack, SnapshotIsTrue, QueueKeepsLanes,
          BackfillKeepsLanes DEF LoopNext

-----------------------------------------------------------------------------
(* The calls, restarts, and canceled jobs. *)

LEMMA CallsKeepLanes ==
  ASSUME LaunchInv, OnceInv, KeepInv, job = "running", "pause" \notin Disturbances,
         \/ PauseJob \/ ResumeJob \/ CancelJob \/ CancelSweeps \/ Restart
         \/ \E t \in Tasks : StopTask(t)
  PROVE  KeepInv'
<1>1. ~PauseJob /\ ~ResumeJob /\ ~CancelSweeps
  BY DEF PauseJob, ResumeJob, CancelSweeps
<1>2. CASE CancelJob
  BY <1>2 DEF CancelJob, KeepInv, LaunchInv, RowsInv, TerminalStatuses
<1>3. CASE Restart
  <2>1. /\ UNCHANGED <<holder, job, status, container, queue, alive>> /\ runs' = {}
        /\ loop'.pc = "top" /\ loop'.inspect = {} /\ loop'.pending = {}
        /\ launch' = [i \in Launches |-> NoLaunch]
    BY <1>3 DEF Restart, NewLoop, NoLoop, laneVars, rows
  <2>2. ASSUME NEW u \in Tasks PROVE LeftAlone(u)
    BY <2>1 DEF LeftAlone, Live, Holding
  <2>3. LoopShape'
    BY <2>1 DEF LoopShape
  <2> QED BY <2>1, <2>2, <2>3, LeftAloneIsKept DEF KeepInv
<1>4. ASSUME NEW t \in Tasks, StopTask(t) PROVE KeepInv'
  <2>1. /\ UNCHANGED <<holder, job, container, loop, launch, runs>>
        /\ status[t] \in OpenStatuses /\ status' = [status EXCEPT ![t] = "canceled"]
        /\ queue' = queue \ {t} /\ alive' = alive \ {container[t]}
    BY <1>4 DEF StopTask, Becomes, laneVars
  <2>2. status'[t] = "canceled" /\ \A u \in Tasks : u # t => status'[u] = status[u]
    BY <2>1 DEF LaunchInv, RowsInv
  <2>3. TaskKept(t) /\ LoopShape
    BY DEF KeepInv
  <2>4. container[t] = NoLane \/ Keeps(t, container[t])
    BY <2>1, <2>3 DEF TaskKept, LaneKept, ActiveStatuses
  <2>5. ASSUME NEW u \in Tasks, u # t PROVE LeftAlone(u)
    BY <2>1, <2>2, <2>4, <2>5, NoLaneAssumption DEF LeftAlone, Keeps
  <2>6. Waits(t)' => Waits(t)
    BY <2>1 DEF Waits, LoopOn
  <2>7. LaneKept(t)' /\ WaitKept(t)' /\ EndKept(t)'
    BY <2>1, <2>2, <2>3 DEF TaskKept, LaneKept, WaitKept, EndKept, LoopOn, Lasting, OpenStatuses,
      ActiveStatuses, TerminalStatuses
  <2>8. LaunchesKept(t)'
    BY <2>1, <2>2, <2>3, <2>6 DEF TaskKept, LaunchesKept, LaunchKept, Keeps, Live, TerminalStatuses
  <2>9. RunsKept(t)'
    BY <2>1, <2>2, <2>3, <2>6 DEF TaskKept, RunsKept, RunKept, Live, TerminalStatuses, OpenStatuses
  <2>10. RowsKept(t)'
    BY <2>1, <2>2, <2>3 DEF TaskKept, RowsKept, RowKept, Lasting, ActiveStatuses, OpenStatuses,
      TerminalStatuses
  <2>11. TaskKept(t)'
    BY <2>7, <2>8, <2>9, <2>10 DEF TaskKept
  <2> QED BY <2>1, <2>3, <2>5, <2>11, KeptByTheStep DEF LoopShape
<1> QED BY <1>1, <1>2, <1>3, <1>4

\* No step opens a task of a canceled job.
LEMMA CanceledStays ==
  ASSUME LaunchInv, job = "canceled", [Next]_vars
  PROVE  job' = "canceled" /\ UNCHANGED status
<1>1. \A t, from, to : ~Allowed(t, from, to)
  BY DEF Allowed
<1>2. CASE UNCHANGED vars
  BY <1>2 DEF vars, rows
<1>3. CASE LoopNext
  BY <1>1, <1>3 DEF LoopNext, Inspect, InspectLaunched, InspectLaunching, RecoverLaunched,
    RecoverPending, InspectStarting, InspectRunning, InspectSuccess, InspectFailure, LoopBegins,
    LoopEnds, LoopReleases, LoopCleans, Reenqueue, BackfillEnds, Claim, ClaimRefused,
    MarkRefused, MarkRejects, LoopRejects, Poll, Mark, rows
<1>4. ASSUME NEW i \in Launches, LaunchNext(i) PROVE UNCHANGED <<job, status>>
  BY <1>1, <1>4 DEF LaunchNext, LaunchBind, LaunchStart, LaunchReads, LaunchAnswers,
    LaunchDefers, LaunchCleans, LaunchFails, LaunchGivesUp, LaunchRequeues, LaunchEnqueues, rows
<1>5. ASSUME NEW r \in runs, RunNext(r) PROVE UNCHANGED <<job, status>>
  BY <1>1, <1>5 DEF RunNext, RunReports, RunBinds, RunMoves, RunFails, RunCleans, rows
<1>6. CASE \/ PauseJob \/ ResumeJob \/ CancelJob \/ CancelSweeps \/ Restart
           \/ \E t \in Tasks : StopTask(t)
  BY <1>6 DEF PauseJob, ResumeJob, CancelJob, CancelSweeps, Restart, StopTask, rows
<1> QED BY <1>2, <1>3, <1>4, <1>5, <1>6 DEF Next

\* A task whose container was started holds the lane it runs in until its end
\* is recorded, for any tasks, lanes and launches: cancellations, stopped
\* tasks and restarts take no lane from under a task, while jobs are not
\* paused, launches not tried again and snapshots not outlived by a launch;
\* with any of the three a task can come to run in a lane it does not hold.
THEOREM TasksKeepTheirLanes ==
  ASSUME "pause" \notin Disturbances, "transient" \notin Disturbances,
         "slow inspection" \notin Disturbances
  PROVE  LaunchSpec => []RunsInItsLane
<1>1. LaunchInit => KeepInv
  <2> SUFFICES ASSUME LaunchInit PROVE KeepInv
    OBVIOUS
  <2>1. /\ job = "running" /\ \A t \in Tasks : status[t] = "pending" /\ container[t] = NoLane
        /\ loop.pc = "top" /\ loop.inspect = {} /\ loop.pending = {}
        /\ runs = {} /\ \A i \in Launches : ~Live(i)
    BY DEF LaunchInit, NewLoop, NoLoop, Live
  <2> QED BY <2>1 DEF KeepInv, LoopShape, TaskKept, LaneKept, WaitKept, EndKept, LaunchesKept,
    RunsKept, RowsKept, LoopOn, Lasting, ActiveStatuses
<1>2. LaunchInv /\ OnceInv /\ KeepInv /\ [Next]_vars => KeepInv'
  <2> SUFFICES ASSUME LaunchInv, OnceInv, KeepInv, [Next]_vars PROVE KeepInv'
    OBVIOUS
  <2>1. CASE job = "canceled"
    BY <2>1, CanceledStays DEF KeepInv
  <2>2. CASE job = "running" /\ UNCHANGED vars
    <3>1. ASSUME NEW u \in Tasks PROVE LeftAlone(u)
      BY <2>2 DEF vars, rows, laneVars, LeftAlone
    <3> QED BY <2>2, <3>1, LeftAloneIsKept DEF KeepInv, LoopShape, vars, rows
  <2>3. CASE job = "running" /\ Next
    BY <2>3, LaunchKeepsLanes, RunKeepsLanes, LoopKeepsLanes, CallsKeepLanes DEF Next
  <2> QED BY <2>1, <2>2, <2>3 DEF OnceInv, LaunchInv, RowsInv
<1>3. LaunchInv /\ OnceInv /\ KeepInv => RunsInItsLane
  <2> SUFFICES ASSUME LaunchInv, OnceInv, KeepInv, NEW t \in Tasks, status[t] \in Lasting
               PROVE  container[t] \in HeldBy(t)
    BY DEF RunsInItsLane, Lasting
  <2>1. job = "running"
    BY DEF OnceInv, KeepInv, LaunchInv, RowsInv, TerminalStatuses, Lasting
  <2> QED BY <2>1 DEF KeepInv, TaskKept, LaneKept, Keeps, HeldBy, Lasting, ActiveStatuses,
            OpenStatuses
<1> QED BY <1>1, <1>2, <1>3, LaunchInvariance, OnceInvariance, PTL DEF LaunchSpec

-----------------------------------------------------------------------------
(* A canceled job. *)

\* A launch that has bound its lane finds it in the row until it ends.
BoundInv ==
  \A i \in Launches : Live(i) /\ launch[i].step # "bind" =>
    container[launch[i].task] = launch[i].lane

\* After the sweep a lane is held only by the loop that is about to be
\* refused, and a container runs only for a launch that will remove it.
SweptInv ==
  swept =>
    /\ job = "canceled"
    /\ \A l \in Lanes : holder[l] # NoTask => LoopOn(holder[l], {"mark"})
    /\ \A l \in alive : \E i \in Launches :
         Live(i) /\ launch[i].step \notin {"bind", "start"} /\ launch[i].lane = l

LEMMA BoundStays ==
  ASSUME LaunchInv, OnceInv, BoundInv, "pause" \notin Disturbances,
         "transient" \notin Disturbances, [Next]_vars
  PROVE  BoundInv'
<1>1. \A i \in Launches : Live(i) => launch[i].task \in Tasks
  BY DEF LaunchInv, LaunchesInv, LaunchStates, Live
<1>2. ASSUME NEW i \in Launches, LaunchNext(i) PROVE BoundInv'
  <2>1. Live(i) /\ launch[i].step \notin {"defer", "requeue", "enqueue"}
    BY <1>2, LaunchFields DEF LaunchInv, LaunchNext, LaunchBind, LaunchStart, LaunchReads,
      LaunchAnswers, LaunchDefers, LaunchCleans, LaunchFails, LaunchGivesUp, LaunchRequeues,
      LaunchEnqueues, LaunchAt, Live, OnceInv
  <2>2. CASE LaunchBind(i)
    <3>1. /\ container' = [container EXCEPT ![launch[i].task] = launch[i].lane] /\ Step(i, "start")
      BY <2>2 DEF LaunchBind
    <3>2. /\ \A j \in Launches : j # i => launch'[j] = launch[j]
          /\ launch'[i].task = launch[i].task /\ launch'[i].lane = launch[i].lane
          /\ \A j \in Launches : Live(j)' <=> Live(j)
      BY <2>1, <3>1, StepOfLaunch DEF Steps
    <3>3. \A j \in Launches : Live(j) /\ j # i => launch[j].task # launch[i].task
      BY <2>1 DEF OnceInv, Live
    <3> QED BY <1>1, <2>1, <3>1, <3>2, <3>3 DEF BoundInv, LaunchInv, RowsInv
  <2>3. CASE Finish(i) /\ UNCHANGED container
    BY <2>3, EndOfLaunch DEF BoundInv
  <2>4. CASE UNCHANGED container /\ launch[i].step # "bind" /\ \E step \in Steps : Step(i, step)
    <3>1. PICK step \in Steps : Step(i, step)
      BY <2>4
    <3> QED BY <2>1, <2>4, <3>1, StepOfLaunch DEF BoundInv
  <2>5. \/ LaunchBind(i)
        \/ /\ UNCHANGED container
           /\ \/ Finish(i)
              \/ launch[i].step # "bind" /\ \E step \in Steps : Step(i, step)
    BY <1>2, <2>1 DEF LaunchNext, LaunchStart, LaunchReads, LaunchAnswers,
      LaunchDefers, LaunchCleans, LaunchFails, LaunchGivesUp, LaunchRequeues, LaunchEnqueues,
      LaunchAt, Steps, rows
  <2> QED BY <2>2, <2>3, <2>4, <2>5
<1>3. ASSUME NEW row \in loop.inspect, RecoverPending(row) PROVE BoundInv'
  <2>1. /\ UNCHANGED launch /\ row.task \notin launching
        /\ \/ UNCHANGED container
           \/ job = "running" /\ container' = [container EXCEPT ![row.task] = NoLane]
    BY <1>3 DEF RecoverPending, Requeued, Allowed
  <2>2. job = "running" => \A i \in Launches : Live(i) => launch[i].task # row.task
    BY <2>1 DEF OnceInv, Remembered, Live
  <2> QED BY <1>1, <2>1, <2>2 DEF BoundInv, Live, LaunchInv, RowsInv
<1>4. ASSUME NEW i \in Launches, Mark(i) PROVE BoundInv'
  <2>1. /\ \A j \in Launches : j # i => launch'[j] = launch[j]
        /\ launch'[i].step = "bind" /\ UNCHANGED container
    BY <1>4 DEF Mark, LaunchInv, LaunchesInv
  <2> QED BY <2>1 DEF BoundInv, Live
<1>5. CASE LoopEnds
  <2>1. \A i \in Launches : Live(i)' => /\ Live(i) /\ launch'[i].step = launch[i].step
          /\ launch'[i].task = launch[i].task /\ launch'[i].lane = launch[i].lane
    <3> SUFFICES ASSUME NEW i \in Launches
        PROVE Live(i)' => /\ Live(i) /\ launch'[i].step = launch[i].step
                          /\ launch'[i].task = launch[i].task /\ launch'[i].lane = launch[i].lane
      OBVIOUS
    <3>1. launch'[i] = [launch[i] EXCEPT !.current = FALSE]
      BY <1>5 DEF LoopEnds
    <3>2. CASE launch[i] = NoLaunch
      <4>1. NoLaunch.current = FALSE
        BY DEF NoLaunch
      <4>2. NoLaunch = [NoLaunch EXCEPT !.current = NoLaunch.current]
        BY DEF NoLaunch
      <4> QED BY <3>1, <3>2, <4>1, <4>2 DEF Live
    <3>3. CASE launch[i] \in LaunchStates /\ Live(i)
      BY <3>1, <3>3 DEF LaunchStates
    <3> QED BY <3>2, <3>3 DEF LaunchInv, LaunchesInv, Live
  <2>2. UNCHANGED container
    BY <1>5 DEF LoopEnds, rows
  <2> QED BY <2>1, <2>2 DEF BoundInv
<1>6. CASE Restart
  BY <1>6 DEF Restart, BoundInv, Live
<1>7. CASE UNCHANGED <<launch, container>>
  BY <1>7 DEF BoundInv, Live
<1>8. CASE LoopNext
  <2>1. \/ LoopEnds \/ UNCHANGED <<launch, container>> \/ (\E i \in Launches : Mark(i))
        \/ (\E row \in loop.inspect : RecoverPending(row))
    BY <1>8 DEF LoopNext, Inspect, InspectLaunched, InspectLaunching, RecoverLaunched,
      InspectStarting, InspectRunning, InspectSuccess, InspectFailure, LoopBegins,
      LoopReleases, LoopCleans, Reenqueue, BackfillEnds, Claim, ClaimRefused,
      MarkRefused, MarkRejects, LoopRejects, Poll, rows
  <2> QED BY <1>3, <1>4, <1>5, <1>7, <2>1
<1>9. CASE \/ PauseJob \/ ResumeJob \/ CancelJob \/ CancelSweeps \/ \E t \in Tasks : StopTask(t)
           \/ \E r \in runs : RunNext(r)
  BY <1>7, <1>9 DEF PauseJob, ResumeJob, CancelJob, CancelSweeps, StopTask, RunNext, RunReports,
    RunBinds, RunMoves, RunFails, RunCleans, rows
<1> QED BY <1>2, <1>6, <1>7, <1>8, <1>9 DEF Next, vars, rows

\* Lanes and containers that a step gives up stay given up.
LEMMA SweptShrinks ==
  ASSUME LaunchInv, SweptInv, swept, swept', UNCHANGED job,
         \A l \in Lanes : holder'[l] # NoTask =>
           holder'[l] = holder[l] /\ loop'.pc = loop.pc /\ loop'.task = loop.task,
         \A l \in alive' : l \in alive /\ \A i \in Launches :
           Live(i) /\ launch[i].step \notin {"bind", "start"} /\ launch[i].lane = l =>
             Live(i)' /\ launch'[i].step \notin {"bind", "start"} /\ launch'[i].lane = l
  PROVE  SweptInv'
<1>1. \A l \in Lanes : holder'[l] # NoTask => loop'.pc = "mark" /\ loop'.task = holder'[l]
  BY DEF SweptInv, LoopOn
<1> QED BY <1>1 DEF SweptInv, LoopOn

LEMMA SweptStays ==
  ASSUME LaunchInv, OnceInv, BoundInv, SweptInv, "transient" \notin Disturbances, [Next]_vars
  PROVE  SweptInv'
<1>1. CASE CancelSweeps
  BY <1>1 DEF CancelSweeps, ResetAllLanes, SweptInv
<1>2. CASE Restart
  BY <1>2 DEF Restart, SweptInv
<1>3. CASE ~swept /\ ~CancelSweeps
  <2>1. UNCHANGED swept \/ Restart
    BY <1>3 DEF Next, LoopNext, Inspect, InspectLaunched, InspectLaunching, RecoverLaunched,
      RecoverPending, InspectStarting, InspectRunning, InspectSuccess, InspectFailure, LoopBegins,
      LoopEnds, LoopReleases, LoopCleans, Reenqueue, BackfillEnds, Claim, ClaimRefused,
      MarkRefused, MarkRejects, LoopRejects, Poll, Mark, LaunchNext, LaunchBind, LaunchStart,
      LaunchReads, LaunchAnswers, LaunchDefers, LaunchCleans, LaunchFails, LaunchGivesUp,
      LaunchRequeues, LaunchEnqueues, RunNext, RunReports, RunBinds, RunMoves, RunFails, RunCleans,
      PauseJob, ResumeJob, CancelJob, StopTask, counters, vars
  <2> QED BY <1>2, <1>3, <2>1 DEF SweptInv
<1>4. CASE swept /\ ~CancelSweeps /\ ~Restart
  <2>1. job = "canceled" /\ \A t, from, to : ~Allowed(t, from, to)
    BY <1>4 DEF SweptInv, Allowed
  <2>2. CASE UNCHANGED vars
    BY <1>4, <2>2, SweptShrinks DEF vars, rows, laneVars, counters, Live
  <2>3. ASSUME NEW i \in Launches, LaunchNext(i) PROVE SweptInv'
    <3>1. /\ Live(i) /\ launch[i].step \notin {"defer", "requeue", "enqueue"}
          /\ UNCHANGED <<job, swept, loop>>
      BY <2>3, LaunchFields DEF LaunchInv, LaunchNext, LaunchBind, LaunchStart, LaunchReads,
        LaunchAnswers, LaunchDefers, LaunchCleans, LaunchFails, LaunchGivesUp, LaunchRequeues,
        LaunchEnqueues, LaunchAt, Live, OnceInv, rows, counters
    <3>2. CASE LaunchCleans(i)
      <4>1. /\ Finish(i) /\ ResetLanes(launch[i].task)
            /\ alive' \subseteq alive \ {container[launch[i].task]}
            /\ launch[i].step = "clean"
        BY <3>2 DEF LaunchCleans, CleanUp, LaunchAt
      <4>2. \A l \in alive' : l \in alive /\ l # launch[i].lane
        BY <3>1, <4>1 DEF BoundInv
      <4>3. \A j \in Launches :
              Live(j) /\ launch[j].lane # launch[i].lane => Live(j)' /\ launch'[j] = launch[j]
        BY <4>1, EndOfLaunch
      <4>4. \A l \in Lanes : holder'[l] # NoTask => holder'[l] = holder[l]
        BY <4>1 DEF ResetLanes
      <4> QED BY <1>4, <3>1, <4>2, <4>3, <4>4, SweptShrinks
    <3>3. CASE ~LaunchCleans(i)
      <4> DEFINE Steps1(step) ==
            /\ Step(i, step)
            /\ step = "start" => launch[i].step = "bind"
            /\ \/ UNCHANGED alive
               \/ step = "started" /\ alive' = alive \cup {launch[i].lane}
      <4>1. UNCHANGED holder /\ \E step \in Steps \ {"bind"} : Steps1(step)
        <5>1. CASE LaunchBind(i)
          BY <5>1 DEF LaunchBind, LaunchAt, laneVars, Steps
        <5>2. CASE LaunchStart(i)
          BY <5>2 DEF LaunchStart, laneVars, Steps
        <5>3. CASE LaunchReads(i)
          BY <5>3 DEF LaunchReads, laneVars, Steps
        <5>4. CASE LaunchAnswers(i) \/ LaunchFails(i)
          BY <2>1, <5>4 DEF LaunchAnswers, LaunchFails, laneVars, Steps
        <5>5. CASE LaunchGivesUp(i)
          BY <5>5 DEF LaunchGivesUp
        <5> QED BY <2>3, <3>1, <3>3, <5>1, <5>2, <5>3, <5>4, <5>5 DEF LaunchNext, LaunchDefers,
              LaunchRequeues, LaunchEnqueues, LaunchAt
      <4>2. PICK step \in Steps \ {"bind"} :
                 /\ Step(i, step)
                 /\ step = "start" => launch[i].step = "bind"
                 /\ \/ UNCHANGED alive
                    \/ step = "started" /\ alive' = alive \cup {launch[i].lane}
        BY <4>1
      <4>3. /\ \A j \in Launches : j # i => launch'[j] = launch[j]
            /\ launch'[i].step = step /\ launch'[i].lane = launch[i].lane
            /\ \A j \in Launches : Live(j)' <=> Live(j)
        BY <3>1, <4>2, StepOfLaunch
      <4>4. \A l \in Lanes : holder'[l] # NoTask => LoopOn(holder[l], {"mark"})
        BY <1>4, <4>1 DEF SweptInv
      <4>5. \A l \in alive : \E j \in Launches :
         Live(j)' /\ launch'[j].step \notin {"bind", "start"} /\ launch'[j].lane = l
        BY <1>4, <4>2, <4>3 DEF SweptInv
      <4>6. \A l \in alive' : \E j \in Launches :
         Live(j)' /\ launch'[j].step \notin {"bind", "start"} /\ launch'[j].lane = l
        BY <3>1, <4>2, <4>3, <4>5
      <4> QED BY <2>1, <3>1, <4>1, <4>4, <4>6 DEF SweptInv, LoopOn
    <3> QED BY <3>2, <3>3
  <2>4. ASSUME NEW r \in runs, RunNext(r) PROVE SweptInv'
    BY <1>4, <2>4, SweptShrinks DEF RunNext, RunReports, RunBinds, RunMoves, RunFails, RunCleans,
      CleanUp, ResetLanes, BindLane, laneVars, rows, counters, Live
  <2>5. CASE LoopNext
    <3>1. UNCHANGED <<job, swept>> /\ alive' \subseteq alive
      BY <2>5 DEF LoopNext, Inspect, InspectLaunched, InspectLaunching, RecoverLaunched,
        RecoverPending, InspectStarting, InspectRunning, InspectSuccess, InspectFailure, LoopBegins,
        LoopEnds, LoopReleases, LoopCleans, Reenqueue, BackfillEnds, Claim, ClaimRefused,
        MarkRefused, MarkRejects, LoopRejects, Poll, Mark, rows, counters, CleanUp
    <3>2. \A i \in Launches : Live(i) => /\ Live(i)' /\ launch'[i].step = launch[i].step
                                         /\ launch'[i].lane = launch[i].lane
      <4>1. CASE LoopEnds
        <5>1. ASSUME NEW i \in Launches, Live(i)
              PROVE  /\ launch'[i].step = launch[i].step /\ launch'[i].lane = launch[i].lane
                     /\ launch[i].step # "none"
          BY <4>1, <5>1 DEF LoopEnds, LaunchInv, LaunchesInv, LaunchStates, Live
        <5> QED BY <5>1, Resting DEF Live
      <4>2. CASE ~LoopEnds
        <5>1. UNCHANGED launch
          BY <2>1, <2>5, <4>2 DEF LoopNext, Inspect, InspectLaunched, InspectLaunching,
            RecoverLaunched, RecoverPending, InspectStarting, InspectRunning, InspectSuccess,
            InspectFailure, LoopBegins, LoopReleases, LoopCleans, Reenqueue, BackfillEnds, Claim,
            ClaimRefused, MarkRefused, MarkRejects, LoopRejects, Poll, Mark
        <5> QED BY <5>1 DEF Live
      <4> QED BY <4>1, <4>2
    <3>3. \A l \in Lanes : holder'[l] # NoTask => loop'.pc = "mark" /\ loop'.task = holder'[l]
      <4>1. CASE Claim
        <5>1. /\ loop.pc = "claim" /\ loop'.pc = "mark" /\ loop'.task = loop.task
              /\ \A l \in Lanes : holder'[l] \in {holder[l], loop.task}
          BY <4>1 DEF Claim, ClaimIdle, LaunchInv, LanesTypeOK, LoopInv, LoopStates, Loop, LoopAt
        <5> QED BY <1>4, <5>1 DEF SweptInv, LoopOn
      <4>2. CASE ~Claim
        <5>1. \A l \in Lanes : holder'[l] \in {holder[l], NoTask}
          BY <2>1, <2>5, <4>2 DEF LoopNext, Inspect, InspectLaunched, InspectLaunching,
            RecoverLaunched, RecoverPending, InspectStarting, InspectRunning, InspectSuccess,
            InspectFailure, LoopBegins, LoopEnds, LoopReleases, LoopCleans, Reenqueue, BackfillEnds,
            ClaimRefused, MarkRefused, MarkRejects, LoopRejects, Poll, Mark, CleanUp,
            ReleaseLanes, ResetLanes, BindLane, laneVars
        <5>2. loop.pc # "mark" \/ MarkRefused
          BY <2>1, <2>5, <4>2 DEF LoopNext, Inspect, InspectLaunched, InspectLaunching,
            RecoverLaunched, RecoverPending, InspectStarting, InspectRunning, InspectSuccess,
            InspectFailure, LoopBegins, LoopEnds, LoopReleases, LoopCleans, Reenqueue, BackfillEnds,
            ClaimRefused, MarkRejects, LoopRejects, Poll, Mark, LoopAt
        <5>3. \A l \in Lanes : holder'[l] = NoTask
          <6>1. CASE loop.pc # "mark"
            BY <1>4, <5>1, <6>1 DEF SweptInv, LoopOn
          <6>2. CASE MarkRefused
            BY <1>4, <6>2 DEF SweptInv, LoopOn, MarkRefused, ReleaseLanes
          <6> QED BY <5>2, <6>1, <6>2
        <5> QED BY <5>3
      <4> QED BY <4>1, <4>2
    <3>4. \A l \in alive' : \E i \in Launches :
         Live(i)' /\ launch'[i].step \notin {"bind", "start"} /\ launch'[i].lane = l
      BY <1>4, <3>1, <3>2 DEF SweptInv
    <3> QED BY <2>1, <3>1, <3>3, <3>4 DEF SweptInv, LoopOn
  <2>6. CASE PauseJob \/ ResumeJob \/ CancelJob \/ \E t \in Tasks : StopTask(t)
    BY <2>1, <2>6 DEF PauseJob, ResumeJob, CancelJob, StopTask
  <2> QED BY <1>4, <2>2, <2>3, <2>4, <2>5, <2>6 DEF Next
<1> QED BY <1>1, <1>2, <1>3, <1>4

\* A canceled job leaves no container and no lane behind once it was swept
\* and its closures have ended, whatever they were doing when it was canceled,
\* however slow they and the loop are, and also when tasks are stopped and the
\* server is restarted, while jobs are not paused and launches not tried again.
THEOREM CancellationLeavesNothing ==
  ASSUME "pause" \notin Disturbances, "transient" \notin Disturbances
  PROVE  LaunchSpec => []CanceledLeavesNothing
<1>1. LaunchInit => BoundInv /\ SweptInv
  BY DEF LaunchInit, BoundInv, SweptInv, Live
<1>2. SweptInv => CanceledLeavesNothing
  <2> SUFFICES ASSUME SweptInv, swept, InFlight = {}, LoopAt("none")
               PROVE  alive = {} /\ IdleLanes = Lanes
    BY DEF CanceledLeavesNothing
  <2>1. alive = {}
    BY DEF SweptInv, InFlight, Live
  <2>2. \A l \in Lanes : holder[l] = NoTask
    BY DEF SweptInv, LoopOn, LoopAt
  <2> QED BY <2>1, <2>2 DEF IdleLanes, HeldBy
<1>3. LaunchInv /\ OnceInv /\ BoundInv /\ SweptInv /\ [Next]_vars => BoundInv' /\ SweptInv'
  BY BoundStays, SweptStays
<1> QED BY <1>1, <1>2, <1>3, LaunchInvariance, OnceInvariance, PTL DEF LaunchSpec

-----------------------------------------------------------------------------
(* No lane is lost. *)

\* Who will give back what the task holds.
Owes(t) ==
  \/ status[t] \in ActiveStatuses
  \/ loop.pc \in {"release", "clean", "mark"} /\ loop.task = t
  \/ \E i \in Launches : launch[i].step # "none" /\ launch[i].task = t
  \/ \E r \in runs : r.task = t /\ r.step = "clean"

\* Every lane that is held is owed by someone, or is about to be swept.
LostInv ==
  /\ swept => job = "canceled"
  /\ \A i \in Launches : launch[i].step \notin {"requeue", "enqueue"}
  /\ \A l \in Lanes, t \in Tasks : holder[l] = t =>
       Owes(t) \/ (job = "canceled" /\ ~swept)

\* What holds a lane stays owed, ...
LEMMA LostKept ==
  ASSUME LaunchInv, LostInv, UNCHANGED <<job, swept>>,
         \A i \in Launches : launch'[i].step \notin {"requeue", "enqueue"},
         \A l \in Lanes, t \in Tasks : holder'[l] = t => holder[l] = t \/ Owes(t)',
         \A t \in Tasks : Owes(t) => Owes(t)'
  PROVE  LostInv'
BY TasksAssumption DEF LostInv, LaunchInv, LanesTypeOK

\* ... unless the step gives the lane back.
LEMMA LostGiven ==
  ASSUME LaunchInv, LostInv, UNCHANGED <<job, swept>>,
         \A i \in Launches : launch'[i].step \notin {"requeue", "enqueue"},
         NEW u \in Tasks,
         \A l \in Lanes : holder'[l] = IF holder[l] = u THEN NoTask ELSE holder[l],
         \A t \in Tasks \ {u} : Owes(t) => Owes(t)'
  PROVE  LostInv'
BY TasksAssumption DEF LostInv, LaunchInv, LanesTypeOK

LEMMA LostClosure ==
  ASSUME LaunchInv, LostInv, "transient" \notin Disturbances, NEW i \in Launches, LaunchNext(i)
  PROVE  LostInv'
<1> DEFINE t == launch[i].task
<1>1. /\ launch[i] # NoLaunch /\ launch[i] \in LaunchStates /\ t \in Tasks
      /\ UNCHANGED <<job, swept, loop, runs>>
  BY LaunchFields DEF LaunchInv, LaunchNext, LaunchBind, LaunchStart, LaunchReads, LaunchAnswers,
    LaunchDefers, LaunchCleans, LaunchFails, LaunchGivesUp, LaunchRequeues, LaunchEnqueues,
    LaunchAt, rows, counters
<1>2. \A u \in Tasks : u # t => status'[u] = status[u]
  BY <1>1 DEF LaunchInv, RowsInv, LaunchNext, LaunchBind, LaunchStart, LaunchReads, LaunchAnswers,
    LaunchDefers, LaunchCleans, LaunchFails, LaunchGivesUp, LaunchRequeues, LaunchEnqueues,
    LaunchAt, rows, Becomes, Requeued
<1>3. CASE LaunchCleans(i) 
  <2>1. /\ \A j \in Launches : j # i => launch'[j] = launch[j]
        /\ launch'[i].step = "none"
    BY <1>3, Resting DEF LaunchCleans, Finish, LaunchInv, LaunchesInv
  <2>2. \A u \in Tasks \ {t} : Owes(u) => Owes(u)'
    BY <1>1, <1>2, <2>1 DEF Owes
  <2>3. \A l \in Lanes : holder'[l] = IF holder[l] = t THEN NoTask ELSE holder[l]
    BY <1>3 DEF LaunchCleans, CleanUp, ResetLanes
  <2>4. \A j \in Launches : launch'[j].step \notin {"requeue", "enqueue"}
    BY <2>1 DEF LostInv
  <2> QED BY <1>1, <2>2, <2>3, <2>4, LostGiven
<1>4. CASE ~ LaunchCleans(i)
  <2>1. UNCHANGED holder
    BY <1>4 DEF LostInv, LaunchNext, LaunchBind, LaunchStart, LaunchReads, LaunchAnswers,
      LaunchDefers, LaunchFails, LaunchGivesUp, LaunchRequeues, LaunchEnqueues,
      LaunchAt, laneVars
  <2>2. CASE Finish(i)
    <3>1. status'[t] = "launched"
      <4>1. LaunchAnswers(i)
        BY <1>4, <1>1, <2>2 DEF LostInv, LaunchNext, LaunchBind, LaunchStart, LaunchReads,
          LaunchDefers, LaunchFails, LaunchGivesUp, LaunchRequeues, LaunchEnqueues,
          LaunchAt, laneVars, Finish, Step, NoLaunch, LaunchInv, LaunchesInv, LaunchStates
      <4>2. ~ Step(i, "clean")
        BY <1>1, <2>2, Resting DEF Finish, Step, LaunchStates, LaunchInv, LaunchesInv
      <4> QED BY <4>1, <4>2, <1>1 DEF LaunchAnswers, Becomes, LaunchInv, RowsInv
    <3>2. /\ \A j \in Launches : j # i => launch'[j] = launch[j]
          /\ launch'[i].step = "none"
      BY <2>2, Resting DEF Finish, LaunchInv, LaunchesInv
    <3>3. \A u \in Tasks : Owes(u) => Owes(u)'
      BY <1>1, <1>2, <3>1, <3>2 DEF Owes, ActiveStatuses, OpenStatuses
    <3>4. \A j \in Launches : launch'[j].step \notin {"requeue", "enqueue"}
      BY <3>2 DEF LostInv
    <3>5. \A l \in Lanes : holder'[l] = holder[l]
      BY <2>1
    <3> QED BY <1>1, <3>3, <3>4, <3>5, LostKept
  <2>3. CASE ~ Finish(i)
    <3>1. \E step \in Steps \ {"requeue", "enqueue"} : Step(i, step)
      BY <1>4, <2>3 DEF LostInv, LaunchNext, LaunchBind, LaunchStart, LaunchReads, LaunchAnswers,
        LaunchDefers, LaunchFails, LaunchGivesUp, LaunchRequeues, LaunchEnqueues, LaunchAt, Steps
    <3>2. PICK step \in Steps \ {"requeue", "enqueue"} : Step(i, step)
      BY <3>1
    <3>3. /\ \A j \in Launches : j # i => launch'[j] = launch[j]
          /\ launch'[i].step = step /\ launch'[i].task = t
      BY <3>2, <1>1 DEF Step, LaunchInv, LaunchesInv, LaunchStates
    <3>4. \A u \in Tasks : Owes(u) => Owes(u)'
      BY <1>1, <1>2, <3>3 DEF Owes, Steps
    <3>5. \A j \in Launches : launch'[j].step \notin {"requeue", "enqueue"}
      BY <3>3 DEF LostInv
    <3>6. \A l \in Lanes : holder'[l] = holder[l]
      BY <2>1
    <3> QED BY <1>1, <3>4, <3>5, <3>6, LostKept
  <2> QED BY <2>2, <2>3
<1> QED BY <1>3, <1>4

LEMMA LostRun ==
  ASSUME LaunchInv, LostInv, NEW r \in runs, RunNext(r)
  PROVE  LostInv'
<1>1. UNCHANGED <<job, swept, loop, launch>> /\ r.task \in Tasks
  BY DEF RunNext, RunReports, RunBinds, RunMoves, RunFails, RunCleans, rows, counters,
    LaunchInv, RestInv, RunStates
<1>2. \A j \in Launches : launch'[j].step \notin {"requeue", "enqueue"}
  BY <1>1 DEF LostInv
<1>3. CASE RunReports(r) \/ RunBinds(r) \/ RunMoves(r) \/ RunFails(r)
  <2>1. \A l \in Lanes : holder'[l] = holder[l]
    BY <1>3 DEF RunReports, RunBinds, RunMoves, RunFails, laneVars, BindLane
  <2>2. \A s \in runs : s.step = "clean" => s \in runs'
    BY <1>3 DEF RunReports, RunBinds, RunMoves, RunFails, RunStep
  <2>3. \A u \in Tasks : status[u] \in ActiveStatuses => Owes(u)'
    <3>1. CASE RunFails(r)
      <4>1. UNCHANGED status
              \/ /\ status' = [status EXCEPT ![r.task] = "failed"]
                 /\ [task |-> r.task, step |-> "clean", lane |-> NoLane] \in runs'
        BY <3>1 DEF RunFails, RunStep, Becomes
      <4>2. CASE UNCHANGED status
        BY <4>2 DEF Owes
      <4>3. CASE [task |-> r.task, step |-> "clean", lane |-> NoLane] \in runs'
        BY <1>1, <4>1, <4>3 DEF Owes, LaunchInv, RowsInv
      <4> QED BY <4>1, <4>2, <4>3
    <3>2. CASE RunReports(r) \/ RunBinds(r) \/ RunMoves(r)
      <4>1. \A u \in Tasks : status[u] \in ActiveStatuses => status'[u] \in ActiveStatuses
        BY <1>1, <3>2 DEF RunReports, RunBinds, RunMoves, Becomes, LaunchInv, RowsInv, rows,
          ActiveStatuses, OpenStatuses
      <4> QED BY <4>1 DEF Owes
    <3> QED BY <1>3, <3>1, <3>2
  <2>4. \A u \in Tasks : Owes(u) => Owes(u)'
    BY <1>1, <2>2, <2>3 DEF Owes
  <2> QED BY <1>1, <1>2, <2>1, <2>4, LostKept
<1>4. CASE RunCleans(r)
  <2>1. \A l \in Lanes : holder'[l] = IF holder[l] = r.task THEN NoTask ELSE holder[l]
    BY <1>4 DEF RunCleans, CleanUp, ResetLanes
  <2>2. UNCHANGED status /\ runs' = runs \ {r}
    BY <1>4 DEF RunCleans, rows
  <2>3. \A u \in Tasks \ {r.task} : Owes(u) => Owes(u)'
    BY <1>1, <2>2 DEF Owes
  <2> QED BY <1>1, <1>2, <2>1, <2>3, LostGiven
<1> QED BY <1>3, <1>4 DEF RunNext

LEMMA LostLoop ==
  ASSUME LaunchInv, LostInv, LoopNext
  PROVE  LostInv'
<1>1. UNCHANGED <<job, swept>>
  BY DEF LoopNext, Inspect, InspectLaunched, InspectLaunching, RecoverLaunched, RecoverPending,
    InspectStarting, InspectRunning, InspectSuccess, InspectFailure, LoopBegins, LoopEnds,
    LoopReleases, LoopCleans, Reenqueue, BackfillEnds, Claim, ClaimRefused, MarkRefused,
    MarkRejects, LoopRejects, Poll, Mark, rows, counters
<1>2. \A i \in Launches : launch[i].step \notin {"requeue", "enqueue"}
  BY DEF LostInv
<1>3. CASE LoopEnds
  <2>1. \A i \in Launches : /\ launch'[i].step = launch[i].step
                            /\ launch'[i].task = launch[i].task
    BY <1>3 DEF LoopEnds, LaunchInv, LaunchesInv, LaunchStates, NoLaunch
  <2>2. UNCHANGED <<holder, status, runs>> /\ LoopAt("top")
    BY <1>3 DEF LoopEnds, laneVars, rows
  <2>3. \A u \in Tasks : Owes(u) => Owes(u)'
    BY <2>1, <2>2 DEF Owes, LoopAt
  <2> QED BY <1>1, <1>2, <2>1, <2>2, <2>3, LostKept
<1>4. CASE LoopReleases \/ LoopCleans \/ MarkRefused
  <2>1. loop.task \in Tasks /\ UNCHANGED <<status, launch, runs>>
    BY <1>4 DEF LoopReleases, LoopCleans, MarkRefused, LoopAt, LaunchInv, LoopInv, Holding, rows
  <2>2. \A l \in Lanes : holder'[l] = IF holder[l] = loop.task THEN NoTask ELSE holder[l]
    BY <1>4 DEF LoopReleases, LoopCleans, MarkRefused, CleanUp, ReleaseLanes, ResetLanes
  <2>3. \A u \in Tasks \ {loop.task} : Owes(u) => Owes(u)'
    BY <2>1 DEF Owes
  <2> QED BY <1>1, <1>2, <2>1, <2>2, <2>3, LostGiven
<1>5. ASSUME NEW row \in loop.inspect, RecoverPending(row) PROVE LostInv'
  <2>1. /\ row.task \in Tasks /\ UNCHANGED <<launch, runs>> /\ LoopAt("inspect")
        /\ UNCHANGED status \/ Becomes(row.task, "pending")
    BY <1>5 DEF RecoverPending, Requeued, LaunchInv, LoopInv, LoopStates, Rows
  <2>2. \A l \in Lanes : holder'[l] = IF holder[l] = row.task THEN NoTask ELSE holder[l]
    BY <1>5 DEF RecoverPending, ReleaseLanes
  <2>3. \A u \in Tasks \ {row.task} : status'[u] = status[u]
    BY <2>1 DEF Becomes, LaunchInv, RowsInv
  <2>4. \A u \in Tasks \ {row.task} : Owes(u) => Owes(u)'
    BY <2>1, <2>3 DEF Owes, LoopAt
  <2> QED BY <1>1, <1>2, <2>1, <2>2, <2>4, LostGiven
<1>6. CASE Claim
  <2>1. /\ UNCHANGED <<status, launch, runs>> /\ LoopAt("claim")
        /\ loop'.pc = "mark" /\ loop'.task = loop.task
    BY <1>6 DEF Claim, rows, LoopAt, Loop, LaunchInv, LoopInv, LoopStates
  <2>2. \A l \in Lanes : holder'[l] \in {holder[l], loop.task}
    BY <1>6 DEF Claim, ClaimIdle, LaunchInv, LanesTypeOK
  <2>3. \A u \in Tasks : Owes(u) => Owes(u)'
    BY <2>1 DEF Owes, LoopAt
  <2>4. \A l \in Lanes, t \in Tasks : holder'[l] = t => holder[l] = t \/ Owes(t)'
    BY <2>1, <2>2 DEF Owes
  <2> QED BY <1>1, <1>2, <2>1, <2>3, <2>4, LostKept
<1>7. ASSUME NEW i \in Launches, Mark(i) PROVE LostInv'
  <2>1. /\ loop.task \in Tasks /\ LoopAt("mark") /\ UNCHANGED <<holder, runs>>
        /\ status' = [status EXCEPT ![loop.task] = "launching"]
        /\ launch[i] = NoLaunch
    BY <1>7 DEF Mark, LoopAt, LaunchInv, LoopInv, Holding, laneVars, Becomes, FreeSlots, InFlight
  <2>2. /\ \A j \in Launches : j # i => launch'[j] = launch[j]
        /\ launch'[i].step = "bind"
    BY <1>7 DEF Mark, LaunchInv, LaunchesInv
  <2>3. \A u \in Tasks : Owes(u) => Owes(u)'
    BY <2>1, <2>2, Resting DEF Owes, LaunchInv, RowsInv, LoopAt, ActiveStatuses, OpenStatuses
  <2>4. \A j \in Launches : launch'[j].step \notin {"requeue", "enqueue"}
    BY <1>2, <2>2
  <2> QED BY <1>1, <2>1, <2>3, <2>4, LostKept
<1>8. CASE \/ MarkRejects \/ LoopRejects
           \/ \E row \in loop.inspect : Inspect(row) /\ ~RecoverPending(row)
  <2>1. UNCHANGED <<holder, launch>> /\ runs \subseteq runs'
    BY <1>8 DEF MarkRejects, LoopRejects, Inspect, InspectLaunched, InspectLaunching,
      RecoverLaunched, InspectStarting, InspectRunning, InspectSuccess, InspectFailure,
      laneVars, BindLane
  <2>2. \A u \in Tasks : status[u] \in ActiveStatuses =>
          status'[u] \in ActiveStatuses \/ (loop'.pc \in {"release", "clean"} /\ loop'.task = u)
    <3>1. \/ \A u \in Tasks : status[u] \in ActiveStatuses => status'[u] \in ActiveStatuses
          \/ \E u \in Tasks, to \in {"completed", "failed"} :
               Becomes(u, to) /\ loop'.pc \in {"release", "clean"} /\ loop'.task = u
      <4>1. CASE MarkRejects
        BY <4>1 DEF MarkRejects, Becomes, LaunchInv, RowsInv, ActiveStatuses, OpenStatuses
      <4>2. CASE LoopRejects
        BY <4>2 DEF LoopRejects, Loop, LoopAt, LaunchInv, LoopInv, LoopStates, Holding
      <4>3. ASSUME NEW row \in loop.inspect, InspectSuccess(row) \/ InspectFailure(row)
            PROVE  UNCHANGED status \/ \E to \in {"completed", "failed"} :
               Becomes(row.task, to) /\ loop'.pc \in {"release", "clean"} /\ loop'.task = row.task
        BY <4>3 DEF InspectSuccess, InspectFailure, Inspected, LaunchInv, LoopInv, LoopStates
      <4>4. \A row \in loop.inspect : row.task \in Tasks
        BY DEF LaunchInv, LoopInv, LoopStates, Rows
      <4>5. ASSUME NEW row \in loop.inspect,
                   \/ InspectLaunched(row) \/ InspectLaunching(row) \/ RecoverLaunched(row)
                   \/ InspectStarting(row) \/ InspectRunning(row)
            PROVE  \A u \in Tasks : status[u] \in ActiveStatuses => status'[u] \in ActiveStatuses
        BY <4>5 DEF InspectLaunched, InspectLaunching, RecoverLaunched, InspectStarting,
          InspectRunning, rows, Becomes, LaunchInv, RowsInv, ActiveStatuses, OpenStatuses
      <4> QED BY <1>8, <4>1, <4>2, <4>3, <4>4, <4>5 DEF Inspect
    <3> QED BY <3>1 DEF Becomes, LaunchInv, RowsInv
  <2>3. loop.pc \in {"release", "clean", "mark"} => status'[loop.task] \in ActiveStatuses
    BY <1>8 DEF MarkRejects, LoopRejects, Inspect, InspectLaunched, InspectLaunching,
      RecoverLaunched, InspectStarting, InspectRunning, InspectSuccess, InspectFailure,
      Becomes, LaunchInv, RowsInv, LoopInv, Holding, LoopAt, ActiveStatuses, OpenStatuses
  <2>4. \A u \in Tasks : Owes(u) => Owes(u)'
    BY <2>1, <2>2, <2>3 DEF Owes
  <2> QED BY <1>1, <1>2, <2>1, <2>4, LostKept
<1>9. CASE \/ LoopBegins \/ Reenqueue \/ BackfillEnds \/ ClaimRefused \/ \E t \in Tasks : Poll(t)
  <2>1. UNCHANGED <<holder, status, launch, runs>> /\ loop.pc \notin {"release", "clean", "mark"}
    BY <1>9 DEF LoopBegins, Reenqueue, BackfillEnds, ClaimRefused, Poll, LoopAt, laneVars, rows
  <2>2. \A u \in Tasks : Owes(u) => Owes(u)'
    BY <2>1 DEF Owes
  <2> QED BY <1>1, <1>2, <2>1, <2>2, LostKept
<1> QED BY <1>3, <1>4, <1>5, <1>6, <1>7, <1>8, <1>9 DEF LoopNext

LEMMA LostCalls ==
  ASSUME LaunchInv, LostInv, "stop" \notin Disturbances, "restart" \notin Disturbances,
         \/ PauseJob \/ ResumeJob \/ CancelJob \/ CancelSweeps \/ Restart
         \/ \E t \in Tasks : StopTask(t)
  PROVE  LostInv'
<1>1. CASE PauseJob \/ ResumeJob
  <2>1. /\ UNCHANGED <<holder, status, launch, runs, swept>>
        /\ loop.pc = "none" \/ UNCHANGED loop
    BY <1>1 DEF PauseJob, ResumeJob, laneVars, rows, counters, LoopAt
  <2>2. \A u \in Tasks : Owes(u) => Owes(u)'
    BY <2>1 DEF Owes
  <2>3. job # "canceled" /\ job' # "canceled"
    BY <1>1 DEF PauseJob, ResumeJob
  <2> QED BY <2>1, <2>2, <2>3 DEF LostInv
<1>2. CASE CancelJob
  BY <1>2 DEF CancelJob, LostInv, laneVars, counters
<1>3. CASE CancelSweeps
  <2>1. \A l \in Lanes : holder'[l] = NoTask
    BY <1>3 DEF CancelSweeps, ResetAllLanes
  <2>2. job' = "canceled" /\ UNCHANGED launch
    BY <1>3 DEF CancelSweeps
  <2> QED BY <2>1, <2>2, TasksAssumption DEF LostInv
<1> QED BY <1>1, <1>2, <1>3 DEF Restart, StopTask

\* Whatever fails or is canceled or paused, and however slow the inspection
\* is, no lane is lost: who holds one is active or a step of a closure or of
\* the loop will still give it back, for any tasks, lanes and launches, unless
\* a user stops a single task, the server is restarted or a launch is tried
\* again.
THEOREM LanesAreNotLost ==
  ASSUME "stop" \notin Disturbances, "restart" \notin Disturbances,
         "transient" \notin Disturbances
  PROVE  LaunchSpec => []NoLaneLost
<1>1. LaunchInit => LostInv
  BY Resting, TasksAssumption DEF LaunchInit, LanesInit, LostInv
<1>2. LaunchInv /\ LostInv /\ [Next]_vars => LostInv'
  <2> SUFFICES ASSUME LaunchInv, LostInv, [Next]_vars PROVE LostInv'
    OBVIOUS
  <2>1. CASE UNCHANGED vars
    BY <2>1 DEF vars, laneVars, rows, counters, LostInv, Owes
  <2> QED BY <2>1, LostClosure, LostRun, LostLoop, LostCalls DEF Next
<1>3. LaunchInv /\ LostInv => NoLaneLost
  <2> SUFFICES ASSUME LaunchInv, LostInv, NEW l \in Lanes, holder[l] # NoTask
               PROVE  \/ status[holder[l]] \in ActiveStatuses
                      \/ holder[l] \in CleaningUp
                      \/ job = "canceled" /\ ~swept
    BY DEF NoLaneLost
  <2>1. holder[l] \in Tasks
    BY DEF LaunchInv, LanesTypeOK
  <2>2. PICK t \in Tasks : t = holder[l]
    BY <2>1
  <2> QED BY <2>2, Resting DEF LostInv, Owes, CleaningUp, InFlight
<1> QED BY <1>1, <1>2, <1>3, LaunchInvariance, PTL DEF LaunchSpec
=============================================================================

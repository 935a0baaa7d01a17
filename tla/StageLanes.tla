----------------------------- MODULE StageLanes -----------------------------
(***************************************************************************)
(* The rows of scan_stage_lane_runtimes of one persistent stage: a lane    *)
(* is a container with an agent session that tasks use one after the       *)
(* other.  Every operator is one statement of                              *)
(* persistence/stage-lane-runtime.repo.ts; each writes the rows on its own *)
(* and none looks at the tasks table.                                      *)
(***************************************************************************)
EXTENDS Integers, FiniteSets

CONSTANTS
  Tasks,        \* the tasks of the stage
  LaneCount,    \* the lanes of the stage, its concurrency limit
  NoTask, NoLane

ASSUME TasksAssumption == IsFiniteSet(Tasks) /\ NoTask \notin Tasks
ASSUME LaneCountAssumption == LaneCount \in Nat \ {0}

Lanes == 0 .. LaneCount - 1
ASSUME NoLaneAssumption == NoLane \notin Lanes

VARIABLES
  holder,       \* activeTaskId of each lane
  session       \* the task that bound threadId and containerName, if any

laneVars == <<holder, session>>

-----------------------------------------------------------------------------
HeldBy(t) == {l \in Lanes : holder[l] = t}
IdleLanes == HeldBy(NoTask)

\* Fault: the update does not test again that the lane is idle.
ClaimFirst(l, t) ==
  /\ l = 0
  /\ holder' = [holder EXCEPT ![l] = t]
  /\ UNCHANGED session

\* claimIdleStageLaneRuntimeRepo: the idle lane with the least index, taken
\* by an update that tests again that it is idle.
ClaimIdle(l, t) ==
  /\ l \in IdleLanes /\ \A m \in IdleLanes : l <= m
  /\ holder' = [holder EXCEPT ![l] = t]
  /\ UNCHANGED session

\* bindStageLaneRuntimeRepo addresses the lane by its index.
BindLane(l, t) ==
  /\ session' = [session EXCEPT ![l] = t]
  /\ UNCHANGED holder

\* releaseStageLaneRuntimeRepo: every lane the task holds; the session stays
\* for the next task.
ReleaseLanes(t) ==
  /\ holder' = [l \in Lanes |-> IF holder[l] = t THEN NoTask ELSE holder[l]]
  /\ UNCHANGED session

\* resetStageLaneRuntimeForExitRepo
ResetLanes(t) ==
  /\ holder' = [l \in Lanes |-> IF holder[l] = t THEN NoTask ELSE holder[l]]
  /\ session' = [l \in Lanes |-> IF holder[l] = t THEN NoTask ELSE session[l]]

\* resetStageLaneRuntimesByScanJobIdRepo
ResetAllLanes ==
  /\ holder' = [l \in Lanes |-> NoTask]
  /\ session' = [l \in Lanes |-> NoTask]

LanesInit ==
  /\ holder = [l \in Lanes |-> NoTask]
  /\ session = [l \in Lanes |-> NoTask]

LanesTypeOK ==
  /\ holder \in [Lanes -> Tasks \cup {NoTask}]
  /\ session \in [Lanes -> Tasks \cup {NoTask}]
=============================================================================

------------------------ MODULE ScanJobLifecycleProofs ------------------------
(***************************************************************************)
(* The processes of ScanJobLifecycle write the rows only as ScanJobStore   *)
(* allows, for any number of requests, dispatchers, tasks and crashes; a   *)
(* job that no call reopens expands and settles its whole task graph; and  *)
(* a job keeps its contract when nothing reopens it, or when API calls are *)
(* made one at a time, without those that start work on a candidate.       *)
(***************************************************************************)
EXTENDS ScanJobLifecycle, ScanJobStoreProofs

-----------------------------------------------------------------------------
(* The types of the processes. *)

LEMMA RequestSteps ==
  ASSUME ProcessTypeOK, NEW r \in Requests, RequestNext(r)
  PROVE  request' \in [Requests -> RequestTypes]
<1>1. ASSUME NEW kind \in Kinds \cup {"none"},
             NEW step \in {"idle", "stop", "start", "reset", "act", "send", "enter"},
             NEW todo \in SUBSET Tasks, Becomes(r, kind, step, todo)
      PROVE  request' \in [Requests -> RequestTypes]
  BY <1>1 DEF Becomes, ProcessTypeOK, RequestTypes
<1>2. CASE Finishes(r)
  BY <1>2 DEF Finishes, Idle, ProcessTypeOK, RequestTypes
<1>3. /\ request[r].kind \in Kinds \cup {"none"}
      /\ request[r].todo \in SUBSET Tasks
  BY DEF ProcessTypeOK, RequestTypes
<1>4. CASE UNCHANGED request
  BY <1>4 DEF ProcessTypeOK
<1>5. {} \in SUBSET Tasks
  OBVIOUS
<1>6. CASE Pause(r) \/ Cancel(r) \/ Resume(r)
  BY <1>1, <1>5, <1>6 DEF Pause, Cancel, Resume
<1>7. CASE \/ StopRuntime(r) \/ StartRuntime(r) \/ RequestSends(r)
           \/ RequestThrows(r) \/ SyncEnter(r)
  BY <1>2, <1>7 DEF StopRuntime, StartRuntime, RequestSends, RequestThrows, SyncEnter
<1>8. CASE SyncRead(r)
  BY <1>1, <1>5, <1>8 DEF SyncRead
<1>9. CASE CandidateRequeues(r)
  BY <1>1, <1>3, <1>5, <1>9 DEF CandidateRequeues, At
<1>10. CASE RetryRead(r)
  <2> DEFINE failed == {t \in Rerunnable : taskStatus[t] = "failed"}
  <2>1. failed \in SUBSET Tasks
    BY RerunnableAssumption
  <2> QED BY <1>1, <1>10, <2>1 DEF RetryRead
<1>11. CASE RequestResets(r)
  BY <1>1, <1>3, <1>11 DEF RequestResets, ProcessTypeOK, RequestTypes
<1>12. ASSUME NEW t \in Tasks, StopTask(r, t) PROVE UNCHANGED request
  BY <1>12 DEF StopTask
<1>13. ASSUME NEW t \in Tasks, RerunCreates(r, t) \/ CandidateCreates(r, t)
       PROVE  request' \in [Requests -> RequestTypes]
  BY <1>1, <1>3, <1>5, <1>13 DEF RerunCreates, CandidateCreates, At
<1>14. ASSUME NEW t \in Tasks, RerunRead(r, t) \/ CandidateRead(r, t)
       PROVE  request' \in [Requests -> RequestTypes]
  <2>1. {t} \in SUBSET Tasks
    OBVIOUS
  <2> QED BY <1>1, <1>14, <2>1 DEF RerunRead, CandidateRead
<1>15. ASSUME NEW t \in Tasks, RetryTask(r, t)
       PROVE  request' \in [Requests -> RequestTypes]
  <2>1. request[r].todo \ {t} \in SUBSET Tasks
    BY <1>3
  <2> QED BY <1>1, <1>3, <1>15, <2>1 DEF RetryTask, At
<1> QED BY <1>4, <1>6, <1>7, <1>8, <1>9, <1>10, <1>11, <1>12, <1>13, <1>14, <1>15
        DEF RequestNext

\* Every process keeps to the steps its code has.
LEMMA ProcessTypes == LifecycleSpec => []ProcessTypeOK
<1>1. LifecycleInit => ProcessTypeOK
  BY MaxCrashesAssumption DEF LifecycleInit, ProcessTypeOK, RequestTypes, Idle, NotSettling
<1>2. ProcessTypeOK /\ [LifecycleNext]_vars => ProcessTypeOK'
  <2> SUFFICES ASSUME ProcessTypeOK, [LifecycleNext]_vars PROVE ProcessTypeOK'
    OBVIOUS
  <2> USE DEF ProcessTypeOK
  <2>1. CASE WorkerNext
    BY <2>1 DEF WorkerNext, WorkerSkip, WorkerSeesFailed, WorkerStart, WorkerResume,
      WorkerCreatesRoot, WorkerRootRefused, WorkerReturns, WorkerCatch, WorkerFails,
      WorkerCleanup, Work, TakeMessage, EnsureRuntime
  <2>2. CASE RuntimeNext
    BY <2>2 DEF RuntimeNext, Launch, Progress, ExitMember, RuntimeEnds, RuntimeFails,
      processVars
  <2>3. CASE DispatchNext
    BY <2>3 DEF DispatchNext, DispatchClaim, DispatchChild, DispatchDone,
      DispatchError, ResetStaleDispatch, processVars
  <2>4. CASE SettleNext
    BY <2>4 DEF SettleNext, SettleRead, SettleEnter, FinalizeRead, FinalizeDefer,
      FinalizeWrite, Settling, NotSettling, Outcome
  <2>5. ASSUME NEW r \in Requests, RequestNext(r) PROVE ProcessTypeOK'
    <3>1. request' \in [Requests -> RequestTypes]
      BY <2>5, RequestSteps
    <3>2. /\ UNCHANGED <<worker, settler, claim, crashes>>
          /\ message' \in BOOLEAN /\ inFlight' \subseteq Tasks
          /\ runtime' \in {"none", "alive", "stopping", "returning"}
      BY <2>5 DEF RequestNext, Pause, Cancel, StopRuntime, Resume, StartRuntime,
        StopTask, RetryRead, RerunRead, CandidateRead, RequestResets, RetryTask,
        RerunCreates, CandidateCreates, CandidateRequeues, RequestSends,
        RequestThrows, SyncRead, SyncEnter, EnsureRuntime
    <3> QED BY <3>1, <3>2
  <2>6. CASE Crash
    <3>1. crashes' \in 0 .. MaxCrashes
      BY <2>6, MaxCrashesAssumption DEF Crash
    <3> QED BY <2>6, <3>1 DEF Crash, Idle, NotSettling, RequestTypes
  <2>7. CASE Recover
    BY <2>7 DEF Recover, EnsureRuntime, Settling
  <2>8. CASE UNCHANGED vars
    BY <2>8 DEF vars, processVars
  <2> QED BY <2>1, <2>2, <2>3, <2>4, <2>5, <2>6, <2>7, <2>8 DEF LifecycleNext
<1> QED BY <1>1, <1>2, PTL DEF LifecycleSpec

-----------------------------------------------------------------------------
(* The rows, as these processes write them. *)

\* The transactions that are right on any rows they find.
OrdinaryStep ==
  \/ StartJob \/ PauseJob \/ ResumeJob \/ FailJob \/ CancelJob \/ CancelOpenTasks
  \/ EnterFinalizing
  \/ \E t \in Tasks : TaskNext(t)

\* The two that are right only if what was read before them still holds.
ReopenStep ==
  \E r \in Requests :
    /\ request[r].step = "reset" /\ request'[r].step = "act"
    /\ ResetJob(IF request[r].kind = "candidate" THEN "running" ELSE "pending")
VerdictStep ==
  settler.pc = "write" /\ FinalizeAs(settler.outcome) /\ settler' = NotSettling

\* A task may be inserted by a caller that accepts fewer job statuses.
LEMMA NarrowerCalls ==
  ASSUME NEW t \in Tasks,
         \/ \E topLevel \in BOOLEAN : CreateTask(t, topLevel, {"running"})
         \/ \E topLevel \in BOOLEAN : CreateTask(t, topLevel, {"pending", "running"})
         \/ RequeueTask(t, {"running"}) \/ RequeueTask(t, {"pending", "running"})
  PROVE  TaskNext(t)
BY DEF TaskNext, CreateTask, RequeueTask

\* The changes the processes ask of a task are those of the store.
LEMMA AskedChanges ==
  ASSUME NEW t \in Tasks, NEW from \in OpenStatuses, NEW to,
         \/ from = "pending" /\ to \in {"active", "exited", "canceled"}
         \/ from = "active" /\ to \in {"pending", "completed", "failed", "exited", "canceled"},
         TransitionTask(t, from, to)
  PROVE  TaskNext(t)
<1> DEFINE change == <<from, to>>
<1>1. change \in TaskTransitions
  BY DEF TaskTransitions
<1>2. TransitionTask(t, change[1], change[2])
  OBVIOUS
<1> QED BY <1>1, <1>2 DEF TaskNext

LEMMA StepKinds ==
  ASSUME ProcessTypeOK, [LifecycleNext]_vars
  PROVE  UNCHANGED storeVars \/ OrdinaryStep \/ ReopenStep \/ VerdictStep
<1>1. CASE WorkerNext
  <2>1. CASE WorkerCreatesRoot
    BY <2>1, NarrowerCalls, TasksAssumption DEF WorkerCreatesRoot, OrdinaryStep
  <2> QED BY <1>1, <2>1 DEF WorkerNext, WorkerSkip, WorkerSeesFailed, WorkerStart,
    WorkerResume, WorkerRootRefused, WorkerReturns, WorkerCatch, WorkerFails,
    WorkerCleanup, OrdinaryStep
<1>2. CASE RuntimeNext
  <2>1. ASSUME NEW t \in Tasks, Launch(t) PROVE OrdinaryStep
    <3>1. TransitionTask(t, "pending", "active")
      BY <2>1 DEF Launch
    <3> QED BY <3>1, AskedChanges DEF OrdinaryStep, OpenStatuses
  <2>2. ASSUME NEW t \in Tasks, NEW to \in {"pending", "completed", "failed", "exited"},
               Progress(t, to)
        PROVE  OrdinaryStep
    <3>1. TransitionTask(t, "active", to)
      BY <2>2 DEF Progress
    <3> QED BY <3>1, AskedChanges DEF OrdinaryStep, OpenStatuses
  <2>3. ASSUME NEW t \in Tasks, ExitMember(t) PROVE OrdinaryStep
    <3>1. PICK from \in OpenStatuses : TransitionTask(t, from, "exited")
      BY <2>3 DEF ExitMember
    <3> QED BY <3>1, AskedChanges DEF OrdinaryStep, OpenStatuses
  <2> QED BY <1>2, <2>1, <2>2, <2>3 DEF RuntimeNext, RuntimeEnds, RuntimeFails
<1>3. CASE DispatchNext
  <2>1. ASSUME NEW d \in Dispatchers, claim[d] # NoTask PROVE claim[d] \in Tasks
    BY <2>1 DEF ProcessTypeOK
  <2>2. ASSUME NEW d \in Dispatchers, NEW t \in Tasks, DispatchClaim(d, t)
        PROVE  OrdinaryStep
    BY <2>2 DEF DispatchClaim, OrdinaryStep, TaskNext
  <2>3. ASSUME NEW d \in Dispatchers, DispatchChild(d) PROVE OrdinaryStep
    <3>1. PICK c \in Children[claim[d]] : CreateTask(c, FALSE, {"running"})
      BY <2>3 DEF DispatchChild
    <3>2. c \in Tasks
      BY <2>1, <2>3, ChildrenAssumption DEF DispatchChild
    <3> QED BY <3>1, <3>2, NarrowerCalls DEF OrdinaryStep
  <2>4. ASSUME NEW d \in Dispatchers, DispatchDone(d) PROVE OrdinaryStep
    BY <2>1, <2>4 DEF DispatchDone, OrdinaryStep, TaskNext
  <2>5. ASSUME NEW d \in Dispatchers, DispatchError(d)
        PROVE  UNCHANGED storeVars \/ OrdinaryStep
    BY <2>1, <2>5 DEF DispatchError, OrdinaryStep, TaskNext
  <2>6. ASSUME NEW t \in Tasks, ResetStaleDispatch(t) PROVE OrdinaryStep
    BY <2>6 DEF ResetStaleDispatch, OrdinaryStep, TaskNext
  <2> QED BY <1>3, <2>2, <2>3, <2>4, <2>5, <2>6 DEF DispatchNext
<1>4. CASE SettleNext
  BY <1>4 DEF SettleNext, SettleRead, SettleEnter, FinalizeRead, FinalizeDefer,
    FinalizeWrite, OrdinaryStep, VerdictStep
<1>5. ASSUME NEW r \in Requests, RequestNext(r)
      PROVE  UNCHANGED storeVars \/ OrdinaryStep \/ ReopenStep
  <2>1. CASE Pause(r) \/ Cancel(r) \/ Resume(r) \/ SyncEnter(r)
    BY <2>1 DEF Pause, Cancel, Resume, SyncEnter, OrdinaryStep
  <2>2. CASE RequestResets(r)
    BY <2>2 DEF RequestResets, ReopenStep, Becomes, ProcessTypeOK
  <2>3. CASE \/ StopRuntime(r) \/ StartRuntime(r) \/ RetryRead(r) \/ RequestSends(r)
             \/ RequestThrows(r) \/ SyncRead(r)
             \/ \E t \in Tasks : RerunRead(r, t) \/ CandidateRead(r, t)
    BY <2>3 DEF StopRuntime, StartRuntime, RetryRead, RequestSends, RequestThrows,
      SyncRead, RerunRead, CandidateRead
  <2>4. ASSUME NEW t \in Tasks, StopTask(r, t) PROVE OrdinaryStep
    <3>1. PICK from \in OpenStatuses : TransitionTask(t, from, "canceled")
      BY <2>4 DEF StopTask
    <3> QED BY <3>1, AskedChanges DEF OrdinaryStep, OpenStatuses
  <2>5. ASSUME NEW t \in Tasks,
               RetryTask(r, t) \/ RerunCreates(r, t) \/ CandidateCreates(r, t)
        PROVE  OrdinaryStep
    BY <2>5, NarrowerCalls DEF RetryTask, RerunCreates, CandidateCreates, OrdinaryStep
  <2>6. CASE CandidateRequeues(r)
    <3>1. PICK t \in request[r].todo : RequeueTask(t, {"running"})
      BY <2>6 DEF CandidateRequeues
    <3>2. t \in Tasks
      BY <3>1 DEF ProcessTypeOK, RequestTypes
    <3> QED BY <3>1, <3>2, NarrowerCalls DEF OrdinaryStep
  <2> QED BY <1>5, <2>1, <2>2, <2>3, <2>4, <2>5, <2>6 DEF RequestNext
<1>6. CASE Crash \/ Recover
  BY <1>6 DEF Crash, Recover, OrdinaryStep
<1>7. CASE UNCHANGED vars
  BY <1>7 DEF vars
<1> QED BY <1>1, <1>2, <1>3, <1>4, <1>5, <1>6, <1>7 DEF LifecycleNext

\* Whatever its processes read and when, the program writes the rows only by
\* transactions of the store: what is proved of ScanJobStore holds of it.
THEOREM StoreIsImplemented == LifecycleSpec => OnlyStoreWrites
<1>1. LifecycleInit => Init
  BY DEF LifecycleInit
<1>2. ProcessTypeOK /\ [LifecycleNext]_vars => [Next]_storeVars
  <2> SUFFICES ASSUME ProcessTypeOK, [LifecycleNext]_vars PROVE [Next]_storeVars
    OBVIOUS
  <2>1. CASE OrdinaryStep
    BY <2>1 DEF OrdinaryStep, Next, JobNext
  <2>2. CASE ReopenStep
    BY <2>2 DEF ReopenStep, Next, JobNext
  <2>3. CASE VerdictStep
    BY <2>3 DEF VerdictStep, FinalizeAs, TransitionJob, ProcessTypeOK, Next, JobNext
  <2> QED BY <2>1, <2>2, <2>3, StepKinds
<1> QED BY <1>1, <1>2, ProcessTypes, PTL DEF LifecycleSpec, OnlyStoreWrites, Spec

\* The invariants of the store, in the program.
THEOREM LifecycleTypeCorrect ==
  LifecycleSpec => [](LifecycleTypeOK /\ BudgetRespected /\ CanceledIsQuiescent)
BY StoreIsImplemented, ProcessTypes, StoreTypeCorrect, BudgetIsRespected,
   CanceledStaysQuiescent, PTL DEF LifecycleTypeOK, OnlyStoreWrites

\* A task that failed or was canceled owes no expansion, whatever stale claim
\* the program still holds on it: a dispatcher never brings a branch back.
THEOREM EndedBranchesStayClosed == LifecycleSpec => []EndedBranchOwesNoDispatch
BY StoreIsImplemented, CanceledStaysQuiescent, PTL DEF OnlyStoreWrites

-----------------------------------------------------------------------------
(* Any number of concurrent calls, none of which reopens a job or a task.  *)

NothingReopens == Kinds \cap {"retry", "rerun", "candidate"} = {}

\* A dispatcher holds claims on completed tasks only, an open task owes its
\* expansion, the root is the only root-level task.
ClaimsAreOwed ==
  /\ \A d \in Dispatchers : claim[d] # NoTask => taskStatus[claim[d]] = "completed"
  /\ \A t \in Open : dispatch[t] = "pending"
  /\ rootLevel \subseteq {Root}

\* What is marked expanded has all of its children, unless the job failed or
\* was canceled, when expansions are closed without them.
Expanded ==
  jobStatus \notin {"failed", "canceled"} =>
    \A t \in Tasks :
      taskStatus[t] = "completed" /\ dispatch[t] = "completed" => Children[t] \subseteq Created

\* In these statuses nothing but a verdict, a reopening or the deletion of
\* open tasks can change the rows.
Settled == {"finalizing", "finished", "partially_finished"}

MaySettle ==
  \/ settler.pc = "enter"
  \/ \E r \in Requests : request[r].step = "enter"
  \/ jobStatus \in Settled

GraphInv ==
  /\ ClaimsAreOwed /\ Expanded
  /\ MaySettle => Ready
  /\ worker = "cleanup" => jobStatus \notin Cancellable
  /\ \A r \in Requests : request[r].step # "reset"

\* What the steps of the processes do to rows and claims.
FewerClaims == \A d \in Dispatchers : claim'[d] \in {claim[d], NoTask}
JobMove == FewerClaims /\ UNCHANGED <<taskStatus, dispatch, rootLevel>>
TaskMove ==
  /\ UNCHANGED claim
  /\ \E t \in Tasks, from \in OpenStatuses, to \in {"pending", "active"} \cup TerminalStatuses :
       TransitionTask(t, from, to)
RootMove == UNCHANGED claim /\ CreateTask(Root, TRUE, {"pending", "running"})
ChildMove ==
  /\ UNCHANGED claim
  /\ \E d \in Dispatchers : claim[d] # NoTask
       /\ \E c \in Children[claim[d]] : CreateTask(c, FALSE, {"running"})
ClaimMove ==
  \E d \in Dispatchers, t \in Tasks : ClaimDispatch(t) /\ claim' = [claim EXCEPT ![d] = t]
DoneMove ==
  /\ FewerClaims
  /\ \E d \in Dispatchers :
       /\ claim[d] # NoTask /\ CompleteDispatch(claim[d])
       /\ Children[claim[d]] \subseteq Created \/ jobStatus \in StoppedJobStatuses
ReleaseMove == FewerClaims /\ \E t \in Tasks : ReleaseDispatch(t)
CloseMove == UNCHANGED claim /\ CloseOpenTasks /\ (CancelJob \/ worker = "cleanup")

\* Without reopening calls these are all.
LEMMA GraphMoves ==
  ASSUME NothingReopens, ProcessTypeOK, GraphInv, [LifecycleNext]_vars
  PROVE  \/ JobMove \/ TaskMove \/ RootMove \/ ChildMove
         \/ ClaimMove \/ DoneMove \/ ReleaseMove \/ CloseMove
<1> USE DEF FewerClaims, JobMove
<1>0. UNCHANGED claim => FewerClaims
  OBVIOUS
<1>1. CASE WorkerNext
  <2>1. CASE WorkerCreatesRoot
    BY <2>1 DEF WorkerCreatesRoot, RootMove
  <2>2. CASE WorkerCleanup
    BY <2>2 DEF WorkerCleanup, Work, CancelOpenTasks, CloseMove
  <2> QED BY <1>1, <2>1, <2>2 DEF WorkerNext, WorkerSkip, WorkerSeesFailed, WorkerStart,
    WorkerResume, WorkerRootRefused, WorkerReturns, WorkerCatch, WorkerFails, StartJob, FailJob,
    TransitionJob, storeVars
<1>2. CASE RuntimeNext
  <2>1. ASSUME NEW t \in Tasks, Launch(t) \/ ExitMember(t) PROVE TaskMove
    BY <2>1 DEF Launch, ExitMember, TaskMove, OpenStatuses, TerminalStatuses, processVars
  <2>2. ASSUME NEW t \in Tasks, NEW to \in {"pending", "completed", "failed", "exited"},
               Progress(t, to)
        PROVE  TaskMove
    BY <2>2 DEF Progress, TaskMove, OpenStatuses, TerminalStatuses
  <2> QED BY <1>2, <2>1, <2>2 DEF RuntimeNext, RuntimeEnds, RuntimeFails, storeVars
<1>3. CASE DispatchNext
  <2>1. ASSUME NEW d \in Dispatchers, NEW t \in Tasks, DispatchClaim(d, t) PROVE ClaimMove
    BY <2>1 DEF DispatchClaim, ClaimMove
  <2>2. ASSUME NEW d \in Dispatchers, DispatchChild(d) PROVE ChildMove
    BY <2>2 DEF DispatchChild, ChildMove, processVars
  <2>3. ASSUME NEW d \in Dispatchers, DispatchDone(d) PROVE DoneMove
    BY <2>3 DEF DispatchDone, DoneMove, ProcessTypeOK
  <2>4. ASSUME NEW d \in Dispatchers, DispatchError(d) PROVE DoneMove \/ ReleaseMove \/ JobMove
    <3>1. FewerClaims /\ claim[d] # NoTask /\ claim[d] \in Tasks
      BY <2>4 DEF DispatchError, ProcessTypeOK
    <3> QED BY <2>4, <3>1 DEF DispatchError, DoneMove, ReleaseMove, storeVars
  <2>5. ASSUME NEW t \in Tasks, ResetStaleDispatch(t) PROVE ReleaseMove
    BY <2>5 DEF ResetStaleDispatch, ReleaseMove, processVars
  <2> QED BY <1>3, <2>1, <2>2, <2>3, <2>4, <2>5 DEF DispatchNext
<1>4. CASE SettleNext
  BY <1>4 DEF SettleNext, SettleRead, SettleEnter, FinalizeRead, FinalizeDefer, FinalizeWrite,
    EnterFinalizing, FinalizeAs, TransitionJob, storeVars
<1>5. ASSUME NEW r \in Requests, RequestNext(r) PROVE JobMove \/ TaskMove \/ CloseMove
  <2>1. request[r].kind \notin {"retry", "rerun", "candidate"} /\ request[r].step # "reset"
    BY DEF NothingReopens, ProcessTypeOK, RequestTypes, GraphInv
  <2>2. CASE Cancel(r)
    BY <2>2 DEF Cancel, CancelJob, CloseMove
  <2>3. CASE \/ Pause(r) \/ StopRuntime(r) \/ Resume(r) \/ StartRuntime(r) \/ RequestSends(r)
             \/ RequestThrows(r) \/ SyncRead(r) \/ SyncEnter(r)
    BY <2>3 DEF Pause, StopRuntime, Resume, StartRuntime, RequestSends, RequestThrows, SyncRead,
      SyncEnter, PauseJob, ResumeJob, EnterFinalizing, TransitionJob, storeVars
  <2>4. ASSUME NEW t \in Tasks, StopTask(r, t) PROVE TaskMove
    BY <2>4 DEF StopTask, TaskMove, OpenStatuses, TerminalStatuses
  <2>5. /\ ~ (RetryRead(r) \/ RequestResets(r) \/ CandidateRequeues(r))
        /\ \A t \in Tasks : ~ (\/ RerunRead(r, t) \/ CandidateRead(r, t) \/ RetryTask(r, t)
                               \/ RerunCreates(r, t) \/ CandidateCreates(r, t))
    BY <2>1 DEF NothingReopens, RetryRead, RequestResets, CandidateRequeues, RerunRead,
      CandidateRead, RetryTask, RerunCreates, CandidateCreates, At
  <2> QED BY <1>5, <2>2, <2>3, <2>4, <2>5 DEF RequestNext
<1>6. CASE Crash \/ Recover
  BY <1>6 DEF Crash, Recover, StartJob, TransitionJob, storeVars
<1>7. CASE UNCHANGED vars
  BY <1>7 DEF vars, storeVars, processVars
<1> QED BY <1>1, <1>2, <1>3, <1>4, <1>5, <1>6, <1>7 DEF LifecycleNext

\* A job that cannot be canceled any more stays so, a failed or canceled one
\* stays that: nothing reopens it.
LEMMA EndedStaysEnded ==
  ASSUME ProcessTypeOK, GraphInv, [LifecycleNext]_vars
  PROVE  /\ jobStatus \notin Cancellable => jobStatus' \notin Cancellable
         /\ jobStatus \in {"failed", "canceled"} => jobStatus' = jobStatus
<1>1. ~ ReopenStep
  BY DEF ReopenStep, GraphInv
<1>2. ASSUME NEW t \in Tasks, TaskNext(t) PROVE jobStatus' = jobStatus
  BY <1>2 DEF TaskNext, CreateTask, TransitionTask, RequeueTask, ClaimDispatch,
    CompleteDispatch, ReleaseDispatch, SetDispatch
<1>3. CASE UNCHANGED storeVars
  BY <1>3 DEF storeVars
<1>4. CASE OrdinaryStep
  BY <1>2, <1>4 DEF OrdinaryStep, StartJob, PauseJob, ResumeJob, FailJob, CancelJob,
    CancelOpenTasks, EnterFinalizing, TransitionJob, Cancellable
<1>5. CASE VerdictStep
  BY <1>5 DEF VerdictStep, FinalizeAs, TransitionJob, ProcessTypeOK, Cancellable
<1> QED BY <1>1, <1>3, <1>4, <1>5, StepKinds

LEMMA ClaimsStayOwed ==
  ASSUME NothingReopens, TypeOK, EndedBranchOwesNoDispatch, ProcessTypeOK, GraphInv,
         [LifecycleNext]_vars
  PROVE  ClaimsAreOwed'
<1> USE DEF GraphInv, ClaimsAreOwed, Open, OpenStatuses
<1>1. CASE JobMove
  BY <1>1 DEF JobMove, FewerClaims
<1>2. CASE TaskMove
  BY <1>2 DEF TaskMove, TransitionTask, TypeOK, BranchEnds, TerminalStatuses
<1>3. CASE RootMove
  BY <1>3, TasksAssumption DEF RootMove, CreateTask, TypeOK
<1>4. CASE ChildMove
  BY <1>4 DEF ChildMove, CreateTask, TypeOK
<1>5. CASE ClaimMove
  BY <1>5 DEF ClaimMove, ClaimDispatch, SetDispatch, EndedBranchOwesNoDispatch, BranchEnds,
    TerminalStatuses, TypeOK, ProcessTypeOK
<1>6. CASE DoneMove
  BY <1>6 DEF DoneMove, FewerClaims, CompleteDispatch, SetDispatch, TypeOK
<1>7. CASE ReleaseMove
  BY <1>7 DEF ReleaseMove, FewerClaims, ReleaseDispatch, SetDispatch, TypeOK
<1>8. CASE CloseMove
  BY <1>8 DEF CloseMove, CloseOpenTasks, TypeOK, ProcessTypeOK
<1> QED BY <1>1, <1>2, <1>3, <1>4, <1>5, <1>6, <1>7, <1>8, GraphMoves

\* Rows are never deleted.
LEMMA RowsStay ==
  ASSUME NothingReopens, TypeOK, ProcessTypeOK, GraphInv, [LifecycleNext]_vars
  PROVE  Created \subseteq Created'
<1> USE DEF Created
<1>1. CASE JobMove \/ ClaimMove \/ DoneMove \/ ReleaseMove
  BY <1>1 DEF JobMove, ClaimMove, DoneMove, ReleaseMove, ClaimDispatch, CompleteDispatch,
    ReleaseDispatch, SetDispatch
<1>2. CASE TaskMove
  BY <1>2 DEF TaskMove, TransitionTask, TypeOK, OpenStatuses, TerminalStatuses
<1>3. CASE RootMove \/ ChildMove
  BY <1>3 DEF RootMove, ChildMove, CreateTask, TypeOK
<1>4. CASE CloseMove
  BY <1>4 DEF CloseMove, CloseOpenTasks, TypeOK
<1> QED BY <1>1, <1>2, <1>3, <1>4, GraphMoves

\* A task graph that owes nothing stays as it is: its root and all children
\* of its tasks exist, so there is no row left to insert.
LEMMA ReadyStays ==
  ASSUME NothingReopens, TypeOK, ProcessTypeOK, GraphInv, Ready, [LifecycleNext]_vars
  PROVE  Ready'
<1> USE DEF GraphInv, Ready
<1>1. CASE JobMove
  BY <1>1 DEF JobMove, Open, Created
<1>2. ~ TaskMove
  BY DEF TaskMove, TransitionTask, Open
<1>3. ~ RootMove
  <2>1. Root \in Created
    BY DEF ClaimsAreOwed, TypeOK
  <2> QED BY <2>1 DEF RootMove, CreateTask, Created
<1>4. ~ ChildMove
  <2> SUFFICES ASSUME NEW d \in Dispatchers, claim[d] # NoTask,
                      NEW c \in Children[claim[d]], CreateTask(c, FALSE, {"running"})
               PROVE  FALSE
    BY DEF ChildMove
  <2>1. claim[d] \in Tasks /\ taskStatus[claim[d]] = "completed"
    BY DEF ProcessTypeOK, ClaimsAreOwed
  <2>2. dispatch[claim[d]] = "completed" /\ jobStatus = "running"
    BY <2>1 DEF Created, CreateTask
  <2>3. c \in Created
    BY <2>1, <2>2 DEF Expanded
  <2> QED BY <2>3 DEF CreateTask, Created
<1>5. ~ ClaimMove
  BY DEF ClaimMove, ClaimDispatch, Created, TerminalStatuses
<1>6. CASE DoneMove
  BY <1>6 DEF DoneMove, CompleteDispatch, SetDispatch, Open, Created, TypeOK
<1>7. CASE ReleaseMove
  BY <1>7 DEF ReleaseMove, ReleaseDispatch, SetDispatch, Open, Created, TypeOK
<1>8. CASE CloseMove
  BY <1>8 DEF CloseMove, CloseOpenTasks, Open, Created, TypeOK, OpenStatuses
<1> QED BY <1>1, <1>2, <1>3, <1>4, <1>5, <1>6, <1>7, <1>8, GraphMoves

\* An expansion is marked complete by who created the children, unless the
\* job is over; a settled job has no expansion to close.
LEMMA ExpandedStays ==
  ASSUME NothingReopens, TypeOK, EndedBranchOwesNoDispatch, ProcessTypeOK, GraphInv,
         [LifecycleNext]_vars
  PROVE  Expanded'
<1> SUFFICES ASSUME jobStatus' \notin {"failed", "canceled"}, NEW t \in Tasks,
                    taskStatus'[t] = "completed", dispatch'[t] = "completed"
             PROVE  Children[t] \subseteq Created'
  BY DEF Expanded
<1>1. jobStatus \notin {"failed", "canceled"}
  BY EndedStaysEnded
<1>2. CASE taskStatus[t] = "completed" /\ dispatch[t] = "completed"
  BY <1>1, <1>2, RowsStay DEF GraphInv, Expanded
<1>3. CASE jobStatus \in Settled
  <2>1. Ready
    BY <1>3 DEF GraphInv, MaySettle
  <2>2. taskStatus[t] = "completed"
    <3>1. ~ TaskMove
      BY <2>1 DEF TaskMove, TransitionTask, Ready, Open
    <3>2. ~ RootMove /\ ~ ChildMove
      BY <1>3 DEF RootMove, ChildMove, CreateTask, Settled
    <3> QED BY <2>1, <3>1, <3>2, GraphMoves DEF JobMove, ClaimMove, DoneMove, ReleaseMove,
      CloseMove, ClaimDispatch, CompleteDispatch, ReleaseDispatch, SetDispatch, CloseOpenTasks,
      Ready
  <2> QED BY <1>2, <2>1, <2>2 DEF Ready, Created
<1>4. CASE jobStatus \notin Settled /\ ~ (taskStatus[t] = "completed" /\ dispatch[t] = "completed")
  <2> USE DEF GraphInv
  <2>1. ~ JobMove /\ ~ ReleaseMove
    BY <1>4 DEF JobMove, ReleaseMove, ReleaseDispatch, SetDispatch, TypeOK
  <2>2. ~ TaskMove /\ ~ RootMove /\ ~ ChildMove
    BY <1>4 DEF TaskMove, TransitionTask, RootMove, ChildMove, CreateTask, TypeOK, ClaimsAreOwed,
      Open, OpenStatuses, BranchEnds
  <2>3. ~ ClaimMove
    BY <1>4 DEF ClaimMove, ClaimDispatch, SetDispatch, TypeOK
  <2>4. ~ CloseMove
    BY <1>1, <1>4 DEF CloseMove, CancelJob, Cancellable, Settled, TypeOK, JobStatuses
  <2>5. CASE DoneMove
    <3>1. jobStatus \notin StoppedJobStatuses
      BY <1>1, <1>4 DEF StoppedJobStatuses, Settled
    <3>2. PICK d \in Dispatchers : CompleteDispatch(claim[d]) /\ Children[claim[d]] \subseteq Created
      BY <2>5, <3>1 DEF DoneMove
    <3>3. t = claim[d]
      BY <1>4, <3>2 DEF CompleteDispatch, SetDispatch, TypeOK
    <3> QED BY <3>2, <3>3, RowsStay
  <2> QED BY <2>1, <2>2, <2>3, <2>4, <2>5, GraphMoves
<1> QED BY <1>2, <1>3, <1>4

\* Settlement begins with a graph that was read ready.
LEMMA SettlingBegins ==
  ASSUME NothingReopens, ProcessTypeOK, GraphInv, [LifecycleNext]_vars, MaySettle'
  PROVE  MaySettle \/ Ready
<1> SUFFICES ASSUME ~ MaySettle, ~ Ready PROVE FALSE
  OBVIOUS
<1>1. settler'.pc # "enter"
  <2>1. CASE WorkerNext \/ RuntimeNext
    <3>1. UNCHANGED settler
      BY <2>1 DEF WorkerNext, WorkerSkip, WorkerSeesFailed, WorkerStart, WorkerResume,
        WorkerCreatesRoot, WorkerRootRefused, WorkerReturns, WorkerCatch, WorkerFails,
        WorkerCleanup, RuntimeNext, Launch, Progress, ExitMember, RuntimeEnds, RuntimeFails,
        processVars
    <3> QED BY <3>1 DEF MaySettle
  <2>5. CASE Crash \/ Recover \/ UNCHANGED vars
    BY <2>5 DEF Crash, Recover, Settling, NotSettling, vars, processVars, MaySettle
  <2>2. CASE DispatchNext
    BY <2>2 DEF DispatchNext, DispatchClaim, DispatchChild, DispatchDone, DispatchError,
      ResetStaleDispatch, processVars, MaySettle
  <2>3. CASE SettleNext
    BY <2>3 DEF SettleNext, SettleRead, SettleEnter, FinalizeRead, FinalizeDefer,
      FinalizeWrite, Settling, NotSettling, MaySettle
  <2>4. ASSUME NEW r \in Requests, RequestNext(r) PROVE UNCHANGED settler
    BY <2>4 DEF RequestNext, Pause, Cancel, StopRuntime, Resume, StartRuntime, StopTask,
      RetryRead, RerunRead, CandidateRead, RequestResets, RetryTask, RerunCreates,
      CandidateCreates, CandidateRequeues, RequestSends, RequestThrows, SyncRead, SyncEnter
  <2> QED BY <2>1, <2>2, <2>3, <2>4, <2>5 DEF LifecycleNext, MaySettle
<1>2. \A r \in Requests : request'[r].step # "enter"
  <2>1. CASE WorkerNext \/ RuntimeNext \/ SettleNext \/ Recover \/ UNCHANGED vars
    <3>1. UNCHANGED request
      BY <2>1 DEF WorkerNext, WorkerSkip, WorkerSeesFailed, WorkerStart, WorkerResume,
        WorkerCreatesRoot, WorkerRootRefused, WorkerReturns, WorkerCatch, WorkerFails,
        WorkerCleanup, RuntimeNext, Launch, Progress, ExitMember, RuntimeEnds, RuntimeFails,
        SettleNext, SettleRead, SettleEnter, FinalizeRead, FinalizeDefer, FinalizeWrite,
        Recover, vars, processVars
    <3> QED BY <3>1 DEF MaySettle
  <2>2. CASE DispatchNext
    <3>1. UNCHANGED request
      BY <2>2 DEF DispatchNext, DispatchClaim, DispatchChild, DispatchDone, DispatchError,
        ResetStaleDispatch, processVars
    <3> QED BY <3>1 DEF MaySettle
  <2>4. CASE Crash
    BY <2>4 DEF Crash, Idle
  <2>3. ASSUME NEW r \in Requests, RequestNext(r), NEW q \in Requests
        PROVE  request'[q].step # "enter"
    <3>1. CASE UNCHANGED request
      BY <3>1 DEF MaySettle
    <3>2. CASE Finishes(r)
      BY <3>2 DEF Finishes, Idle, MaySettle, ProcessTypeOK
    <3>3. CASE \E kind, todo : \E step \in {"stop", "start", "reset", "act", "send"} :
                 Becomes(r, kind, step, todo)
      BY <3>3 DEF Becomes, MaySettle, ProcessTypeOK
    <3>4. ~ SyncRead(r)
      BY DEF SyncRead
    <3>5. UNCHANGED request \/ Finishes(r)
            \/ \E kind, todo : \E step \in {"stop", "start", "reset", "act", "send"} :
                 Becomes(r, kind, step, todo)
      BY <2>3, <3>4 DEF RequestNext, Pause, Cancel, StopRuntime, Resume, StartRuntime, StopTask,
        RetryRead, RerunRead, CandidateRead, RequestResets, RetryTask, RerunCreates,
        CandidateCreates, CandidateRequeues, RequestSends, RequestThrows, SyncEnter
    <3> QED BY <3>1, <3>2, <3>3, <3>5
  <2> QED BY <2>1, <2>2, <2>3, <2>4 DEF LifecycleNext
<1>3. jobStatus' \notin Settled
  <2>1. CASE UNCHANGED jobStatus
    BY <2>1 DEF MaySettle
  <2>2. CASE WorkerNext \/ RuntimeNext \/ Crash \/ Recover \/ UNCHANGED vars
    <3>1. jobStatus' \in {jobStatus, "running", "failed"}
      BY <2>2 DEF WorkerNext, WorkerSkip, WorkerSeesFailed, WorkerStart, WorkerResume,
        WorkerCreatesRoot, WorkerRootRefused, WorkerReturns, WorkerCatch, WorkerFails,
        WorkerCleanup, RuntimeNext, Launch, Progress, ExitMember, RuntimeEnds, RuntimeFails,
        Crash, Recover, StartJob, FailJob, CreateTask, CancelOpenTasks, TransitionTask,
        TransitionJob, vars, storeVars
    <3> QED BY <3>1 DEF MaySettle, Settled
  <2>3. CASE DispatchNext
    BY <2>1, <2>3 DEF DispatchNext, DispatchClaim, DispatchChild, DispatchDone, DispatchError,
      ResetStaleDispatch, CreateTask, ClaimDispatch, CompleteDispatch, ReleaseDispatch,
      SetDispatch, storeVars
  <2>4. CASE SettleNext
    BY <2>1, <2>4 DEF SettleNext, SettleRead, SettleEnter, FinalizeRead, FinalizeDefer,
      FinalizeWrite, FinalizeAs, TransitionJob, storeVars, MaySettle, Settled
  <2>5. ASSUME NEW r \in Requests, RequestNext(r) PROVE jobStatus' \notin Settled
    <3>1. CASE Pause(r) \/ Cancel(r) \/ Resume(r) \/ RequestResets(r)
      BY <3>1 DEF Pause, Cancel, Resume, RequestResets, PauseJob, CancelJob, ResumeJob,
        TransitionJob, GraphInv, Settled
    <3>2. ~ SyncEnter(r)
      BY DEF SyncEnter, At, MaySettle
    <3>3. ~ Pause(r) /\ ~ Cancel(r) /\ ~ Resume(r) /\ ~ RequestResets(r) => UNCHANGED jobStatus
      BY <2>5, <3>2 DEF RequestNext, StopRuntime, StartRuntime, StopTask, RetryRead, RerunRead,
        CandidateRead, RetryTask, RerunCreates, CandidateCreates, CandidateRequeues,
        RequestSends, RequestThrows, SyncRead, CreateTask, RequeueTask, TransitionTask, storeVars
    <3> QED BY <2>1, <3>1, <3>3
  <2> QED BY <2>2, <2>3, <2>4, <2>5 DEF LifecycleNext
<1> QED BY <1>1, <1>2, <1>3 DEF MaySettle

\* The clean-up of the worker meets jobs that are over.
LEMMA CleanupAfterEnd ==
  ASSUME ProcessTypeOK, GraphInv, [LifecycleNext]_vars, worker' = "cleanup"
  PROVE  jobStatus' \notin Cancellable
<1>1. CASE worker = "cleanup"
  BY <1>1, EndedStaysEnded DEF GraphInv
<1>2. CASE worker # "cleanup" /\ WorkerNext
  <2>1. CASE WorkerSeesFailed
    BY <2>1 DEF WorkerSeesFailed, Cancellable, storeVars
  <2>2. CASE WorkerCatch
    BY <2>2 DEF WorkerCatch, Cancellable, storeVars
  <2>3. CASE WorkerFails
    BY <2>3 DEF WorkerFails, FailJob, TransitionJob, Cancellable, storeVars
  <2> QED BY <1>2, <2>1, <2>2, <2>3 DEF WorkerNext, WorkerSkip, WorkerStart, WorkerResume,
    WorkerCreatesRoot, WorkerRootRefused, WorkerReturns, WorkerCleanup, Work
<1>3. CASE worker # "cleanup" /\ RuntimeNext
  <2>1. CASE RuntimeFails
    BY <1>3, <2>1 DEF RuntimeFails
  <2> QED BY <1>3, <2>1 DEF RuntimeNext, Launch, Progress, ExitMember, RuntimeEnds, processVars
<1>4. DispatchNext => UNCHANGED worker
  BY DEF DispatchNext, DispatchClaim, DispatchChild, DispatchDone, DispatchError,
    ResetStaleDispatch, processVars
<1>5. SettleNext => UNCHANGED worker
  BY DEF SettleNext, SettleRead, SettleEnter, FinalizeRead, FinalizeDefer, FinalizeWrite
<1>6. ASSUME NEW r \in Requests, RequestNext(r) PROVE UNCHANGED worker
  BY <1>6 DEF RequestNext, Pause, Cancel, StopRuntime, Resume, StartRuntime, StopTask,
    RetryRead, RerunRead, CandidateRead, RequestResets, RetryTask, RerunCreates,
    CandidateCreates, CandidateRequeues, RequestSends, RequestThrows, SyncRead, SyncEnter
<1>7. CASE worker # "cleanup" /\ (Crash \/ Recover \/ UNCHANGED vars)
  BY <1>7 DEF Crash, Recover, vars, processVars
<1> QED BY <1>1, <1>2, <1>3, <1>4, <1>5, <1>6, <1>7 DEF LifecycleNext

LEMMA NoResets ==
  ASSUME NothingReopens, ProcessTypeOK, GraphInv, [LifecycleNext]_vars, NEW q \in Requests
  PROVE  request'[q].step # "reset"
<1>1. UNCHANGED request => request'[q].step # "reset"
  BY DEF GraphInv
<1>2. CASE WorkerNext \/ RuntimeNext \/ SettleNext \/ Recover \/ UNCHANGED vars
  BY <1>1, <1>2 DEF WorkerNext, WorkerSkip, WorkerSeesFailed, WorkerStart, WorkerResume,
    WorkerCreatesRoot, WorkerRootRefused, WorkerReturns, WorkerCatch, WorkerFails,
    WorkerCleanup, RuntimeNext, Launch, Progress, ExitMember, RuntimeEnds, RuntimeFails,
    SettleNext, SettleRead, SettleEnter, FinalizeRead, FinalizeDefer, FinalizeWrite,
    Recover, vars, processVars
<1>3. CASE DispatchNext
  BY <1>1, <1>3 DEF DispatchNext, DispatchClaim, DispatchChild, DispatchDone,
    DispatchError, ResetStaleDispatch, processVars
<1>4. CASE Crash
  BY <1>4 DEF Crash, Idle
<1>5. ASSUME NEW r \in Requests, RequestNext(r) PROVE request'[q].step # "reset"
  <2>1. CASE Finishes(r)
    BY <2>1 DEF Finishes, Idle, GraphInv, ProcessTypeOK
  <2>2. CASE \E kind, todo : \E step \in {"stop", "start", "act", "send", "enter"} :
               Becomes(r, kind, step, todo)
    BY <2>2 DEF Becomes, GraphInv, ProcessTypeOK
  <2>3. /\ ~ RetryRead(r)
        /\ \A t \in Tasks : ~ RerunRead(r, t) /\ ~ CandidateRead(r, t)
    BY DEF NothingReopens, RetryRead, RerunRead, CandidateRead
  <2>4. UNCHANGED request \/ Finishes(r)
          \/ \E kind, todo : \E step \in {"stop", "start", "act", "send", "enter"} :
               Becomes(r, kind, step, todo)
    BY <1>5, <2>3 DEF RequestNext, Pause, Cancel, StopRuntime, Resume, StartRuntime, StopTask,
      RequestResets, RetryTask, RerunCreates, CandidateCreates, CandidateRequeues,
      RequestSends, RequestThrows, SyncRead, SyncEnter
  <2> QED BY <1>1, <2>1, <2>2, <2>4
<1> QED BY <1>2, <1>3, <1>4, <1>5 DEF LifecycleNext

LEMMA GraphInvariance ==
  ASSUME NothingReopens PROVE LifecycleSpec => []GraphInv
<1>1. LifecycleInit => GraphInv
  BY DEF LifecycleInit, Init, GraphInv, ClaimsAreOwed, Expanded, MaySettle, Open, OpenStatuses,
    NotSettling, Idle, Settled
<1>2. /\ TypeOK /\ ProcessTypeOK /\ EndedBranchOwesNoDispatch /\ GraphInv
      /\ [LifecycleNext]_vars
      => GraphInv'
  <2> SUFFICES ASSUME TypeOK, ProcessTypeOK, EndedBranchOwesNoDispatch, GraphInv,
                      [LifecycleNext]_vars
               PROVE  GraphInv'
    OBVIOUS
  <2>1. MaySettle' => Ready'
    BY SettlingBegins, ReadyStays DEF GraphInv
  <2> QED BY <2>1, ClaimsStayOwed, ExpandedStays, CleanupAfterEnd, NoResets DEF GraphInv
<1> QED BY <1>1, <1>2, LifecycleTypeCorrect, EndedBranchesStayClosed, PTL
        DEF LifecycleSpec, LifecycleTypeOK

\* While no call reopens a job or a task, a job enters finalizing, where
\* nothing can be launched, only once no task is open, whatever is paused,
\* resumed, stopped, synchronized or expanded between the settler's reads and
\* its write, and wherever the server crashes.
THEOREM FinalizingIsQuiet ==
  ASSUME NothingReopens PROVE LifecycleSpec => []FinalizingHasNoOpenTask
<1>1. GraphInv => FinalizingHasNoOpenTask
  BY DEF GraphInv, MaySettle, Settled, Ready, FinalizingHasNoOpenTask
<1> QED BY <1>1, GraphInvariance, PTL

\* Under the same condition the expansions that a finished job marked as done
\* were done: claims taken, released, reset as stale and taken again by any
\* number of dispatchers lose no child.
THEOREM FinishedJobsAreExpanded ==
  ASSUME NothingReopens PROVE LifecycleSpec => []FinishedIsExpanded
<1>1. TypeOK /\ GraphInv => FinishedIsExpanded
  BY DEF GraphInv, MaySettle, Settled, Ready, Expanded, Created, FinishedIsExpanded
<1> QED BY <1>1, GraphInvariance, LifecycleTypeCorrect, PTL DEF LifecycleTypeOK

-----------------------------------------------------------------------------
(* Calls made one at a time, none of which starts work on a candidate, or    *)
(* any number of calls that reopen nothing.                                  *)

OneCallAtATime == \A r, q \in Requests : r = q
CallsInTurn == (OneCallAtATime /\ "candidate" \notin Kinds) \/ NothingReopens

\* A reset does not meet the reset of another call.
ResetsAlone == OneCallAtATime \/ \A r \in Requests : request[r].step # "reset"

\* Settled rows stay as they are, and with them the verdict they deserve.
LEMMA SettledRowsStay ==
  ASSUME TypeOK, jobStatus \in Settled, Ready, UNCHANGED storeVars \/ OrdinaryStep
  PROVE  jobStatus' = jobStatus /\ Ready' /\ Outcome' = Outcome
<1> USE DEF Settled, Cancellable
<1>1. ASSUME UNCHANGED <<jobStatus, taskStatus, rootLevel>>,
             \A t \in Created : dispatch'[t] = "completed"
      PROVE  jobStatus' = jobStatus /\ Ready' /\ Outcome' = Outcome
  <2>1. Created' = Created /\ Open' = Open /\ Broken' = Broken
    BY <1>1 DEF Created, Open, Broken
  <2> QED BY <1>1, <2>1 DEF Ready, Outcome
<1>2. CASE UNCHANGED storeVars
  BY <1>1, <1>2 DEF storeVars, Ready
<1>3. CASE CancelOpenTasks
  <2>1. taskStatus' = taskStatus
    BY <1>3 DEF CancelOpenTasks, CloseOpenTasks, Ready, TypeOK
  <2> QED BY <1>1, <1>3, <2>1 DEF CancelOpenTasks, CloseOpenTasks, Created
<1>4. ~ (StartJob \/ PauseJob \/ ResumeJob \/ FailJob \/ CancelJob \/ EnterFinalizing)
  BY DEF StartJob, PauseJob, ResumeJob, FailJob, CancelJob, EnterFinalizing, TransitionJob
<1>5. ASSUME NEW t \in Tasks, TaskNext(t)
      PROVE  UNCHANGED <<jobStatus, taskStatus, rootLevel>>
             /\ \A u \in Created : dispatch'[u] = "completed"
  <2>1. ASSUME NEW top \in BOOLEAN PROVE ~ CreateTask(t, top, {"pending", "running"})
    BY DEF CreateTask
  <2>2. ASSUME NEW change \in TaskTransitions
        PROVE  ~ TransitionTask(t, change[1], change[2])
    BY TransitionStatuses DEF TransitionTask
  <2>3. ~ RequeueTask(t, {"pending", "running"}) /\ ~ ClaimDispatch(t)
    BY DEF RequeueTask, ClaimDispatch
  <2>4. CASE CompleteDispatch(t) \/ ReleaseDispatch(t)
    BY <2>4 DEF CompleteDispatch, ReleaseDispatch, SetDispatch, Ready, Created, TypeOK
  <2> QED BY <1>5, <2>1, <2>2, <2>3, <2>4 DEF TaskNext
<1> QED BY <1>1, <1>2, <1>3, <1>4, <1>5 DEF OrdinaryStep

\* Only a reopening takes a job out of a stopped status.
LEMMA StoppedStays ==
  ASSUME jobStatus \in StoppedJobStatuses,
         UNCHANGED storeVars \/ OrdinaryStep \/ VerdictStep
  PROVE  jobStatus' = jobStatus
<1> USE DEF StoppedJobStatuses, Cancellable
<1>1. CASE OrdinaryStep
  <2>1. ASSUME NEW t \in Tasks, TaskNext(t) PROVE jobStatus' = jobStatus
    BY <2>1 DEF TaskNext, CreateTask, TransitionTask, RequeueTask, ClaimDispatch,
      CompleteDispatch, ReleaseDispatch, SetDispatch
  <2> QED BY <1>1, <2>1 DEF OrdinaryStep, StartJob, PauseJob, ResumeJob, FailJob,
    CancelJob, CancelOpenTasks, EnterFinalizing, TransitionJob
<1> QED BY <1>1 DEF VerdictStep, FinalizeAs, TransitionJob, storeVars

\* How the settler moves.
LEMMA SettlerSteps ==
  ASSUME [LifecycleNext]_vars
  PROVE  \/ UNCHANGED settler
         \/ settler'.pc \in {"idle", "enter"}
         \/ settler'.pc = "cleanup" /\ jobStatus' = "finalizing"
         \/ /\ settler.pc = "cleanup" /\ Ready /\ UNCHANGED storeVars
            /\ settler' = [pc |-> "write", outcome |-> Outcome]
<1>1. CASE WorkerNext \/ RuntimeNext
  BY <1>1 DEF WorkerNext, WorkerSkip, WorkerSeesFailed, WorkerStart, WorkerResume,
    WorkerCreatesRoot, WorkerRootRefused, WorkerReturns, WorkerCatch, WorkerFails,
    WorkerCleanup, RuntimeNext, Launch, Progress, ExitMember, RuntimeEnds,
    RuntimeFails, processVars
<1>2. CASE DispatchNext
  BY <1>2 DEF DispatchNext, DispatchClaim, DispatchChild, DispatchDone,
    DispatchError, ResetStaleDispatch, processVars
<1>3. CASE SettleNext
  <2>1. CASE SettleRead \/ FinalizeDefer \/ FinalizeWrite
    BY <2>1 DEF SettleRead, FinalizeDefer, FinalizeWrite, Settling, NotSettling
  <2>2. CASE SettleEnter
    BY <2>2 DEF SettleEnter, Settling, NotSettling, EnterFinalizing, TransitionJob,
      storeVars
  <2>3. CASE FinalizeRead
    BY <2>3 DEF FinalizeRead
  <2> QED BY <1>3, <2>1, <2>2, <2>3 DEF SettleNext
<1>4. ASSUME NEW r \in Requests, RequestNext(r) PROVE UNCHANGED settler
  BY <1>4 DEF RequestNext, Pause, Cancel, StopRuntime, Resume, StartRuntime,
    StopTask, RetryRead, RerunRead, CandidateRead, RequestResets, RetryTask,
    RerunCreates, CandidateCreates, CandidateRequeues, RequestSends,
    RequestThrows, SyncRead, SyncEnter
<1>5. CASE Crash \/ Recover \/ UNCHANGED vars
  BY <1>5 DEF Crash, Recover, Settling, NotSettling, vars, processVars, storeVars
<1> QED BY <1>1, <1>2, <1>3, <1>4, <1>5 DEF LifecycleNext

\* How a call comes to write the status of a job it read as stopped.
LEMMA ResetSteps ==
  ASSUME ProcessTypeOK, "candidate" \notin Kinds, [LifecycleNext]_vars,
         NEW q \in Requests, request'[q].step = "reset"
  PROVE  \/ request[q].step = "reset"
         \/ jobStatus \in StoppedJobStatuses /\ UNCHANGED storeVars
<1>1. CASE UNCHANGED request
  BY <1>1
<1>2. CASE WorkerNext \/ RuntimeNext \/ SettleNext \/ Recover \/ UNCHANGED vars
  BY <1>1, <1>2 DEF WorkerNext, WorkerSkip, WorkerSeesFailed, WorkerStart, WorkerResume,
    WorkerCreatesRoot, WorkerRootRefused, WorkerReturns, WorkerCatch, WorkerFails,
    WorkerCleanup, RuntimeNext, Launch, Progress, ExitMember, RuntimeEnds, RuntimeFails,
    SettleNext, SettleRead, SettleEnter, FinalizeRead, FinalizeDefer, FinalizeWrite,
    Recover, vars, processVars
<1>3. CASE DispatchNext
  BY <1>1, <1>3 DEF DispatchNext, DispatchClaim, DispatchChild, DispatchDone,
    DispatchError, ResetStaleDispatch, processVars
<1>4. CASE Crash
  BY <1>4 DEF Crash, Idle
<1>5. ASSUME NEW r \in Requests, RequestNext(r)
      PROVE  \/ request[q].step = "reset"
             \/ jobStatus \in StoppedJobStatuses /\ UNCHANGED storeVars
  <2>1. ASSUME NEW kind, NEW step, NEW todo, Becomes(r, kind, step, todo), step # "reset"
        PROVE  request[q].step = "reset"
    BY <2>1 DEF Becomes, ProcessTypeOK
  <2>2. CASE Finishes(r)
    BY <2>2 DEF Finishes, Idle, ProcessTypeOK
  <2>3. CASE Pause(r) \/ Cancel(r) \/ Resume(r) \/ SyncRead(r)
    BY <2>1, <2>3 DEF Pause, Cancel, Resume, SyncRead
  <2>4. CASE \/ StopRuntime(r) \/ StartRuntime(r) \/ RequestSends(r)
             \/ RequestThrows(r) \/ SyncEnter(r)
    BY <2>2, <2>4 DEF StopRuntime, StartRuntime, RequestSends, RequestThrows, SyncEnter
  <2>5. CASE RequestResets(r) \/ CandidateRequeues(r)
    BY <2>1, <2>5 DEF RequestResets, CandidateRequeues
  <2>6. CASE RetryRead(r)
    BY <2>6 DEF RetryRead, StoppedJobStatuses
  <2>7. ASSUME NEW t \in Tasks,
               \/ StopTask(r, t) \/ RetryTask(r, t)
               \/ RerunCreates(r, t) \/ CandidateCreates(r, t)
        PROVE  request[q].step = "reset"
    <3>1. CASE StopTask(r, t)
      BY <1>1, <3>1 DEF StopTask
    <3>2. CASE RetryTask(r, t)
      BY <2>1, <3>2 DEF RetryTask
    <3>3. CASE RerunCreates(r, t) \/ CandidateCreates(r, t)
      BY <2>1, <3>3 DEF RerunCreates, CandidateCreates
    <3> QED BY <2>7, <3>1, <3>2, <3>3
  <2>8. ASSUME NEW t \in Tasks, RerunRead(r, t)
        PROVE  \/ request[q].step = "reset"
               \/ jobStatus \in StoppedJobStatuses /\ UNCHANGED storeVars
    <3>1. CASE jobStatus \in StoppedJobStatuses
      BY <2>8, <3>1 DEF RerunRead
    <3>2. CASE jobStatus \notin StoppedJobStatuses
      BY <2>1, <2>8, <3>2 DEF RerunRead
    <3> QED BY <3>1, <3>2
  <2>9. ASSUME NEW t \in Tasks PROVE ~ CandidateRead(r, t)
    BY DEF CandidateRead
  <2> QED BY <1>5, <2>3, <2>4, <2>5, <2>6, <2>7, <2>8, <2>9 DEF RequestNext
<1> QED BY <1>2, <1>3, <1>4, <1>5 DEF LifecycleNext

\* What a step does to the verdict, the settler and the calls, together: the
\* three facts are inductive only as one.
VerdictInv == SettlerIsCurrent /\ ReopensOnlyStopped /\ FinishedIsSettled

LEMMA VerdictInvStep ==
  ASSUME ResetsAlone, "candidate" \notin Kinds,
         TypeOK, ProcessTypeOK, VerdictInv, [LifecycleNext]_vars
  PROVE  VerdictInv'
<1>1. UNCHANGED storeVars \/ OrdinaryStep \/ ReopenStep \/ VerdictStep
  BY StepKinds
<1>2. ReopenStep => jobStatus \in StoppedJobStatuses /\ jobStatus' = "pending"
  <2> SUFFICES ASSUME ReopenStep PROVE jobStatus \in StoppedJobStatuses /\ jobStatus' = "pending"
    OBVIOUS
  <2>1. PICK r \in Requests :
          /\ request[r].step = "reset"
          /\ ResetJob(IF request[r].kind = "candidate" THEN "running" ELSE "pending")
    BY DEF ReopenStep
  <2>2. request[r].kind # "candidate"
    BY KindsAssumption DEF ProcessTypeOK, RequestTypes
  <2> QED BY <2>1, <2>2 DEF VerdictInv, ReopensOnlyStopped, ResetJob
<1>3. SettlerIsCurrent'
  <2>1. CASE UNCHANGED settler
    <3>1. ~ VerdictStep
      BY <2>1 DEF VerdictStep, NotSettling
    <3>2. CASE settler.pc \in {"cleanup", "write"}
      <4>1. jobStatus = "finalizing" /\ ~ ReopenStep
        BY <1>2, <3>2 DEF VerdictInv, SettlerIsCurrent, StoppedJobStatuses
      <4>2. jobStatus' = "finalizing"
        <5>1. CASE OrdinaryStep
          <6>1. ASSUME NEW t \in Tasks, TaskNext(t) PROVE jobStatus' = jobStatus
            BY <6>1 DEF TaskNext, CreateTask, TransitionTask, RequeueTask, ClaimDispatch,
              CompleteDispatch, ReleaseDispatch, SetDispatch
          <6> QED BY <4>1, <5>1, <6>1 DEF OrdinaryStep, StartJob, PauseJob, ResumeJob,
            FailJob, CancelJob, CancelOpenTasks, EnterFinalizing, TransitionJob, Cancellable
        <5> QED BY <1>1, <3>1, <4>1, <5>1 DEF storeVars
      <4>3. settler.pc = "write" => Ready' /\ Outcome' = Outcome
        BY <1>1, <3>1, <4>1, SettledRowsStay DEF VerdictInv, SettlerIsCurrent, Settled
      <4> QED BY <2>1, <4>2, <4>3 DEF VerdictInv, SettlerIsCurrent
    <3> QED BY <2>1, <3>2 DEF SettlerIsCurrent
  <2>2. CASE settler'.pc \in {"idle", "enter"}
    BY <2>2 DEF SettlerIsCurrent
  <2>3. CASE settler'.pc = "cleanup" /\ jobStatus' = "finalizing"
    BY <2>3 DEF SettlerIsCurrent
  <2>4. CASE /\ settler.pc = "cleanup" /\ Ready /\ UNCHANGED storeVars
             /\ settler' = [pc |-> "write", outcome |-> Outcome]
    <3>1. jobStatus = "finalizing"
      BY <2>4 DEF VerdictInv, SettlerIsCurrent
    <3>2. jobStatus' = jobStatus /\ Ready' /\ Outcome' = Outcome
      BY <2>4, <3>1, SettledRowsStay DEF Settled
    <3> QED BY <2>4, <3>1, <3>2 DEF SettlerIsCurrent
  <2> QED BY <2>1, <2>2, <2>3, <2>4, SettlerSteps
<1>4. ReopensOnlyStopped'
  <2> SUFFICES ASSUME NEW q \in Requests, request'[q].step = "reset"
               PROVE  jobStatus' \in StoppedJobStatuses
    BY DEF ReopensOnlyStopped
  <2>1. ~ ReopenStep
    BY DEF ReopenStep, OneCallAtATime, ResetsAlone
  <2>2. jobStatus \in StoppedJobStatuses
    BY ResetSteps DEF VerdictInv, ReopensOnlyStopped
  <2> QED BY <1>1, <2>1, <2>2, StoppedStays
<1>5. FinishedIsSettled'
  <2>1. CASE VerdictStep
    <3>1. Ready /\ settler.outcome = Outcome /\ jobStatus' = Outcome
      BY <2>1 DEF VerdictStep, FinalizeAs, TransitionJob, VerdictInv, SettlerIsCurrent
    <3>2. Ready' /\ Outcome' = Outcome
      BY <2>1, <3>1 DEF VerdictStep, FinalizeAs, TransitionJob, Ready, Outcome, Open,
        Created, Broken
    <3> QED BY <3>1, <3>2 DEF FinishedIsSettled
  <2>2. CASE ReopenStep
    BY <1>2, <2>2 DEF FinishedIsSettled
  <2>3. CASE UNCHANGED storeVars \/ OrdinaryStep
    <3>1. CASE jobStatus \in {"finished", "partially_finished"}
      <4>1. Ready /\ jobStatus = Outcome
        BY <3>1 DEF VerdictInv, FinishedIsSettled
      <4>2. jobStatus' = jobStatus /\ Ready' /\ Outcome' = Outcome
        BY <2>3, <3>1, <4>1, SettledRowsStay DEF Settled
      <4> QED BY <4>1, <4>2 DEF FinishedIsSettled
    <3>2. CASE jobStatus \notin {"finished", "partially_finished"}
      <4>1. ASSUME NEW t \in Tasks, TaskNext(t) PROVE jobStatus' = jobStatus
        BY <4>1 DEF TaskNext, CreateTask, TransitionTask, RequeueTask, ClaimDispatch,
          CompleteDispatch, ReleaseDispatch, SetDispatch
      <4>2. jobStatus' \notin {"finished", "partially_finished"}
        BY <2>3, <3>2, <4>1 DEF OrdinaryStep, StartJob, PauseJob, ResumeJob, FailJob,
          CancelJob, CancelOpenTasks, EnterFinalizing, TransitionJob, storeVars
      <4> QED BY <4>2 DEF FinishedIsSettled
    <3> QED BY <3>1, <3>2
  <2> QED BY <1>1, <2>1, <2>2, <2>3
<1> QED BY <1>3, <1>4, <1>5 DEF VerdictInv

LEMMA ResetsStayAlone ==
  ASSUME CallsInTurn PROVE LifecycleSpec => []ResetsAlone
<1>1. CASE OneCallAtATime
  <2>1. ResetsAlone
    BY <1>1 DEF ResetsAlone
  <2> QED BY <2>1, PTL
<1>2. CASE NothingReopens
  <2>1. GraphInv => ResetsAlone
    BY DEF GraphInv, ResetsAlone
  <2> QED BY <1>2, <2>1, GraphInvariance, PTL
<1> QED BY <1>1, <1>2 DEF CallsInTurn

\* When calls are made one at a time and none starts work on a candidate, or
\* when they are made in any number and none reopens a job, a job that ended
\* finished or partially_finished is settled with the right verdict, for every
\* task graph, any number of dispatchers and of crashes.
THEOREM VerdictIsRight ==
  ASSUME CallsInTurn
  PROVE  LifecycleSpec => [](SettlerIsCurrent /\ ReopensOnlyStopped /\ FinishedIsSettled)
<1>1. LifecycleInit => VerdictInv
  BY DEF LifecycleInit, Init, VerdictInv, SettlerIsCurrent, ReopensOnlyStopped,
         FinishedIsSettled, NotSettling, Idle
<1>2. ResetsAlone /\ TypeOK /\ ProcessTypeOK /\ VerdictInv /\ [LifecycleNext]_vars => VerdictInv'
  BY VerdictInvStep DEF CallsInTurn, NothingReopens
<1> QED BY <1>1, <1>2, LifecycleTypeCorrect, ResetsStayAlone, PTL
        DEF LifecycleSpec, LifecycleTypeOK, VerdictInv

\* Under the same condition no write of settlement is stale: between the read
\* of the graph and the verdict the job stays in finalizing, no work appears,
\* and the verdict about to be written is the one the rows deserve.
THEOREM SettlementIsNotStale ==
  ASSUME CallsInTurn
  PROVE  LifecycleSpec => []SettlerIsCurrent
BY VerdictIsRight, PTL

\* Under the same condition the reset of a retry or a rerun, which writes the
\* status of the job without a test, meets only a job that is still stopped.
THEOREM ResetsMeetStoppedJobs ==
  ASSUME CallsInTurn
  PROVE  LifecycleSpec => []ReopensOnlyStopped
BY VerdictIsRight, PTL

-----------------------------------------------------------------------------
(* The contract. *)

\* How each transaction of the store moves the outstanding work.
LEMMA OrdinaryKeepsContract ==
  ASSUME TypeOK, OrdinaryStep
  PROVE  [Contract!ContractNext]_<<jobStatus, Outstanding>>
<1> USE DEF OpenStatuses, TerminalStatuses
<1> DEFINE C == [Contract!ContractNext]_<<jobStatus, Outstanding>>
<1>1. CASE CancelJob \/ CancelOpenTasks
  <2>1. Outstanding' = FALSE
    BY <1>1 DEF CancelJob, CancelOpenTasks, CloseOpenTasks, Outstanding, Open, Created,
      TypeOK
  <2> QED BY <1>1, <2>1 DEF CancelJob, CancelOpenTasks, Cancellable,
    Contract!ContractNext, Contract!Shrink, Contract!Cancel, Contract!Moves
<1>2. CASE StartJob \/ PauseJob \/ ResumeJob \/ FailJob \/ EnterFinalizing
  <2>1. Outstanding' = Outstanding
    BY <1>2 DEF StartJob, PauseJob, ResumeJob, FailJob, EnterFinalizing, TransitionJob,
      Outstanding, Open, Created
  <2> QED BY <1>2, <2>1 DEF StartJob, PauseJob, ResumeJob, FailJob, EnterFinalizing,
    TransitionJob, Contract!ContractNext, Contract!Start, Contract!Pause,
    Contract!Resume, Contract!Fail, Contract!Settle, Contract!Moves
<1>3. ASSUME NEW t \in Tasks, TaskNext(t) PROVE C
  <2>1. ASSUME NEW top \in BOOLEAN, CreateTask(t, top, {"pending", "running"}) PROVE C
    <3>1. Outstanding' = TRUE
      BY <2>1 DEF CreateTask, Outstanding, Open, TypeOK
    <3> QED BY <2>1, <3>1 DEF CreateTask, Contract!ContractNext, Contract!Grow,
      Contract!Moves
  <2>2. CASE RequeueTask(t, {"pending", "running"})
    <3>1. Outstanding' = TRUE
      BY <2>2 DEF RequeueTask, Outstanding, Open, Created, TypeOK
    <3> QED BY <2>2, <3>1 DEF RequeueTask, Contract!ContractNext, Contract!Grow,
      Contract!Moves
  <2>3. ASSUME jobStatus' = jobStatus, Outstanding \in BOOLEAN, Outstanding' \in BOOLEAN,
               Outstanding' => Outstanding
        PROVE  C
    BY <2>3 DEF Contract!ContractNext, Contract!Shrink
  <2>4. Outstanding \in BOOLEAN /\ Outstanding' \in BOOLEAN
    BY DEF Outstanding
  <2>5. ASSUME NEW change \in TaskTransitions, TransitionTask(t, change[1], change[2])
        PROVE  C
    <3>1. Outstanding /\ jobStatus' = jobStatus
      BY <2>5, TransitionStatuses DEF TransitionTask, Outstanding, Open
    <3> QED BY <2>3, <2>4, <3>1
  <2>6. CASE ClaimDispatch(t)
    <3>1. Outstanding /\ jobStatus' = jobStatus
      BY <2>6 DEF ClaimDispatch, SetDispatch, Outstanding, Created
    <3> QED BY <2>3, <2>4, <3>1
  <2>7. CASE CompleteDispatch(t)
    <3>1. (Outstanding' => Outstanding) /\ jobStatus' = jobStatus
      BY <2>7 DEF CompleteDispatch, SetDispatch, Outstanding, Open, Created, TypeOK
    <3> QED BY <2>3, <2>4, <3>1
  <2>8. CASE ReleaseDispatch(t)
    <3>1. (Outstanding' => Outstanding) /\ jobStatus' = jobStatus
      BY <2>8 DEF ReleaseDispatch, SetDispatch, Outstanding, Open, Created, TypeOK
    <3> QED BY <2>3, <2>4, <3>1
  <2> QED BY <1>3, <2>1, <2>2, <2>5, <2>6, <2>7, <2>8 DEF TaskNext
<1> QED BY <1>1, <1>2, <1>3 DEF OrdinaryStep

\* Under the same condition the job implements its contract: every step is a
\* step of ScanJobContract or leaves status and outstanding work alone.
THEOREM ContractIsKept ==
  ASSUME CallsInTurn
  PROVE  LifecycleSpec => KeepsContract
<1>1. LifecycleInit => Contract!ContractInit
  BY DEF LifecycleInit, Init, Contract!ContractInit, Outstanding, Open, Created,
    OpenStatuses
<1>2. /\ TypeOK /\ ProcessTypeOK
      /\ SettlerIsCurrent /\ ReopensOnlyStopped /\ FinishedIsSettled
      /\ [LifecycleNext]_vars
      => [Contract!ContractNext]_<<jobStatus, Outstanding>>
  <2> SUFFICES ASSUME TypeOK, ProcessTypeOK, SettlerIsCurrent, ReopensOnlyStopped,
                      [LifecycleNext]_vars
               PROVE  [Contract!ContractNext]_<<jobStatus, Outstanding>>
    OBVIOUS
  <2>1. CASE OrdinaryStep
    BY <2>1, OrdinaryKeepsContract
  <2>2. CASE UNCHANGED storeVars
    BY <2>2 DEF storeVars, Outstanding, Open, Created
  <2>3. CASE ReopenStep
    <3>1. PICK r \in Requests :
            /\ request[r].step = "reset"
            /\ ResetJob(IF request[r].kind = "candidate" THEN "running" ELSE "pending")
      BY <2>3 DEF ReopenStep
    <3>2. request[r].kind # "candidate"
      BY DEF CallsInTurn, NothingReopens, ProcessTypeOK, RequestTypes
    <3>3. jobStatus \in StoppedJobStatuses /\ jobStatus' = "pending"
      BY <3>1, <3>2 DEF ReopensOnlyStopped, ResetJob
    <3>4. Outstanding' = Outstanding
      BY <3>1 DEF ResetJob, Outstanding, Open, Created
    <3> QED BY <3>3, <3>4 DEF StoppedJobStatuses, Contract!ContractNext,
      Contract!Reopen, Contract!Moves
  <2>4. CASE VerdictStep
    <3>1. Ready
      BY <2>4 DEF VerdictStep, SettlerIsCurrent
    <3>2. Outstanding = FALSE /\ Outstanding' = FALSE
      BY <2>4, <3>1 DEF VerdictStep, FinalizeAs, TransitionJob, Ready, Outstanding, Open,
        Created
    <3>3. settler.outcome \in {"finished", "partially_finished", "failed"}
      BY <2>4 DEF VerdictStep, ProcessTypeOK
    <3> QED BY <2>4, <3>2, <3>3 DEF VerdictStep, FinalizeAs, TransitionJob,
      Contract!ContractNext, Contract!Resolve, Contract!Moves
  <2> QED BY <2>1, <2>2, <2>3, <2>4, StepKinds
<1> QED BY <1>1, <1>2, LifecycleTypeCorrect, VerdictIsRight, PTL
        DEF LifecycleSpec, LifecycleTypeOK, KeepsContract, Contract!ContractSpec,
            Contract!contractVars
=============================================================================

------------------------- MODULE ScanJobStoreProofs -------------------------
(***************************************************************************)
(* The invariants of ScanJobStore hold for every set of tasks, every       *)
(* fan-out and every budget.                                               *)
(***************************************************************************)
EXTENDS ScanJobStore, FiniteSetTheorems, TLAPS

\* The only step that inserts a row inserts one that was absent.
LEMMA CreateAddsOne ==
  ASSUME TypeOK, NEW t \in Tasks, taskStatus[t] = "absent",
         taskStatus' = [taskStatus EXCEPT ![t] = "pending"]
  PROVE  /\ t \notin Created
         /\ Created' = Created \cup {t}
         /\ Cardinality(Created') = Cardinality(Created) + 1
<1>1. t \notin Created /\ Created' = Created \cup {t}
  BY DEF TypeOK, Created
<1>2. IsFiniteSet(Created)
  BY TasksAssumption, FS_Subset DEF Created
<1> QED BY <1>1, <1>2, FS_AddElement

\* Every other step that writes statuses keeps the set of rows.
LEMMA UpdateKeepsRows ==
  ASSUME TypeOK, NEW t \in Created, NEW s \in OpenStatuses \cup TerminalStatuses,
         taskStatus' = [taskStatus EXCEPT ![t] = s]
  PROVE  Created' = Created
BY DEF TypeOK, Created, OpenStatuses, TerminalStatuses

LEMMA CloseKeepsRows ==
  ASSUME TypeOK, CloseOpenTasks
  PROVE  Created' = Created
BY DEF TypeOK, CloseOpenTasks, Created, Open, OpenStatuses, TerminalStatuses

\* The arguments of TransitionTask are statuses of an inserted row.
LEMMA TransitionStatuses ==
  ASSUME NEW change \in TaskTransitions
  PROVE  /\ change[1] \in OpenStatuses
         /\ change[2] \in OpenStatuses \cup TerminalStatuses
         /\ change[2] \in OpenStatuses => AllowedJobStatuses(change[2]) = {"running"}
         /\ AllowedJobStatuses(change[2]) \subseteq Cancellable
BY DEF TaskTransitions, OpenStatuses, TerminalStatuses, AllowedJobStatuses, Cancellable

-----------------------------------------------------------------------------
\* Every column keeps the type its schema gives it.
THEOREM StoreTypeCorrect == Spec => []TypeOK
<1>1. Init => TypeOK
  BY DEF Init, TypeOK, JobStatuses, DispatchStatuses, Created
<1>2. TypeOK /\ [Next]_storeVars => TypeOK'
  <2> SUFFICES ASSUME TypeOK, [Next]_storeVars PROVE TypeOK'
    OBVIOUS
  <2> USE DEF JobStatuses, DispatchStatuses, OpenStatuses, TerminalStatuses
  <2>1. CASE JobNext
    <3>1. CASE CancelJob \/ CancelOpenTasks
      <4>1. CloseOpenTasks /\ jobStatus' \in JobStatuses
        BY <3>1 DEF CancelJob, CancelOpenTasks, TypeOK
      <4> QED BY <4>1, CloseKeepsRows DEF CloseOpenTasks, TypeOK
    <3>2. CASE UNCHANGED <<taskStatus, dispatch, rootLevel, taskCount>>
               /\ jobStatus' \in JobStatuses
      BY <3>2 DEF TypeOK, Created
    <3> QED BY <2>1, <3>1, <3>2 DEF JobNext, StartJob, PauseJob, ResumeJob, FailJob,
              TransitionJob, ResetJob, EnterFinalizing, FinalizeAs
  <2>2. ASSUME NEW t \in Tasks, TaskNext(t) PROVE TypeOK'
    <3>1. ASSUME NEW top \in BOOLEAN, CreateTask(t, top, {"pending", "running"})
          PROVE  TypeOK'
      <4>1. Created' = Created \cup {t}
        BY <3>1, CreateAddsOne DEF CreateTask
      <4> QED BY <3>1, <4>1 DEF CreateTask, TypeOK
    <3>2. ASSUME NEW change \in TaskTransitions, TransitionTask(t, change[1], change[2])
          PROVE  TypeOK'
      <4>1. t \in Created
        BY <3>2, TransitionStatuses DEF TransitionTask, Created
      <4>2. Created' = Created
        BY <3>2, <4>1, TransitionStatuses, UpdateKeepsRows DEF TransitionTask
      <4> QED BY <3>2, <4>2, TransitionStatuses DEF TransitionTask, TypeOK
    <3>3. CASE RequeueTask(t, {"pending", "running"})
      <4>1. Created' = Created
        BY <3>3, UpdateKeepsRows DEF RequeueTask
      <4> QED BY <3>3, <4>1 DEF RequeueTask, TypeOK
    <3>4. CASE ClaimDispatch(t) \/ CompleteDispatch(t) \/ ReleaseDispatch(t)
      BY <3>4 DEF ClaimDispatch, CompleteDispatch, ReleaseDispatch, SetDispatch,
                  TypeOK, Created
    <3> QED BY <2>2, <3>1, <3>2, <3>3, <3>4 DEF TaskNext
  <2>3. CASE UNCHANGED storeVars
    BY <2>3 DEF storeVars, TypeOK, Created
  <2> QED BY <2>1, <2>2, <2>3 DEF Next
<1> QED BY <1>1, <1>2, PTL DEF Spec

-----------------------------------------------------------------------------
\* The counter counts the rows and stays within maxTasks: the only writes to
\* it happen in the transaction that inserts the row.
THEOREM BudgetIsRespected == Spec => []BudgetRespected
<1>1. Init => BudgetRespected
  <2> SUFFICES ASSUME Init PROVE BudgetRespected
    OBVIOUS
  <2>1. Created = {}
    BY DEF Init, Created
  <2> QED BY <2>1, FS_EmptySet, MaxTasksAssumption DEF Init, BudgetRespected
<1>2. TypeOK /\ BudgetRespected /\ [Next]_storeVars => BudgetRespected'
  <2> SUFFICES ASSUME TypeOK, BudgetRespected, [Next]_storeVars PROVE BudgetRespected'
    OBVIOUS
  <2>1. ASSUME NEW t \in Tasks, NEW top \in BOOLEAN,
               CreateTask(t, top, {"pending", "running"})
        PROVE  BudgetRespected'
    <3>1. Cardinality(Created') = Cardinality(Created) + 1
      BY <2>1, CreateAddsOne DEF CreateTask
    <3> QED BY <2>1, <3>1, MaxTasksAssumption DEF CreateTask, TypeOK, BudgetRespected
  <2>2. CASE Created' = Created /\ taskCount' = taskCount
    BY <2>2 DEF BudgetRespected
  <2>3. ASSUME NEW t \in Tasks, TaskNext(t),
               ~ \E top \in BOOLEAN : CreateTask(t, top, {"pending", "running"})
        PROVE  Created' = Created /\ taskCount' = taskCount
    <3>1. ASSUME NEW change \in TaskTransitions, TransitionTask(t, change[1], change[2])
          PROVE  Created' = Created /\ taskCount' = taskCount
      <4>1. t \in Created
        BY <3>1, TransitionStatuses DEF TransitionTask, Created, OpenStatuses
      <4> QED BY <3>1, <4>1, TransitionStatuses, UpdateKeepsRows DEF TransitionTask
    <3>2. CASE RequeueTask(t, {"pending", "running"})
      BY <3>2, UpdateKeepsRows DEF RequeueTask, OpenStatuses
    <3>3. CASE ClaimDispatch(t) \/ CompleteDispatch(t) \/ ReleaseDispatch(t)
      BY <3>3 DEF ClaimDispatch, CompleteDispatch, ReleaseDispatch, SetDispatch, Created
    <3> QED BY <2>3, <3>1, <3>2, <3>3 DEF TaskNext
  <2>4. CASE JobNext
    <3>1. CASE CloseOpenTasks
      BY <3>1, <2>2, CloseKeepsRows DEF CloseOpenTasks
    <3>2. CASE UNCHANGED <<taskStatus, dispatch, rootLevel, taskCount>>
      BY <3>2, <2>2 DEF Created
    <3> QED BY <2>4, <3>1, <3>2 DEF JobNext, StartJob, PauseJob, ResumeJob, FailJob,
              TransitionJob, ResetJob, CancelJob, CancelOpenTasks, EnterFinalizing,
              FinalizeAs
  <2>5. CASE UNCHANGED storeVars
    BY <2>5, <2>2 DEF storeVars, Created
  <2> QED BY <2>1, <2>2, <2>3, <2>4, <2>5 DEF Next
<1> QED BY <1>1, <1>2, StoreTypeCorrect, PTL DEF Spec

-----------------------------------------------------------------------------
\* No late answer makes a canceled job progress.  The two facts need each
\* other: a release could reopen the dispatch of a canceled task if one could
\* still be claimed.
Quiescence == CanceledIsQuiescent /\ EndedBranchOwesNoDispatch

THEOREM CanceledStaysQuiescent == Spec => [](CanceledIsQuiescent /\ EndedBranchOwesNoDispatch)
<1> USE DEF OpenStatuses, TerminalStatuses, BranchEnds
<1>1. Init => Quiescence
  BY DEF Init, Quiescence, CanceledIsQuiescent, EndedBranchOwesNoDispatch
<1>2. TypeOK /\ Quiescence /\ [Next]_storeVars => Quiescence'
  <2> SUFFICES ASSUME TypeOK, Quiescence, [Next]_storeVars PROVE Quiescence'
    OBVIOUS
  <2>1. CASE JobNext
    <3>1. CASE CloseOpenTasks
      BY <3>1 DEF CloseOpenTasks, Quiescence, CanceledIsQuiescent,
                  EndedBranchOwesNoDispatch, Open, Created, TypeOK
    <3>2. CASE /\ UNCHANGED <<taskStatus, dispatch, rootLevel, taskCount>>
               /\ jobStatus' # "canceled"
      BY <3>2 DEF Quiescence, CanceledIsQuiescent, EndedBranchOwesNoDispatch
    <3> QED BY <2>1, <3>1, <3>2 DEF JobNext, StartJob, PauseJob, ResumeJob, FailJob,
              TransitionJob, ResetJob, CancelJob, CancelOpenTasks, EnterFinalizing,
              FinalizeAs
  <2>2. ASSUME NEW t \in Tasks, TaskNext(t) PROVE Quiescence'
    <3>1. ASSUME NEW top \in BOOLEAN, CreateTask(t, top, {"pending", "running"})
          PROVE  Quiescence'
      BY <3>1 DEF CreateTask, Quiescence, CanceledIsQuiescent,
                  EndedBranchOwesNoDispatch, TypeOK
    <3>2. ASSUME NEW change \in TaskTransitions, TransitionTask(t, change[1], change[2])
          PROVE  Quiescence'
      <4>1. jobStatus # "canceled" /\ jobStatus' = jobStatus
        BY <3>2, TransitionStatuses DEF TransitionTask, Cancellable
      <4>2. EndedBranchOwesNoDispatch'
        BY <3>2 DEF TransitionTask, Quiescence, EndedBranchOwesNoDispatch, TypeOK
      <4> QED BY <4>1, <4>2 DEF Quiescence, CanceledIsQuiescent
    <3>3. CASE RequeueTask(t, {"pending", "running"})
      BY <3>3 DEF RequeueTask, Quiescence, CanceledIsQuiescent,
                  EndedBranchOwesNoDispatch, TypeOK
    <3>4. CASE ClaimDispatch(t)
      BY <3>4 DEF ClaimDispatch, SetDispatch, Quiescence, CanceledIsQuiescent,
                  EndedBranchOwesNoDispatch, TypeOK
    <3>5. CASE CompleteDispatch(t)
      BY <3>5 DEF CompleteDispatch, SetDispatch, Quiescence, CanceledIsQuiescent,
                  EndedBranchOwesNoDispatch, TypeOK, Open, Created
    <3>6. CASE ReleaseDispatch(t)
      <4>1. taskStatus[t] \notin BranchEnds
        BY <3>6 DEF ReleaseDispatch, Quiescence, EndedBranchOwesNoDispatch
      <4>2. jobStatus = "canceled" => t \notin Created
        BY <3>6 DEF ReleaseDispatch, Quiescence, CanceledIsQuiescent
      <4> QED BY <3>6, <4>1, <4>2 DEF ReleaseDispatch, SetDispatch, Quiescence,
                CanceledIsQuiescent, EndedBranchOwesNoDispatch, TypeOK, Open, Created
    <3> QED BY <2>2, <3>1, <3>2, <3>3, <3>4, <3>5, <3>6 DEF TaskNext
  <2>3. CASE UNCHANGED storeVars
    BY <2>3 DEF storeVars, Quiescence, CanceledIsQuiescent,
                EndedBranchOwesNoDispatch, Open, Created
  <2> QED BY <2>1, <2>2, <2>3 DEF Next
<1> QED BY <1>1, <1>2, StoreTypeCorrect, PTL DEF Spec, Quiescence
=============================================================================

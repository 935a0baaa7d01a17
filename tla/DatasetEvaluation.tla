------------------------- MODULE DatasetEvaluation -------------------------
(***************************************************************************)
(* The coordinator of dataset evaluations (dataset-evaluations-queue.ts):  *)
(* a worker that takes one message at a time and runs the trials of its    *)
(* evaluation one after the other, each as a scan job.  The API calls of   *)
(* routers/dataset.ts write the same rows, most of them without looking at *)
(* what is there.  The scan of a trial is the job of ScanJobContract, with *)
(* the statuses the coordinator tells apart.                               *)
(***************************************************************************)
EXTENDS Integers, FiniteSets

CONSTANTS
  Evaluations,
  TrialCount,   \* samples times repetitions of an evaluation
  Requests,     \* slots for API calls in progress
  Kinds,        \* the calls made, a subset of {"start", "pause", "cancel"}
  Budgeted,     \* evaluations have a time budget
  MayFail,      \* a scan may be refused, a message may not be accepted
  MaxCalls, MaxCrashes   \* bounds on calls and restarts

ASSUME EvaluationsAssumption == Evaluations # {} /\ TrialCount \in Nat \ {0}
ASSUME KindsAssumption == Kinds \subseteq {"start", "pause", "cancel"}
ASSUME OptionsAssumption == Budgeted \in BOOLEAN /\ MayFail \in BOOLEAN
ASSUME BoundsAssumption == MaxCalls \in Nat /\ MaxCrashes \in Nat

\* A trial is known by its evaluation and its ordinal.
Ordinals == 1 .. TrialCount
Trials == Evaluations \X Ordinals
NoTrial == <<>>
Of(e) == {e} \X Ordinals

VARIABLES
  evaluation,   \* dataset_evaluations.status
  trial,        \* dataset_evaluation_trials.status, by trial
  linked,       \* the trials whose scanJobId is set
  scan,         \* scan_jobs.status of the job with that trial, or "none"
  scanMessage,  \* the message dataset-trial-<scanJobId> of the scans queue
  messages,     \* the evaluations with a message in their queue
  coordinator,  \* runDatasetEvaluation
  request,      \* API calls in progress
  startup,      \* the scans that the startup has yet to recover, or awaits
  calls, crashes

rows == <<evaluation, trial, linked>>
scans == <<scan, scanMessage>>
server == <<startup, calls, crashes>>
vars == <<rows, scans, messages, coordinator, request, server>>

-----------------------------------------------------------------------------
EvaluationStatuses == {"pending", "running", "paused", "completed",
                       "completed_with_errors", "failed", "canceled"}
ActiveTrialStatuses == {"preparing", "running"}
Verdicts == {"completed", "scan_failed", "scoring_failed", "timed_out", "canceled"}
ScanEnds == {"finished", "failed", "canceled"}   \* TERMINAL_SCAN_STATUSES
OpenScans == {"pending", "running", "paused"}    \* CANCELLABLE_JOB_STATUSES
ScanStatuses == {"none"} \cup OpenScans \cup {"finalizing"} \cup ScanEnds

First(ts) == CHOOSE t \in ts : \A u \in ts : t[2] <= u[2]
Pending(e) == {t \in Of(e) : trial[t] = "pending"}
Active(e) == {t \in Of(e) : trial[t] \in ActiveTrialStatuses}

Idle == [pc |-> "idle", e |-> "none", t |-> NoTrial, found |-> FALSE, known |-> FALSE,
         verdict |-> "none"]
At(pc) == coordinator.pc = pc
GoesTo(pc) == coordinator' = [coordinator EXCEPT !.pc = pc]
This == coordinator.t

SetEvaluation(e, status) == evaluation' = [evaluation EXCEPT ![e] = status]
SetTrial(t, status) == trial' = [trial EXCEPT ![t] = status]

\* cancelScanJob closes an open job and leaves as it is one that ended and one
\* that is finalizing: its tasks are done, and its status is still to be resolved.
Closed(status) == IF status \in OpenScans THEN "canceled" ELSE status
CloseScan(t) == scan' = [scan EXCEPT ![t] = Closed(@)]

-----------------------------------------------------------------------------
(* The coordinator. *)

\* The startup starts the workers once it has recovered the scans.
Served == \A t \in Trials : startup[t] = "done"

Take(e) ==
  /\ Served
  /\ At("idle") /\ e \in messages
  /\ messages' = messages \ {e}
  /\ coordinator' = [coordinator EXCEPT !.pc = "read", !.e = e]
  /\ UNCHANGED <<rows, scans, request, server>>

ReadsEvaluation ==
  /\ At("read")
  /\ IF evaluation[coordinator.e] \in {"pending", "running"}
     THEN GoesTo("begin") ELSE coordinator' = Idle
  /\ UNCHANGED <<rows, scans, messages, request, server>>

\* Written whatever the status has become.
Begins ==
  /\ At("begin")
  /\ SetEvaluation(coordinator.e, "running")
  /\ GoesTo("loop")
  /\ UNCHANGED <<trial, linked, scans, messages, request, server>>

\* A trial in progress is found, or the next one is to be claimed.
Finds(t) ==
  coordinator' = [coordinator EXCEPT !.pc = "check", !.t = t, !.found = TRUE,
                                     !.known = (t \in linked)]
Chooses(t) ==
  coordinator' = [coordinator EXCEPT !.pc = "claim", !.t = t, !.found = FALSE,
                                     !.known = FALSE]

\* Fault: a trial whose scan was not started yet is not found again.
LoopReadsRunning ==
  LET e == coordinator.e
      found == {t \in Active(e) : trial[t] = "running"} IN
  /\ At("loop") /\ evaluation[e] # "paused"
  /\ \/ evaluation[e] = "canceled" /\ coordinator' = Idle
     \/ evaluation[e] # "canceled" /\ found # {} /\ Finds(First(found))
     \/ /\ evaluation[e] # "canceled" /\ found = {} /\ Pending(e) # {}
        /\ Chooses(First(Pending(e)))
     \/ evaluation[e] # "canceled" /\ found \cup Pending(e) = {} /\ GoesTo("sum")
  /\ UNCHANGED <<rows, scans, messages, request, server>>

\* An iteration reads the evaluation - a paused one is slept over - then the
\* trial in progress, then the next one.
LoopReads ==
  LET e == coordinator.e IN
  /\ At("loop") /\ evaluation[e] # "paused"
  /\ \/ evaluation[e] = "canceled" /\ coordinator' = Idle
     \/ evaluation[e] # "canceled" /\ Active(e) # {} /\ Finds(First(Active(e)))
     \/ /\ evaluation[e] # "canceled" /\ Active(e) = {} /\ Pending(e) # {}
        /\ Chooses(First(Pending(e)))
     \/ evaluation[e] # "canceled" /\ Active(e) \cup Pending(e) = {} /\ GoesTo("sum")
  /\ UNCHANGED <<rows, scans, messages, request, server>>

\* claimNextTrial; a trial that is not pending any more ends the loop.
Claims ==
  /\ At("claim")
  /\ IF trial[This] = "pending"
     THEN SetTrial(This, "preparing") /\ GoesTo("check")
     ELSE UNCHANGED trial /\ GoesTo("sum")
  /\ UNCHANGED <<evaluation, linked, scans, messages, request, server>>

\* stateBeforeLaunch: a pause that came with the claim takes the claim back.
ChecksPause ==
  /\ At("check")
  /\ IF evaluation[coordinator.e] = "paused" /\ ~coordinator.found
     THEN /\ IF trial[This] = "preparing" THEN SetTrial(This, "pending") ELSE UNCHANGED trial
          /\ GoesTo("loop")
     ELSE UNCHANGED trial /\ GoesTo("create")
  /\ UNCHANGED <<evaluation, linked, scans, messages, request, server>>

\* processTrial: the job of the trial, which may exist already.
Creates ==
  /\ At("create")
  /\ scan' = IF ~coordinator.known /\ scan[This] = "none"
             THEN [scan EXCEPT ![This] = "pending"] ELSE scan
  /\ GoesTo(IF coordinator.known THEN "send" ELSE "link")
  /\ UNCHANGED <<rows, scanMessage, messages, request, server>>

Links ==
  /\ At("link")
  /\ IF trial[This] = "preparing"
     THEN SetTrial(This, "running") /\ linked' = linked \cup {This}
     ELSE UNCHANGED <<trial, linked>>
  /\ GoesTo("send")
  /\ UNCHANGED <<evaluation, scans, messages, request, server>>

\* The id of the message is that of the job: it is accepted once.
Sends ==
  /\ At("send")
  /\ scanMessage' = [scanMessage EXCEPT ![This] = IF @ = "none" THEN "sent" ELSE @]
  /\ GoesTo("wait")
  /\ UNCHANGED <<rows, scan, messages, request, server>>

\* A refused pipeline run or a queue that does not answer.
Throws ==
  /\ MayFail
  /\ At("send") \/ (At("create") /\ ~coordinator.known /\ scan[This] = "none")
  /\ GoesTo("failed")
  /\ UNCHANGED <<rows, scans, messages, request, server>>

Fails ==
  /\ At("failed")
  /\ SetEvaluation(coordinator.e, "failed")
  /\ coordinator' = Idle
  /\ UNCHANGED <<trial, linked, scans, messages, request, server>>

\* Fault: a canceled scan counts as a failed one.
OutcomeOfStopped(status) == IF status = "finished" THEN "completed" ELSE "scan_failed"

\* Fault: the trial gets the status of the scan.
OutcomeOfRaw(status) == status

\* What the trial is told of a scan that was not stopped by the budget.
OutcomeOf(status) ==
  CASE status = "finished" -> "completed"
    [] status = "canceled" -> "canceled"
    [] OTHER -> "scan_failed"

\* Fault: the wait ends with the evaluation and leaves the scan alone.
WaitCancelsQuietly ==
  /\ At("wait") /\ evaluation[coordinator.e] = "canceled"
  /\ coordinator' = [coordinator EXCEPT !.pc = "finish", !.verdict = "canceled"]
  /\ UNCHANGED <<rows, scans, messages, request, server>>

\* waitForScan of a canceled evaluation cancels the scan.
WaitCancels ==
  /\ At("wait") /\ evaluation[coordinator.e] = "canceled"
  /\ CloseScan(This)
  /\ coordinator' = [coordinator EXCEPT
       !.pc = IF Closed(scan[This]) = "finished" THEN "score" ELSE "finish",
       !.verdict = OutcomeOf(Closed(scan[This]))]
  /\ UNCHANGED <<rows, scanMessage, messages, request, server>>

WaitEnds ==
  /\ At("wait") /\ evaluation[coordinator.e] \notin {"canceled", "paused"}
  /\ scan[This] \in ScanEnds
  /\ coordinator' = [coordinator EXCEPT
       !.pc = IF scan[This] = "finished" THEN "score" ELSE "finish",
       !.verdict = OutcomeOf(scan[This])]
  /\ UNCHANGED <<rows, scans, messages, request, server>>

\* The time budget, which does not count the time the evaluation is paused.
WaitTimesOut ==
  /\ Budgeted
  /\ At("wait") /\ evaluation[coordinator.e] \notin {"canceled", "paused"}
  /\ scan[This] \notin ScanEnds
  /\ GoesTo("expire")
  /\ UNCHANGED <<rows, scans, messages, request, server>>

\* Fault: the trial times out, its scan goes on.
ExpiresAlone ==
  /\ At("expire")
  /\ coordinator' = [coordinator EXCEPT !.pc = "score", !.verdict = "timed_out"]
  /\ UNCHANGED <<rows, scans, messages, request, server>>

Expires ==
  /\ At("expire")
  /\ CloseScan(This)
  /\ coordinator' = [coordinator EXCEPT !.pc = "score", !.verdict = "timed_out"]
  /\ UNCHANGED <<rows, scanMessage, messages, request, server>>

\* scoreDatasetEvaluationTrial succeeds or fails.
Scores ==
  /\ At("score")
  /\ \E failed \in BOOLEAN :
       coordinator' = [coordinator EXCEPT !.pc = "finish",
         !.verdict = IF failed /\ @ = "completed" THEN "scoring_failed" ELSE @]
  /\ UNCHANGED <<rows, scans, messages, request, server>>

\* Fault: the verdict is written whatever the trial has become.
FinishesAlways ==
  /\ At("finish")
  /\ SetTrial(This, coordinator.verdict)
  /\ linked' = linked \cup {This}
  /\ GoesTo("loop")
  /\ UNCHANGED <<evaluation, scans, messages, request, server>>

\* finishTrial
Finishes ==
  /\ At("finish")
  /\ IF trial[This] \in ActiveTrialStatuses
     THEN SetTrial(This, coordinator.verdict) /\ linked' = linked \cup {This}
     ELSE UNCHANGED <<trial, linked>>
  /\ GoesTo("loop")
  /\ UNCHANGED <<evaluation, scans, messages, request, server>>

\* Fault: only scans that failed count as errors.
SumsUpFailures ==
  /\ At("sum")
  /\ coordinator' =
       IF evaluation[coordinator.e] = "canceled" THEN Idle
       ELSE [coordinator EXCEPT !.pc = "write", !.verdict =
               IF \E t \in Of(coordinator.e) : trial[t] = "scan_failed"
               THEN "completed_with_errors" ELSE "completed"]
  /\ UNCHANGED <<rows, scans, messages, request, server>>

\* The last read of the evaluation and of its trials, and the write.
SumsUp ==
  /\ At("sum")
  /\ coordinator' =
       IF evaluation[coordinator.e] = "canceled" THEN Idle
       ELSE [coordinator EXCEPT !.pc = "write", !.verdict =
               IF \E t \in Of(coordinator.e) : trial[t] # "completed"
               THEN "completed_with_errors" ELSE "completed"]
  /\ UNCHANGED <<rows, scans, messages, request, server>>

Ends ==
  /\ At("write")
  /\ SetEvaluation(coordinator.e, coordinator.verdict)
  /\ coordinator' = Idle
  /\ UNCHANGED <<trial, linked, scans, messages, request, server>>

CoordinatorNext ==
  \/ \E e \in Evaluations : Take(e)
  \/ ReadsEvaluation \/ Begins \/ LoopReads \/ Claims \/ ChecksPause
  \/ Creates \/ Links \/ Sends \/ Throws \/ Fails
  \/ WaitCancels \/ WaitEnds \/ WaitTimesOut \/ Expires
  \/ Scores \/ Finishes \/ SumsUp \/ Ends

-----------------------------------------------------------------------------
(* The scan jobs, as far as their statuses go. *)

\* The scans worker starts a pending job and drops the message of any other.
ScanStarts(t) ==
  /\ Served
  /\ scanMessage[t] = "sent"
  /\ scanMessage' = [scanMessage EXCEPT ![t] = "taken"]
  /\ scan' = [scan EXCEPT ![t] = IF @ = "pending" THEN "running" ELSE @]
  /\ UNCHANGED <<rows, messages, coordinator, request, server>>

ScanMoves(t, from, to) ==
  /\ scan[t] \in from /\ scan' = [scan EXCEPT ![t] = to]
  /\ UNCHANGED <<rows, scanMessage, messages, coordinator, request, server>>

\* A scan whose tasks are done settles, then gets its status, from its runtime
\* or from the startup.  Neither is certain: a cleanup may fail, a runtime stop.
ScanSettles(t) == ScanMoves(t, {"running"}, "finalizing")
ScanFinishes(t) == \E end \in {"finished", "failed"} : ScanMoves(t, {"finalizing"}, end)

\* The worker fails a scan whose runtime threw; a pause may have come before.
ScanFails(t) == ScanMoves(t, {"running", "paused"}, "failed")

ScanNext(t) == ScanStarts(t) \/ ScanSettles(t) \/ ScanFinishes(t) \/ ScanFails(t)

-----------------------------------------------------------------------------
(* API calls: they read the evaluation and the trial in progress, then act. *)

NoRequest == [kind |-> "none", step |-> "idle", e |-> "none", t |-> NoTrial]
RequestAt(r, kind, step) == request[r].kind = kind /\ request[r].step = step
StepTo(r, step) == request' = [request EXCEPT ![r].step = step]
Returns(r) == request' = [request EXCEPT ![r] = NoRequest]

\* The scan of the trial in progress, if it has one.
CurrentScan(e) ==
  IF Active(e) # {} /\ First(Active(e)) \in linked THEN First(Active(e)) ELSE NoTrial

\* The steps are those after the reads: "scan" when there is a scan to act on.
Calls(r, e, kind, otherwise) ==
  /\ kind \in Kinds /\ calls < MaxCalls /\ calls' = calls + 1
  /\ request[r] = NoRequest
  /\ request' = [request EXCEPT ![r] =
       [kind |-> kind, e |-> e, t |-> CurrentScan(e),
        step |-> IF CurrentScan(e) # NoTrial THEN "scan" ELSE otherwise]]
  /\ UNCHANGED <<rows, scans, messages, coordinator, startup, crashes>>

\* A running evaluation is left alone; the scan of a paused one is resumed.
StartReads(r, e) ==
  /\ evaluation[e] # "running"
  /\ IF evaluation[e] = "paused" THEN Calls(r, e, "start", "write")
     ELSE /\ "start" \in Kinds /\ calls < MaxCalls /\ calls' = calls + 1
          /\ request[r] = NoRequest
          /\ request' = [request EXCEPT ![r] =
               [kind |-> "start", e |-> e, t |-> NoTrial, step |-> "write"]]
          /\ UNCHANGED <<rows, scans, messages, coordinator, startup, crashes>>

\* resumeScanJob returns when the runtime it started has returned, done with the
\* scan or stopped while it settles; that it refuses a job that is not paused is
\* caught.
StartResumes(r) ==
  /\ RequestAt(r, "start", "scan")
  /\ scan' = [scan EXCEPT ![request[r].t] = IF @ = "paused" THEN "running" ELSE @]
  /\ StepTo(r, IF scan[request[r].t] = "paused" THEN "await" ELSE "write")
  /\ UNCHANGED <<rows, scanMessage, messages, coordinator, server>>

StartWrites(r) ==
  /\ \/ RequestAt(r, "start", "write")
     \/ RequestAt(r, "start", "await") /\ scan[request[r].t] # "running"
  /\ SetEvaluation(request[r].e, "pending")
  /\ StepTo(r, "send")
  /\ UNCHANGED <<trial, linked, scans, messages, coordinator, server>>

\* Fault: the message has the id of the first one and is not accepted.
StartSendsOnce(r) ==
  /\ RequestAt(r, "start", "send")
  /\ Returns(r)
  /\ UNCHANGED <<rows, scans, messages, coordinator, server>>

StartSends(r) ==
  /\ RequestAt(r, "start", "send")
  /\ messages' = messages \cup {request[r].e}
  /\ Returns(r)
  /\ UNCHANGED <<rows, scans, coordinator, server>>

\* pauseScanJob refuses a job that settles or ended, and the call with it.
PauseScan(r) ==
  /\ RequestAt(r, "pause", "scan")
  /\ IF scan[request[r].t] \in OpenScans
     THEN scan' = [scan EXCEPT ![request[r].t] = "paused"] /\ StepTo(r, "write")
     ELSE UNCHANGED scan /\ Returns(r)
  /\ UNCHANGED <<rows, scanMessage, messages, coordinator, server>>

PauseWrites(r) ==
  /\ RequestAt(r, "pause", "write")
  /\ SetEvaluation(request[r].e, "paused")
  /\ Returns(r)
  /\ UNCHANGED <<trial, linked, scans, messages, coordinator, server>>

CancelScan(r) ==
  /\ RequestAt(r, "cancel", "scan")
  /\ CloseScan(request[r].t)
  /\ StepTo(r, "trials")
  /\ UNCHANGED <<rows, scanMessage, messages, coordinator, server>>

CancelTrials(r) ==
  /\ RequestAt(r, "cancel", "trials")
  /\ trial' = [t \in Trials |->
       IF t \in Pending(request[r].e) \cup Active(request[r].e) THEN "canceled" ELSE trial[t]]
  /\ StepTo(r, "write")
  /\ UNCHANGED <<evaluation, linked, scans, messages, coordinator, server>>

CancelWrites(r) ==
  /\ RequestAt(r, "cancel", "write")
  /\ SetEvaluation(request[r].e, "canceled")
  /\ Returns(r)
  /\ UNCHANGED <<trial, linked, scans, messages, coordinator, server>>

Proceeds(r) ==
  \/ StartResumes(r) \/ StartWrites(r) \/ StartSends(r)
  \/ PauseScan(r) \/ PauseWrites(r)
  \/ CancelScan(r) \/ CancelTrials(r) \/ CancelWrites(r)

RequestNext(r) ==
  \/ \E e \in Evaluations :
       \/ StartReads(r, e) \/ Calls(r, e, "pause", "write") \/ Calls(r, e, "cancel", "trials")
  \/ Proceeds(r)

-----------------------------------------------------------------------------
(* Restarts of the server. *)

\* The memory of the server is lost.  A message in progress is delivered again;
\* recoverPendingDatasetEvaluations adds one for every evaluation that is not
\* paused or ended.
Reboots ==
  /\ messages' = messages
       \cup {e \in Evaluations : evaluation[e] \in {"pending", "running"}}
       \cup (IF At("idle") THEN {} ELSE {coordinator.e})
  /\ coordinator' = Idle
  /\ request' = [r \in Requests |-> NoRequest]
  /\ startup' = [t \in Trials |->
       IF scan[t] \in {"pending", "running"} THEN scan[t] ELSE "done"]
  /\ UNCHANGED <<rows, scans, calls>>

Restart ==
  /\ crashes < MaxCrashes /\ crashes' = crashes + 1
  /\ Reboots

Recovery(t, from, to) ==
  /\ startup[t] = from /\ startup' = [startup EXCEPT ![t] = to]
  /\ UNCHANGED <<rows, scanMessage, messages, coordinator, request, calls, crashes>>

\* recoverPendingFullScanQueues gives the scans a runtime one after the other,
\* and awaits each.
RecoversPending(t) ==
  /\ \A u \in Trials : startup[u] # "awaited"
  /\ Recovery(t, "pending", IF scan[t] = "pending" THEN "awaited" ELSE "done")
  /\ scan' = [scan EXCEPT ![t] = IF @ = "pending" THEN "running" ELSE @]

RecoversRunning(t) ==
  /\ scan[t] # "canceled" /\ \A u \in Trials : startup[u] # "awaited"
  /\ Recovery(t, "running", "awaited")
  /\ UNCHANGED scan

RecoveredReturns(t) ==
  /\ scan[t] # "running"
  /\ Recovery(t, "awaited", "done")
  /\ UNCHANGED scan

\* assertScanJobNotCancelled throws, and exitOnStartupError ends the process.
RecoveryExits(t) ==
  /\ startup[t] \in {"running", "awaited"} /\ scan[t] = "canceled"
  /\ Reboots
  /\ UNCHANGED crashes

StartupNext(t) ==
  RecoversPending(t) \/ RecoversRunning(t) \/ RecoveredReturns(t) \/ RecoveryExits(t)

-----------------------------------------------------------------------------
EvaluationInit ==
  /\ evaluation = [e \in Evaluations |-> "pending"]
  /\ trial = [t \in Trials |-> "pending"]
  /\ linked = {}
  /\ scan = [t \in Trials |-> "none"]
  /\ scanMessage = [t \in Trials |-> "none"]
  /\ messages = Evaluations
  /\ coordinator = Idle
  /\ request = [r \in Requests |-> NoRequest]
  /\ startup = [t \in Trials |-> "done"]
  /\ calls = 0 /\ crashes = 0

Next ==
  \/ CoordinatorNext
  \/ \E t \in Trials : ScanNext(t) \/ StartupNext(t)
  \/ \E r \in Requests : RequestNext(r)
  \/ Restart

EvaluationSpec == EvaluationInit /\ [][Next]_vars

\* The event loop of a live server takes every step it can and the scans worker
\* its messages; that a scan ends is not assumed.
Fairness ==
  /\ WF_vars(CoordinatorNext)
  /\ \A t \in Trials : WF_vars(ScanStarts(t)) /\ WF_vars(StartupNext(t))
  /\ \A r \in Requests : WF_vars(Proceeds(r))

FairEvaluationSpec == EvaluationSpec /\ Fairness

-----------------------------------------------------------------------------
Steps == {"idle", "read", "begin", "loop", "claim", "check", "create", "link", "send",
          "failed", "wait", "expire", "score", "finish", "sum", "write"}

\* Rows, coordinator and calls stay in their types; a step that needs a trial
\* has one, of the evaluation the coordinator works on.
EvaluationTypeOK ==
  /\ evaluation \in [Evaluations -> EvaluationStatuses]
  /\ trial \in [Trials -> {"pending"} \cup ActiveTrialStatuses \cup Verdicts]
  /\ linked \subseteq Trials
  /\ scan \in [Trials -> ScanStatuses]
  /\ scanMessage \in [Trials -> {"none", "sent", "taken"}]
  /\ messages \subseteq Evaluations
  /\ coordinator.pc \in Steps
  /\ coordinator.pc # "idle" => coordinator.e \in Evaluations
  /\ coordinator.pc \in {"claim", "check", "create", "link", "send", "wait", "expire",
                         "score", "finish"} => This \in Of(coordinator.e)
  /\ coordinator.pc \in {"score", "finish"} => coordinator.verdict \in Verdicts
  /\ coordinator.pc = "write" =>
       coordinator.verdict \in {"completed", "completed_with_errors"}
  /\ \A r \in Requests :
       request[r] # NoRequest =>
         /\ request[r].e \in Evaluations
         /\ request[r].step \in {"scan", "await"} => request[r].t \in Of(request[r].e)
  /\ startup \in [Trials -> {"done", "pending", "running", "awaited"}]
  /\ calls \in 0 .. MaxCalls /\ crashes \in 0 .. MaxCrashes

\* Trials are run one at a time and in their order: when one is in progress,
\* those before it have a verdict and none after it was begun, so that the
\* unique index on active trials never refuses a claim.
OneTrialInOrder ==
  \A e \in Evaluations : \A t \in Active(e) : \A u \in Of(e) :
    /\ u[2] < t[2] => trial[u] \in Verdicts
    /\ u[2] > t[2] => trial[u] = "pending"

\* The scans of an evaluation do not overlap, whatever is paused, canceled or
\* started again between them.  One that is finalizing is not counted: the next
\* scan may begin beside it when its trial timed out.
OneScanAtATime ==
  \A e \in Evaluations : \A t, u \in Of(e) :
    scan[t] \in OpenScans /\ scan[u] \in OpenScans => t = u

\* A verdict fits the scan it is about: only finished scans are completed, and a
\* trial said to have failed has a failed scan.  The scan of a trial that timed
\* out is not open any more; it may still be finalizing, and then finish, for
\* the budget does not look at that status and the cancellation does not stop it.
VerdictFitsScan ==
  \A t \in Trials :
    /\ trial[t] \in {"completed", "scoring_failed"} => scan[t] = "finished"
    /\ trial[t] = "scan_failed" => scan[t] = "failed"
    /\ trial[t] = "timed_out" => scan[t] \in ScanEnds \cup {"finalizing"}

\* An evaluation that is completed has a verdict for each of its trials, and
\* without errors all of them are completed.
CompletedIsComplete ==
  \A e \in Evaluations :
    /\ evaluation[e] = "completed" => \A t \in Of(e) : trial[t] = "completed"
    /\ evaluation[e] = "completed_with_errors" => \A t \in Of(e) : trial[t] \in Verdicts

\* A verdict is never taken back or replaced, by a late answer, a cancellation
\* or a second attempt after a restart.
VerdictIsFinal ==
  [][\A t \in Trials : trial[t] \in Verdicts => trial'[t] = trial[t]]_trial

\* The scan of a canceled evaluation is stopped although the call that canceled
\* it may have come before the scan was known.
CanceledScanStops ==
  \A t \in Trials :
    (evaluation[t[1]] = "canceled" /\ scan[t] \in OpenScans)
      ~> (evaluation[t[1]] # "canceled" \/ scan[t] \notin OpenScans)

\* Every trial of an evaluation gets its verdict, unless the evaluation is
\* paused or failed.
TrialsGetVerdicts ==
  \A t \in Trials :
    (trial[t] \notin Verdicts)
      ~> (trial[t] \in Verdicts \/ evaluation[t[1]] \in {"paused", "failed"})
=============================================================================

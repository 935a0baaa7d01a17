----------------------- MODULE DatasetEvaluationProofs -----------------------
(***************************************************************************)
(* The safety of DatasetEvaluation, for any evaluations, trials, calls and *)
(* restarts.  The argument: trials are decided in their order, so that the *)
(* decided ones are a prefix; the coordinator remembers a trial across     *)
(* steps between which everything but the scans before and after that      *)
(* trial may change.                                                       *)
(***************************************************************************)
EXTENDS DatasetEvaluation, WellFoundedInduction, TLAPS

-----------------------------------------------------------------------------
(* The inductive invariant. *)

WithTrial == {"claim", "check", "create", "link", "send", "wait", "expire", "score", "finish"}
Begun == WithTrial \ {"claim"}
TrialStatuses == {"pending"} \cup ActiveTrialStatuses \cup Verdicts

RequestTypes ==
  [kind : Kinds \cup {"none"},
   step : {"idle", "scan", "write", "await", "send", "trials"},
   e : Evaluations \cup {"none"}, t : Trials \cup {NoTrial}]

RowTypes ==
  /\ evaluation \in [Evaluations -> EvaluationStatuses]
  /\ trial \in [Trials -> TrialStatuses]
  /\ linked \subseteq Trials
  /\ scan \in [Trials -> ScanStatuses]
  /\ scanMessage \in [Trials -> {"none", "sent", "taken"}]
  /\ messages \subseteq Evaluations
  /\ startup \in [Trials -> {"done", "pending", "running", "awaited"}]
  /\ calls \in 0 .. MaxCalls /\ crashes \in 0 .. MaxCrashes

CoordinatorTypes ==
  /\ coordinator \in
       [pc : Steps, e : Evaluations \cup {"none"}, t : Trials \cup {NoTrial},
        found : BOOLEAN, known : BOOLEAN,
        verdict : Verdicts \cup {"none", "completed_with_errors"}]
  /\ coordinator.pc # "idle" => coordinator.e \in Evaluations
  /\ coordinator.pc \in WithTrial => This \in Of(coordinator.e)
  /\ coordinator.pc \in {"score", "finish"} => coordinator.verdict \in Verdicts
  /\ coordinator.pc = "write" =>
       coordinator.verdict \in {"completed", "completed_with_errors"}

CallTypes ==
  /\ request \in [Requests -> RequestTypes]
  /\ \A r \in Requests :
       /\ request[r].step = "idle" => request[r] = NoRequest
       /\ request[r].step # "idle" => request[r].e \in Evaluations
       /\ request[r].step \in {"scan", "await"} => request[r].t \in Of(request[r].e)

\* The trials with a verdict are the first ones, and at most one that has none
\* was begun.
DecidedFirst ==
  \A e \in Evaluations : \A t, u \in Of(e) :
    t[2] < u[2] /\ trial[t] \notin Verdicts => trial[u] = "pending"

\* A scan belongs to a trial that was begun; it follows scans that are not open
\* any more, and is not open when its trial is decided and the next is not.
ScansFollow ==
  /\ \A t \in Trials : trial[t] = "pending" => scan[t] = "none"
  /\ \A t \in linked : scan[t] # "none"
  /\ \A e \in Evaluations : \A t, u \in Of(e) :
          t[2] < u[2] /\ (scan[u] # "none" \/ (trial[t] \in Verdicts /\ trial[u] \notin Verdicts))
         => scan[t] \notin OpenScans

\* What the coordinator knows of the trial it works on stays true, although
\* the trial itself may be canceled at any moment: the scans around it ...
KnowsOrder ==
  coordinator.pc \in WithTrial =>
    \A u \in Of(coordinator.e) :
      /\ u[2] < This[2] => scan[u] \notin OpenScans /\ trial[u] \in Verdicts
      /\ u[2] > This[2] => scan[u] = "none"

\* ... what has become of the trial ...
KnowsTrials ==
  /\ coordinator.pc \in WithTrial =>
       trial[This] \notin Verdicts \/ \A t \in Of(coordinator.e) : trial[t] \in Verdicts
  /\ coordinator.pc = "claim" => trial[This] \in {"pending"} \cup Verdicts
  /\ coordinator.pc \in Begun => trial[This] # "pending"
  /\ coordinator.pc \in {"sum", "write"} =>
       \A t \in Of(coordinator.e) : trial[t] \in Verdicts
  /\ coordinator.pc = "write" /\ coordinator.verdict = "completed" =>
       \A t \in Of(coordinator.e) : trial[t] = "completed"

\* ... and of its scan.
KnowsScan ==
  /\ coordinator.pc = "check" /\ ~coordinator.found => scan[This] = "none"
  /\ coordinator.pc \in WithTrial /\ coordinator.known => This \in linked
  /\ coordinator.pc \in {"link", "send", "wait", "expire"} => scan[This] # "none"
  /\ coordinator.pc \in {"score", "finish"} =>
       /\ scan[This] \notin OpenScans \cup {"none"}
       /\ coordinator.verdict \in {"completed", "scoring_failed"} => scan[This] = "finished"
       /\ coordinator.verdict = "scan_failed" =>
            scan[This] = "failed" \/ trial[This] \in Verdicts
  /\ coordinator.pc = "score" => coordinator.verdict \in {"completed", "timed_out"}

\* A cancellation decides all trials before it writes: what the wait says of a
\* scan that was finalizing when the evaluation was canceled is not written.
CanceledIsDecided ==
  /\ \A e \in Evaluations : evaluation[e] = "canceled" => \A t \in Of(e) : trial[t] \in Verdicts
  /\ \A r \in Requests : RequestAt(r, "cancel", "write") =>
       \A t \in Of(request[r].e) : trial[t] \in Verdicts

CoordinatorKnows == KnowsOrder /\ KnowsTrials /\ KnowsScan

Types == RowTypes /\ CoordinatorTypes /\ CallTypes
EvaluationInv ==
  /\ Types
  /\ DecidedFirst /\ ScansFollow /\ CoordinatorKnows
  /\ VerdictFitsScan /\ CompletedIsComplete /\ CanceledIsDecided

-----------------------------------------------------------------------------
(* The first of some trials of an evaluation. *)

LEMMA FirstOf ==
  ASSUME NEW e \in Evaluations, NEW ts, ts \subseteq Of(e), ts # {}
  PROVE  First(ts) \in ts /\ \A u \in ts : First(ts)[2] <= u[2]
<1> DEFINE ns == {t[2] : t \in ts}
<1>1. ns \subseteq Nat /\ ns # {}
  BY EvaluationsAssumption DEF Of, Ordinals
<1> DEFINE less == OpToRel(<, Nat)
<1>2. \A n, m \in Nat : <<m, n>> \in less <=> m < n
  BY DEF OpToRel
<1> HIDE DEF less
<1>3. IsWellFoundedOn(less, Nat)
  BY NatLessThanWellFounded DEF less
<1>4. \E n \in ns : \A m \in ns : ~ (<<m, n>> \in less)
  BY <1>1, <1>3, WFMin
<1>5. PICK n \in ns : \A m \in ns : ~ (m < n)
  BY <1>1, <1>2, <1>4
<1>6. PICK t \in ts : t[2] = n
  OBVIOUS
<1>7. \A u \in ts : t[2] <= u[2]
  BY <1>1, <1>5, <1>6
<1> QED BY <1>7 DEF First

-----------------------------------------------------------------------------
(* Types. *)

LEMMA CoordinatorKeepsTypes ==
  ASSUME Types, CoordinatorNext
  PROVE  Types'
<1>20. UNCHANGED request
  BY DEF CoordinatorNext, Take, ReadsEvaluation, Begins, LoopReads, Claims, ChecksPause,
    Creates, Links, Sends, Throws, Fails, WaitCancels, WaitEnds, WaitTimesOut, Expires,
    Scores, Finishes, SumsUp, Ends
<1>0. CallTypes' <=> CallTypes
  BY <1>20 DEF CallTypes
<1> USE DEF Types, RowTypes, CoordinatorTypes, WithTrial, Steps, Idle, At, GoesTo,
            EvaluationStatuses, TrialStatuses, ActiveTrialStatuses, Verdicts, OpenScans,
            ScanEnds, ScanStatuses, rows, scans, server, This
<1>1. ASSUME NEW e \in Evaluations, Take(e) PROVE Types'
  BY <1>0, <1>1 DEF Take
<1>2. CASE ReadsEvaluation
  <2>1. GoesTo("begin") \/ coordinator' = Idle
    BY <1>2 DEF ReadsEvaluation
  <2>2. coordinator.pc = "read" /\ RowTypes'
    BY <1>2 DEF ReadsEvaluation
  <2>3. CASE GoesTo("begin") BY <1>0, <2>2, <2>3
  <2>4. CASE coordinator' = Idle BY <1>0, <2>2, <2>4
  <2> QED BY <2>1, <2>3, <2>4
<1>3. CASE Begins BY <1>0, <1>3 DEF Begins, SetEvaluation
<1>4. CASE LoopReads
  <2>1. coordinator.e \in Evaluations
    BY <1>4 DEF LoopReads
  <2>2. /\ Active(coordinator.e) # {} => First(Active(coordinator.e)) \in Of(coordinator.e)
        /\ Pending(coordinator.e) # {} => First(Pending(coordinator.e)) \in Of(coordinator.e)
    BY <2>1, FirstOf DEF Active, Pending
  <2>3. Of(coordinator.e) \subseteq Trials
    BY <2>1 DEF Of, Trials
  <2>4. ASSUME NEW t \in Of(coordinator.e), NEW pc \in {"check", "claim"},
               NEW found \in BOOLEAN, NEW known \in BOOLEAN,
               coordinator' = [coordinator EXCEPT !.pc = pc, !.t = t, !.found = found,
                                                  !.known = known]
        PROVE  CoordinatorTypes'
    <3>1. t \in Trials
      BY <2>3
    <3> QED BY <2>1, <2>4, <3>1
  <2>5. ASSUME NEW t \in Of(coordinator.e), Finds(t) \/ Chooses(t)
        PROVE  CoordinatorTypes'
    <3>1. (t \in linked) \in BOOLEAN
      OBVIOUS
    <3> QED BY <2>4, <2>5, <3>1 DEF Finds, Chooses
  <2>6. ASSUME coordinator' = Idle PROVE CoordinatorTypes'
    BY <2>6
  <2>7. ASSUME GoesTo("sum") PROVE CoordinatorTypes'
    BY <2>1, <2>7
  <2>8. CoordinatorTypes'
    BY <1>4, <2>2, <2>5, <2>6, <2>7 DEF LoopReads
  <2> QED BY <1>0, <1>4, <2>8 DEF LoopReads
<1>5. CASE Claims BY <1>0, <1>5 DEF Claims, SetTrial
<1>6. CASE ChecksPause
  <2>1. coordinator.pc = "check" /\ (GoesTo("loop") \/ GoesTo("create"))
    BY <1>6 DEF ChecksPause
  <2>2. CoordinatorTypes'
    BY <2>1
  <2>3. trial' \in [Trials -> TrialStatuses]
    BY <1>6 DEF ChecksPause, SetTrial
  <2> QED BY <1>0, <1>6, <2>2, <2>3 DEF ChecksPause
<1>7. CASE Creates
  <2>1. coordinator.pc = "create" /\ (GoesTo("send") \/ GoesTo("link"))
    BY <1>7 DEF Creates
  <2>2. CoordinatorTypes'
    BY <2>1
  <2>3. scan' \in [Trials -> ScanStatuses]
    <3>1. scan' = scan \/ scan' = [scan EXCEPT ![This] = "pending"]
      BY <1>7 DEF Creates
    <3> QED BY <3>1
  <2> QED BY <1>0, <1>7, <2>2, <2>3 DEF Creates
<1>8. CASE Links
  <2>1. coordinator.pc = "link" /\ GoesTo("send")
    BY <1>8 DEF Links
  <2>2. CoordinatorTypes'
    BY <2>1
  <2>3. This \in Trials
    BY <2>1 DEF Of, Trials
  <2>4. linked' \subseteq Trials
    BY <1>8, <2>3 DEF Links
  <2>5. trial' \in [Trials -> TrialStatuses]
    BY <1>8 DEF Links, SetTrial
  <2> QED BY <1>0, <1>8, <2>2, <2>4, <2>5 DEF Links
<1>9. CASE Sends BY <1>0, <1>9 DEF Sends
<1>10. CASE Throws BY <1>0, <1>10 DEF Throws
<1>11. CASE Fails BY <1>0, <1>11 DEF Fails, SetEvaluation
<1>12. CASE WaitCancels BY <1>0, <1>12 DEF WaitCancels, CloseScan, Closed, OutcomeOf
<1>13. CASE WaitEnds BY <1>0, <1>13 DEF WaitEnds, OutcomeOf
<1>14. CASE WaitTimesOut BY <1>0, <1>14 DEF WaitTimesOut
<1>15. CASE Expires BY <1>0, <1>15 DEF Expires, CloseScan, Closed
<1>16. CASE Scores
  <2>1. coordinator.pc = "score" /\ RowTypes'
    BY <1>16 DEF Scores
  <2>2. PICK failed \in BOOLEAN :
          coordinator' = [coordinator EXCEPT !.pc = "finish",
            !.verdict = IF failed /\ @ = "completed" THEN "scoring_failed" ELSE @]
    BY <1>16 DEF Scores
  <2>3. /\ coordinator' \in [pc : Steps, e : Evaluations \cup {"none"},
                             t : Trials \cup {NoTrial}, found : BOOLEAN, known : BOOLEAN,
                             verdict : Verdicts \cup {"none", "completed_with_errors"}]
        /\ coordinator'.pc = "finish" /\ coordinator'.verdict \in Verdicts
        /\ coordinator'.e = coordinator.e /\ coordinator'.t = coordinator.t
    BY <2>1, <2>2
  <2> QED BY <1>0, <2>1, <2>3
<1>17. CASE Finishes
  <2>1. coordinator.pc = "finish" /\ GoesTo("loop")
    BY <1>17 DEF Finishes
  <2>2. CoordinatorTypes'
    BY <2>1
  <2>3. This \in Trials
    BY <2>1 DEF Of, Trials
  <2>4. linked' \subseteq Trials
    BY <1>17, <2>3 DEF Finishes
  <2>5. trial' \in [Trials -> TrialStatuses]
    BY <1>17, <2>1 DEF Finishes, SetTrial
  <2> QED BY <1>0, <1>17, <2>2, <2>4, <2>5 DEF Finishes
<1>18. CASE SumsUp BY <1>0, <1>18 DEF SumsUp
<1>19. CASE Ends BY <1>0, <1>19 DEF Ends, SetEvaluation
<1> QED BY <1>1, <1>2, <1>3, <1>4, <1>5, <1>6, <1>7, <1>8, <1>9, <1>10, <1>11, <1>12,
           <1>13, <1>14, <1>15, <1>16, <1>17, <1>18, <1>19 DEF CoordinatorNext

\* The calls write rows and their own progress.
LEMMA CallsKeepTypes ==
  ASSUME Types, NEW r \in Requests, RequestNext(r)
  PROVE  Types'
<1> USE DEF Types, RowTypes, EvaluationStatuses, TrialStatuses, Verdicts, OpenScans,
            ScanEnds, ScanStatuses, rows, scans, server
<1>0. UNCHANGED coordinator /\ (CoordinatorTypes' <=> CoordinatorTypes)
  BY DEF RequestNext, StartReads, Calls, Proceeds, StartResumes, StartWrites, StartSends,
    PauseScan, PauseWrites, CancelScan, CancelTrials, CancelWrites, CoordinatorTypes, This
<1>1. /\ request[r] \in RequestTypes
      /\ request[r].step # "idle" => request[r].e \in Evaluations
      /\ request[r].step \in {"scan", "await"} => request[r].t \in Of(request[r].e)
  BY DEF CallTypes
<1>2. ASSUME NEW step \in {"write", "await", "send", "trials"}, StepTo(r, step),
             request[r].step # "idle", step = "await" => request[r].step = "scan"
      PROVE  CallTypes'
  BY <1>1, <1>2 DEF StepTo, CallTypes, RequestTypes
<1>3. ASSUME Returns(r) PROVE CallTypes'
  BY <1>3 DEF Returns, NoRequest, CallTypes, RequestTypes
<1>4. ASSUME NEW kind \in Kinds, NEW e \in Evaluations,
             NEW step \in {"scan", "write", "trials"}, NEW t \in Trials \cup {NoTrial},
             step = "scan" => t \in Of(e),
             request' = [request EXCEPT ![r] = [kind |-> kind, e |-> e, t |-> t, step |-> step]]
      PROVE  CallTypes'
  BY <1>4 DEF CallTypes, RequestTypes
<1>5. ASSUME NEW e \in Evaluations, NEW kind, NEW otherwise \in {"write", "trials"},
             Calls(r, e, kind, otherwise)
      PROVE  Types'
  <2>1. CurrentScan(e) # NoTrial => CurrentScan(e) \in Of(e)
    BY FirstOf DEF CurrentScan, Active
  <2>2. CurrentScan(e) \in Trials \cup {NoTrial}
    BY DEF CurrentScan
  <2>3. CallTypes'
    BY <1>4, <1>5, <2>1, <2>2 DEF Calls
  <2> QED BY <1>0, <1>5, <2>3, BoundsAssumption DEF Calls
<1>6. ASSUME NEW e \in Evaluations, StartReads(r, e) PROVE Types'
  <2>1. CASE evaluation[e] = "paused"
    BY <1>5, <1>6, <2>1 DEF StartReads
  <2>2. CASE evaluation[e] # "paused"
    <3>1. CallTypes'
      BY <1>4, <1>6, <2>2 DEF StartReads
    <3> QED BY <1>0, <1>6, <2>2, <3>1, BoundsAssumption DEF StartReads
  <2> QED BY <2>1, <2>2
<1> USE DEF RequestAt
<1>7. CASE StartResumes(r)
  <2>1. CallTypes' BY <1>1, <1>2, <1>7 DEF StartResumes
  <2> QED BY <1>0, <1>7, <2>1 DEF StartResumes
<1>8. CASE StartWrites(r)
  <2>1. CallTypes' BY <1>1, <1>2, <1>8 DEF StartWrites
  <2> QED BY <1>0, <1>1, <1>8, <2>1 DEF StartWrites, SetEvaluation
<1>9. CASE StartSends(r)
  <2>1. CallTypes' BY <1>3, <1>9 DEF StartSends
  <2> QED BY <1>0, <1>1, <1>9, <2>1 DEF StartSends
<1>10. CASE PauseScan(r)
  <2>1. CallTypes' BY <1>1, <1>2, <1>3, <1>10 DEF PauseScan
  <2> QED BY <1>0, <1>10, <2>1 DEF PauseScan
<1>11. CASE PauseWrites(r) \/ CancelWrites(r)
  <2>1. CallTypes' BY <1>3, <1>11 DEF PauseWrites, CancelWrites
  <2> QED BY <1>0, <1>1, <1>11, <2>1 DEF PauseWrites, CancelWrites, SetEvaluation
<1>12. CASE CancelScan(r)
  <2>1. CallTypes' BY <1>1, <1>2, <1>12 DEF CancelScan
  <2> QED BY <1>0, <1>12, <2>1 DEF CancelScan, CloseScan, Closed
<1>13. CASE CancelTrials(r)
  <2>1. CallTypes' BY <1>1, <1>2, <1>13 DEF CancelTrials
  <2> QED BY <1>0, <1>13, <2>1 DEF CancelTrials
<1> QED BY <1>5, <1>6, <1>7, <1>8, <1>9, <1>10, <1>11, <1>12, <1>13 DEF RequestNext, Proceeds

LEMMA TypesStep == ASSUME Types, [Next]_vars PROVE Types'
<1>1. ASSUME NEW t \in Trials, ScanNext(t) PROVE Types'
  BY <1>1 DEF ScanNext, ScanStarts, ScanSettles, ScanFinishes, ScanFails, ScanMoves, Types,
    RowTypes, CoordinatorTypes, CallTypes, This, OpenScans, ScanEnds, ScanStatuses, rows, server
<1>2. ASSUME Reboots, crashes' \in 0 .. MaxCrashes PROVE Types'
  <2>1. CallTypes'
    BY <1>2 DEF Reboots, CallTypes, RequestTypes, NoRequest
  <2>2. CoordinatorTypes'
    BY <1>2 DEF Reboots, CoordinatorTypes, Idle, This, Steps, WithTrial
  <2>3. startup' \in [Trials -> {"done", "pending", "running", "awaited"}]
    BY <1>2 DEF Reboots
  <2>4. messages' \subseteq Evaluations
    BY <1>2 DEF Reboots, Types, RowTypes, CoordinatorTypes, At
  <2> QED BY <1>2, <2>1, <2>2, <2>3, <2>4 DEF Reboots, Types, RowTypes, rows, scans
<1>4. CASE Restart
  <2>1. crashes' \in 0 .. MaxCrashes
    BY <1>4, BoundsAssumption DEF Restart, Types, RowTypes
  <2> QED BY <1>2, <1>4, <2>1 DEF Restart
<1>5. ASSUME NEW t \in Trials, StartupNext(t) PROVE Types'
  <2>1. CASE RecoveryExits(t)
    BY <1>2, <2>1 DEF RecoveryExits, Types, RowTypes
  <2>2. CASE RecoversPending(t) \/ RecoversRunning(t) \/ RecoveredReturns(t)
    BY <2>2 DEF RecoversPending, RecoversRunning, RecoveredReturns, Recovery, Types, RowTypes,
      CoordinatorTypes, CallTypes, This, OpenScans, ScanStatuses, rows
  <2> QED BY <1>5, <2>1, <2>2 DEF StartupNext
<1>3. CASE UNCHANGED vars
  BY <1>3 DEF vars, rows, scans, server, Types, RowTypes, CoordinatorTypes, CallTypes, This
<1> QED BY <1>1, <1>3, <1>4, <1>5, CoordinatorKeepsTypes, CallsKeepTypes DEF Next

-----------------------------------------------------------------------------
(* The rows and what the coordinator knows of them. *)

RowsInv == DecidedFirst /\ ScansFollow /\ VerdictFitsScan

\* What others than the coordinator do to a scan and to the trials: a scan
\* that is open goes on, settles or ends, and is never opened again; the
\* undecided trials are canceled together.
ScanGoesOn(t) ==
  scan'[t] # scan[t] =>
    /\ scan[t] \in OpenScans \cup {"finalizing"} /\ scan'[t] # "none"
    /\ scan'[t] \in OpenScans => scan[t] \in OpenScans
CanceledTogether ==
  \E e \in Evaluations :
    trial' = [t \in Trials |->
      IF t \in Pending(e) \cup Active(e) THEN "canceled" ELSE trial[t]]

LEMMA OthersKeepInv ==
  ASSUME Types, Types', RowsInv, CoordinatorKnows, UNCHANGED <<coordinator, linked>>,
         \A t \in Trials : ScanGoesOn(t), trial' = trial \/ CanceledTogether
  PROVE  RowsInv' /\ CoordinatorKnows'
<1> USE DEF Types, RowTypes, OpenScans, ScanEnds, ScanStatuses
<1>1. \A e \in Evaluations : Of(e) \subseteq Trials
  BY DEF Of, Trials
<1>2. \A t \in Trials : trial'[t] = trial[t] \/ (trial[t] \notin Verdicts /\ trial'[t] = "canceled")
  BY DEF CanceledTogether, Pending, Active, ActiveTrialStatuses, Verdicts, Of, Trials
<1>3. \A e \in Evaluations : \A t, u \in Of(e) :
        trial[t] \notin Verdicts /\ trial[u] \notin Verdicts /\ trial'[t] # trial[t]
          => trial'[u] = "canceled"
  <2>1. CASE trial' = trial
    BY <2>1, <1>1
  <2>2. ASSUME NEW c \in Evaluations,
               trial' = [t \in Trials |->
                 IF t \in Pending(c) \cup Active(c) THEN "canceled" ELSE trial[t]]
        PROVE  \A e \in Evaluations : \A t, u \in Of(e) :
                 trial[t] \notin Verdicts /\ trial[u] \notin Verdicts /\ trial'[t] # trial[t]
                   => trial'[u] = "canceled"
    <3> SUFFICES ASSUME NEW e \in Evaluations, NEW t \in Of(e), NEW u \in Of(e),
                        trial[t] \notin Verdicts, trial[u] \notin Verdicts,
                        trial'[t] # trial[t]
                 PROVE  trial'[u] = "canceled"
      OBVIOUS
    <3>1. t \in Of(c) /\ t \in Trials /\ u \in Trials
      BY <2>2, <1>1 DEF Pending, Active
    <3>2. e = c
      BY <3>1 DEF Of
    <3>3. trial[u] \in {"pending"} \cup ActiveTrialStatuses
      BY <3>1 DEF TrialStatuses
    <3> QED BY <2>2, <3>1, <3>2, <3>3 DEF Pending, Active
  <2> QED BY <2>1, <2>2 DEF CanceledTogether
<1>4. DecidedFirst'
  <2> SUFFICES ASSUME NEW e \in Evaluations, NEW t \in Of(e), NEW u \in Of(e),
                      t[2] < u[2], trial'[t] \notin Verdicts
               PROVE  trial'[u] = "pending"
    BY DEF DecidedFirst
  <2>1. trial'[t] = trial[t] /\ trial[u] = "pending"
    BY <1>1, <1>2 DEF RowsInv, DecidedFirst, Verdicts
  <2> QED BY <1>1, <1>2, <1>3, <2>1 DEF Verdicts
<1>5. \A t \in Trials :
        /\ scan[t] \notin OpenScans => scan'[t] \notin OpenScans
        /\ scan[t] # "none" <=> scan'[t] # "none"
        /\ scan[t] \in ScanEnds => scan'[t] = scan[t]
        /\ scan[t] = "finalizing" => scan'[t] \in ScanEnds \cup {"finalizing"}
  BY DEF ScanGoesOn
<1>6. ScansFollow'
  BY <1>1, <1>2, <1>3, <1>5 DEF RowsInv, ScansFollow, Verdicts
<1>7. VerdictFitsScan'
  BY <1>2, <1>5 DEF RowsInv, VerdictFitsScan, Verdicts
<1>8. CoordinatorKnows'
  <2>1. coordinator.pc \in WithTrial => coordinator.e \in Evaluations /\ This \in Trials
    BY <1>1 DEF CoordinatorTypes, WithTrial
  <2>2. coordinator.pc \in {"sum", "write"} => coordinator.e \in Evaluations
    BY DEF CoordinatorTypes
  <2> USE DEF CoordinatorKnows, This
  <2>3. coordinator.pc \in WithTrial =>
          /\ Of(coordinator.e) \subseteq Trials
          /\ This \in Of(coordinator.e) /\ This \in Trials
    BY <1>1, <2>1 DEF CoordinatorTypes
  <2>4. KnowsOrder'
    BY <1>2, <1>5, <2>3 DEF KnowsOrder, Verdicts
  <2>5. KnowsTrials'
    <3>1. /\ coordinator.pc \in WithTrial =>
               trial'[This] \notin Verdicts \/ \A u \in Of(coordinator.e) : trial'[u] \in Verdicts
          /\ coordinator.pc = "claim" => trial'[This] \in {"pending"} \cup Verdicts
      BY <1>2, <1>3, <2>1, <2>3 DEF KnowsTrials, WithTrial, Verdicts
    <3>2. coordinator.pc \in Begun => trial'[This] # "pending"
      BY <1>2, <2>3 DEF KnowsTrials, Begun
    <3>3. coordinator.pc \in {"sum", "write"} =>
            \A u \in Of(coordinator.e) : trial'[u] = trial[u]
      BY <1>1, <1>2, <2>2 DEF KnowsTrials
    <3> QED BY <3>1, <3>2, <3>3 DEF KnowsTrials
  <2>6. KnowsScan'
    <3>1. trial[This] \in Verdicts => trial'[This] = trial[This] \/ This \notin Trials
      BY <1>2
    <3> QED BY <1>5, <2>3, <3>1 DEF KnowsScan, WithTrial
  <2> QED BY <2>4, <2>5, <2>6
<1> QED BY <1>4, <1>6, <1>7, <1>8 DEF RowsInv

LEMMA RowsUnchanged ==
  ASSUME RowsInv, UNCHANGED <<trial, scan, linked>>
  PROVE  RowsInv'
BY DEF RowsInv, DecidedFirst, ScansFollow, VerdictFitsScan

\* The trial the loop selects is surrounded by ended scans and none.
LEMMA LoopKnows ==
  ASSUME Types, RowsInv, LoopReads
  PROVE  CoordinatorKnows'
<1> DEFINE e == coordinator.e
<1>1. e \in Evaluations /\ Of(e) \subseteq Trials
  BY DEF LoopReads, At, Types, CoordinatorTypes, Of, Trials
<1>2. UNCHANGED <<trial, scan, linked>>
  BY DEF LoopReads, rows, scans
<1>3. ASSUME NEW t \in Of(e), trial[t] \notin Verdicts, coordinator'.t = t, coordinator'.e = e,
             \A u \in Of(e) : u[2] < t[2] => trial[u] \in Verdicts
      PROVE  KnowsOrder'
  <2>1. ASSUME NEW u \in Of(e), u[2] < t[2] PROVE scan[u] \notin OpenScans
    BY <1>1, <1>3, <2>1 DEF RowsInv, ScansFollow
  <2>2. ASSUME NEW u \in Of(e), u[2] > t[2] PROVE scan[u] = "none"
    <3>1. trial[u] = "pending"
      BY <1>1, <1>3, <2>2, EvaluationsAssumption DEF RowsInv, DecidedFirst, Of, Ordinals
    <3> QED BY <1>1, <3>1 DEF RowsInv, ScansFollow
  <2> QED BY <1>2, <1>3, <2>1, <2>2 DEF KnowsOrder, This
<1>4. ASSUME NEW t \in Active(e), Finds(t), \A u \in Active(e) : t[2] <= u[2]
      PROVE  CoordinatorKnows'
  <2>1. t \in Of(e) /\ t \in Trials /\ trial[t] \in {"preparing", "running"}
    BY <1>1, <1>4 DEF Active, ActiveTrialStatuses
  <2>2. coordinator' = [coordinator EXCEPT !.pc = "check", !.t = t, !.found = TRUE,
                                           !.known = (t \in linked)]
    BY <1>4 DEF Finds
  <2>3. /\ coordinator'.t = t /\ coordinator'.e = e /\ coordinator'.pc = "check"
        /\ coordinator'.found = TRUE /\ coordinator'.known = (t \in linked)
    BY <2>2 DEF Types, CoordinatorTypes
  <2>4. ASSUME NEW u \in Of(e), u[2] < t[2] PROVE trial[u] \in Verdicts
    BY <1>1, <2>1, <2>4 DEF RowsInv, DecidedFirst
  <2>5. KnowsOrder'
    BY <1>3, <2>1, <2>3, <2>4 DEF Verdicts
  <2>6. KnowsTrials' /\ KnowsScan'
    BY <1>2, <2>1, <2>3 DEF KnowsTrials, KnowsScan, This, Begun, WithTrial, Verdicts
  <2> QED BY <2>5, <2>6 DEF CoordinatorKnows
<1>5. ASSUME Active(e) = {}, NEW t \in Pending(e), Chooses(t), \A u \in Pending(e) : t[2] <= u[2]
      PROVE  CoordinatorKnows'
  <2>1. t \in Of(e) /\ t \in Trials /\ trial[t] = "pending"
    BY <1>1, <1>5 DEF Pending
  <2>2. /\ coordinator'.t = t /\ coordinator'.e = e /\ coordinator'.pc = "claim"
        /\ coordinator'.known = FALSE
    BY <1>5 DEF Chooses, Types, CoordinatorTypes
  <2>3. ASSUME NEW u \in Of(e), u[2] < t[2] PROVE trial[u] \in Verdicts
    <3>1. u \notin Active(e) /\ u \notin Pending(e)
      BY <1>5, <2>1, <2>3, EvaluationsAssumption DEF Of, Ordinals
    <3> QED BY <1>1, <3>1 DEF Active, Pending, Types, RowTypes, TrialStatuses
  <2>4. KnowsOrder'
    BY <1>3, <2>1, <2>2, <2>3 DEF Verdicts
  <2>5. KnowsTrials' /\ KnowsScan'
    BY <1>2, <2>1, <2>2 DEF KnowsTrials, KnowsScan, This, Begun, WithTrial, Verdicts
  <2> QED BY <2>4, <2>5 DEF CoordinatorKnows
<1>6. ASSUME Active(e) \cup Pending(e) = {}, GoesTo("sum") PROVE CoordinatorKnows'
  <2>1. coordinator'.pc = "sum" /\ coordinator'.e = e
    BY <1>6 DEF GoesTo, Types, CoordinatorTypes
  <2>2. \A t \in Of(e) : trial[t] \in Verdicts
    BY <1>1, <1>6 DEF Active, Pending, Types, RowTypes, TrialStatuses
  <2> QED BY <1>2, <2>1, <2>2 DEF CoordinatorKnows, KnowsOrder, KnowsTrials, KnowsScan,
                WithTrial, Begun
<1>7. ASSUME coordinator' = Idle PROVE CoordinatorKnows'
  BY <1>7 DEF Idle, CoordinatorKnows, KnowsOrder, KnowsTrials, KnowsScan, WithTrial, Begun
<1>8. /\ Active(e) # {} =>
           First(Active(e)) \in Active(e) /\ \A u \in Active(e) : First(Active(e))[2] <= u[2]
      /\ Pending(e) # {} =>
           First(Pending(e)) \in Pending(e) /\ \A u \in Pending(e) : First(Pending(e))[2] <= u[2]
  BY <1>1, FirstOf DEF Active, Pending
<1> HIDE DEF e
<1> QED BY <1>4, <1>5, <1>6, <1>7, <1>8 DEF e, LoopReads

\* The coordinator writes the row of the trial it works on: the decided trials
\* remain the first ones.
LEMMA CoordinatorKeepsRows ==
  ASSUME Types, Types', RowsInv, CoordinatorKnows, CoordinatorNext
  PROVE  RowsInv'
<1> USE DEF Types, RowTypes, At, WithTrial, Begun, CoordinatorKnows, rows, scans, This
<1>1. \A e \in Evaluations : Of(e) \subseteq Trials /\ \A t, u \in Of(e) : t[2] = u[2] => t = u
  BY DEF Of, Trials
<1>2. \A e, f \in Evaluations : \A t \in Of(e) : t \in Of(f) => e = f
  BY DEF Of
<1>3. coordinator.pc \in WithTrial =>
        coordinator.e \in Evaluations /\ This \in Of(coordinator.e) /\ This \in Trials
  BY <1>1 DEF CoordinatorTypes
<1>4. \A t, u \in Trials : t[2] \in Int /\ u[2] \in Int
  BY EvaluationsAssumption DEF Trials, Ordinals
<1>5. ASSUME coordinator.pc \in WithTrial, UNCHANGED scan,
             linked' = linked \/ (linked' = linked \cup {This} /\ scan[This] # "none"),
             NEW status \in {"preparing", "running", "pending"}, SetTrial(This, status),
             trial[This] \in {"pending", "preparing"},
             status = "pending" => scan[This] = "none"
      PROVE  RowsInv'
  <2>1. \A t \in Trials : trial'[t] = IF t = This THEN status ELSE trial[t]
    BY <1>5 DEF SetTrial
  <2>2. trial[This] \notin Verdicts /\ status \notin Verdicts
    BY <1>5 DEF Verdicts
  <2>3. DecidedFirst'
    <3> SUFFICES ASSUME NEW e \in Evaluations, NEW t \in Of(e), NEW u \in Of(e),
                        t[2] < u[2], trial'[t] \notin Verdicts
                 PROVE  trial'[u] = "pending"
      BY DEF DecidedFirst
    <3>1. trial[t] \notin Verdicts /\ trial[u] = "pending"
      BY <1>1, <2>1, <2>2 DEF RowsInv, DecidedFirst
    <3>2. u # This
      BY <1>2, <1>3, <1>5, <3>1, <2>2 DEF KnowsOrder
    <3> QED BY <1>1, <2>1, <3>1, <3>2
  <2>4. ScansFollow'
    BY <1>1, <1>5, <2>1, <2>2 DEF RowsInv, ScansFollow
  <2>5. VerdictFitsScan'
    BY <1>5, <2>1, <2>2 DEF RowsInv, VerdictFitsScan, Verdicts
  <2> QED BY <2>3, <2>4, <2>5 DEF RowsInv
<1>6. ASSUME coordinator.pc \in WithTrial, UNCHANGED <<trial, linked>>,
             scan' = [scan EXCEPT ![This] = Closed(@)]
      PROVE  RowsInv'
  <2>1. \A t \in Trials : ScanGoesOn(t)
    BY <1>3, <1>6 DEF ScanGoesOn, Closed, OpenScans
  <2>2. \A t \in Trials : /\ scan[t] \notin OpenScans => scan'[t] = scan[t]
                          /\ scan[t] # "none" <=> scan'[t] # "none"
    BY <1>3, <1>6 DEF Closed, OpenScans
  <2>3. DecidedFirst' /\ VerdictFitsScan'
    BY <1>6, <2>2 DEF RowsInv, DecidedFirst, VerdictFitsScan, OpenScans, ScanEnds
  <2>4. ScansFollow'
    BY <1>1, <1>6, <2>1, <2>2 DEF RowsInv, ScansFollow, ScanGoesOn, OpenScans, ScanEnds
  <2> QED BY <2>3, <2>4 DEF RowsInv
<1>7. CASE Claims
  BY <1>3, <1>5, <1>7, RowsUnchanged DEF Claims
<1>8. CASE ChecksPause
  BY <1>3, <1>5, <1>8, RowsUnchanged DEF ChecksPause, KnowsScan
<1>9. CASE Creates
  <2>1. CASE scan' = scan
    BY <1>9, <2>1, RowsUnchanged DEF Creates
  <2>2. CASE scan' = [scan EXCEPT ![This] = "pending"] /\ scan[This] = "none"
    <3>1. \A t \in Trials : scan'[t] = IF t = This THEN "pending" ELSE scan[t]
      BY <2>2
    <3>2. UNCHANGED <<trial, linked>> /\ coordinator.pc = "create" /\ trial[This] # "pending"
      BY <1>9 DEF Creates, KnowsTrials
    <3>3. DecidedFirst'
      BY <3>2 DEF RowsInv, DecidedFirst
    <3>4. VerdictFitsScan'
      BY <1>3, <2>2, <3>1, <3>2 DEF RowsInv, VerdictFitsScan, ScanEnds
    <3>5. \A t \in Trials : trial'[t] = "pending" => scan'[t] = "none"
      BY <3>1, <3>2 DEF RowsInv, ScansFollow
    <3>6. \A t \in linked' : scan'[t] # "none"
      BY <3>1, <3>2 DEF RowsInv, ScansFollow
    <3>7. ASSUME NEW e \in Evaluations, NEW t \in Of(e), NEW u \in Of(e), t[2] < u[2],
                 scan'[u] # "none" \/ (trial'[t] \in Verdicts /\ trial'[u] \notin Verdicts)
          PROVE  scan'[t] \notin OpenScans
      <4>1. CASE t # This /\ u # This
        BY <1>1, <3>1, <3>2, <3>7, <4>1 DEF RowsInv, ScansFollow
      <4>2. CASE u = This
        <5>1. e = coordinator.e /\ t # This
          BY <1>2, <1>3, <1>4, <1>1, <3>2, <3>7, <4>2
        <5> QED BY <1>1, <3>1, <3>2, <3>7, <4>2, <5>1 DEF KnowsOrder
      <4>3. CASE t = This
        <5>1. e = coordinator.e /\ u # This /\ u[2] > This[2]
          BY <1>1, <1>2, <1>3, <1>4, <3>2, <3>7, <4>3
        <5>2. scan'[u] = "none"
          BY <1>1, <3>1, <3>2, <5>1 DEF KnowsOrder
        <5> QED BY <3>2, <3>7, <4>3, <5>1, <5>2 DEF KnowsTrials
      <4> QED BY <4>1, <4>2, <4>3
    <3>8. ScansFollow'
      BY <3>5, <3>6, <3>7 DEF ScansFollow
    <3> QED BY <3>3, <3>4, <3>8 DEF RowsInv
  <2> QED BY <1>9, <2>1, <2>2 DEF Creates
<1>10. CASE Links
  BY <1>3, <1>5, <1>10, RowsUnchanged DEF Links, KnowsScan
<1>11. CASE WaitCancels \/ Expires
  BY <1>6, <1>11 DEF WaitCancels, Expires, CloseScan
<1>12. CASE Finishes
  <2>1. CASE UNCHANGED <<trial, linked>>
    BY <1>12, <2>1, RowsUnchanged DEF Finishes
  <2>2. CASE /\ trial[This] \in ActiveTrialStatuses
             /\ SetTrial(This, coordinator.verdict) /\ linked' = linked \cup {This}
    <3>1. UNCHANGED scan /\ coordinator.pc = "finish"
            /\ coordinator.verdict \in Verdicts /\ scan[This] \notin OpenScans \cup {"none"}
      BY <1>12 DEF Finishes, CoordinatorTypes, KnowsScan
    <3>2. \A t \in Trials : trial'[t] = IF t = This THEN coordinator.verdict ELSE trial[t]
      BY <2>2 DEF SetTrial
    <3>3. DecidedFirst'
      <4> SUFFICES ASSUME NEW e \in Evaluations, NEW t \in Of(e), NEW u \in Of(e),
                          t[2] < u[2], trial'[t] \notin Verdicts
                   PROVE  trial'[u] = "pending"
        BY DEF DecidedFirst
      <4>1. t # This /\ trial[t] \notin Verdicts /\ trial[u] = "pending"
        BY <1>1, <3>1, <3>2 DEF RowsInv, DecidedFirst
      <4>2. u # This
        BY <2>2, <4>1 DEF ActiveTrialStatuses
      <4> QED BY <1>1, <3>2, <4>1, <4>2
    <3>4. VerdictFitsScan'
      <4>1. scan[This] \in ScanEnds \cup {"finalizing"}
        BY <1>3, <3>1 DEF ScanStatuses
      <4>2. trial[This] \notin Verdicts
        BY <2>2 DEF ActiveTrialStatuses, Verdicts
      <4> QED BY <1>3, <3>1, <3>2, <4>1, <4>2 DEF RowsInv, VerdictFitsScan, KnowsScan
    <3>5. ScansFollow'
      <4>1. \A t \in Trials : trial'[t] = "pending" => trial[t] = "pending"
        BY <3>1, <3>2 DEF Verdicts
      <4>2. \A t \in linked' : scan[t] # "none"
        BY <2>2, <3>1 DEF RowsInv, ScansFollow
      <4>3. scan[This] \notin OpenScans
        BY <3>1
      <4>4. \A t \in Trials : t # This => trial'[t] = trial[t]
        BY <3>2
      <4>5. trial'[This] \in Verdicts
        BY <1>3, <3>1, <3>2
      <4> QED BY <1>1, <3>1, <4>1, <4>2, <4>3, <4>4, <4>5 DEF RowsInv, ScansFollow
    <3> QED BY <3>3, <3>4, <3>5 DEF RowsInv
  <2> QED BY <1>12, <2>1, <2>2 DEF Finishes
<1>13. ASSUME \/ \E e \in Evaluations : Take(e)
              \/ ReadsEvaluation \/ Begins \/ LoopReads \/ Sends \/ Throws \/ Fails
              \/ WaitEnds \/ WaitTimesOut \/ Scores \/ SumsUp \/ Ends
       PROVE  RowsInv'
  BY <1>13, RowsUnchanged DEF Take, ReadsEvaluation, Begins, LoopReads, Sends, Throws, Fails,
    WaitEnds, WaitTimesOut, Scores, SumsUp, Ends
<1> QED BY <1>7, <1>8, <1>9, <1>10, <1>11, <1>12, <1>13 DEF CoordinatorNext

\* Each step of the coordinator hands on what the next one relies on.
LEMMA CoordinatorKeepsKnowing ==
  ASSUME Types, Types', RowsInv, CoordinatorKnows, CanceledIsDecided, CoordinatorNext
  PROVE  CoordinatorKnows'
<1> USE DEF Types, RowTypes, At, GoesTo, CoordinatorKnows, rows, scans, This
<1>1. \A c \in Evaluations : Of(c) \subseteq Trials
  BY DEF Of, Trials
<1>2. coordinator.pc \in WithTrial =>
        coordinator.e \in Evaluations /\ This \in Of(coordinator.e) /\ This \in Trials
  BY <1>1 DEF CoordinatorTypes, WithTrial
<1>3. ASSUME coordinator'.pc \notin WithTrial \cup {"sum", "write"} PROVE CoordinatorKnows'
  BY <1>3 DEF KnowsOrder, KnowsTrials, KnowsScan, WithTrial, Begun
<1>4. ASSUME coordinator.pc \in WithTrial, coordinator'.t = coordinator.t,
             coordinator'.e = coordinator.e,
             \A t \in Trials : t # This => trial'[t] = trial[t] /\ scan'[t] = scan[t]
      PROVE  KnowsOrder'
  <2>1. \A u \in Of(coordinator.e) :
          u[2] < This[2] \/ u[2] > This[2] => trial'[u] = trial[u] /\ scan'[u] = scan[u]
    BY <1>1, <1>2, <1>4, EvaluationsAssumption DEF Trials, Ordinals
  <2> QED BY <1>4, <2>1 DEF KnowsOrder
<1>5. CASE (\E c \in Evaluations : Take(c)) \/ ReadsEvaluation \/ Begins \/ Fails \/ Ends
  <2>1. CASE \E c \in Evaluations : Take(c)
    <3>1. coordinator'.pc = "read"
      BY <2>1 DEF Take, CoordinatorTypes
    <3> QED BY <1>3, <3>1 DEF WithTrial
  <2>2. ASSUME coordinator' = Idle PROVE CoordinatorKnows'
    <3>1. coordinator'.pc = "idle"
      BY <2>2 DEF Idle
    <3> QED BY <1>3, <3>1 DEF WithTrial
  <2>3. ASSUME NEW pc \in {"begin", "loop"}, GoesTo(pc) PROVE CoordinatorKnows'
    <3>1. coordinator'.pc = pc
      BY <2>3 DEF CoordinatorTypes
    <3> QED BY <1>3, <3>1 DEF WithTrial
  <2> QED BY <1>5, <2>1, <2>2, <2>3 DEF ReadsEvaluation, Begins, Fails, Ends
<1>6. CASE LoopReads
  BY <1>6, LoopKnows
<1> USE DEF WithTrial, Begun, CoordinatorTypes
<1>7. CASE Claims
  <2>1. CASE trial[This] = "pending" /\ SetTrial(This, "preparing") /\ GoesTo("check")
    <3>1. UNCHANGED <<scan, linked>> /\ coordinator.pc = "claim"
      BY <1>7 DEF Claims
    <3>2. \A t \in Trials : trial'[t] = IF t = This THEN "preparing" ELSE trial[t]
      BY <2>1 DEF SetTrial
    <3>3. KnowsOrder'
      BY <1>4, <2>1, <3>1, <3>2
    <3>4. scan[This] = "none"
      BY <1>2, <2>1, <3>1 DEF RowsInv, ScansFollow
    <3>5. /\ coordinator'.pc = "check" /\ coordinator'.t = This
          /\ coordinator'.known = coordinator.known /\ trial'[This] = "preparing"
      BY <1>2, <2>1, <3>1, <3>2
    <3> QED BY <3>1, <3>3, <3>4, <3>5 DEF KnowsTrials, KnowsScan, Verdicts
  <2>2. CASE trial[This] # "pending" /\ UNCHANGED trial /\ GoesTo("sum")
    <3>1. coordinator.pc = "claim" /\ \A t \in Of(coordinator.e) : trial[t] \in Verdicts
      BY <1>7, <2>2 DEF Claims, KnowsTrials
    <3> QED BY <2>2, <3>1 DEF KnowsOrder, KnowsTrials, KnowsScan
  <2> QED BY <1>7, <2>1, <2>2 DEF Claims
<1>8. CASE ChecksPause
  <2>1. CASE GoesTo("loop")
    <3>1. coordinator'.pc = "loop"
      BY <2>1
    <3> QED BY <1>3, <3>1
  <2>2. CASE UNCHANGED trial /\ GoesTo("create")
    <3>1. UNCHANGED <<scan, linked>> /\ coordinator.pc = "check"
      BY <1>8 DEF ChecksPause
    <3>2. KnowsOrder'
      BY <1>4, <2>2, <3>1
    <3> QED BY <2>2, <3>1, <3>2 DEF KnowsTrials, KnowsScan
  <2> QED BY <1>8, <2>1, <2>2 DEF ChecksPause
<1>9. CASE Creates
  <2>1. /\ UNCHANGED <<trial, linked>> /\ coordinator.pc = "create"
        /\ coordinator'.pc \in {"send", "link"} /\ coordinator'.t = coordinator.t
        /\ coordinator'.e = coordinator.e /\ coordinator'.known = coordinator.known
        /\ \A t \in Trials : t # This => scan'[t] = scan[t]
    BY <1>9 DEF Creates
  <2>2. scan'[This] # "none"
    <3>1. coordinator.known => scan[This] # "none"
      BY <2>1 DEF KnowsScan, RowsInv, ScansFollow
    <3> QED BY <1>2, <1>9, <2>1, <3>1 DEF Creates
  <2>3. KnowsOrder'
    BY <1>4, <2>1
  <2>4. KnowsTrials'
    BY <2>1 DEF KnowsTrials
  <2> QED BY <2>1, <2>2, <2>3, <2>4 DEF KnowsScan
<1>10. CASE Links
  <2>1. /\ coordinator.pc = "link" /\ coordinator'.pc = "send" /\ UNCHANGED scan
        /\ coordinator'.t = coordinator.t /\ coordinator'.e = coordinator.e
        /\ coordinator'.known = coordinator.known /\ linked \subseteq linked'
    BY <1>10 DEF Links
  <2>2. \A t \in Trials : /\ t # This => trial'[t] = trial[t]
                          /\ trial'[t] # trial[t] => trial'[t] = "running"
                          /\ trial'[t] # trial[t] => trial[t] = "preparing"
    BY <1>2, <1>10, <2>1 DEF Links, SetTrial
  <2>3. KnowsOrder'
    BY <1>4, <2>1, <2>2
  <2>4. KnowsTrials'
    BY <1>1, <1>2, <2>1, <2>2 DEF KnowsTrials, Verdicts
  <2> QED BY <2>1, <2>3, <2>4 DEF KnowsScan
<1>11. CASE Sends \/ WaitTimesOut
  <2>1. /\ coordinator.pc \in {"send", "wait"} /\ coordinator'.pc \in {"wait", "expire"}
        /\ UNCHANGED <<trial, linked, scan>>
        /\ coordinator'.t = coordinator.t /\ coordinator'.e = coordinator.e
        /\ coordinator'.known = coordinator.known
    BY <1>11 DEF Sends, WaitTimesOut
  <2>2. KnowsOrder'
    BY <1>4, <2>1
  <2> QED BY <2>1, <2>2 DEF KnowsTrials, KnowsScan
<1>12. CASE Throws
  <2>1. coordinator'.pc = "failed"
    BY <1>12 DEF Throws
  <2> QED BY <1>3, <2>1
<1>13. CASE WaitCancels \/ WaitEnds \/ Expires
  <2>1. /\ coordinator.pc \in {"wait", "expire"} /\ coordinator'.pc \in {"score", "finish"}
        /\ UNCHANGED <<trial, linked>> /\ \A t \in Trials : t # This => scan'[t] = scan[t]
        /\ coordinator'.t = coordinator.t /\ coordinator'.e = coordinator.e
        /\ coordinator'.known = coordinator.known
    <3>1. \A t \in Trials : CloseScan(This) => (t # This => scan'[t] = scan[t])
      BY DEF CloseScan
    <3>2. CASE WaitCancels BY <3>1, <3>2 DEF WaitCancels
    <3>3. CASE WaitEnds BY <3>3 DEF WaitEnds
    <3>4. CASE Expires BY <3>1, <3>4 DEF Expires
    <3> QED BY <1>13, <3>2, <3>3, <3>4
  <2>2. /\ scan'[This] \notin OpenScans \cup {"none"}
        /\ coordinator'.verdict \in {"completed", "scoring_failed"} => scan'[This] = "finished"
        /\ coordinator'.verdict = "scan_failed" =>
             scan'[This] = "failed" \/ trial[This] \in Verdicts
        /\ coordinator'.pc = "score" => coordinator'.verdict \in {"completed", "timed_out"}
    <3>1. scan[This] \in ScanStatuses \ {"none"}
      BY <1>2, <2>1 DEF KnowsScan
    <3>2. Closed(scan[This]) \in ScanEnds \cup {"finalizing"}
      BY <3>1 DEF Closed, OpenScans, ScanEnds, ScanStatuses
    <3>3. CASE WaitCancels
      <4>1. scan'[This] = Closed(scan[This])
        BY <1>2, <2>1, <3>3 DEF WaitCancels, CloseScan
      <4>2. /\ coordinator'.verdict = OutcomeOf(Closed(scan[This]))
            /\ coordinator'.pc = IF Closed(scan[This]) = "finished" THEN "score" ELSE "finish"
        BY <3>3 DEF WaitCancels
      <4>3. trial[This] \in Verdicts
        BY <1>2, <2>1, <3>3 DEF WaitCancels, CanceledIsDecided
      <4> QED BY <3>2, <4>1, <4>2, <4>3 DEF OutcomeOf, OpenScans, ScanEnds
    <3>4. CASE WaitEnds
      <4>1. /\ coordinator'.verdict = OutcomeOf(scan[This])
            /\ coordinator'.pc = IF scan[This] = "finished" THEN "score" ELSE "finish"
            /\ scan'[This] = scan[This] /\ scan[This] \in ScanEnds
        BY <3>4 DEF WaitEnds
      <4> QED BY <4>1 DEF OutcomeOf, OpenScans, ScanEnds
    <3>5. CASE Expires
      <4>1. scan'[This] = Closed(scan[This]) /\ coordinator'.verdict = "timed_out"
        BY <1>2, <2>1, <3>5 DEF Expires, CloseScan
      <4> QED BY <3>2, <4>1 DEF OpenScans, ScanEnds
    <3> QED BY <1>13, <3>3, <3>4, <3>5
  <2>3. KnowsOrder'
    BY <1>4, <2>1
  <2>4. KnowsTrials'
    BY <2>1 DEF KnowsTrials
  <2> QED BY <2>1, <2>2, <2>3, <2>4 DEF KnowsScan
<1>14. CASE Scores
  <2>1. /\ coordinator.pc = "score" /\ coordinator'.pc = "finish"
        /\ UNCHANGED <<trial, linked, scan>>
        /\ coordinator'.t = coordinator.t /\ coordinator'.e = coordinator.e
        /\ coordinator'.known = coordinator.known
        /\ \/ coordinator'.verdict = coordinator.verdict
           \/ coordinator.verdict = "completed" /\ coordinator'.verdict = "scoring_failed"
    BY <1>14 DEF Scores
  <2>2. KnowsOrder'
    BY <1>4, <2>1
  <2> QED BY <2>1, <2>2 DEF KnowsTrials, KnowsScan
<1>15. CASE Finishes
  <2>1. coordinator'.pc = "loop"
    BY <1>15 DEF Finishes
  <2> QED BY <1>3, <2>1
<1>16. CASE SumsUp
  <2>1. coordinator.pc = "sum" /\ UNCHANGED <<trial, linked, scan>>
          /\ \A t \in Of(coordinator.e) : trial[t] \in Verdicts
    BY <1>16 DEF SumsUp, KnowsTrials
  <2>2. CASE coordinator' = Idle
    <3>1. coordinator'.pc = "idle"
      BY <2>2 DEF Idle
    <3> QED BY <1>3, <3>1
  <2>3. CASE /\ coordinator'.pc = "write" /\ coordinator'.e = coordinator.e
             /\ coordinator'.verdict = "completed"
                  => \A t \in Of(coordinator.e) : trial[t] = "completed"
    BY <2>1, <2>3 DEF KnowsOrder, KnowsTrials, KnowsScan
  <2> QED BY <1>16, <2>2, <2>3 DEF SumsUp
<1> QED BY <1>5, <1>6, <1>7, <1>8, <1>9, <1>10, <1>11, <1>12, <1>13, <1>14, <1>15, <1>16
        DEF CoordinatorNext

-----------------------------------------------------------------------------
(* The summary of an evaluation. *)

LEMMA SummaryStep ==
  ASSUME Types, CoordinatorKnows, CompletedIsComplete, [Next]_vars, Types',
         \A t \in Trials : trial[t] \in Verdicts => trial'[t] = trial[t]
  PROVE  CompletedIsComplete'
<1>1. \A e \in Evaluations : Of(e) \subseteq Trials
  BY DEF Of, Trials
<1>2. ASSUME NEW e \in Evaluations,
             evaluation'[e] \in {"completed", "completed_with_errors"}
      PROVE  \/ evaluation'[e] = evaluation[e]
             \/ /\ coordinator.pc = "write" /\ coordinator.e = e
                /\ evaluation'[e] = coordinator.verdict
  <2> USE DEF Types, RowTypes, SetEvaluation, At, rows
  <2>1. CASE CoordinatorNext
    BY <1>2, <2>1 DEF CoordinatorNext, Take, ReadsEvaluation, Begins, LoopReads, Claims,
      ChecksPause, Creates, Links, Sends, Throws, Fails, WaitCancels, WaitEnds, WaitTimesOut,
      Expires, Scores, Finishes, SumsUp, Ends
  <2>2. ASSUME NEW r \in Requests, RequestNext(r) PROVE evaluation'[e] = evaluation[e]
    BY <1>2, <2>2 DEF RequestNext, StartReads, Calls, Proceeds, StartResumes, StartWrites,
      StartSends, PauseScan, PauseWrites, CancelScan, CancelTrials, CancelWrites
  <2>3. CASE \/ \E t \in Trials : ScanNext(t) \/ StartupNext(t)
             \/ Restart \/ UNCHANGED vars
    BY <2>3 DEF ScanNext, ScanStarts, ScanSettles, ScanFinishes, ScanFails, ScanMoves,
      StartupNext, RecoversPending, RecoversRunning, RecoveredReturns, RecoveryExits, Recovery,
      Restart, Reboots, vars
  <2> QED BY <2>1, <2>2, <2>3 DEF Next
<1>3. ASSUME NEW e \in Evaluations, coordinator.pc = "write", coordinator.e = e
      PROVE  /\ \A t \in Of(e) : trial[t] \in Verdicts
             /\ coordinator.verdict = "completed" => \A t \in Of(e) : trial[t] = "completed"
  BY <1>3 DEF CoordinatorKnows, KnowsTrials
<1> QED BY <1>1, <1>2, <1>3 DEF CompletedIsComplete, Verdicts

\* The decided trials stay as they are, whoever writes.
LEMMA VerdictsStay ==
  ASSUME Types, [Next]_vars
  PROVE  \A t \in Trials : trial[t] \in Verdicts => trial'[t] = trial[t]
<1> USE DEF Types, RowTypes, SetTrial, rows
<1>1. CASE CoordinatorNext
  BY <1>1 DEF CoordinatorNext, Take, ReadsEvaluation, Begins, LoopReads, Claims,
    ChecksPause, Creates, Links, Sends, Throws, Fails, WaitCancels, WaitEnds, WaitTimesOut,
    Expires, Scores, Finishes, SumsUp, Ends, Verdicts, ActiveTrialStatuses
<1>2. ASSUME NEW r \in Requests, RequestNext(r)
      PROVE  \A t \in Trials : trial[t] \in Verdicts => trial'[t] = trial[t]
  BY <1>2 DEF RequestNext, StartReads, Calls, Proceeds, StartResumes, StartWrites,
    StartSends, PauseScan, PauseWrites, CancelScan, CancelTrials, CancelWrites,
    Pending, Active, Verdicts, ActiveTrialStatuses
<1>3. CASE \/ \E t \in Trials : ScanNext(t) \/ StartupNext(t)
           \/ Restart \/ UNCHANGED vars
  BY <1>3 DEF ScanNext, ScanStarts, ScanSettles, ScanFinishes, ScanFails, ScanMoves,
    StartupNext, RecoversPending, RecoversRunning, RecoveredReturns, RecoveryExits, Recovery,
    Restart, Reboots, vars
<1> QED BY <1>1, <1>2, <1>3 DEF Next

\* A call that cancels an evaluation has decided its trials before.
LEMMA CancelStep ==
  ASSUME Types, CanceledIsDecided, [Next]_vars,
         \A t \in Trials : trial[t] \in Verdicts => trial'[t] = trial[t]
  PROVE  CanceledIsDecided'
<1>1. \A e \in Evaluations : Of(e) \subseteq Trials
  BY DEF Of, Trials
<1> USE DEF Types, RowTypes, CallTypes, rows, RequestAt
<1>2. ASSUME NEW r \in Requests, CancelTrials(r)
      PROVE  /\ request'[r].e = request[r].e
             /\ \A t \in Of(request[r].e) : trial'[t] \in Verdicts
  <2>1. request[r].e \in Evaluations /\ request'[r].e = request[r].e
    BY <1>2 DEF CancelTrials, StepTo, RequestTypes
  <2> QED BY <1>1, <1>2, <2>1 DEF CancelTrials, Pending, Active, TrialStatuses, Verdicts
<1>3. ASSUME NEW r \in Requests, RequestAt(r, "cancel", "write")'
      PROVE  \A t \in Of(request'[r].e) : trial'[t] \in Verdicts
  <2>1. CancelTrials(r) \/ request'[r] = request[r]
    <3> USE DEF NoRequest, StepTo, Returns, RequestTypes
    <3>1. ASSUME NEW q \in Requests, RequestNext(q), ~CancelTrials(q)
          PROVE  request'[r] = request[r]
      BY <1>3, <3>1 DEF RequestNext, StartReads, Calls, Proceeds, StartResumes, StartWrites,
        StartSends, PauseScan, PauseWrites, CancelScan, CancelWrites
    <3>2. ASSUME NEW q \in Requests, CancelTrials(q)
          PROVE  CancelTrials(r) \/ request'[r] = request[r]
      BY <3>2 DEF CancelTrials
    <3>3. CASE CoordinatorNext
      BY <3>3 DEF CoordinatorNext, Take, ReadsEvaluation, Begins, LoopReads, Claims,
        ChecksPause, Creates, Links, Sends, Throws, Fails, WaitCancels, WaitEnds, WaitTimesOut,
        Expires, Scores, Finishes, SumsUp, Ends
    <3>4. ~Reboots
      BY <1>3 DEF Reboots
    <3>5. CASE \/ \E t \in Trials : ScanNext(t) \/ StartupNext(t)
               \/ Restart \/ UNCHANGED vars
      BY <3>4, <3>5 DEF ScanNext, ScanStarts, ScanSettles, ScanFinishes, ScanFails, ScanMoves,
        StartupNext, RecoversPending, RecoversRunning, RecoveredReturns, RecoveryExits, Recovery,
        Restart, vars
    <3> QED BY <3>1, <3>2, <3>3, <3>5 DEF Next
  <2>2. ASSUME request'[r] = request[r] PROVE \A t \in Of(request'[r].e) : trial'[t] \in Verdicts
    <3>1. RequestAt(r, "cancel", "write") /\ request[r].e \in Evaluations
      BY <1>3, <2>2
    <3> QED BY <1>1, <2>2, <3>1 DEF CanceledIsDecided
  <2> QED BY <1>2, <2>1, <2>2
<1>4. ASSUME NEW e \in Evaluations, evaluation'[e] = "canceled"
      PROVE  \/ evaluation[e] = "canceled"
             \/ \E r \in Requests : RequestAt(r, "cancel", "write") /\ request[r].e = e
  <2> USE DEF SetEvaluation, At
  <2>1. CASE CoordinatorNext
    BY <1>4, <2>1 DEF CoordinatorNext, Take, ReadsEvaluation, Begins, LoopReads, Claims,
      ChecksPause, Creates, Links, Sends, Throws, Fails, WaitCancels, WaitEnds, WaitTimesOut,
      Expires, Scores, Finishes, SumsUp, Ends, CoordinatorTypes
  <2>2. ASSUME NEW r \in Requests, RequestNext(r)
        PROVE  evaluation[e] = "canceled" \/ (RequestAt(r, "cancel", "write") /\ request[r].e = e)
    BY <1>4, <2>2 DEF RequestNext, StartReads, Calls, Proceeds, StartResumes, StartWrites,
      StartSends, PauseScan, PauseWrites, CancelScan, CancelTrials, CancelWrites
  <2>3. CASE \/ \E t \in Trials : ScanNext(t) \/ StartupNext(t)
             \/ Restart \/ UNCHANGED vars
    BY <1>4, <2>3 DEF ScanNext, ScanStarts, ScanSettles, ScanFinishes, ScanFails, ScanMoves,
      StartupNext, RecoversPending, RecoversRunning, RecoveredReturns, RecoveryExits, Recovery,
      Restart, Reboots, vars
  <2> QED BY <2>1, <2>2, <2>3 DEF Next
<1>5. ASSUME NEW e \in Evaluations, evaluation'[e] = "canceled"
      PROVE  \A t \in Of(e) : trial'[t] \in Verdicts
  BY <1>1, <1>4, <1>5 DEF CanceledIsDecided
<1> QED BY <1>3, <1>5 DEF CanceledIsDecided

-----------------------------------------------------------------------------
(* The theorems. *)

LEMMA InvStep == ASSUME EvaluationInv, [Next]_vars PROVE EvaluationInv'
<1> USE DEF EvaluationInv, RowsInv
<1>1. Types'
  BY TypesStep
<1>2. CompletedIsComplete' /\ CanceledIsDecided'
  BY <1>1, SummaryStep, CancelStep, VerdictsStay
<1>3. CASE CoordinatorNext
  BY <1>1, <1>2, <1>3, CoordinatorKeepsRows, CoordinatorKeepsKnowing
<1>4. ASSUME UNCHANGED <<coordinator, linked>>, \A t \in Trials : ScanGoesOn(t),
             trial' = trial \/ CanceledTogether
      PROVE  EvaluationInv'
  BY <1>1, <1>2, <1>4, OthersKeepInv
<1> USE DEF rows, scans, ScanGoesOn, OpenScans, ScanEnds
<1>5. ASSUME NEW u \in Trials, ScanNext(u) PROVE EvaluationInv'
  <2> USE DEF ScanNext, ScanStarts, ScanSettles, ScanFinishes, ScanFails, ScanMoves
  <2>1. \A t \in Trials : ScanGoesOn(t)
    BY <1>5 DEF Types, RowTypes
  <2> QED BY <1>4, <1>5, <2>1
<1>6. ASSUME NEW r \in Requests, RequestNext(r) PROVE EvaluationInv'
  <2>1. \A t \in Trials : ScanGoesOn(t)
    BY <1>6 DEF RequestNext, StartReads, Calls, Proceeds, StartResumes, StartWrites,
      StartSends, PauseScan, PauseWrites, CancelScan, CancelTrials, CancelWrites, CloseScan,
      Closed, Types, RowTypes
  <2>2. UNCHANGED <<coordinator, linked>>
    BY <1>6 DEF RequestNext, StartReads, Calls, Proceeds, StartResumes, StartWrites,
      StartSends, PauseScan, PauseWrites, CancelScan, CancelTrials, CancelWrites
  <2>3. trial' = trial \/ CancelTrials(r)
    BY <1>6 DEF RequestNext, StartReads, Calls, Proceeds, StartResumes, StartWrites,
      StartSends, PauseScan, PauseWrites, CancelScan, CancelWrites
  <2>4. CancelTrials(r) => CanceledTogether
    BY DEF CancelTrials, CanceledTogether, RequestAt, Types, CallTypes
  <2> QED BY <1>4, <2>1, <2>2, <2>3, <2>4
<1>7. ASSUME Reboots PROVE EvaluationInv'
  <2>1. DecidedFirst' /\ ScansFollow' /\ VerdictFitsScan'
    BY <1>7 DEF Reboots, DecidedFirst, ScansFollow, VerdictFitsScan
  <2>2. coordinator'.pc = "idle"
    BY <1>7 DEF Reboots, Idle
  <2> QED BY <1>1, <1>2, <2>1, <2>2
        DEF CoordinatorKnows, KnowsOrder, KnowsTrials, KnowsScan, WithTrial, Begun
<1>9. ASSUME NEW u \in Trials, StartupNext(u) PROVE EvaluationInv'
  <2>1. CASE RecoveryExits(u)
    BY <1>7, <2>1 DEF RecoveryExits
  <2>2. CASE RecoversPending(u) \/ RecoversRunning(u) \/ RecoveredReturns(u)
    <3>1. \A t \in Trials : ScanGoesOn(t)
      BY <2>2 DEF RecoversPending, RecoversRunning, RecoveredReturns, Types, RowTypes
    <3> QED BY <1>4, <2>2, <3>1 DEF RecoversPending, RecoversRunning, RecoveredReturns, Recovery
  <2> QED BY <1>9, <2>1, <2>2 DEF StartupNext
<1>8. CASE UNCHANGED vars
  <2>1. \A t \in Trials : ScanGoesOn(t)
    BY <1>8 DEF vars
  <2> QED BY <1>4, <1>8, <2>1 DEF vars
<1> QED BY <1>3, <1>5, <1>6, <1>7, <1>8, <1>9 DEF Next, Restart

LEMMA EvaluationInvariant == EvaluationSpec => []EvaluationInv
<1>1. EvaluationInit => EvaluationInv
  <2> SUFFICES ASSUME EvaluationInit PROVE EvaluationInv
    OBVIOUS
  <2>1. Types
    BY BoundsAssumption DEF EvaluationInit, Types, RowTypes, CoordinatorTypes, CallTypes,
      ScanStatuses, RequestTypes, NoRequest, Idle, Steps, WithTrial, EvaluationStatuses,
      TrialStatuses
  <2>2. coordinator.pc = "idle"
    BY DEF EvaluationInit, Idle
  <2>3. \A t \in Trials : trial[t] = "pending" /\ scan[t] = "none"
    BY DEF EvaluationInit
  <2>4. \A e \in Evaluations : Of(e) \subseteq Trials /\ evaluation[e] = "pending"
    BY DEF EvaluationInit, Of, Trials
  <2>5. CoordinatorKnows
    BY <2>2 DEF CoordinatorKnows, KnowsOrder, KnowsTrials, KnowsScan, WithTrial, Begun
  <2>6. DecidedFirst /\ ScansFollow /\ VerdictFitsScan /\ CompletedIsComplete
    BY <2>3, <2>4 DEF EvaluationInit, DecidedFirst, ScansFollow, VerdictFitsScan,
      CompletedIsComplete, OpenScans
  <2>7. CanceledIsDecided
    BY <2>4 DEF EvaluationInit, CanceledIsDecided, RequestAt, NoRequest
  <2> QED BY <2>1, <2>5, <2>6, <2>7 DEF EvaluationInv
<1>2. EvaluationInv /\ [Next]_vars => EvaluationInv'
  BY InvStep
<1> QED BY <1>1, <1>2, PTL DEF EvaluationSpec

\* Rows, coordinator and calls keep their types, for any number of evaluations,
\* trials, overlapping calls and restarts: a step that works on a trial has one.
THEOREM EvaluationTypeCorrect == EvaluationSpec => []EvaluationTypeOK
<1>1. EvaluationInv => EvaluationTypeOK
  <2> SUFFICES ASSUME EvaluationInv PROVE EvaluationTypeOK
    OBVIOUS
  <2> USE DEF EvaluationInv, Types
  <2>1. \A r \in Requests :
          request[r] # NoRequest =>
            /\ request[r].e \in Evaluations
            /\ request[r].step \in {"scan", "await"} => request[r].t \in Of(request[r].e)
    BY DEF CallTypes
  <2>2. coordinator.pc \in Steps
    BY DEF CoordinatorTypes
  <2> QED BY <2>1, <2>2 DEF RowTypes, CoordinatorTypes, EvaluationTypeOK, TrialStatuses,
            WithTrial
<1> QED BY <1>1, EvaluationInvariant, PTL

\* The trials of an evaluation are decided in their order and one at a time,
\* although calls cancel them and restarts take the work up again.
THEOREM TrialsAreInOrder == EvaluationSpec => []OneTrialInOrder
<1>1. EvaluationInv => OneTrialInOrder
  BY DEF EvaluationInv, DecidedFirst, OneTrialInOrder, Active, ActiveTrialStatuses, Verdicts,
    Types, RowTypes, TrialStatuses, Of, Trials
<1> QED BY <1>1, EvaluationInvariant, PTL

\* No two scans of an evaluation are open at the same time.
THEOREM ScansDoNotOverlap == EvaluationSpec => []OneScanAtATime
<1>1. EvaluationInv => OneScanAtATime
  <2> SUFFICES ASSUME EvaluationInv, NEW e \in Evaluations, NEW t \in Of(e), NEW u \in Of(e),
                      scan[t] \in OpenScans, scan[u] \in OpenScans
               PROVE  t = u
    BY DEF OneScanAtATime
  <2>1. ~(t[2] < u[2]) /\ ~(u[2] < t[2])
    BY DEF EvaluationInv, ScansFollow, OpenScans
  <2> QED BY <2>1, EvaluationsAssumption DEF Of, Ordinals
<1> QED BY <1>1, EvaluationInvariant, PTL

\* No verdict contradicts the scan of its trial: only finished scans are
\* completed, what failed has a failed scan, and the scan of what timed out is
\* over or is finalizing, and will not be opened again.
THEOREM VerdictsAreRight == EvaluationSpec => []VerdictFitsScan
BY EvaluationInvariant, PTL DEF EvaluationInv

\* An evaluation that the last write of the coordinator calls completed has a
\* verdict for each trial, and without errors all of them are completed.
THEOREM SummariesAreRight == EvaluationSpec => []CompletedIsComplete
BY EvaluationInvariant, PTL DEF EvaluationInv

\* No step of anyone changes a verdict.
THEOREM VerdictsAreFinal == EvaluationSpec => VerdictIsFinal
<1>1. EvaluationInv /\ [Next]_vars =>
        [\A t \in Trials : trial[t] \in Verdicts => trial'[t] = trial[t]]_trial
  BY VerdictsStay DEF EvaluationInv
<1> QED BY <1>1, EvaluationInvariant, PTL DEF EvaluationSpec, VerdictIsFinal
=============================================================================

-------------------------- MODULE ScanServerProofs --------------------------
(***************************************************************************)
(* The slots stay safe in a server that crashes and recovers, the limit is *)
(* kept, and no running job is left alone, for any number of jobs, calls   *)
(* and crashes.                                                            *)
(***************************************************************************)
EXTENDS ScanServer, ScanExecutionSlotsProofs

\* Every runtime is awaited: by a handler with a slot, a call or the startup.
RuntimesAreAwaited == \A m \in Messages :
  runtime[m] # "none" => AtStep(m, "await") \/ AwaitedByCall(m) \/ AwaitedByStartup(m)

\* A call knows the job it has stopped or resumed, unless it was resumed since.
CallsKnow == \A c \in Calls : call[c] # NoCall =>
  \/ call[c].job \in resumed
  \/ call[c].do \in {"stop", "withdraw", "remove"}
       /\ status[call[c].job] \in {"paused", "canceled"}

\* A runtime is asked to stop when its job was stopped.
StoppingIsStopped == \A m \in Messages :
  runtime[m] = "stopping" => m \in resumed \/ status[m] \in {"paused", "canceled"}

ServerInv ==
  /\ SlotsInv /\ ServerTypeOK
  /\ RuntimesAreAwaited /\ CallsKnow /\ StoppingIsStopped /\ RunningIsCaredFor

-----------------------------------------------------------------------------
(* The slots. *)

LEMMA SlotsUnchanged == ASSUME SlotsInv, UNCHANGED slotVars PROVE SlotsInv'
<1>1. UNCHANGED <<setting, handler, limit, active, waiters, microtasks>>
  BY DEF slotVars
<1>2. TypeOK' /\ Holders' = Holders /\ Waiting' = Waiting
  BY <1>1 DEF SlotsInv, TypeOK, Holders, Waiting
<1> QED BY <1>1, <1>2, PlainStep

LEMMA SettingStep == ASSUME SlotsInv, ChangeSetting PROVE SlotsInv'
<1>1. TypeOK' /\ Holders' = Holders /\ Waiting' = Waiting
        /\ UNCHANGED <<active, waiters, microtasks>>
  BY DEF SlotsInv, ChangeSetting, TypeOK, Holders, Waiting
<1> QED BY <1>1, PlainStep

LEMMA TakeStep ==
  ASSUME SlotsInv, NEW m \in Messages, Take(m) \/ ReadSetting(m) PROVE SlotsInv'
<1>1. TypeOK' /\ UNCHANGED <<active, waiters, microtasks>>
  BY DEF SlotsInv, Take, ReadSetting, Goes, TypeOK, HandlerStates
<1>2. Holders' = Holders /\ Waiting' = Waiting
  BY DEF SlotsInv, Take, ReadSetting, Goes, TypeOK, Holders, Waiting
<1> QED BY <1>1, <1>2, PlainStep

\* A restarted server has nobody in process.
LEMMA RebootSlots == ASSUME SlotsInv, Reboots PROVE SlotsInv'
<1>1. /\ handler' = [m \in Messages |-> IF m \in InProcess THEN "queued" ELSE handler[m]]
      /\ active' = 0 /\ waiters' = <<>> /\ microtasks' = <<>>
      /\ UNCHANGED <<setting, limit>>
  BY DEF Reboots
<1>2. TypeOK'
  BY <1>1 DEF SlotsInv, TypeOK, HandlerStates
<1>3. Holders' = {} /\ Waiting' = {}
  BY <1>1 DEF SlotsInv, TypeOK, Holders, Waiting, InProcess
<1>4. SlotsAreCounted'
  BY <1>1, <1>3, FS_EmptySet DEF SlotsAreCounted
<1>5. EachWaitsOnce'
  BY <1>1, <1>3 DEF EachWaitsOnce, Range, IsInjective
<1>6. NoLostWakeup'
  BY <1>1 DEF NoLostWakeup
<1> QED BY <1>2, <1>4, <1>5, <1>6 DEF SlotsInv

LEMMA SlotsStep == ASSUME SlotsInv, [ServerNext]_serverVars PROVE SlotsInv'
<1>1. CASE SlotsTurn
  BY <1>1, AskStep, TryAgainStep, TakeStep DEF SlotsTurn
<1>2. CASE ChangesSetting
  BY <1>2, SettingStep DEF ChangesSetting
<1>3. CASE Reboots
  BY <1>3, RebootSlots
<1>4. ASSUME NEW m \in Messages, Returns(m) PROVE SlotsInv'
  BY <1>4, ReleaseStep DEF Returns
<1>5. CASE UNCHANGED slotVars
  BY <1>5, SlotsUnchanged
<1>6. CASE StartupNext \/ Crash
  BY <1>6, <1>3, <1>5 DEF StartupNext, Lists, RecoversNext, StartupExits, RecoveryStarts,
       WorkerStarts, Crash
<1>7. ASSUME NEW m \in Messages, HandlerNext(m) \/ RuntimeNext(m) PROVE SlotsInv'
  BY <1>7, <1>3, <1>4, <1>5 DEF HandlerNext, Looks, PlantsRoot, GivesUp, RuntimeNext, Settles,
       Stops, Fails
<1>8. ASSUME NEW c \in Calls, CallNext(c) PROVE SlotsInv'
  BY <1>8, <1>5 DEF CallNext, CallEnds, StopsRuntime, RemovesMessage, StartsRuntime,
       Pause, Cancel, Resume, Begins
<1>9. CASE UNCHANGED serverVars
  BY <1>9, <1>5 DEF serverVars
<1> QED BY <1>1, <1>2, <1>6, <1>7, <1>8, <1>9 DEF ServerNext

\* A turn of the slots leaves those who hold one alone.
LEMMA TurnKeepsHolders ==
  ASSUME SlotsInv, SlotsTurn, NEW m \in Messages, handler[m] = "holding"
  PROVE  handler'[m] = "holding"
<1> USE DEF SlotsInv, TypeOK
<1>1. ASSUME NEW o \in Messages, Take(o) \/ ReadSetting(o) \/ Ask(o)
      PROVE  handler'[m] = "holding"
  BY <1>1 DEF Take, ReadSetting, Ask, Acquires, LinesUp, Goes
<1>2. CASE TryAgain
  BY <1>2 DEF TryAgain, Acquires, LinesUp, Goes
<1> QED BY <1>1, <1>2 DEF SlotsTurn

-----------------------------------------------------------------------------
(* Handlers, runtimes, calls and the startup. *)

LEMMA ServerInitInv == ServerInit => ServerInv
<1> SUFFICES ASSUME ServerInit PROVE ServerInv
  OBVIOUS
<1>1. SlotsInv
  BY SlotsInit DEF ServerInit
<1>2. ServerTypeOK
  BY <1>1, InterruptedAssumption DEF ServerInit, ServerTypeOK, SlotsInv, Statuses, NoCall, Startup, Listed
<1>3. RuntimesAreAwaited /\ CallsKnow /\ StoppingIsStopped /\ RunningIsCaredFor
  BY DEF ServerInit, RuntimesAreAwaited, CallsKnow, StoppingIsStopped, RunningIsCaredFor
<1> QED BY <1>1, <1>2, <1>3 DEF ServerInv

LEMMA RebootInv == ASSUME ServerInv, Reboots PROVE ServerInv'
<1>1. SlotsInv'
  BY RebootSlots DEF ServerInv
<1>2. ServerTypeOK'
  BY <1>1 DEF Reboots, ServerInv, SlotsInv, ServerTypeOK, jobVars, NoCall, Startup, Listed
<1>3. RuntimesAreAwaited' /\ CallsKnow' /\ StoppingIsStopped' /\ RunningIsCaredFor'
  BY DEF Reboots, Startup, RuntimesAreAwaited, CallsKnow, StoppingIsStopped, RunningIsCaredFor
<1> QED BY <1>1, <1>2, <1>3 DEF ServerInv

LEMMA TurnInv ==
  ASSUME ServerInv, SlotsTurn \/ ChangesSetting PROVE ServerInv'
<1>1. SlotsInv'
  BY SlotsStep DEF ServerInv, ServerNext
<1>2. UNCHANGED <<status, rooted, sent, runtime, step, call, startup, resumed>>
  BY DEF SlotsTurn, ChangesSetting, jobVars, bounds
<1>3. ServerTypeOK'
  BY <1>1, <1>2 DEF ServerInv, SlotsInv, ServerTypeOK
<1>4. ASSUME NEW m \in Messages, NEW s, AtStep(m, s) PROVE AtStep(m, s)'
  <2>1. CASE SlotsTurn
    BY <1>2, <1>4, <2>1, TurnKeepsHolders DEF ServerInv, AtStep
  <2>2. CASE ChangesSetting
    BY <1>2, <1>4, <2>2 DEF ChangesSetting, ChangeSetting, AtStep
  <2> QED BY <2>1, <2>2
<1>5. \A m \in Messages : (AwaitedByCall(m))' = AwaitedByCall(m) /\ (AwaitedByStartup(m))' = AwaitedByStartup(m)
  BY <1>2 DEF AwaitedByCall, AwaitedByStartup
<1>6. RuntimesAreAwaited'
  BY <1>2, <1>4, <1>5 DEF ServerInv, RuntimesAreAwaited
<1>7. CallsKnow' /\ StoppingIsStopped'
  BY <1>2 DEF ServerInv, CallsKnow, StoppingIsStopped
<1>8. RunningIsCaredFor'
  BY <1>2, <1>4 DEF ServerInv, RunningIsCaredFor
<1> QED BY <1>1, <1>3, <1>6, <1>7, <1>8 DEF ServerInv


LEMMA HandlerInv ==
  ASSUME ServerInv, NEW m \in Messages, HandlerNext(m) PROVE ServerInv'
<1> USE DEF ServerInv
<1>1. SlotsInv'
  BY SlotsStep DEF ServerNext
<1>2. /\ UNCHANGED <<sent, call, startup, resumed>>
      /\ handler'[m] = "holding" \/ Returns(m)
      /\ \A o \in Messages \ {m} : handler'[o] = handler[o] /\ step'[o] = step[o]
                                     /\ runtime'[o] = runtime[o] /\ status'[o] = status[o]
  BY DEF HandlerNext, Looks, PlantsRoot, GivesUp, Returns, Release, Goes, AtStep, StepsTo,
     StatusBecomes, EnsureRuntime, slotVars, jobVars, bounds, ServerTypeOK, SlotsInv, TypeOK
<1>3. \/ status[m] = "pending" /\ step[m] = "look" /\ step'[m] = "root"
           /\ status'[m] = "running" /\ runtime'[m] = runtime[m] /\ handler'[m] = "holding"
      \/ step[m] \in {"look", "root"} /\ step'[m] = "await"
           /\ status'[m] = status[m] /\ status[m] = "running" /\ handler'[m] = "holding"
           /\ runtime'[m] = IF runtime[m] = "none" THEN "on" ELSE runtime[m]
      \/ step[m] # "await" /\ step'[m] = "return" /\ runtime'[m] = runtime[m]
           /\ status'[m] # "running" /\ (status'[m] = "ended" \/ status'[m] = status[m])
           /\ (status'[m] = status[m] \/ status[m] \in {"pending", "running"})
      \/ step[m] = "return" /\ step'[m] = "look" /\ runtime'[m] = runtime[m]
           /\ status'[m] = status[m]
  BY DEF HandlerNext, Looks, PlantsRoot, GivesUp, Returns, Release, Goes, AtStep, StepsTo,
     StatusBecomes, EnsureRuntime, slotVars, jobVars, bounds, ServerTypeOK, SlotsInv, TypeOK
<1>4. ServerTypeOK'
  <2>1. /\ status' \in [Messages -> Statuses] /\ step' \in [Messages -> {"look", "root", "await", "fail", "return"}]
        /\ runtime' \in [Messages -> {"none", "on", "stopping"}] /\ rooted' \subseteq Messages
    BY DEF HandlerNext, Looks, PlantsRoot, GivesUp, Returns, StepsTo, StatusBecomes,
       EnsureRuntime, jobVars, ServerTypeOK, Statuses
  <2> QED BY <1>1, <1>2, <2>1 DEF ServerTypeOK, SlotsInv
<1>5. \A o \in Messages : /\ (AwaitedByCall(o))' = AwaitedByCall(o)
                          /\ (AwaitedByStartup(o))' = AwaitedByStartup(o)
  BY <1>2 DEF AwaitedByCall, AwaitedByStartup
<1>6. RuntimesAreAwaited'
  BY <1>2, <1>3, <1>5 DEF RuntimesAreAwaited, AtStep
<1>7. CallsKnow'
  BY <1>2, <1>3 DEF CallsKnow, ServerTypeOK, NoCall
<1>8. StoppingIsStopped'
  BY <1>2, <1>3 DEF StoppingIsStopped
<1>9. RunningIsCaredFor'
  BY <1>2, <1>3 DEF RunningIsCaredFor, AtStep
<1> QED BY <1>1, <1>4, <1>6, <1>7, <1>8, <1>9

\* The end of a runtime: its handler, its calls and the startup go on.
LEMMA RuntimeInv ==
  ASSUME ServerInv, NEW m \in Messages, Settles(m) \/ Stops(m) PROVE ServerInv'
<1> USE DEF ServerInv
<1>1. SlotsInv'
  BY SlotsStep DEF ServerNext, RuntimeNext
<1>2. /\ UNCHANGED <<sent, resumed, handler, rooted>>
      /\ runtime' = [runtime EXCEPT ![m] = "none"]
      /\ step' = [step EXCEPT ![m] = IF @ = "await" THEN "return" ELSE @]
      /\ call' = [c \in Calls |->
           IF call[c] = [do |-> "await", job |-> m] THEN NoCall ELSE call[c]]
      /\ startup' = IF AwaitedByStartup(m) THEN Startup("next", "none", startup.left) ELSE startup
      /\ status' = [status EXCEPT ![m] = status'[m]] /\ status'[m] \in Statuses
      /\ \/ status'[m] = "ended" /\ status[m] = "running"
         \/ status'[m] = status[m] /\ (status[m] # "running" \/ m \in resumed)
  <2>1. status \in [Messages -> Statuses] /\ runtime \in [Messages -> {"none", "on", "stopping"}]
    BY DEF ServerTypeOK
  <2>2. CASE Settles(m)
    <3>1. status' = [status EXCEPT ![m] = "ended"] /\ status[m] = "running" /\ status'[m] = "ended"
      BY <2>1, <2>2 DEF Settles, StatusBecomes
    <3>2. status' = [status EXCEPT ![m] = status'[m]] /\ status'[m] \in Statuses
      BY <2>1, <3>1 DEF Statuses
    <3>3. /\ RuntimeGone(m, "return") /\ StartupGoesOn(m)
          /\ UNCHANGED <<sent, resumed, handler, rooted>>
      BY <2>2 DEF Settles, slotVars, bounds
    <3> QED BY <3>1, <3>2, <3>3 DEF RuntimeGone, StartupGoesOn
  <2>3. CASE Stops(m)
    <3>1. status[m] # "running" \/ m \in resumed
      BY <2>1, <2>3 DEF Stops, StoppingIsStopped
    <3> QED BY <2>1, <2>3, <3>1 DEF Stops, RuntimeGone, StartupGoesOn, slotVars, jobVars, bounds
  <2> QED BY <2>2, <2>3
<1>3. ServerTypeOK'
  BY <1>1, <1>2 DEF ServerTypeOK, SlotsInv, Startup
<1>4. \A o \in Messages \ {m} : /\ AwaitedByCall(o) => (AwaitedByCall(o))'
                                /\ AwaitedByStartup(o) => (AwaitedByStartup(o))'
  BY <1>2 DEF AwaitedByCall, AwaitedByStartup, ServerTypeOK
<1>5. RuntimesAreAwaited'
  BY <1>2, <1>4 DEF RuntimesAreAwaited, AtStep, ServerTypeOK
<1>6. CallsKnow'
  BY <1>2 DEF CallsKnow, ServerTypeOK
<1>7. StoppingIsStopped'
  BY <1>2 DEF StoppingIsStopped, ServerTypeOK
<1>8. RunningIsCaredFor'
  BY <1>2 DEF RunningIsCaredFor, AtStep, ServerTypeOK, AwaitedByStartup, Startup
<1> QED BY <1>1, <1>3, <1>5, <1>6, <1>7, <1>8

LEMMA FailureInv ==
  ASSUME ServerInv, NEW m \in Messages, Fails(m) PROVE ServerInv'
<1> USE DEF ServerInv
<1>1. CASE Reboots
  BY <1>1, RebootInv
<1>2. CASE ~ AwaitedByStartup(m) /\ RuntimeGone(m, "fail")
             /\ UNCHANGED <<slotVars, jobVars, startup, resumed, calls>>
  <2>1. SlotsInv'
    BY SlotsStep DEF ServerNext, RuntimeNext
  <2>2. /\ UNCHANGED <<sent, resumed, handler, rooted, status, startup>>
        /\ runtime' = [runtime EXCEPT ![m] = "none"]
        /\ step' = [step EXCEPT ![m] = IF @ = "await" THEN "fail" ELSE @]
        /\ call' = [c \in Calls |->
             IF call[c] = [do |-> "await", job |-> m] THEN NoCall ELSE call[c]]
    BY <1>2 DEF RuntimeGone, slotVars, jobVars
  <2>3. ServerTypeOK'
    BY <2>1, <2>2 DEF ServerTypeOK, SlotsInv
  <2>4. \A o \in Messages \ {m} : AwaitedByCall(o) => (AwaitedByCall(o))'
    BY <2>2 DEF AwaitedByCall, ServerTypeOK
  <2>5. RuntimesAreAwaited'
    BY <2>2, <2>4 DEF RuntimesAreAwaited, AtStep, ServerTypeOK, AwaitedByStartup
  <2>6. CallsKnow' /\ StoppingIsStopped'
    BY <2>2 DEF CallsKnow, StoppingIsStopped, ServerTypeOK
  <2>7. AwaitedByCall(m) => m \in resumed
    BY DEF AwaitedByCall, CallsKnow, NoCall
  <2>8. AtStep(m, "await") \/ m \in resumed
    BY <1>2, <2>7 DEF Fails, RuntimesAreAwaited
  <2>9. RunningIsCaredFor'
    BY <2>2, <2>8 DEF RunningIsCaredFor, AtStep, ServerTypeOK
  <2> QED BY <2>1, <2>3, <2>5, <2>6, <2>9
<1> QED BY <1>1, <1>2 DEF Fails

LEMMA CallInv ==
  ASSUME ServerInv, NEW c \in Calls, CallNext(c) PROVE ServerInv'
<1> USE DEF ServerInv
<1>1. SlotsInv'
  BY SlotsStep DEF ServerNext
<1>2. UNCHANGED <<handler, step, rooted, startup>>
  BY DEF CallNext, CallEnds, StopsRuntime, RemovesMessage, StartsRuntime, Pause, Cancel,
     Resume, Begins, slotVars, jobVars
<1>3. ASSUME NEW m \in Messages, NEW kind, NEW from, NEW to \in {"paused", "canceled", "running"},
             NEW next \in {"stop", "withdraw", "start"}, Begins(c, m, kind, from, to, next),
             \/ to # "running" /\ next # "start" /\ resumed' = resumed
             \/ to = "running" /\ from = {"paused"} /\ resumed' = resumed \cup {m}
      PROVE  ServerInv'
  <2>1. /\ call[c] = NoCall /\ call' = [call EXCEPT ![c] = [do |-> next, job |-> m]]
        /\ status' = [status EXCEPT ![m] = to] /\ UNCHANGED <<sent, runtime>>
    BY <1>3 DEF Begins, StatusBecomes, CallGoes
  <2>2. ServerTypeOK'
    BY <1>1, <1>2, <2>1 DEF ServerTypeOK, SlotsInv, Statuses
  <2>3. \A o \in Messages : AwaitedByCall(o) => (AwaitedByCall(o))'
    BY <2>1 DEF AwaitedByCall, ServerTypeOK, NoCall
  <2>4. RuntimesAreAwaited'
    BY <1>2, <2>1, <2>3 DEF RuntimesAreAwaited, AtStep, AwaitedByStartup
  <2>5. CallsKnow'
    BY <1>3, <2>1 DEF CallsKnow, ServerTypeOK
  <2>6. StoppingIsStopped' /\ RunningIsCaredFor'
    BY <1>2, <1>3, <2>1 DEF StoppingIsStopped, RunningIsCaredFor, ServerTypeOK, AtStep
  <2> QED BY <1>1, <2>2, <2>4, <2>5, <2>6
<1>4. ASSUME NEW m \in Messages, Pause(c, m) \/ Cancel(c, m) \/ Resume(c, m) PROVE ServerInv'
  BY <1>3, <1>4 DEF Pause, Cancel, Resume
<1>5. CASE StopsRuntime(c) \/ RemovesMessage(c) \/ StartsRuntime(c)
  <2>1. PICK j \in Messages :
        /\ UNCHANGED <<status, resumed>> /\ sent' \subseteq sent
        /\ call[c] # NoCall /\ call[c].do # "await" /\ j = call[c].job
    BY <1>5 DEF StopsRuntime, RemovesMessage, StartsRuntime, jobVars, bounds, ServerTypeOK, NoCall
  <2>2. \/ CallIsOver(c)
        \/ CallGoes(c, "remove", j) /\ call[c].do = "withdraw"
        \/ CallGoes(c, "await", j) /\ call[c].do = "start"
    BY <1>5, <2>1 DEF StopsRuntime, RemovesMessage, StartsRuntime
  <2>3. \/ UNCHANGED runtime
        \/ EnsureRuntime(j) /\ CallGoes(c, "await", j)
        \/ runtime' = [runtime EXCEPT ![j] = IF @ = "on" THEN "stopping" ELSE @]
             /\ call[c].do \in {"stop", "withdraw"}
    BY <1>5, <2>1 DEF StopsRuntime, RemovesMessage, StartsRuntime
  <2>4. ServerTypeOK'
    BY <1>1, <1>2, <2>1, <2>2, <2>3 DEF ServerTypeOK, SlotsInv, EnsureRuntime, CallGoes, CallIsOver
  <2>5. \A o \in Messages : AwaitedByCall(o) => (AwaitedByCall(o))'
    BY <2>1, <2>2 DEF AwaitedByCall, ServerTypeOK, CallGoes, CallIsOver
  <2>6. RuntimesAreAwaited'
    <3>1. EnsureRuntime(j) /\ CallGoes(c, "await", j) => (AwaitedByCall(j))'
      BY <2>1 DEF AwaitedByCall, ServerTypeOK, CallGoes
    <3>2. \A o \in Messages : runtime'[o] # "none" => runtime[o] # "none" \/ (AwaitedByCall(o))'
      BY <2>1, <2>3, <3>1 DEF EnsureRuntime, ServerTypeOK
    <3> QED BY <1>2, <2>5, <3>2 DEF RuntimesAreAwaited, AtStep, AwaitedByStartup
  <2>7. CallsKnow'
    BY <2>1, <2>2 DEF CallsKnow, ServerTypeOK, CallGoes, CallIsOver
  <2>8. StoppingIsStopped'
    BY <2>1, <2>3 DEF StoppingIsStopped, CallsKnow, ServerTypeOK, EnsureRuntime
  <2>9. RunningIsCaredFor'
    BY <1>2, <2>1, <2>3 DEF RunningIsCaredFor, AtStep, ServerTypeOK, EnsureRuntime
  <2> QED BY <1>1, <2>4, <2>6, <2>7, <2>8, <2>9
<1> QED BY <1>4, <1>5 DEF CallNext, CallEnds

LEMMA StartupInv == ASSUME ServerInv, StartupNext PROVE ServerInv'
<1> USE DEF ServerInv
<1>1. CASE StartupExits
  BY <1>1, RebootInv DEF StartupExits
<1>2. ASSUME ~ StartupExits PROVE ServerInv'
  <2>1. SlotsInv'
    BY SlotsStep DEF ServerNext
  <2>2. UNCHANGED <<handler, step, rooted, sent, call, resumed>>
    BY <1>2 DEF StartupNext, Lists, RecoversNext, RecoveryStarts, WorkerStarts, slotVars,
       jobVars, bounds
  <2>3. CASE Lists \/ WorkerStarts
    <3>1. UNCHANGED <<status, runtime>> /\ startup'.pc \notin {"start", "await"}
      BY <2>3 DEF Lists, WorkerStarts, jobVars, Startup
    <3>2. ServerTypeOK'
      BY <2>1, <2>2, <2>3, <3>1 DEF ServerTypeOK, SlotsInv, Lists, WorkerStarts, Startup
    <3>3. RuntimesAreAwaited'
      BY <2>2, <2>3, <3>1 DEF RuntimesAreAwaited, AtStep, AwaitedByCall, AwaitedByStartup,
         Lists, WorkerStarts
    <3>4. CallsKnow' /\ StoppingIsStopped'
      BY <2>2, <3>1 DEF CallsKnow, StoppingIsStopped
    <3>5. RunningIsCaredFor'
      BY <2>2, <2>3, <3>1 DEF RunningIsCaredFor, AtStep, Lists, WorkerStarts, Startup, Listed
    <3> QED BY <2>1, <3>2, <3>3, <3>4, <3>5
  <2>4. CASE RecoversNext
    <3>0. startup.left \subseteq Messages \X {"pending", "running"}
      BY DEF ServerTypeOK, Listed
    <3>1. PICK entry \in startup.left :
            /\ entry[1] \in Messages /\ entry = <<entry[1], entry[2]>>
            /\ \/ /\ entry[2] = "running" /\ UNCHANGED status
                  /\ startup' = Startup("start", entry[1], startup.left \ {entry})
               \/ /\ entry[2] = "pending" /\ status[entry[1]] = "pending"
                  /\ status' = [status EXCEPT ![entry[1]] = "running"]
                  /\ startup' = Startup("start", entry[1], startup.left \ {entry})
               \/ /\ entry[2] = "pending" /\ UNCHANGED status
                  /\ startup' = Startup("next", "none", startup.left \ {entry})
      <4>1. PICK entry \in startup.left :
              \/ /\ entry[2] = "running" /\ UNCHANGED status
                 /\ startup' = Startup("start", entry[1], startup.left \ {entry})
              \/ /\ entry[2] = "pending" /\ status[entry[1]] = "pending"
                 /\ StatusBecomes(entry[1], "running")
                 /\ startup' = Startup("start", entry[1], startup.left \ {entry})
              \/ /\ entry[2] = "pending" /\ UNCHANGED status
                 /\ startup' = Startup("next", "none", startup.left \ {entry})
        BY <2>4 DEF RecoversNext
      <4>2. entry[1] \in Messages /\ entry = <<entry[1], entry[2]>>
        BY <3>0
      <4> QED BY <4>1, <4>2 DEF StatusBecomes
    <3>2. UNCHANGED runtime /\ startup.pc = "next"
      BY <2>4 DEF RecoversNext
    <3>3. ServerTypeOK'
      BY <2>1, <2>2, <3>1, <3>2 DEF ServerTypeOK, SlotsInv, Startup, Statuses
    <3>4. RuntimesAreAwaited'
      BY <2>2, <3>2 DEF RuntimesAreAwaited, AtStep, AwaitedByCall, AwaitedByStartup
    <3>5. CallsKnow' /\ StoppingIsStopped'
      BY <2>2, <3>1, <3>2 DEF CallsKnow, StoppingIsStopped, ServerTypeOK
    <3>6. RunningIsCaredFor'
      BY <2>2, <3>1, <3>2 DEF RunningIsCaredFor, AtStep, ServerTypeOK, Startup
    <3> QED BY <2>1, <3>3, <3>4, <3>5, <3>6
  <2>5. CASE RecoveryStarts
    <3>1. /\ UNCHANGED status /\ startup.pc = "start"
          /\ startup' = Startup("await", startup.job, startup.left)
          /\ runtime' = [runtime EXCEPT ![startup.job] = IF @ = "none" THEN "on" ELSE @]
      BY <2>5 DEF RecoveryStarts, EnsureRuntime, jobVars
    <3>2. ServerTypeOK'
      BY <2>1, <2>2, <3>1 DEF ServerTypeOK, SlotsInv, Startup
    <3>3. RuntimesAreAwaited'
      BY <2>2, <3>1 DEF RuntimesAreAwaited, AtStep, AwaitedByCall, AwaitedByStartup, Startup,
         ServerTypeOK
    <3>4. CallsKnow' /\ StoppingIsStopped'
      BY <2>2, <3>1 DEF CallsKnow, StoppingIsStopped, ServerTypeOK
    <3>5. RunningIsCaredFor'
      BY <2>2, <3>1 DEF RunningIsCaredFor, AtStep, ServerTypeOK, Startup
    <3> QED BY <2>1, <3>2, <3>3, <3>4, <3>5
  <2> QED BY <1>2, <2>3, <2>4, <2>5 DEF StartupNext
<1> QED BY <1>1, <1>2

LEMMA ServerStep == ASSUME ServerInv, [ServerNext]_serverVars PROVE ServerInv'
<1>1. CASE UNCHANGED serverVars
  <2>1. SlotsInv'
    BY SlotsStep DEF ServerInv
  <2> QED BY <1>1, <2>1 DEF serverVars, slotVars, jobVars, bounds, ServerInv, SlotsInv, ServerTypeOK,
        RuntimesAreAwaited, CallsKnow, StoppingIsStopped, RunningIsCaredFor, AtStep,
        AwaitedByCall, AwaitedByStartup
<1>2. CASE Crash
  BY <1>2, RebootInv DEF Crash
<1> QED BY <1>1, <1>2, TurnInv, StartupInv, HandlerInv, RuntimeInv, FailureInv, CallInv
        DEF ServerNext, RuntimeNext

\* The runtimes that only handlers await are those of handlers with a slot.
LEMMA SlottedAreHolders == ASSUME ServerInv PROVE LimitIsKept
<1>1. Slotted \subseteq Holders
  BY DEF ServerInv, RuntimesAreAwaited, Slotted, Holders, AtStep
<1>2. IsFiniteSet(Holders) /\ IsFiniteSet(Slotted)
  BY <1>1, MessagesAssumption, FS_Subset DEF Holders
<1>3. Cardinality(Slotted) <= Cardinality(Holders) /\ Cardinality(Slotted) \in Nat
        /\ Cardinality(Holders) \in Nat
  BY <1>1, <1>2, FS_Subset, FS_CardinalityType
<1>4. ASSUME Slotted # {} PROVE \E n \in Limits : Cardinality(Slotted) <= n
  <2>1. Cardinality(Slotted) # 0
    BY <1>2, <1>4, FS_EmptySet
  <2>2. PICK n \in Limits : active <= n
    BY <1>3, <2>1 DEF ServerInv, SlotsInv, SlotsAreCounted
  <2> QED BY <1>3, <2>2, LimitsAssumption DEF ServerInv, SlotsInv, SlotsAreCounted
<1> QED BY <1>4 DEF LimitIsKept

-----------------------------------------------------------------------------
\* Jobs, handlers, runtimes, calls and the startup keep their types.
THEOREM ServerTypeCorrect == ServerSpec => []ServerTypeOK
<1>1. ServerInv => ServerTypeOK
  BY DEF ServerInv
<1> QED BY ServerInitInv, ServerStep, <1>1, PTL DEF ServerSpec

\* The semaphore stays exact in a server that crashes, recovers and is called:
\* no slot is leaked or doubled, no waiter is forgotten, no wakeup is lost.
THEOREM ServerSlotsAreSafe ==
  ServerSpec => [](SlotsAreCounted /\ EachWaitsOnce /\ NoLostWakeup)
<1>1. ServerInv => SlotsAreCounted /\ EachWaitsOnce /\ NoLostWakeup
  BY DEF ServerInv, SlotsInv
<1> QED BY ServerInitInv, ServerStep, <1>1, PTL DEF ServerSpec

\* The runtimes that neither a resumption nor the startup awaits are never more
\* than a limit that was set, whatever was stopped, resumed or recovered before.
THEOREM TheLimitIsKept == ServerSpec => []LimitIsKept
BY ServerInitInv, ServerStep, SlottedAreHolders, PTL DEF ServerSpec

\* A running job that was never resumed has somebody who will end it, in every
\* state that calls, errors and crashes at any step lead to.
THEOREM RunningJobsAreCaredFor == ServerSpec => []RunningIsCaredFor
<1>1. ServerInv => RunningIsCaredFor
  BY DEF ServerInv
<1> QED BY ServerInitInv, ServerStep, <1>1, PTL DEF ServerSpec
=============================================================================

----------------------------- MODULE ScanServer -----------------------------
(***************************************************************************)
(* One server with several scan jobs: the handlers of scans-queue.ts, each *)
(* holding a slot of ScanExecutionSlots while it works, the runtimes they  *)
(* await, the API calls that stop and resume jobs outside of the slots,    *)
(* and the startup, which recovers the unfinished jobs one after the other *)
(* and runs the worker only when it is through.  A job has one message,    *)
(* and is reduced to its status and to whether it has a root task: without *)
(* one its runtime finds nothing to do and never settles it.               *)
(***************************************************************************)
EXTENDS ScanExecutionSlots

CONSTANTS
  Interrupted,  \* the jobs that were paused while they ran, before the start
  Calls,        \* slots for API calls in progress
  Kinds,        \* the calls made, a subset of {"pause", "cancel", "resume"}
  MaxCalls, MaxCrashes   \* bounds

ASSUME InterruptedAssumption == Interrupted \subseteq Messages
ASSUME CallKindsAssumption == Kinds \subseteq {"pause", "cancel", "resume"}
ASSUME ServerBoundsAssumption == MaxCalls \in Nat /\ MaxCrashes \in Nat

VARIABLES
  status,       \* scan_jobs.status; "ended" is finished or failed
  sent,         \* the jobs whose message is in the queue or being processed
  rooted,       \* the jobs with a root task
  runtime,      \* the entry of each job in the registry of runtimes
  step,         \* where the handler of each message is once it has a slot
  call,         \* API calls in progress
  startup,      \* recoverPendingFullScanQueues
  resumed,      \* the jobs that were ever resumed: not in the code
  calls, crashes

slotVars == <<setting, handler, limit, active, waiters, microtasks>>
jobVars == <<status, rooted, sent>>
bounds == <<resumed, calls, crashes>>
serverVars == <<slotVars, jobVars, runtime, step, call, startup, bounds>>

-----------------------------------------------------------------------------
Statuses == {"pending", "running", "paused", "canceled", "ended"}
NoCall == [do |-> "nothing", job |-> "none"]
Startup(pc, job, left) == [pc |-> pc, job |-> job, left |-> left]
Listed == Messages \X {"pending", "running"}
Up == startup.pc = "up"

StatusBecomes(m, to) == status' = [status EXCEPT ![m] = to]
CallGoes(c, do, m) == call' = [call EXCEPT ![c] = [do |-> do, job |-> m]]
CallIsOver(c) == call' = [call EXCEPT ![c] = NoCall]
StepsTo(m, to) == step' = [step EXCEPT ![m] = to]

\* ensureJobRuntime: a runtime in the registry is reused, also a stopping one.
EnsureRuntime(m) == runtime' = [runtime EXCEPT ![m] = IF @ = "none" THEN "on" ELSE @]

\* completionPromise is settled: everybody who awaits the runtime goes on.
RuntimeGone(m, handlerGoesTo) ==
  /\ runtime' = [runtime EXCEPT ![m] = "none"]
  /\ step' = [step EXCEPT ![m] = IF @ = "await" THEN handlerGoesTo ELSE @]
  /\ call' = [c \in Calls |->
       IF call[c] = [do |-> "await", job |-> m] THEN NoCall ELSE call[c]]
AwaitedByStartup(m) == startup.pc = "await" /\ startup.job = m

-----------------------------------------------------------------------------
(* The handler of a message. *)

\* Messages are taken once the startup is through; the slots are as they are.
SlotsTurn ==
  /\ \/ TryAgain
     \/ \E m \in Messages : (Up /\ m \in sent /\ Take(m)) \/ ReadSetting(m) \/ Ask(m)
  /\ UNCHANGED <<jobVars, runtime, step, call, startup, bounds>>

ChangesSetting ==
  ChangeSetting /\ UNCHANGED <<jobVars, runtime, step, call, startup, bounds>>

AtStep(m, s) == handler[m] = "holding" /\ step[m] = s

\* A pending job is started, a running one gets its runtime, any other is left.
Looks(m) ==
  /\ AtStep(m, "look")
  /\ \/ /\ status[m] = "pending"
        /\ StatusBecomes(m, "running") /\ StepsTo(m, "root") /\ UNCHANGED runtime
     \/ /\ status[m] = "running"
        /\ EnsureRuntime(m) /\ StepsTo(m, "await") /\ UNCHANGED status
     \/ /\ status[m] \notin {"pending", "running"}
        /\ StepsTo(m, "return") /\ UNCHANGED <<status, runtime>>
  /\ UNCHANGED <<slotVars, rooted, sent, call, startup, bounds>>

\* Fault: the handler does not wait for the runtime it started.
PlantsRootOnly(m) ==
  /\ AtStep(m, "root")
  /\ IF status[m] = "running"
     THEN rooted' = rooted \cup {m} /\ EnsureRuntime(m)
     ELSE UNCHANGED <<rooted, runtime>>
  /\ StepsTo(m, "return")
  /\ UNCHANGED <<slotVars, status, sent, call, startup, bounds>>

\* createV3RootTask refuses a job that was stopped, and the handler returns.
PlantsRoot(m) ==
  /\ AtStep(m, "root")
  /\ IF status[m] = "running"
     THEN rooted' = rooted \cup {m} /\ EnsureRuntime(m) /\ StepsTo(m, "await")
     ELSE UNCHANGED <<rooted, runtime>> /\ StepsTo(m, "return")
  /\ UNCHANGED <<slotVars, status, sent, call, startup, bounds>>

\* The catch of the handler leaves a job alone that was stopped.
GivesUp(m) ==
  /\ AtStep(m, "fail")
  /\ IF status[m] \in {"pending", "running"} THEN StatusBecomes(m, "ended")
     ELSE UNCHANGED status
  /\ StepsTo(m, "return")
  /\ UNCHANGED <<slotVars, rooted, sent, runtime, call, startup, bounds>>

\* Fault: a handler that has nothing to do returns before the finally.
ReturnsEarly(m) ==
  /\ step[m] = "return"
  /\ IF status[m] = "canceled"
     THEN Goes(m, "holding", "done") /\ UNCHANGED <<setting, limit, active, waiters, microtasks>>
     ELSE Release(m)
  /\ StepsTo(m, "look")
  /\ UNCHANGED <<jobVars, runtime, call, startup, bounds>>

Returns(m) ==
  /\ step[m] = "return" /\ Release(m)
  /\ StepsTo(m, "look")
  /\ UNCHANGED <<jobVars, runtime, call, startup, bounds>>

HandlerNext(m) == Looks(m) \/ PlantsRoot(m) \/ GivesUp(m) \/ Returns(m)

-----------------------------------------------------------------------------
(* The runtimes. *)

StartupGoesOn(m) ==
  startup' = IF AwaitedByStartup(m) THEN Startup("next", "none", startup.left) ELSE startup

\* The work is done and the job is settled.
Settles(m) ==
  /\ runtime[m] # "none" /\ status[m] = "running" /\ m \in rooted
  /\ StatusBecomes(m, "ended")
  /\ RuntimeGone(m, "return") /\ StartupGoesOn(m)
  /\ UNCHANGED <<slotVars, rooted, sent, bounds>>

\* The loop was asked to stop, or sees that the job does not run any more.
Stops(m) ==
  /\ \/ runtime[m] = "stopping"
     \/ runtime[m] = "on" /\ status[m] \in {"paused", "canceled", "ended"}
  /\ RuntimeGone(m, "return") /\ StartupGoesOn(m)
  /\ UNCHANGED <<slotVars, jobVars, bounds>>

\* The memory of the server is lost.  BullMQ delivers the messages in process
\* again.
Reboots ==
  /\ handler' = [m \in Messages |-> IF m \in InProcess THEN "queued" ELSE handler[m]]
  /\ active' = 0 /\ waiters' = <<>> /\ microtasks' = <<>>
  /\ runtime' = [m \in Messages |-> "none"]
  /\ step' = [m \in Messages |-> "look"]
  /\ call' = [c \in Calls |-> NoCall]
  /\ startup' = Startup("list", "none", {})
  /\ UNCHANGED <<setting, limit, jobVars, resumed, calls>>

\* An error of the loop reaches whoever awaits the runtime: the handler gives
\* the job up, a call fails, and the startup ends the process.
Fails(m) ==
  /\ runtime[m] # "none"
  /\ \/ AwaitedByStartup(m) /\ Reboots
     \/ ~ AwaitedByStartup(m) /\ RuntimeGone(m, "fail")
          /\ UNCHANGED <<slotVars, jobVars, startup, resumed, calls>>
  /\ UNCHANGED crashes

RuntimeNext(m) == Settles(m) \/ Stops(m) \/ Fails(m)

-----------------------------------------------------------------------------
(* API calls. *)

Begins(c, m, kind, from, to, next) ==
  /\ kind \in Kinds /\ calls < MaxCalls /\ calls' = calls + 1
  /\ call[c] = NoCall /\ status[m] \in from
  /\ StatusBecomes(m, to)
  /\ CallGoes(c, next, m)
  /\ UNCHANGED <<slotVars, rooted, sent, runtime, step, startup, crashes>>

Pause(c, m) ==
  Begins(c, m, "pause", {"pending", "running"}, "paused", "stop") /\ UNCHANGED resumed
Cancel(c, m) ==
  /\ Begins(c, m, "cancel", {"pending", "running", "paused"}, "canceled", "withdraw")
  /\ UNCHANGED resumed
Resume(c, m) ==
  Begins(c, m, "resume", {"paused"}, "running", "start") /\ resumed' = resumed \cup {m}

\* stopPipelineRuntimesForScanJob; a cancellation then removes the message of
\* the job from the queue, if nobody has it yet.
StopsRuntime(c) ==
  /\ call[c].do \in {"stop", "withdraw"}
  /\ runtime' = [runtime EXCEPT ![call[c].job] = IF @ = "on" THEN "stopping" ELSE @]
  /\ IF call[c].do = "withdraw" THEN CallGoes(c, "remove", call[c].job) ELSE CallIsOver(c)
  /\ UNCHANGED <<slotVars, jobVars, step, startup, bounds>>

\* Fault: a call that is over keeps its job.
RemovesMessageOnly(c) ==
  /\ call[c].do = "remove"
  /\ sent' = IF handler[call[c].job] = "queued" THEN sent \ {call[c].job} ELSE sent
  /\ CallGoes(c, "nothing", call[c].job)
  /\ UNCHANGED <<slotVars, status, rooted, runtime, step, startup, bounds>>

RemovesMessage(c) ==
  /\ call[c].do = "remove"
  /\ sent' = IF handler[call[c].job] = "queued" THEN sent \ {call[c].job} ELSE sent
  /\ CallIsOver(c)
  /\ UNCHANGED <<slotVars, status, rooted, runtime, step, startup, bounds>>

\* The resumed runtime needs no slot, and the call awaits it.
StartsRuntime(c) ==
  /\ call[c].do = "start"
  /\ IF status[call[c].job] = "canceled"
     THEN UNCHANGED runtime /\ CallIsOver(c)
     ELSE EnsureRuntime(call[c].job) /\ CallGoes(c, "await", call[c].job)
  /\ UNCHANGED <<slotVars, jobVars, step, startup, bounds>>

CallEnds(c) == StopsRuntime(c) \/ RemovesMessage(c) \/ StartsRuntime(c)

CallNext(c) ==
  \/ CallEnds(c)
  \/ \E m \in Messages : Pause(c, m) \/ Cancel(c, m) \/ Resume(c, m)

-----------------------------------------------------------------------------
(* Crash and startup. *)

Crash == crashes < MaxCrashes /\ crashes' = crashes + 1 /\ Reboots

\* Fault: only the jobs that nobody has started are recovered.
ListsPending ==
  /\ startup.pc = "list"
  /\ startup' = Startup("next", "none",
       {entry \in Listed : entry[2] = "pending" /\ status[entry[1]] = "pending"})
  /\ UNCHANGED <<slotVars, jobVars, runtime, step, call, bounds>>

\* listUnfinishedScanJobsRepo
Lists ==
  /\ startup.pc = "list"
  /\ startup' = Startup("next", "none",
       {entry \in Listed : status[entry[1]] = entry[2]})
  /\ UNCHANGED <<slotVars, jobVars, runtime, step, call, bounds>>

\* The next job, as it was listed; a pending one is made running without a root.
RecoversNext ==
  /\ startup.pc = "next"
  /\ \E entry \in startup.left :
       LET m == entry[1]
           left == startup.left \ {entry} IN
       \/ /\ entry[2] = "running"
          /\ startup' = Startup("start", m, left) /\ UNCHANGED status
       \/ /\ entry[2] = "pending" /\ status[m] = "pending"
          /\ startup' = Startup("start", m, left) /\ StatusBecomes(m, "running")
       \/ /\ entry[2] = "pending" /\ status[m] # "pending"
          /\ startup' = Startup("next", "none", left) /\ UNCHANGED status
  /\ UNCHANGED <<slotVars, rooted, sent, runtime, step, call, bounds>>

\* assertScanJobNotCancelled throws, and exitOnStartupError ends the process.
StartupExits ==
  /\ startup.pc = "start" /\ status[startup.job] = "canceled"
  /\ Reboots /\ UNCHANGED crashes

RecoveryStarts ==
  /\ startup.pc = "start" /\ status[startup.job] # "canceled"
  /\ EnsureRuntime(startup.job)
  /\ startup' = Startup("await", startup.job, startup.left)
  /\ UNCHANGED <<slotVars, jobVars, step, call, bounds>>

WorkerStarts ==
  /\ startup.pc = "next" /\ startup.left = {}
  /\ startup' = Startup("up", "none", {})
  /\ UNCHANGED <<slotVars, jobVars, runtime, step, call, bounds>>

StartupNext == Lists \/ RecoversNext \/ StartupExits \/ RecoveryStarts \/ WorkerStarts

-----------------------------------------------------------------------------
ServerInit ==
  /\ Init
  /\ status = [m \in Messages |-> IF m \in Interrupted THEN "paused" ELSE "pending"]
  /\ rooted = Interrupted /\ sent = Messages /\ resumed = {}
  /\ runtime = [m \in Messages |-> "none"]
  /\ step = [m \in Messages |-> "look"]
  /\ call = [c \in Calls |-> NoCall]
  /\ startup = Startup("up", "none", {})
  /\ calls = 0 /\ crashes = 0

ServerNext ==
  \/ SlotsTurn \/ ChangesSetting \/ StartupNext \/ Crash
  \/ \E m \in Messages : HandlerNext(m) \/ RuntimeNext(m)
  \/ \E c \in Calls : CallNext(c)

ServerSpec == ServerInit /\ [][ServerNext]_serverVars

\* The event loop turns, and a job with a root task is settled in the end.
ServerFairness ==
  /\ WF_serverVars(StartupNext) /\ WF_serverVars(SlotsTurn)
  /\ WF_serverVars(\E m \in Messages : HandlerNext(m))
  /\ WF_serverVars(\E c \in Calls : CallEnds(c))
  /\ SF_serverVars(\E m \in Messages : Settles(m) \/ Stops(m))

FairServerSpec == ServerSpec /\ ServerFairness

-----------------------------------------------------------------------------
\* The variables stay in their types; a call or the startup has a job exactly
\* while it is about to do something with one.
ServerTypeOK ==
  /\ TypeOK
  /\ status \in [Messages -> Statuses] /\ rooted \subseteq Messages /\ sent \subseteq Messages
  /\ runtime \in [Messages -> {"none", "on", "stopping"}]
  /\ step \in [Messages -> {"look", "root", "await", "fail", "return"}]
  /\ call \in [Calls -> {NoCall} \cup
       [do : {"stop", "withdraw", "remove", "start", "await"}, job : Messages]]
  /\ \/ startup \in [pc : {"up", "list", "next"}, job : {"none"}, left : SUBSET Listed]
     \/ startup \in [pc : {"start", "await"}, job : Messages, left : SUBSET Listed]

AwaitedByCall(m) == \E c \in Calls : call[c] = [do |-> "await", job |-> m]

\* The runtimes that only a handler awaits.
Slotted == {m \in Messages :
  runtime[m] # "none" /\ ~ AwaitedByStartup(m) /\ ~ AwaitedByCall(m)}

\* However handlers, calls that stop and resume jobs, errors, crashes and the
\* startup interleave, only a resumption and the startup run a job beyond the
\* limit: the others are never more than a limit that was set.
LimitIsKept == Slotted # {} => \E n \in Limits : Cardinality(Slotted) <= n

\* A job that is running and was never resumed has a runtime, or a handler that
\* is about to start or to fail it, or the startup will come to it: neither a
\* crash at any step nor a call leaves it running with nobody to end it.
RunningIsCaredFor ==
  \A m \in Messages \ resumed : status[m] = "running" =>
    \/ runtime[m] # "none"
    \/ AtStep(m, "root") \/ AtStep(m, "fail")
    \/ startup.pc = "list" \/ <<m, "running">> \in startup.left
    \/ startup.pc = "start" /\ startup.job = m

\* The runtime of a job without a root task, which neither does anything nor
\* ends, is awaited by a handler with a slot or by the startup.
Stuck == \E m \in Messages \ rooted :
  /\ status[m] = "running" /\ runtime[m] # "none"
  /\ AtStep(m, "await") \/ AwaitedByStartup(m)

\* Every pending job is started, or stopped, whatever waits for a slot before it
\* and whatever the startup waits for, unless a runtime without work is in the way.
EveryJobGetsItsTurn == []<>Stuck \/ <>(\A m \in Messages : status[m] # "pending")
=============================================================================

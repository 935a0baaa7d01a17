------------------------- MODULE ScanExecutionSlots -------------------------
(***************************************************************************)
(* The counting semaphore of apps/vulseek/server/queues/scans-queue.ts     *)
(* that bounds how many messages of the scans queue are processed at once. *)
(* Its state is in the memory of the server; each message reads the limit  *)
(* when it is taken, and keeps that limit for as long as it waits, while   *)
(* an administrator may change the setting.                                *)
(*                                                                         *)
(* A released slot is not handed over: the release schedules a microtask   *)
(* in which the first waiter tries again, so that a message that comes in  *)
(* between can take the slot and the waiter goes to the end of the line.   *)
(***************************************************************************)
EXTENDS Naturals, Sequences, FiniteSets, Functions

CONSTANTS
  Messages,     \* the messages of the scans queue
  Limits,       \* the values scanJobConcurrency may have
  Concurrency   \* MAX_SCAN_JOB_WORKER_CONCURRENCY

ASSUME MessagesAssumption == IsFiniteSet(Messages)
ASSUME LimitsAssumption == Limits \subseteq Nat \ {0} /\ Limits # {}
ASSUME ConcurrencyAssumption == Concurrency \in Nat \ {0}

VARIABLES
  setting,      \* user.scanJobConcurrency
  handler,      \* where the handler of each message is
  limit,        \* the limit the handler read
  active,       \* scanExecutionState.active
  waiters,      \* scanExecutionState.waiters
  microtasks    \* the waiters passed to queueMicrotask

vars == <<setting, handler, limit, active, waiters, microtasks>>

HandlerStates == {"queued", "reading", "asking", "waiting", "holding", "done"}
Holders == {m \in Messages : handler[m] = "holding"}
Waiting == {m \in Messages : handler[m] = "waiting"}
InProcess == {m \in Messages : handler[m] \notin {"queued", "done"}}

Goes(m, from, to) == handler[m] = from /\ handler' = [handler EXCEPT ![m] = to]

-----------------------------------------------------------------------------
Init ==
  /\ setting \in Limits
  /\ handler = [m \in Messages |-> "queued"]
  /\ limit = [m \in Messages |-> setting]
  /\ active = 0 /\ waiters = <<>> /\ microtasks = <<>>

\* updateScanJobConcurrencySetting
ChangeSetting ==
  /\ setting' \in Limits
  /\ UNCHANGED <<handler, limit, active, waiters, microtasks>>

\* BullMQ runs at most Concurrency handlers.
Take(m) ==
  /\ Cardinality(InProcess) < Concurrency
  /\ Goes(m, "queued", "reading")
  /\ UNCHANGED <<setting, limit, active, waiters, microtasks>>

\* getScanJobConcurrencySetting; the handler goes on in a later turn.
ReadSetting(m) ==
  /\ Goes(m, "reading", "asking")
  /\ limit' = [limit EXCEPT ![m] = setting]
  /\ UNCHANGED <<setting, active, waiters, microtasks>>

\* tryAcquire, from a handler that is "asking" or from a microtask.
Acquires(m, from) ==
  /\ active < limit[m]
  /\ active' = active + 1
  /\ Goes(m, from, "holding")
  /\ UNCHANGED waiters

LinesUp(m, from) ==
  /\ active >= limit[m]
  /\ waiters' = Append(waiters, m)
  /\ Goes(m, from, "waiting")
  /\ UNCHANGED active

Ask(m) ==
  /\ Acquires(m, "asking") \/ LinesUp(m, "asking")
  /\ UNCHANGED <<setting, limit, microtasks>>

\* Fault: a waiter that finds the slot taken is forgotten.
TryAgainOnce ==
  /\ microtasks # <<>>
  /\ \/ Acquires(Head(microtasks), "waiting")
     \/ active >= limit[Head(microtasks)] /\ UNCHANGED <<active, waiters, handler>>
  /\ microtasks' = Tail(microtasks)
  /\ UNCHANGED <<setting, limit>>

\* The microtask of a released slot.
TryAgain ==
  /\ microtasks # <<>>
  /\ Acquires(Head(microtasks), "waiting") \/ LinesUp(Head(microtasks), "waiting")
  /\ microtasks' = Tail(microtasks)
  /\ UNCHANGED <<setting, limit>>

\* Fault: the slot is given back and nobody is told.
ReleaseSilently(m) ==
  /\ Goes(m, "holding", "done")
  /\ active' = active - 1
  /\ UNCHANGED <<setting, limit, waiters, microtasks>>

\* Fault: a waiter is told and the slot is not given back.
ReleaseKeepsCount(m) ==
  /\ Goes(m, "holding", "done")
  /\ IF waiters = <<>> THEN UNCHANGED <<waiters, microtasks>>
     ELSE /\ waiters' = Tail(waiters)
          /\ microtasks' = Append(microtasks, Head(waiters))
  /\ UNCHANGED <<setting, limit, active>>

\* releaseScanExecutionSlot, in the finally of the handler.
Release(m) ==
  /\ Goes(m, "holding", "done")
  /\ active' = IF active > 0 THEN active - 1 ELSE 0
  /\ IF waiters = <<>> THEN UNCHANGED <<waiters, microtasks>>
     ELSE /\ waiters' = Tail(waiters)
          /\ microtasks' = Append(microtasks, Head(waiters))
  /\ UNCHANGED <<setting, limit>>

Next ==
  \/ ChangeSetting \/ TryAgain
  \/ \E m \in Messages : Take(m) \/ ReadSetting(m) \/ Ask(m) \/ Release(m)

Spec == Init /\ [][Next]_vars

-----------------------------------------------------------------------------
\* The variables stay in their types.
TypeOK ==
  /\ setting \in Limits
  /\ handler \in [Messages -> HandlerStates]
  /\ limit \in [Messages -> Limits]
  /\ active \in Nat
  /\ waiters \in Seq(Messages)
  /\ microtasks \in Seq(Messages)

\* The counter is the number of handlers that hold a slot, however releases,
\* late microtasks and newcomers interleave, and it never exceeds every limit
\* the setting has had: no slot is leaked or given twice.
SlotsAreCounted ==
  /\ active = Cardinality(Holders)
  /\ active > 0 => \E n \in Limits : active <= n

\* The handlers that wait are exactly those in the line or about to try again,
\* each of them once: none is forgotten when it loses the slot to a newcomer,
\* and none could be let in twice.
EachWaitsOnce ==
  /\ Waiting = Range(waiters) \cup Range(microtasks)
  /\ Range(waiters) \cap Range(microtasks) = {}
  /\ IsInjective(waiters) /\ IsInjective(microtasks)

\* Nobody waits beside free slots: while the line is not empty, the slots in
\* use and the waiters about to try again make up a limit that was in force.
NoLostWakeup ==
  waiters # <<>> => \E n \in Limits : active + Len(microtasks) >= n
=============================================================================

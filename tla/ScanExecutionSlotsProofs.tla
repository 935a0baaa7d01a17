---------------------- MODULE ScanExecutionSlotsProofs ----------------------
(***************************************************************************)
(* The semaphore of the scans worker is safe for every set of messages,    *)
(* every set of limits and every worker concurrency.                       *)
(***************************************************************************)
EXTENDS ScanExecutionSlots, FiniteSetTheorems, TLAPS

\* What leaves and what joins a line.
LEMMA TailOfLine ==
  ASSUME NEW s \in Seq(Messages), s # <<>>, IsInjective(s)
  PROVE  /\ Tail(s) \in Seq(Messages) /\ Head(s) \in Messages
         /\ Len(Tail(s)) = Len(s) - 1
         /\ Range(Tail(s)) = Range(s) \ {Head(s)} /\ Head(s) \in Range(s)
         /\ IsInjective(Tail(s))
<1>1. /\ Tail(s) \in Seq(Messages) /\ Head(s) \in Messages
      /\ Len(s) \in Nat \ {0} /\ Len(Tail(s)) = Len(s) - 1 /\ Head(s) = s[1]
      /\ \A i \in 1 .. Len(s) - 1 : Tail(s)[i] = s[i + 1]
      /\ DOMAIN s = 1 .. Len(s) /\ DOMAIN Tail(s) = 1 .. Len(s) - 1
  OBVIOUS
<1>2. Head(s) \in Range(s)
  BY <1>1 DEF Range
<1>3. IsInjective(Tail(s))
  BY <1>1 DEF IsInjective
<1>4. Range(Tail(s)) \subseteq Range(s) \ {Head(s)}
  <2> SUFFICES ASSUME NEW i \in 1 .. Len(s) - 1
               PROVE  Tail(s)[i] \in Range(s) /\ Tail(s)[i] # Head(s)
    BY <1>1 DEF Range
  <2>1. Tail(s)[i] = s[i + 1] /\ i + 1 \in 1 .. Len(s) /\ i + 1 # 1
    BY <1>1
  <2> QED BY <2>1, <1>1 DEF Range, IsInjective
<1>5. Range(s) \ {Head(s)} \subseteq Range(Tail(s))
  <2> SUFFICES ASSUME NEW i \in 1 .. Len(s), s[i] # Head(s)
               PROVE  s[i] \in Range(Tail(s))
    BY <1>1 DEF Range
  <2>1. i - 1 \in 1 .. Len(s) - 1 /\ Tail(s)[i - 1] = s[i]
    BY <1>1
  <2> QED BY <2>1, <1>1 DEF Range
<1> QED BY <1>1, <1>2, <1>3, <1>4, <1>5

LEMMA JoinLine ==
  ASSUME NEW s \in Seq(Messages), NEW m \in Messages, IsInjective(s), m \notin Range(s)
  PROVE  /\ Append(s, m) \in Seq(Messages)
         /\ Len(Append(s, m)) = Len(s) + 1
         /\ Range(Append(s, m)) = Range(s) \cup {m}
         /\ IsInjective(Append(s, m))
<1>1. /\ Append(s, m) \in Seq(Messages) /\ Len(s) \in Nat
      /\ Len(Append(s, m)) = Len(s) + 1
      /\ DOMAIN Append(s, m) = 1 .. Len(s) + 1 /\ DOMAIN s = 1 .. Len(s)
      /\ Append(s, m)[Len(s) + 1] = m
      /\ \A i \in 1 .. Len(s) : Append(s, m)[i] = s[i]
  OBVIOUS
<1>2. \A i \in 1 .. Len(s) : s[i] # m
  BY <1>1 DEF Range
<1>3. IsInjective(Append(s, m))
  BY <1>1, <1>2 DEF IsInjective
<1>4. Range(Append(s, m)) = Range(s) \cup {m}
  <2>1. \A i \in 1 .. Len(s) + 1 : i \in 1 .. Len(s) \/ i = Len(s) + 1
    BY <1>1
  <2> QED BY <2>1, <1>1 DEF Range
<1> QED BY <1>1, <1>3, <1>4

\* A handler that changes its state counts, or stops counting, as a holder.
LEMMA Counting ==
  ASSUME TypeOK, NEW m \in Messages, NEW from, NEW to, Goes(m, from, to)
  PROVE  /\ IsFiniteSet(Holders) /\ Cardinality(Holders) \in Nat
         /\ from # "holding" /\ to # "holding" => Holders' = Holders
         /\ from # "holding" /\ to = "holding" =>
              Cardinality(Holders') = Cardinality(Holders) + 1
         /\ from = "holding" /\ to # "holding" =>
              Cardinality(Holders') = Cardinality(Holders) - 1
<1>1. IsFiniteSet(Holders) /\ Cardinality(Holders) \in Nat
  BY MessagesAssumption, FS_Subset, FS_CardinalityType DEF Holders
<1>2. \A o \in Messages : handler'[o] = IF o = m THEN to ELSE handler[o]
  BY DEF Goes, TypeOK
<1>3. CASE from # "holding" /\ to # "holding"
  BY <1>1, <1>2, <1>3 DEF Holders, Goes
<1>4. CASE from # "holding" /\ to = "holding"
  <2>1. Holders' = Holders \cup {m} /\ m \notin Holders
    BY <1>2, <1>4 DEF Holders, Goes
  <2> QED BY <2>1, <1>1, <1>4, FS_AddElement
<1>5. CASE from = "holding" /\ to # "holding"
  <2>1. Holders' = Holders \ {m} /\ m \in Holders
    BY <1>2, <1>5 DEF Holders, Goes
  <2> QED BY <2>1, <1>1, <1>5, FS_RemoveElement
<1> QED BY <1>1, <1>3, <1>4, <1>5
-----------------------------------------------------------------------------
SlotsInv == TypeOK /\ SlotsAreCounted /\ EachWaitsOnce /\ NoLostWakeup

LEMMA SlotsInit == Init => SlotsInv
<1> SUFFICES ASSUME Init PROVE SlotsInv
  OBVIOUS
<1>1. TypeOK
  BY DEF Init, TypeOK, HandlerStates
<1>2. Holders = {} /\ Waiting = {}
  BY DEF Init, Holders, Waiting
<1>3. SlotsAreCounted
  BY <1>2, FS_EmptySet DEF Init, SlotsAreCounted
<1>4. EachWaitsOnce
  BY <1>2 DEF Init, EachWaitsOnce, Range, IsInjective
<1>5. NoLostWakeup
  BY DEF Init, NoLostWakeup
<1> QED BY <1>1, <1>3, <1>4, <1>5 DEF SlotsInv

\* Steps that touch neither the counter nor the line.
LEMMA PlainStep ==
  ASSUME SlotsInv, TypeOK', UNCHANGED <<active, waiters, microtasks>>,
         Holders' = Holders, Waiting' = Waiting
  PROVE  SlotsInv'
BY DEF SlotsInv, SlotsAreCounted, EachWaitsOnce, NoLostWakeup

LEMMA AskStep == ASSUME SlotsInv, NEW m \in Messages, Ask(m) PROVE SlotsInv'
<1> USE DEF SlotsInv
<1>1. TypeOK'
  <2>1. active' \in Nat /\ handler' \in [Messages -> HandlerStates]
    BY DEF Ask, Acquires, LinesUp, Goes, TypeOK, HandlerStates
  <2>2. waiters' = waiters \/ waiters' = Append(waiters, m)
    BY DEF Ask, Acquires, LinesUp
  <2>3. waiters' \in Seq(Messages)
    BY <2>2 DEF TypeOK
  <2> QED BY <2>1, <2>3 DEF Ask, TypeOK
<1>2. m \notin Waiting /\ limit[m] \in Limits /\ limit[m] \in Nat
  BY LimitsAssumption DEF Ask, Acquires, LinesUp, Goes, TypeOK, Waiting
<1>3. active \in Nat /\ Len(microtasks) \in Nat
  BY DEF TypeOK
<1>4. CASE Acquires(m, "asking")
  <2>1. Goes(m, "asking", "holding") /\ active' = active + 1 /\ active < limit[m]
          /\ UNCHANGED <<waiters, microtasks>>
    BY <1>4 DEF Acquires, Ask
  <2>2. Waiting' = Waiting
    BY <2>1 DEF Goes, TypeOK, Waiting
  <2>3. SlotsAreCounted'
    BY <2>1, <1>2, <1>3, Counting DEF SlotsAreCounted
  <2>4. NoLostWakeup'
    <3>1. \A n \in Limits : n \in Nat
      BY LimitsAssumption
    <3> QED BY <3>1, <2>1, <1>3 DEF NoLostWakeup
  <2> QED BY <1>1, <2>1, <2>2, <2>3, <2>4 DEF EachWaitsOnce
<1>5. CASE LinesUp(m, "asking")
  <2>1. Goes(m, "asking", "waiting") /\ active >= limit[m] /\ active' = active
          /\ waiters' = Append(waiters, m) /\ microtasks' = microtasks
    BY <1>5 DEF LinesUp, Ask
  <2>2. Waiting' = Waiting \cup {m}
    BY <2>1 DEF Goes, TypeOK, Waiting
  <2>3. SlotsAreCounted'
    BY <2>1, Counting DEF SlotsAreCounted
  <2>4. EachWaitsOnce'
    BY <2>1, <2>2, <1>2, JoinLine DEF EachWaitsOnce, TypeOK
  <2>5. NoLostWakeup'
    BY <2>1, <1>2, <1>3 DEF NoLostWakeup
  <2> QED BY <1>1, <2>3, <2>4, <2>5
<1> QED BY <1>4, <1>5 DEF Ask

LEMMA TryAgainStep == ASSUME SlotsInv, TryAgain PROVE SlotsInv'
<1> USE DEF SlotsInv
<1> DEFINE m == Head(microtasks)
<1>1. /\ m \in Messages /\ microtasks' = Tail(microtasks)
      /\ m \in Range(microtasks) /\ Range(microtasks') = Range(microtasks) \ {m}
      /\ IsInjective(microtasks') /\ microtasks' \in Seq(Messages)
      /\ Len(microtasks') = Len(microtasks) - 1
  BY TailOfLine DEF TryAgain, EachWaitsOnce, TypeOK
<1>2. m \in Waiting /\ m \notin Range(waiters) /\ limit[m] \in Limits /\ limit[m] \in Nat
  BY <1>1, LimitsAssumption DEF EachWaitsOnce, TypeOK
<1>3. active \in Nat /\ Len(microtasks) \in Nat /\ waiters \in Seq(Messages)
        /\ UNCHANGED <<setting, limit>>
  BY DEF TypeOK, TryAgain
<1> HIDE DEF m
<1>4. CASE Acquires(m, "waiting")
  <2>1. Goes(m, "waiting", "holding") /\ active' = active + 1 /\ active < limit[m]
          /\ UNCHANGED waiters
    BY <1>4 DEF Acquires
  <2>2. Waiting' = Waiting \ {m}
    BY <2>1, <1>1 DEF Goes, TypeOK, Waiting
  <2>3. TypeOK'
    BY <2>1, <1>1, <1>3 DEF TypeOK, Goes, HandlerStates
  <2>4. SlotsAreCounted'
    BY <2>1, <1>1, <1>2, <1>3, Counting DEF SlotsAreCounted
  <2>5. EachWaitsOnce'
    BY <2>1, <2>2, <1>1, <1>2 DEF EachWaitsOnce
  <2>6. NoLostWakeup'
    BY <2>1, <1>1, <1>3 DEF NoLostWakeup
  <2> QED BY <2>3, <2>4, <2>5, <2>6
<1>5. CASE LinesUp(m, "waiting")
  <2>1. Goes(m, "waiting", "waiting") /\ active >= limit[m] /\ active' = active
          /\ waiters' = Append(waiters, m)
    BY <1>5 DEF LinesUp
  <2>2. handler' = handler
    BY <2>1, <1>1 DEF Goes, TypeOK
  <2>3. /\ waiters' \in Seq(Messages) /\ IsInjective(waiters')
        /\ Range(waiters') = Range(waiters) \cup {m}
    BY <2>1, <1>1, <1>2, <1>3, JoinLine DEF EachWaitsOnce
  <2>4. TypeOK'
    BY <2>1, <2>2, <2>3, <1>1, <1>3 DEF TypeOK
  <2>5. SlotsAreCounted'
    BY <2>1, <2>2 DEF SlotsAreCounted, Holders
  <2>6. EachWaitsOnce'
    BY <2>2, <2>3, <1>1, <1>2 DEF EachWaitsOnce, Waiting
  <2>7. NoLostWakeup'
    <3>1. Len(microtasks') \in Nat /\ active' + Len(microtasks') >= limit[m]
      BY <2>1, <1>1, <1>2, <1>3
    <3> QED BY <3>1, <1>2 DEF NoLostWakeup
  <2> QED BY <2>4, <2>5, <2>6, <2>7
<1> QED BY <1>4, <1>5 DEF TryAgain, m

LEMMA ReleaseStep == ASSUME SlotsInv, NEW m \in Messages, Release(m) PROVE SlotsInv'
<1> USE DEF SlotsInv
<1>1. Goes(m, "holding", "done") /\ UNCHANGED <<setting, limit>>
  BY DEF Release
<1>2. /\ IsFiniteSet(Holders) /\ m \in Holders
      /\ Cardinality(Holders') = Cardinality(Holders) - 1
  <2>1. m \in Holders
    BY <1>1 DEF Goes, Holders
  <2> QED BY <2>1, <1>1, Counting
<1>3. Waiting' = Waiting
  BY <1>1 DEF Goes, TypeOK, Waiting
<1>4. active \in Nat /\ active > 0 /\ active' = active - 1
  BY <1>2, FS_EmptySet DEF Release, SlotsAreCounted, TypeOK
<1>5. SlotsAreCounted'
  <2>1. \A n \in Limits : n \in Nat
    BY LimitsAssumption
  <2> QED BY <2>1, <1>2, <1>4 DEF SlotsAreCounted
<1>6. handler' \in [Messages -> HandlerStates]
  BY <1>1 DEF Goes, TypeOK, HandlerStates
<1>7. CASE waiters = <<>>
  <2>1. UNCHANGED <<waiters, microtasks>>
    BY <1>7 DEF Release
  <2> QED BY <2>1, <1>7, <1>1, <1>3, <1>4, <1>5, <1>6
          DEF TypeOK, EachWaitsOnce, NoLostWakeup
<1>8. CASE waiters # <<>>
  <2> DEFINE w == Head(waiters)
  <2>1. waiters' = Tail(waiters) /\ microtasks' = Append(microtasks, w)
    BY <1>8 DEF Release
  <2>2. /\ w \in Messages /\ w \in Range(waiters)
        /\ waiters' \in Seq(Messages) /\ IsInjective(waiters')
        /\ Range(waiters') = Range(waiters) \ {w}
    BY <2>1, <1>8, TailOfLine DEF EachWaitsOnce, TypeOK
  <2>3. w \notin Range(microtasks)
    BY <2>2 DEF EachWaitsOnce
  <2> HIDE DEF w
  <2>4. /\ microtasks' \in Seq(Messages) /\ IsInjective(microtasks')
        /\ Range(microtasks') = Range(microtasks) \cup {w}
        /\ Len(microtasks') = Len(microtasks) + 1 /\ Len(microtasks) \in Nat
    BY <2>1, <2>2, <2>3, JoinLine DEF EachWaitsOnce, TypeOK
  <2>5. TypeOK'
    BY <2>2, <2>4, <1>1, <1>4, <1>6 DEF TypeOK
  <2>6. EachWaitsOnce'
    BY <2>2, <2>3, <2>4, <1>3 DEF EachWaitsOnce
  <2>7. NoLostWakeup'
    BY <2>4, <1>4, <1>8 DEF NoLostWakeup
  <2> QED BY <2>5, <2>6, <2>7, <1>5
<1> QED BY <1>7, <1>8

\* At every moment the counter is the number of slots held, the line holds
\* every waiting handler once, and no slot stays free beside a waiter.
THEOREM SlotsAreSafe == Spec => [](SlotsAreCounted /\ EachWaitsOnce /\ NoLostWakeup)
<1>1. SlotsInv /\ [Next]_vars => SlotsInv'
  <2> SUFFICES ASSUME SlotsInv, [Next]_vars PROVE SlotsInv'
    OBVIOUS
  <2>1. CASE UNCHANGED vars \/ ChangeSetting
    <3>1. TypeOK' /\ Holders' = Holders /\ Waiting' = Waiting
            /\ UNCHANGED <<active, waiters, microtasks>>
      BY <2>1 DEF SlotsInv, vars, ChangeSetting, TypeOK, Holders, Waiting
    <3> QED BY <3>1, PlainStep
  <2>2. ASSUME NEW m \in Messages, Take(m) \/ ReadSetting(m) PROVE SlotsInv'
    <3>1. TypeOK' /\ UNCHANGED <<active, waiters, microtasks>>
      BY <2>2 DEF SlotsInv, Take, ReadSetting, Goes, TypeOK, HandlerStates
    <3>2. Holders' = Holders /\ Waiting' = Waiting
      BY <2>2 DEF SlotsInv, Take, ReadSetting, Goes, TypeOK, Holders, Waiting
    <3> QED BY <3>1, <3>2, PlainStep
  <2> QED BY <2>1, <2>2, AskStep, TryAgainStep, ReleaseStep DEF Next
<1>2. SlotsInv => SlotsAreCounted /\ EachWaitsOnce /\ NoLostWakeup
  BY DEF SlotsInv
<1> QED BY SlotsInit, <1>1, <1>2, PTL DEF Spec

\* A handler that waits is in line or woken, once and never both: a newcomer
\* that takes its slot makes it wait again but does not make it forgotten.
THEOREM WaitersStayInLine == Spec => []EachWaitsOnce
BY SlotsAreSafe, PTL

\* No slot that a handler waits for stays free without a woken waiter that is
\* about to try it, also after the limit was changed.
THEOREM NoWakeupIsLost == Spec => []NoLostWakeup
BY SlotsAreSafe, PTL
=============================================================================

----------------------- MODULE DriverStdoutTailProofs -----------------------
(***************************************************************************)
(* That callers of DriverStdoutTailReader never read at the same time, and *)
(* that what they learn piece by piece is what the whole file says, for    *)
(* any callers, files of any length and whatever happens to the file.      *)
(***************************************************************************)
EXTENDS DriverStdoutTail, SequenceTheorems, WellFoundedInduction, TLAPS

\* Records with the fields of an entry and of a file; of most fields nothing
\* need be known.
IsEntry(e) ==
  e \in [ino : Nat, offset : {e.offset}, mtime : {e.mtime}, size : {e.size},
         rest : {e.rest}, parsed : {e.parsed}, inFlight : Readers \cup {"none"},
         gen : {e.gen}, mixed : {e.mixed}]
IsFile == file \in [ino : Nat, data : {file.data}, mtime : {file.mtime}, gen : Nat]

\* Who awaits a read awaits one that goes on, and a read that goes on is
\* announced in the entry.
ReadsInv ==
  /\ IsFile
  /\ entry = Absent \/ IsEntry(entry)
  /\ entry # Absent /\ entry.inFlight # "none" => Reading(entry.inFlight)
  /\ reads = [r \in Readers |-> reads[r]]
  /\ \A r \in Readers :
       /\ \/ reads[r] = Idle
          \/ reads[r] = [pc |-> "joined", of |-> reads[r].of]
          \/ reads[r].pc \in {"stat", "data"}
       /\ reads[r].pc = "joined" => reads[r].of \in Readers /\ Reading(reads[r].of)
       /\ reads[r].pc = "data" => IsEntry(reads[r].entry)
       /\ Reading(r) => entry # Absent /\ entry.inFlight = r

LEMMA ReadsInvInit == TailInit => ReadsInv
BY DEF TailInit, ReadsInv, IsFile, NoFile, Idle, Reading

LEMMA FileStep == ASSUME ReadsInv, FileNext PROVE ReadsInv'
<1>1. IsFile'
  <2>1. CASE \E u \in Units : Appends(u)
    BY <2>1 DEF Appends, ReadsInv, IsFile
  <2>2. CASE Empties
    BY <2>2 DEF Empties, ReadsInv, IsFile
  <2>3. CASE Removes
    BY <2>3 DEF Removes, NoFile, ReadsInv, IsFile
  <2>4. CASE Ticks
    BY <2>4 DEF Ticks, ReadsInv, IsFile
  <2> QED BY <2>1, <2>2, <2>3, <2>4 DEF FileNext
<1>2. UNCHANGED <<entry, reads>>
  BY DEF FileNext, Appends, Empties, Removes, Ticks, tail
<1> QED BY <1>1, <1>2 DEF ReadsInv, Reading, IsEntry

\* Nobody reads, and so nobody waits, when no read is in flight.
LEMMA NobodyReads ==
  ASSUME ReadsInv, entry = Absent \/ entry.inFlight = "none"
  PROVE  \A q \in Readers : reads[q] = Idle
<1>1. \A q \in Readers : ~Reading(q)
  BY ReadersAssumption DEF ReadsInv
<1>2. ASSUME NEW q \in Readers PROVE reads[q] = Idle
  <2>1. reads[q].pc # "joined" /\ ~(reads[q].pc \in {"stat", "data"})
    BY <1>1 DEF ReadsInv, Reading
  <2>2. reads[q] = Idle \/ reads[q] = [pc |-> "joined", of |-> reads[q].of]
    BY <2>1 DEF ReadsInv
  <2> QED BY <2>1, <2>2
<1> QED BY <1>2

\* A caller joins the read in flight, or there is none and nobody waits.
LEMMA ReadsStep == ASSUME ReadsInv, NEW r \in Readers, Reads(r) PROVE ReadsInv'
<1>1. UNCHANGED file /\ reads[r] = Idle
  BY DEF Reads
<1>2. IsFile'
  BY <1>1 DEF IsFile, ReadsInv
<1>3. CASE entry # Absent /\ entry.inFlight # "none"
  <2>1. /\ entry' = entry
        /\ reads' = [reads EXCEPT ![r] = [pc |-> "joined", of |-> entry.inFlight]]
    BY <1>3 DEF Reads
  <2>2. entry.inFlight \in Readers
    BY <1>3 DEF ReadsInv, IsEntry
  <2>3. Reading(entry.inFlight) /\ entry.inFlight # r
    BY <1>1, <1>3 DEF ReadsInv, Reading, Idle
  <2>4. /\ reads'[r] = [pc |-> "joined", of |-> entry.inFlight]
        /\ \A q \in Readers : q # r => reads'[q] = reads[q]
        /\ reads' = [q \in Readers |-> reads'[q]]
    BY <2>1 DEF ReadsInv
  <2>5. \A q \in Readers : Reading(q)' <=> Reading(q)
    BY <1>1, <2>4 DEF Reading, Idle
  <2> QED BY <1>1, <1>2, <2>1, <2>2, <2>3, <2>4, <2>5 DEF ReadsInv, IsEntry
<1>4. CASE entry = Absent \/ entry.inFlight = "none"
  <2>1. \A q \in Readers : reads[q] = Idle
    BY <1>4, NobodyReads
  <2>2. /\ entry' = [(IF entry = Absent THEN Fresh(0, 0) ELSE entry) EXCEPT !.inFlight = r]
        /\ reads' = [reads EXCEPT ![r] = [pc |-> "stat", existing |-> entry # Absent]]
    BY <1>4 DEF Reads
  <2>3. IsEntry(entry') /\ entry'.inFlight = r /\ entry' # Absent
    <3>1. CASE entry = Absent
      BY <2>2, <3>1 DEF Fresh, IsEntry, ReadsInv, IsFile, Absent
    <3>2. CASE entry # Absent
      BY <2>2, <3>2 DEF IsEntry, ReadsInv, Absent
    <3> QED BY <3>1, <3>2
  <2>4. /\ reads'[r].pc = "stat"
        /\ \A q \in Readers : q # r => reads'[q] = Idle
        /\ reads' = [q \in Readers |-> reads'[q]]
    BY <2>1, <2>2 DEF ReadsInv
  <2> QED BY <1>2, <2>3, <2>4 DEF ReadsInv, Reading, Idle, IsEntry
<1> QED BY <1>3, <1>4

\* The one read in flight ends, and with it all that wait.
LEMMA ResolveStep ==
  ASSUME ReadsInv, NEW r \in Readers, Reading(r), Resolves(r), UNCHANGED file,
         entry' = Absent \/ (IsEntry(entry') /\ entry'.inFlight = "none")
  PROVE  ReadsInv'
<1>1. \A q \in Readers : q # r => ~Reading(q)
  BY DEF ReadsInv
<1>2. ASSUME NEW q \in Readers PROVE reads'[q] = Idle
  <2>1. reads'[q] = IF q = r \/ reads[q] = [pc |-> "joined", of |-> r] THEN Idle ELSE reads[q]
    BY DEF Resolves
  <2>2. CASE reads[q] = [pc |-> "joined", of |-> reads[q].of]
    <3>1. reads[q].pc = "joined"
      BY <2>2
    <3>2. reads[q].of = r
      BY <1>1, <3>1 DEF ReadsInv
    <3> QED BY <2>1, <2>2, <3>2
  <2>3. CASE reads[q].pc \in {"stat", "data"}
    BY <1>1, <2>1, <2>3 DEF Reading
  <2> QED BY <2>1, <2>2, <2>3 DEF ReadsInv
<1>3. IsFile' /\ reads' = [q \in Readers |-> reads'[q]]
  BY DEF Resolves, IsFile, ReadsInv
<1>4. \A q \in Readers : ~Reading(q)' /\ reads'[q].pc = "idle"
  BY <1>2 DEF Reading, Idle
<1>5. /\ (entry = Absent \/ IsEntry(entry))'
      /\ (entry = Absent \/ entry.inFlight = "none")'
  BY DEF Absent, IsEntry
<1> QED BY <1>2, <1>3, <1>4, <1>5 DEF ReadsInv

\* The stat ends the read, or the reader goes on with an entry of its own.
LEMMA StatsStep == ASSUME ReadsInv, NEW r \in Readers, Stats(r) PROVE ReadsInv'
<1>1. /\ UNCHANGED file /\ Reading(r) /\ reads[r].pc = "stat"
      /\ entry # Absent /\ entry.inFlight = r /\ IsEntry(entry)
  BY DEF Stats, Reading, ReadsInv
<1> DEFINE reset == NeedsReset(reads[r].existing)
           e == IF reset THEN Fresh(file.ino, file.mtime)
                ELSE [entry EXCEPT !.gen = file.gen, !.mixed = @ \/ Hidden]
<1>2. IsEntry(e)
  <2>1. CASE reset
    BY <2>1 DEF Fresh, IsEntry, ReadsInv, IsFile
  <2>2. CASE ~reset
    BY <1>1, <2>2 DEF IsEntry, ReadsInv, IsFile
  <2> QED BY <2>1, <2>2
<1>3. CASE file.ino = 0
  BY <1>1, <1>3, ResolveStep DEF Stats
<1>4. CASE file.ino # 0 /\ ~reset /\ Size = entry.size /\ file.mtime = entry.mtime
  <2>1. entry' = [e EXCEPT !.inFlight = "none"] /\ Resolves(r)
    BY <1>4 DEF Stats
  <2>2. IsEntry(entry') /\ entry'.inFlight = "none"
    <3> HIDE DEF e
    <3> QED BY <1>2, <2>1 DEF IsEntry
  <2> QED BY <1>1, <2>1, <2>2, ResolveStep
<1>5. CASE file.ino # 0 /\ ~(~reset /\ Size = entry.size /\ file.mtime = entry.mtime)
  <2>1. /\ entry' = entry
        /\ reads' = [reads EXCEPT ![r] =
             [pc |-> "data", entry |-> e, size |-> Size, mtime |-> file.mtime]]
    BY <1>5 DEF Stats
  <2> HIDE DEF e, reset
  <2>2. /\ reads'[r].pc = "data" /\ reads'[r].entry = e
        /\ reads'[r].pc # "joined"
        /\ \A q \in Readers : q # r => reads'[q] = reads[q]
        /\ reads' = [q \in Readers |-> reads'[q]]
    BY <2>1 DEF ReadsInv
  <2>3. \A q \in Readers : Reading(q)' <=> Reading(q)
    BY <1>1, <2>2 DEF Reading
  <2> QED BY <1>1, <1>2, <2>1, <2>2, <2>3 DEF ReadsInv, IsFile, IsEntry
<1> QED BY <1>3, <1>4, <1>5

\* The read of the data ends the read, also when it fails.
LEMMA FetchesStep == ASSUME ReadsInv, NEW r \in Readers, Fetches(r) PROVE ReadsInv'
<1>1. /\ UNCHANGED file /\ Reading(r) /\ Resolves(r)
      /\ IsEntry(entry) /\ IsEntry(reads[r].entry)
  BY DEF Fetches, Reading, ReadsInv
<1> DEFINE e == reads[r].entry
           text == Chunk(e, reads[r].size)
           done == Consume(e.parsed, e.rest, text)
<1>2. \/ entry' = [entry EXCEPT !.inFlight = "none"]
      \/ entry' = [e EXCEPT !.offset = @ + Len(text), !.rest = done.rest,
                            !.parsed = done.parsed, !.mtime = reads[r].mtime,
                            !.size = reads[r].size, !.inFlight = "none"]
  BY DEF Fetches, FailsWithout
<1>3. IsEntry(entry') /\ entry'.inFlight = "none"
  <2>1. CASE entry' = [entry EXCEPT !.inFlight = "none"]
    BY <1>1, <2>1 DEF IsEntry
  <2>2. CASE entry' = [e EXCEPT !.offset = @ + Len(text), !.rest = done.rest,
                            !.parsed = done.parsed, !.mtime = reads[r].mtime,
                            !.size = reads[r].size, !.inFlight = "none"]
    <3>1. IsEntry(e)
      BY <1>1
    <3> HIDE DEF e, text, done
    <3> QED BY <2>2, <3>1 DEF IsEntry
  <2> QED BY <1>2, <2>1, <2>2
<1> QED BY <1>1, <1>3, ResolveStep

\* The invariant of the reads holds in every reachable state.
THEOREM ReadsInvariance == TailSpec => []ReadsInv
<1>1. ReadsInv /\ [TailNext]_tailVars => ReadsInv'
  <2> SUFFICES ASSUME ReadsInv, [TailNext]_tailVars PROVE ReadsInv'
    OBVIOUS
  <2>1. CASE UNCHANGED tailVars
    BY <2>1 DEF tailVars, tail, ReadsInv, Reading, IsFile, IsEntry
  <2>2. CASE FileNext
    BY <2>2, FileStep
  <2>3. CASE ReaderNext
    BY <2>3, ReadsStep, StatsStep, FetchesStep DEF ReaderNext
  <2> QED BY <2>1, <2>2, <2>3 DEF TailNext
<1> QED BY <1>1, ReadsInvInit, PTL DEF TailSpec

\* Callers of read share one read of the file at a time, for any number of
\* callers and whatever is written, emptied or removed while they read.
THEOREM ReadsAreShared == TailSpec => []ReadsDoNotOverlap
<1>1. ReadsInv => ReadsDoNotOverlap
  BY DEF ReadsInv, ReadsDoNotOverlap, Reading
<1> QED BY <1>1, ReadsInvariance, PTL

-----------------------------------------------------------------------------
(* The loop of Consume. *)

\* Every nonempty set of natural numbers has a least element: induction, in the
\* form in which it can be used here.
LEMMA LeastNumber ==
  ASSUME NEW T \in SUBSET Nat, T # {}
  PROVE  \E n \in T : \A m \in T : n <= m
<1> DEFINE R == {ss \in Nat \X Nat : ss[1] < ss[2]}
<1>1. IsWellFoundedOn(R, Nat)
  BY NatLessThanWellFounded, Zenon DEF OpToRel
<1>2. \A m, n \in Nat : <<m, n>> \in R <=> m < n
  OBVIOUS
<1> HIDE DEF R
<1>3. PICK n \in T : \A m \in T : <<m, n>> \notin R
  BY <1>1, WFMin
<1>4. n \in Nat /\ \A m \in T : m \in Nat /\ ~(m < n)
  BY <1>2, <1>3
<1> QED BY <1>4

\* The states of the loop of Consume, one for each unit taken.
LoopOf(g, s, text) ==
  g = [i \in 0 .. Len(text) |-> IF i = 0 THEN s ELSE TakeUnit(g[i - 1], text[i])]

\* There are such states, however long the text is.
LEMMA LoopRuns ==
  ASSUME NEW s, NEW text \in Seq(Units)
  PROVE  \E g : LoopOf(g, s, text)
<1> DEFINE Runs(n) ==
      \E g : g = [i \in 0 .. n |-> IF i = 0 THEN s ELSE TakeUnit(g[i - 1], text[i])]
           T == {n \in Nat : ~Runs(n)}
<1>1. ASSUME T # {} PROVE FALSE
  <2>1. PICK n \in T : \A m \in T : n <= m
    BY <1>1, LeastNumber
  <2>2. CASE n = 0
    <3> DEFINE g == [i \in 0 .. 0 |-> s]
    <3>1. g = [i \in 0 .. 0 |-> IF i = 0 THEN s ELSE TakeUnit(g[i - 1], text[i])]
      OBVIOUS
    <3> QED BY <2>1, <2>2, <3>1
  <2>3. CASE n # 0
    <3>1. n - 1 \in Nat /\ Runs(n - 1)
      BY <2>1, <2>3
    <3>2. PICK g : g = [i \in 0 .. n - 1 |->
                          IF i = 0 THEN s ELSE TakeUnit(g[i - 1], text[i])]
      BY <3>1
    <3> DEFINE h == [i \in 0 .. n |-> IF i = n THEN TakeUnit(g[n - 1], text[n]) ELSE g[i]]
    <3>3. ASSUME NEW i \in 0 .. n
          PROVE  h[i] = IF i = 0 THEN s ELSE TakeUnit(h[i - 1], text[i])
      <4>1. CASE i = 0
        BY <2>1, <2>3, <3>2, <4>1
      <4>2. CASE i # 0
        <5>1. h[i - 1] = g[i - 1]
          BY <2>1, <2>3, <4>2
        <5>2. h[i] = TakeUnit(g[i - 1], text[i])
          BY <2>1, <2>3, <3>2, <4>2
        <5> QED BY <4>2, <5>1, <5>2
      <4> QED BY <4>1, <4>2
    <3>4. h = [i \in 0 .. n |-> IF i = 0 THEN s ELSE TakeUnit(h[i - 1], text[i])]
      BY <3>3
    <3> QED BY <2>1, <3>4
  <2> QED BY <2>2, <2>3
<1>2. Len(text) \in Nat
  OBVIOUS
<1>3. Runs(Len(text))
  BY <1>1, <1>2
<1> QED BY <1>3 DEF LoopOf

\* Consume is the last of them.
LEMMA ConsumeIsLast ==
  ASSUME NEW parsed, NEW rest, NEW text \in Seq(Units)
  PROVE  \E g : /\ LoopOf(g, [parsed |-> parsed, rest |-> rest], text)
                /\ Consume(parsed, rest, text) = g[Len(text)]
<1> DEFINE s == [parsed |-> parsed, rest |-> rest]
           g == CHOOSE h : LoopOf(h, s, text)
<1>1. LoopOf(g, s, text)
  <2>1. \E h : LoopOf(h, s, text)
    BY LoopRuns
  <2> QED BY <2>1
<1>2. Consume(parsed, rest, text) = g[Len(text)]
  BY DEF Consume, LoopOf
<1> QED BY <1>1, <1>2

-----------------------------------------------------------------------------
(* What the reader keeps, and what the file says. *)

\* What the reader keeps of a line, and has learned, when it has read data.
LineUnits == Units \ {"nl"}

KeepsRest(rest, data) ==
  /\ rest \in Seq(LineUnits) /\ Len(rest) <= Len(data)
  /\ \A i \in 1 .. Len(rest) : rest[i] = data[Len(data) - Len(rest) + i]
  /\ Len(rest) = Len(data) \/ data[Len(data) - Len(rest)] = "nl"

Activities(data) == {i \in Events(data) : data[i] # "exit"}

KeepsParsed(p, data) ==
  /\ p \in [activity : Payloads \cup {"none"}, exited : BOOLEAN]
  /\ p.exited <=> \E i \in Events(data) : data[i] = "exit"
  /\ \/ Activities(data) = {} /\ p.activity = "none"
     \/ \E i \in Activities(data) :
          (\A j \in Activities(data) : j <= i) /\ p.activity = data[i]

\* That is what Parse says of data.
LEMMA KeptIsParsed ==
  ASSUME NEW data \in Seq(Units), NEW p, KeepsParsed(p, data)
  PROVE  p = Parse(data)
<1> DEFINE A == Activities(data)
<1>1. A \subseteq Int
  BY DEF Activities, Events
<1>2. p.activity = IF A = {} THEN "none" ELSE data[CHOOSE i \in A : \A j \in A : j <= i]
  <2>1. CASE A = {}
    BY <2>1 DEF KeepsParsed
  <2>2. CASE A # {}
    <3> DEFINE last == CHOOSE i \in A : \A j \in A : j <= i
    <3>1. PICK i \in A : (\A j \in A : j <= i) /\ p.activity = data[i]
      BY <2>2 DEF KeepsParsed
    <3>2. last \in A /\ \A j \in A : j <= last
      BY <3>1
    <3> HIDE DEF last, A
    <3>3. last = i
      BY <1>1, <3>1, <3>2
    <3> USE DEF last
    <3> QED BY <2>2, <3>1, <3>3
  <2> QED BY <2>1, <2>2
<1>3. p.exited = (\E i \in Events(data) : data[i] = "exit")
  BY DEF KeepsParsed
<1>4. p = [activity |-> p.activity, exited |-> p.exited]
  BY DEF KeepsParsed
<1>5. Parse(data) =
        [activity |-> IF A = {} THEN "none" ELSE data[CHOOSE i \in A : \A j \in A : j <= i],
         exited |-> \E i \in Events(data) : data[i] = "exit"]
  BY DEF Parse, Activities
<1> HIDE DEF A
<1> QED BY <1>2, <1>3, <1>4, <1>5

\* A unit more makes one event more if it ends a line of one unit, else none.
LEMMA EventsGrow ==
  ASSUME NEW data \in Seq(Units), NEW u \in Units, NEW rest, KeepsRest(rest, data)
  PROVE  Events(Append(data, u)) =
           Events(data) \cup (IF u = "nl" /\ Len(rest) = 1 THEN {Len(data)} ELSE {})
<1> DEFINE n == Len(data)
           more == Append(data, u)
<1>1. /\ n \in Nat /\ n = Len(data) /\ Len(more) = n + 1 /\ more[n + 1] = u
      /\ \A i \in 1 .. n : more[i] = data[i]
  OBVIOUS
<1>2. /\ Len(rest) \in Nat /\ Len(rest) <= n
      /\ \A i \in 1 .. Len(rest) : rest[i] # "nl" /\ rest[i] = data[n - Len(rest) + i]
      /\ Len(rest) = n \/ data[n - Len(rest)] = "nl"
  BY DEF KeepsRest, LineUnits
<1> HIDE DEF n, more
<1>3. ASSUME NEW i \in 1 .. n - 1 PROVE i \in Events(more) <=> i \in Events(data)
  <2>1. more[i] = data[i] /\ more[i + 1] = data[i + 1] /\ (i # 1 => more[i - 1] = data[i - 1])
    BY <1>1
  <2>2. i \in 1 .. Len(more) - 1 /\ i \in 1 .. Len(data) - 1
    BY <1>1
  <2> QED BY <2>1, <2>2 DEF Events
<1>4. ASSUME n # 0 PROVE n \in Events(more) <=> u = "nl" /\ Len(rest) = 1
  <2>1. n \in Events(more) <=>
          data[n] # "nl" /\ u = "nl" /\ (n = 1 \/ data[n - 1] = "nl")
    <3>1. more[n] = data[n] /\ more[n + 1] = u /\ (n # 1 => more[n - 1] = data[n - 1])
      BY <1>1, <1>4
    <3>2. n \in 1 .. Len(more) - 1
      BY <1>1, <1>4
    <3> QED BY <3>1, <3>2 DEF Events
  <2>2. CASE Len(rest) = 0
    BY <1>1, <1>2, <1>4, <2>1, <2>2
  <2>3. CASE Len(rest) = 1
    <3>1. data[n] # "nl" /\ (n = 1 \/ data[n - 1] = "nl")
      BY <1>1, <1>2, <2>3
    <3> QED BY <2>1, <2>3, <3>1
  <2>4. CASE Len(rest) > 1
    <3>1. n - 1 = n - Len(rest) + (Len(rest) - 1) /\ Len(rest) - 1 \in 1 .. Len(rest) /\ n # 1
      BY <1>1, <1>2, <2>4
    <3>2. data[n - Len(rest) + (Len(rest) - 1)] # "nl"
      BY <1>2, <3>1
    <3>3. Len(rest) # 1
      BY <1>2, <2>4
    <3> QED BY <2>1, <3>1, <3>2, <3>3
  <2>5. Len(rest) \in Nat
    BY <1>2
  <2>6. \A k \in Nat : k = 0 \/ k = 1 \/ k > 1
    OBVIOUS
  <2> QED BY <2>2, <2>3, <2>4, <2>5, <2>6
<1>5. Events(more) \subseteq 1 .. n /\ Events(data) \subseteq 1 .. n - 1
  BY <1>1 DEF Events
<1>6. n = 0 => Len(rest) = 0
  BY <1>1, <1>2
<1>7. ASSUME NEW i \in 1 .. n
      PROVE  i \in Events(more) <=> i \in Events(data) \/ (u = "nl" /\ Len(rest) = 1 /\ i = n)
  <2>1. CASE i = n
    BY <1>1, <1>4, <1>5, <2>1
  <2>2. CASE i # n
    BY <1>1, <1>3, <2>2
  <2> QED BY <2>1, <2>2
<1> QED
  <2>1. n \in Nat /\ (Len(rest) = 1 => n \in 1 .. n)
    BY <1>1, <1>6 DEF n
  <2>2. \A i : i \in Events(more) <=>
          i \in Events(data) \/ (u = "nl" /\ Len(rest) = 1 /\ i = n)
    BY <1>1, <1>5, <1>7, <2>1
  <2> QED BY <2>2 DEF n, more

\* Units taken one after another keep the line that is still open.
LEMMA UnitKeepsRest ==
  ASSUME NEW data \in Seq(Units), NEW u \in Units, NEW s, KeepsRest(s.rest, data),
         s = [parsed |-> s.parsed, rest |-> s.rest]
  PROVE  KeepsRest(TakeUnit(s, u).rest, Append(data, u))
<1>1. CASE u = "nl"
  <2>1. TakeUnit(s, u).rest = <<>>
    BY <1>1 DEF TakeUnit
  <2> DEFINE n == Len(data)
             more == Append(data, u)
  <2>2. n \in Nat /\ Len(more) = n + 1 /\ more[n + 1] = "nl"
    BY <1>1
  <2>3. <<>> \in Seq(LineUnits) /\ Len(<<>>) = 0
    OBVIOUS
  <2> HIDE DEF n, more
  <2>4. 0 <= Len(more) /\ more[Len(more) - 0] = "nl"
    BY <2>2
  <2>5. KeepsRest(<<>>, more)
    BY <2>3, <2>4 DEF KeepsRest
  <2> QED BY <2>1, <2>5 DEF more
<1>2. CASE u # "nl"
  <2> DEFINE rest == s.rest
             n == Len(data)
             k == Len(rest)
  <2>1. TakeUnit(s, u).rest = Append(rest, u)
    BY <1>2 DEF TakeUnit
  <2>2. rest \in Seq(LineUnits) /\ u \in LineUnits
    BY <1>2 DEF KeepsRest, LineUnits
  <2>3. k \in Nat /\ n \in Nat /\ k <= n
    BY <2>2 DEF KeepsRest
  <2>4. /\ Append(rest, u) \in Seq(LineUnits)
        /\ Len(Append(rest, u)) = k + 1 /\ Len(Append(data, u)) = n + 1
        /\ \A i \in 1 .. k : Append(rest, u)[i] = rest[i]
        /\ \A i \in 1 .. n : Append(data, u)[i] = data[i]
        /\ Append(rest, u)[k + 1] = u /\ Append(data, u)[n + 1] = u
    BY <2>2
  <2>5. /\ \A i \in 1 .. k : rest[i] = data[n - k + i]
        /\ k = n \/ data[n - k] = "nl"
    BY DEF KeepsRest
  <2> HIDE DEF n, k, rest
  <2>6. ASSUME NEW i \in 1 .. k + 1
        PROVE  Append(rest, u)[i] = Append(data, u)[(n + 1) - (k + 1) + i]
    <3>0. (n + 1) - (k + 1) + i = n - k + i
      BY <2>3
    <3>1. CASE i = k + 1
      <4>1. n - k + i = n + 1
        BY <2>3, <3>1
      <4> QED BY <2>4, <3>0, <3>1, <4>1
    <3>2. CASE i # k + 1
      <4>1. i \in 1 .. k /\ n - k + i \in 1 .. n
        BY <2>3, <3>2
      <4> QED BY <2>4, <2>5, <3>0, <4>1
    <3> QED BY <3>1, <3>2
  <2>7. k + 1 = n + 1 \/ Append(data, u)[(n + 1) - (k + 1)] = "nl"
    <3>1. CASE k = n
      BY <3>1
    <3>2. CASE k # n
      <4>1. (n + 1) - (k + 1) = n - k /\ n - k \in 1 .. n
        BY <2>3, <3>2
      <4> QED BY <2>4, <2>5, <3>2, <4>1
    <3> QED BY <3>1, <3>2
  <2>8. k + 1 <= n + 1
    BY <2>3
  <2> QED BY <2>1, <2>4, <2>6, <2>7, <2>8 DEF KeepsRest
<1> QED BY <1>1, <1>2

\* And what the lines before it said.
LEMMA UnitKeepsParsed ==
  ASSUME NEW data \in Seq(Units), NEW u \in Units, NEW s, KeepsRest(s.rest, data),
         KeepsParsed(s.parsed, data), s = [parsed |-> s.parsed, rest |-> s.rest]
  PROVE  KeepsParsed(TakeUnit(s, u).parsed, Append(data, u))
<1> DEFINE more == Append(data, u)
           n == Len(data)
           p == s.parsed
<1>1. Events(more) = Events(data) \cup (IF u = "nl" /\ Len(s.rest) = 1 THEN {n} ELSE {})
  BY EventsGrow
<1>2. /\ n \in Nat /\ \A i \in 1 .. n : more[i] = data[i]
      /\ Events(data) \subseteq 1 .. n - 1
  BY DEF Events
<1>3. ASSUME ~(u = "nl" /\ Len(s.rest) = 1) PROVE KeepsParsed(TakeUnit(s, u).parsed, more)
  <2>1. TakeUnit(s, u).parsed = p
    BY <1>3 DEF TakeUnit, ApplyEvent
  <2>2. Events(more) = Events(data) /\ \A i \in Events(data) : more[i] = data[i]
    BY <1>1, <1>2, <1>3
  <2> HIDE DEF more, n
  <2>3. Activities(more) = Activities(data)
    BY <2>2 DEF Activities
  <2>4. \A i \in Activities(data) : more[i] = data[i]
    BY <2>2 DEF Activities
  <2> QED BY <2>1, <2>2, <2>3, <2>4 DEF KeepsParsed
<1>4. ASSUME u = "nl", Len(s.rest) = 1 PROVE KeepsParsed(TakeUnit(s, u).parsed, more)
  <2> DEFINE line == s.rest[1]
  <2>1. /\ line \in LineUnits /\ line = data[n] /\ n \in 1 .. n
    BY <1>2, <1>4 DEF KeepsRest
  <2>2. TakeUnit(s, u).parsed = IF line = "exit" THEN [p EXCEPT !.exited = TRUE]
                                ELSE [p EXCEPT !.activity = line]
    BY <1>4 DEF TakeUnit, ApplyEvent
  <2>3. /\ Events(more) = Events(data) \cup {n}
        /\ \A i \in Events(data) : more[i] = data[i] /\ i < n
        /\ more[n] = line
    BY <1>1, <1>2, <1>4, <2>1
  <2>4. /\ p \in [activity : Payloads \cup {"none"}, exited : BOOLEAN]
        /\ p.exited <=> \E i \in Events(data) : data[i] = "exit"
        /\ \/ Activities(data) = {} /\ p.activity = "none"
           \/ \E i \in Activities(data) :
                (\A j \in Activities(data) : j <= i) /\ p.activity = data[i]
    BY DEF KeepsParsed
  <2> HIDE DEF more, n, line, p
  <2>5. CASE line = "exit"
    <3>1. TakeUnit(s, u).parsed = [p EXCEPT !.exited = TRUE]
      BY <2>2, <2>5
    <3>2. Activities(more) = Activities(data) /\ \A i \in Activities(data) : more[i] = data[i]
      BY <2>3, <2>5 DEF Activities
    <3>3. \E i \in Events(more) : more[i] = "exit"
      BY <2>3, <2>5
    <3> DEFINE q == [p EXCEPT !.exited = TRUE]
    <3>4. /\ q \in [activity : Payloads \cup {"none"}, exited : BOOLEAN]
          /\ q.activity = p.activity /\ q.exited
      BY <2>4
    <3> HIDE DEF q
    <3> QED
      <4>1. KeepsParsed(q, more)
        BY <2>4, <3>2, <3>3, <3>4 DEF KeepsParsed
      <4> QED BY <3>1, <4>1 DEF q
  <2>6. CASE line # "exit"
    <3> DEFINE q == [p EXCEPT !.activity = line]
    <3>1. TakeUnit(s, u).parsed = q
      BY <2>2, <2>6
    <3>2. Activities(more) = Activities(data) \cup {n}
      BY <2>3, <2>6 DEF Activities
    <3>3. (\E i \in Events(more) : more[i] = "exit")
            <=> \E i \in Events(data) : data[i] = "exit"
      BY <2>3, <2>6
    <3>4. line \in Payloads
      BY <2>1, <2>6 DEF LineUnits, Units
    <3>5. /\ q \in [activity : Payloads \cup {"none"}, exited : BOOLEAN]
          /\ q.activity = line /\ q.exited = p.exited
      BY <2>4, <3>4
    <3>6. n \in Activities(more) /\ \A j \in Activities(more) : j <= n
      BY <1>2, <2>3, <3>2 DEF Activities, n
    <3> HIDE DEF q
    <3>7. KeepsParsed(q, more)
      BY <2>3, <2>4, <3>3, <3>5, <3>6 DEF KeepsParsed
    <3> QED BY <3>1, <3>7
  <2> QED BY <2>5, <2>6 DEF more
<1> QED BY <1>3, <1>4

\* The units of a file that are read one after another keep what they say.
LEMMA ConsumeKeeps ==
  ASSUME NEW data \in Seq(Units), NEW m \in 0 .. Len(data), NEW o \in 0 .. m,
         NEW parsed, NEW rest,
         KeepsRest(rest, SubSeq(data, 1, o)), KeepsParsed(parsed, SubSeq(data, 1, o))
  PROVE  LET done == Consume(parsed, rest, SubSeq(data, o + 1, m)) IN
         /\ KeepsRest(done.rest, SubSeq(data, 1, m))
         /\ KeepsParsed(done.parsed, SubSeq(data, 1, m))
<1> DEFINE text == SubSeq(data, o + 1, m)
           read(i) == SubSeq(data, 1, o + i)
           s == [parsed |-> parsed, rest |-> rest]
<1>1. /\ text \in Seq(Units) /\ Len(text) = m - o /\ o \in Nat /\ m \in Nat
      /\ \A i \in 1 .. m - o : text[i] = data[o + i]
  OBVIOUS
<1>2. PICK g : LoopOf(g, s, text) /\ Consume(parsed, rest, text) = g[Len(text)]
  BY <1>1, ConsumeIsLast
<1> DEFINE Fine(i) == /\ g[i] = [parsed |-> g[i].parsed, rest |-> g[i].rest]
                      /\ KeepsRest(g[i].rest, read(i))
                      /\ KeepsParsed(g[i].parsed, read(i))
           T == {i \in 0 .. m - o : ~Fine(i)}
<1>3. g[0] = s /\ \A i \in 1 .. m - o : g[i] = TakeUnit(g[i - 1], text[i])
  <2> HIDE DEF text, s
  <2>1. g = [i \in 0 .. m - o |-> IF i = 0 THEN s ELSE TakeUnit(g[i - 1], text[i])]
    BY <1>1, <1>2 DEF LoopOf
  <2>2. m - o \in Nat
    BY <1>1
  <2> QED BY <2>1, <2>2
<1>4. Fine(0)
  <2>1. read(0) = SubSeq(data, 1, o)
    BY <1>1
  <2>2. g[0] = [parsed |-> parsed, rest |-> rest] /\ g[0].parsed = parsed /\ g[0].rest = rest
    BY <1>3
  <2> HIDE DEF read
  <2> QED BY <2>1, <2>2
<1>5. ASSUME NEW i \in 1 .. m - o, Fine(i - 1) PROVE Fine(i)
  <2>1. read(i - 1) \in Seq(Units) /\ text[i] \in Units
    BY <1>1
  <2>2. read(i) = Append(read(i - 1), text[i])
    BY <1>1
  <2>3. g[i] = TakeUnit(g[i - 1], text[i])
    BY <1>3
  <2>4. g[i] = [parsed |-> g[i].parsed, rest |-> g[i].rest]
    <3>1. g[i - 1] = [parsed |-> g[i - 1].parsed, rest |-> g[i - 1].rest]
      BY <1>5
    <3> DEFINE a == g[i - 1]
               b == g[i]
               v == text[i]
    <3>2. a = [parsed |-> a.parsed, rest |-> a.rest] /\ b = TakeUnit(a, v)
      BY <2>3, <3>1
    <3> HIDE DEF a, b, v
    <3>3. b = [parsed |-> b.parsed, rest |-> b.rest]
      <4>1. CASE v = "nl"
        BY <3>2, <4>1 DEF TakeUnit
      <4>2. CASE v # "nl"
        <5>1. b = [a EXCEPT !.rest = Append(@, v)]
          BY <3>2, <4>2 DEF TakeUnit
        <5> QED BY <3>2, <5>1
      <4> QED BY <4>1, <4>2
    <3> QED BY <3>3 DEF b
  <2> HIDE DEF read, text
  <2>5. KeepsRest(g[i].rest, read(i))
    BY <1>5, <2>1, <2>2, <2>3, UnitKeepsRest
  <2>6. KeepsParsed(g[i].parsed, read(i))
    BY <1>5, <2>1, <2>2, <2>3, UnitKeepsParsed
  <2> QED BY <2>4, <2>5, <2>6
<1> HIDE DEF Fine
<1>6. T = {}
  <2> SUFFICES ASSUME T # {} PROVE FALSE
    OBVIOUS
  <2>0. T \in SUBSET Nat
    OBVIOUS
  <2>1. PICK n \in T : \A i \in T : n <= i
    BY <2>0, LeastNumber
  <2>2. n # 0
    BY <1>4, <2>1
  <2>3. n \in 1 .. m - o /\ n - 1 \in 0 .. m - o /\ ~(n <= n - 1)
    BY <1>1, <2>1, <2>2
  <2>4. Fine(n - 1)
    BY <2>1, <2>3
  <2> QED BY <1>5, <2>1, <2>3, <2>4
<1>7. m - o \in 0 .. m - o
  OBVIOUS
<1>8. Fine(m - o)
  BY <1>6, <1>7
<1>9. read(m - o) = SubSeq(data, 1, m)
  BY <1>1
<1> HIDE DEF read, text
<1> QED BY <1>1, <1>2, <1>8, <1>9 DEF Fine, text

\* Whatever is read, what is learned and kept has its type.
HasTypes(s) ==
  s \in [parsed : [activity : Payloads \cup {"none"}, exited : BOOLEAN],
         rest : Seq(LineUnits)]

LEMMA UnitKeepsTypes ==
  ASSUME NEW s, HasTypes(s), NEW u \in Units
  PROVE  HasTypes(TakeUnit(s, u))
<1>1. CASE u # "nl"
  <2>1. u \in LineUnits
    BY <1>1 DEF LineUnits
  <2>2. Append(s.rest, u) \in Seq(LineUnits)
    BY <2>1 DEF HasTypes
  <2> QED BY <1>1, <2>2 DEF HasTypes, TakeUnit
<1>2. CASE u = "nl"
  <2>1. ApplyEvent(s.parsed, s.rest) \in [activity : Payloads \cup {"none"}, exited : BOOLEAN]
    <3>1. CASE Len(s.rest) # 1
      BY <3>1 DEF ApplyEvent, HasTypes
    <3>2. CASE Len(s.rest) = 1
      <4>1. s.rest[1] \in Payloads \cup {"exit"}
        BY <3>2 DEF HasTypes, LineUnits, Units
      <4> QED BY <3>2, <4>1 DEF ApplyEvent, HasTypes
    <3> QED BY <3>1, <3>2
  <2>2. <<>> \in Seq(LineUnits)
    OBVIOUS
  <2> QED BY <1>2, <2>1, <2>2 DEF HasTypes, TakeUnit
<1> QED BY <1>1, <1>2

LEMMA ConsumeKeepsTypes ==
  ASSUME NEW text \in Seq(Units), NEW parsed, NEW rest,
         HasTypes([parsed |-> parsed, rest |-> rest])
  PROVE  HasTypes(Consume(parsed, rest, text))
<1> DEFINE s == [parsed |-> parsed, rest |-> rest]
           n == Len(text)
<1>1. n \in Nat /\ \A i \in 1 .. n : text[i] \in Units
  OBVIOUS
<1>2. PICK g : LoopOf(g, s, text) /\ Consume(parsed, rest, text) = g[n]
  BY ConsumeIsLast
<1>3. g[0] = s /\ \A i \in 1 .. n : g[i] = TakeUnit(g[i - 1], text[i])
  BY <1>1, <1>2 DEF LoopOf
<1> DEFINE T == {i \in 0 .. n : ~HasTypes(g[i])}
<1> HIDE DEF n
<1>4. T = {}
  <2> SUFFICES ASSUME T # {} PROVE FALSE
    OBVIOUS
  <2>0. T \in SUBSET Nat
    OBVIOUS
  <2>1. PICK k \in T : \A i \in T : k <= i
    BY <2>0, LeastNumber
  <2>2. k # 0
    BY <1>3, <2>1
  <2>3. k \in 1 .. n /\ k - 1 \in 0 .. n /\ ~(k <= k - 1)
    BY <1>1, <2>1, <2>2
  <2>4. HasTypes(g[k - 1])
    BY <2>1, <2>3
  <2>5. HasTypes(g[k])
    BY <1>1, <1>3, <2>3, <2>4, UnitKeepsTypes
  <2> QED BY <2>1, <2>5
<1> QED BY <1>1, <1>2, <1>4

-----------------------------------------------------------------------------
(* The entry and the file. *)

\* An entry that was never told of a file is empty, and one that belongs to the
\* file as it is follows it, unless a rewrite was hidden: what it has read is
\* the beginning of the file.
IsEmptyEntry(e) ==
  e.offset = 0 /\ e.size = 0 /\ e.rest = <<>> /\ e.parsed = EmptyParsed

Belongs(e, f) == ~e.mixed /\ e.gen = f.gen /\ e.ino = f.ino

Follows(e, f) ==
  /\ e.offset = e.size /\ e.offset <= Len(f.data)
  /\ KeepsRest(e.rest, SubSeq(f.data, 1, e.offset))
  /\ KeepsParsed(e.parsed, SubSeq(f.data, 1, e.offset))

EntryIsRight(e, f) ==
  /\ HasTypes([parsed |-> e.parsed, rest |-> e.rest])
  /\ e.offset \in Nat /\ e.size \in Nat /\ e.offset <= e.size
  /\ e.mixed \in BOOLEAN /\ e.gen \in 0 .. f.gen
  /\ e.ino = 0 => IsEmptyEntry(e)
  /\ Belongs(e, f) => Follows(e, f)

\* A read between stat and data: the stat was of the same file, if the file is
\* still the same.
ReadIsRight(this, f) ==
  /\ EntryIsRight(this.entry, f) /\ this.entry.ino # 0
  /\ this.size \in Nat /\ this.entry.offset <= this.size
  /\ Belongs(this.entry, f) => this.size <= Len(f.data)

FileIsRight(f, c) ==
  /\ f.data \in Seq(Units) /\ Len(f.data) <= MaxLength
  /\ f.gen \in 0 .. MaxRewrites /\ f.ino \in 0 .. f.gen
  /\ f.mtime \in 0 .. MaxTicks /\ c \in 0 .. MaxTicks

TailInv ==
  /\ ReadsInv
  /\ FileIsRight(file, clock)
  /\ entry # Absent => EntryIsRight(entry, file)
  /\ \A r \in Readers : reads[r].pc = "data" => ReadIsRight(reads[r], file)

LEMMA EmptyIsRight ==
  ASSUME NEW e, IsEmptyEntry(e), NEW f, f.data \in Seq(Units), f.gen \in Nat,
         e.mixed \in BOOLEAN, e.gen \in 0 .. f.gen
  PROVE  EntryIsRight(e, f)
<1>1. SubSeq(f.data, 1, 0) = <<>>
  BY SubSeqEmpty
<1>2. Events(<<>>) = {} /\ Activities(<<>>) = {}
  BY DEF Events, Activities
<1>3. KeepsRest(<<>>, <<>>)
  BY DEF KeepsRest
<1>4. KeepsParsed(EmptyParsed, <<>>)
  BY <1>2 DEF KeepsParsed, EmptyParsed
<1>5. HasTypes([parsed |-> EmptyParsed, rest |-> <<>>])
  <2>1. <<>> \in Seq(LineUnits)
    OBVIOUS
  <2> QED BY <2>1 DEF HasTypes, EmptyParsed
<1>6. 0 <= Len(f.data)
  OBVIOUS
<1>7. e.offset = 0 /\ e.size = 0 /\ e.rest = <<>> /\ e.parsed = EmptyParsed
  BY DEF IsEmptyEntry
<1>8. Follows(e, f)
  BY <1>1, <1>3, <1>4, <1>6, <1>7 DEF Follows
<1>9. HasTypes([parsed |-> e.parsed, rest |-> e.rest])
  BY <1>5, <1>7
<1> QED BY <1>7, <1>8, <1>9 DEF EntryIsRight

\* An entry that is right is so whoever reads.
LEMMA InFlightIsIrrelevant ==
  ASSUME NEW e, IsEntry(e), NEW f, EntryIsRight(e, f), NEW x
  PROVE  EntryIsRight([e EXCEPT !.inFlight = x], f)
<1> DEFINE g == [e EXCEPT !.inFlight = x]
<1>1. /\ g.ino = e.ino /\ g.offset = e.offset /\ g.size = e.size /\ g.rest = e.rest
      /\ g.parsed = e.parsed /\ g.gen = e.gen /\ g.mixed = e.mixed
  BY DEF IsEntry
<1> HIDE DEF g
<1>2. EntryIsRight(g, f)
  BY <1>1 DEF EntryIsRight, Belongs, Follows, IsEmptyEntry
<1> QED BY <1>2 DEF g

LEMMA TailInvInit == TailInit => TailInv
<1> SUFFICES ASSUME TailInit PROVE TailInv
  OBVIOUS
<1>1. ReadsInv
  BY ReadsInvInit
<1>2. FileIsRight(file, clock)
  <2>1. <<>> \in Seq(Units) /\ Len(<<>>) = 0
    OBVIOUS
  <2>2. file.data = <<>> /\ file.gen = 0 /\ file.ino = 0 /\ file.mtime = 0 /\ clock = 0
    BY DEF TailInit, NoFile
  <2> QED BY <2>1, <2>2, TailBoundsAssumption DEF FileIsRight
<1> QED BY <1>1, <1>2 DEF TailInit, TailInv, Idle

\* Whatever happens to the file, no entry belongs to it wrongly: what was read
\* stays where it was, or the entry belongs to it no more.
LEMMA FileLeavesEntries ==
  ASSUME TailInv, FileNext, NEW e, EntryIsRight(e, file)
  PROVE  EntryIsRight(e, file') /\ (Belongs(e, file') => e.ino = 0 \/ Belongs(e, file))
<1>1. /\ file.data \in Seq(Units) /\ file.gen \in Nat /\ IsFile
      /\ file.ino \in Nat
  BY DEF TailInv, FileIsRight, ReadsInv, IsFile
<1>2. ASSUME NEW u \in Units, Appends(u)
      PROVE  EntryIsRight(e, file') /\ (Belongs(e, file') => Belongs(e, file))
  <2>1. /\ file'.data = Append(file.data, u)
        /\ file'.gen = file.gen /\ file'.ino = file.ino
    BY <1>1, <1>2 DEF Appends, IsFile
  <2>2. ASSUME NEW k \in Nat, k <= Len(file.data)
        PROVE  /\ SubSeq(file'.data, 1, k) = SubSeq(file.data, 1, k)
               /\ k <= Len(file'.data)
    BY <1>1, <2>1, <2>2
  <2> QED BY <2>1, <2>2 DEF EntryIsRight, Belongs, Follows
<1>3. CASE Empties
  <2>1. file'.gen = file.gen + 1
    BY <1>3 DEF Empties
  <2>2. e.gen \in 0 .. file.gen
    BY DEF EntryIsRight
  <2>3. e.gen \in 0 .. file'.gen /\ e.gen # file'.gen
    BY <1>1, <2>1, <2>2
  <2> QED BY <2>3 DEF EntryIsRight, Belongs
<1>4. CASE Removes
  <2>1. file'.gen = file.gen /\ file'.ino = 0 /\ file'.data = <<>>
    BY <1>4 DEF Removes, NoFile
  <2>2. CASE e.ino = 0
    <3>1. <<>> \in Seq(Units)
      OBVIOUS
    <3>2. /\ IsEmptyEntry(e) /\ e.mixed \in BOOLEAN /\ e.gen \in 0 .. file'.gen
          /\ file'.data \in Seq(Units) /\ file'.gen \in Nat
      BY <1>1, <2>1, <2>2, <3>1 DEF EntryIsRight
    <3> QED BY <2>2, <3>2, EmptyIsRight
  <2>3. CASE e.ino # 0
    BY <2>1, <2>3 DEF EntryIsRight, Belongs
  <2> QED BY <2>2, <2>3
<1>5. CASE Ticks
  BY <1>5 DEF Ticks
<1> QED BY <1>2, <1>3, <1>4, <1>5 DEF FileNext

LEMMA FileKeepsTail == ASSUME TailInv, FileNext PROVE TailInv'
<1>1. ReadsInv' /\ UNCHANGED <<entry, reads>>
  BY FileStep DEF TailInv, FileNext, Appends, Empties, Removes, Ticks, tail
<1>2. IsFile /\ FileIsRight(file, clock)
  BY DEF TailInv, ReadsInv
<1>3. FileIsRight(file', clock')
  <2>1. ASSUME NEW u \in Units, Appends(u) PROVE FileIsRight(file', clock')
    <3>1. /\ file'.data = Append(file.data, u) /\ file'.gen = file.gen
          /\ file'.ino = file.ino /\ file'.mtime = clock /\ clock' = clock
          /\ Len(file.data) < MaxLength
      BY <1>2, <2>1 DEF Appends, IsFile, Size
    <3>2. Append(file.data, u) \in Seq(Units) /\ Len(Append(file.data, u)) = Len(file.data) + 1
          /\ Len(file.data) \in Nat
      BY <1>2 DEF FileIsRight
    <3>3. Len(file.data) + 1 <= MaxLength
      BY <3>1, <3>2, TailBoundsAssumption
    <3> QED BY <1>2, <3>1, <3>2, <3>3 DEF FileIsRight
  <2>2. CASE Empties
    <3>1. /\ file'.data = <<>> /\ file'.gen = file.gen + 1 /\ file'.mtime = clock
          /\ file'.ino = (IF file.ino = 0 THEN file.gen + 1 ELSE file.ino)
          /\ clock' = clock /\ file.gen < MaxRewrites
      BY <2>2 DEF Empties
    <3>2. <<>> \in Seq(Units) /\ Len(<<>>) = 0
      OBVIOUS
    <3> QED BY <1>2, <3>1, <3>2, TailBoundsAssumption DEF FileIsRight
  <2>3. CASE Removes
    <3>1. /\ file'.data = <<>> /\ file'.gen = file.gen /\ file'.mtime = 0
          /\ file'.ino = 0 /\ clock' = clock
      BY <2>3 DEF Removes, NoFile
    <3>2. <<>> \in Seq(Units) /\ Len(<<>>) = 0
      OBVIOUS
    <3> QED BY <1>2, <3>1, <3>2, TailBoundsAssumption DEF FileIsRight
  <2>4. CASE Ticks
    BY <1>2, <2>4, TailBoundsAssumption DEF Ticks, FileIsRight
  <2> QED BY <2>1, <2>2, <2>3, <2>4 DEF FileNext
<1>4. entry # Absent => EntryIsRight(entry, file')
  BY FileLeavesEntries DEF TailInv
<1>5. ASSUME NEW r \in Readers, reads[r].pc = "data" PROVE ReadIsRight(reads[r], file')
  <2>1. ReadIsRight(reads[r], file)
    BY <1>5 DEF TailInv
  <2> DEFINE e == reads[r].entry
  <2>2. EntryIsRight(e, file') /\ (Belongs(e, file') => Belongs(e, file))
    BY <2>1, FileLeavesEntries DEF ReadIsRight
  <2>3. ASSUME Belongs(e, file), Belongs(e, file') PROVE Len(file.data) <= Len(file'.data)
    <3>1. CASE Empties
      BY <1>2, <2>3, <3>1 DEF Belongs, Empties, FileIsRight
    <3>2. CASE Removes
      BY <2>1, <2>3, <3>2 DEF Belongs, Removes, NoFile, ReadIsRight
    <3>3. ASSUME NEW u \in Units, Appends(u) PROVE Len(file.data) <= Len(file'.data)
      <4>1. file'.data = Append(file.data, u) /\ file.data \in Seq(Units)
        BY <1>2, <3>3 DEF Appends, IsFile, FileIsRight
      <4>2. Len(Append(file.data, u)) = Len(file.data) + 1 /\ Len(file.data) \in Nat
        BY <4>1
      <4> QED BY <4>1, <4>2
    <3>4. CASE Ticks
      BY <1>2, <3>4 DEF Ticks, FileIsRight
    <3> QED BY <3>1, <3>2, <3>3, <3>4 DEF FileNext
  <2>4. ASSUME Belongs(e, file') PROVE reads[r].size <= Len(file'.data)
    <3>1. reads[r].size <= Len(file.data) /\ Len(file.data) <= Len(file'.data)
      BY <2>1, <2>2, <2>3, <2>4 DEF ReadIsRight
    <3>2. reads[r].size \in Nat /\ Len(file.data) \in Nat /\ Len(file'.data) \in Nat
      BY <1>2, <1>3, <2>1 DEF ReadIsRight, FileIsRight
    <3> QED BY <3>1, <3>2
  <2> QED BY <2>1, <2>2, <2>4 DEF ReadIsRight
<1> QED BY <1>1, <1>3, <1>4, <1>5 DEF TailInv

\* A new read leaves a placeholder, or marks the entry.
LEMMA ReadsKeepsTail == ASSUME TailInv, NEW r \in Readers, Reads(r) PROVE TailInv'
<1>1. ReadsInv' /\ UNCHANGED <<file, clock>> /\ ReadsInv
  BY ReadsStep DEF TailInv, Reads
<1>2. FileIsRight(file', clock')
  BY <1>1 DEF TailInv
<1>3. ASSUME NEW q \in Readers, reads'[q].pc = "data"
      PROVE  reads'[q] = reads[q]
  BY <1>1, <1>3 DEF Reads, ReadsInv
<1>4. ASSUME entry' # Absent PROVE EntryIsRight(entry', file')
  <2>1. CASE entry # Absent /\ entry.inFlight # "none"
    BY <1>1, <2>1 DEF Reads, TailInv
  <2>2. CASE entry # Absent /\ entry.inFlight = "none"
    <3>1. entry' = [entry EXCEPT !.inFlight = r]
      BY <2>2 DEF Reads
    <3>2. IsEntry(entry) /\ EntryIsRight(entry, file)
      BY <1>1, <2>2 DEF ReadsInv, TailInv
    <3> QED BY <1>1, <3>1, <3>2, InFlightIsIrrelevant
  <2>3. CASE entry = Absent
    <3>1. entry' = [Fresh(0, 0) EXCEPT !.inFlight = r]
      BY <2>3 DEF Reads
    <3>2. IsEmptyEntry(entry') /\ entry'.mixed = FALSE /\ entry'.gen = file.gen
      BY <3>1 DEF Fresh, IsEmptyEntry
    <3>3. file.data \in Seq(Units) /\ file.gen \in Nat /\ entry'.gen \in 0 .. file.gen
      BY <3>2 DEF TailInv, FileIsRight
    <3> QED BY <1>1, <3>2, <3>3, EmptyIsRight
  <2> QED BY <2>1, <2>2, <2>3
<1>5. ASSUME NEW q \in Readers, reads'[q].pc = "data" PROVE ReadIsRight(reads'[q], file')
  <2>1. reads'[q] = reads[q]
    BY <1>3, <1>5
  <2>2. ReadIsRight(reads[q], file)
    BY <1>5, <2>1 DEF TailInv
  <2> QED BY <1>1, <2>1, <2>2
<1> QED BY <1>1, <1>2, <1>4, <1>5 DEF TailInv

\* When a read ends, no other has a stat to go on with.
LEMMA ResolveKeepsTail ==
  ASSUME TailInv, NEW r \in Readers, Reading(r), Resolves(r), UNCHANGED <<file, clock>>,
         ReadsInv', entry' # Absent => EntryIsRight(entry', file)
  PROVE  TailInv'
<1>1. \A q \in Readers : q # r => ~Reading(q)
  BY DEF TailInv, ReadsInv
<1>2. \A q \in Readers : reads'[q].pc # "data"
  BY <1>1 DEF Resolves, Reading, Idle
<1> QED BY <1>2 DEF TailInv

\* A stat that sees no reason to begin again continues an entry of this file,
\* or knows that it may not.
LEMMA StatsKeepsTail == ASSUME TailInv, NEW r \in Readers, Stats(r) PROVE TailInv'
<1>1. /\ ReadsInv /\ ReadsInv' /\ UNCHANGED <<file, clock>> /\ Reading(r)
      /\ reads[r].pc = "stat" /\ entry # Absent /\ entry.inFlight = r
      /\ IsEntry(entry) /\ EntryIsRight(entry, file) /\ FileIsRight(file, clock)
  BY StatsStep DEF Stats, Reading, ReadsInv, TailInv
<1> DEFINE reset == NeedsReset(reads[r].existing)
           e == IF reset THEN Fresh(file.ino, file.mtime)
                ELSE [entry EXCEPT !.gen = file.gen, !.mixed = @ \/ Hidden]
<1>2. CASE file.ino = 0
  <2>1. entry' = Absent /\ Resolves(r)
    BY <1>2 DEF Stats
  <2> QED BY <1>1, <2>1, ResolveKeepsTail
<1>3. ASSUME file.ino # 0
      PROVE  /\ EntryIsRight(e, file) /\ IsEntry(e) /\ e.ino = file.ino
             /\ e.offset <= Size
  <2>1. CASE reset
    <3>1. e = Fresh(file.ino, file.mtime)
      BY <2>1
    <3>2. /\ IsEmptyEntry(e) /\ e.mixed = FALSE /\ e.gen = file.gen /\ e.ino = file.ino
          /\ e.offset = 0
      BY <3>1 DEF Fresh, IsEmptyEntry
    <3>3. IsEntry(e)
      BY <1>1, <3>1 DEF Fresh, IsEntry, ReadsInv, IsFile
    <3> HIDE DEF e
    <3>4. file.data \in Seq(Units) /\ file.gen \in Nat /\ e.gen \in 0 .. file.gen
      BY <1>1, <3>2 DEF FileIsRight
    <3>5. 0 <= Size
      BY <3>4 DEF Size
    <3> QED BY <3>2, <3>3, <3>4, <3>5, EmptyIsRight
  <2>2. CASE ~reset
    <3>1. e = [entry EXCEPT !.gen = file.gen, !.mixed = @ \/ Hidden]
      BY <2>2
    <3>2. /\ e.ino = entry.ino /\ e.offset = entry.offset /\ e.size = entry.size
          /\ e.rest = entry.rest /\ e.parsed = entry.parsed /\ e.gen = file.gen
          /\ e.mixed = (entry.mixed \/ Hidden)
      BY <1>1, <3>1 DEF IsEntry
    <3>3. IsEntry(e)
      <4>1. IsEntry(entry) /\ IsFile
        BY <1>1 DEF ReadsInv
      <4> QED BY <2>2, <4>1 DEF IsEntry, IsFile
    <3>4. /\ entry.ino = file.ino /\ ~(Size < entry.offset)
          /\ file.mtime = entry.mtime \/ ~(Size <= entry.offset)
      BY <2>2 DEF NeedsReset
    <3>5. Size \in Nat /\ entry.offset \in Nat /\ file.gen \in 0 .. file.gen
      BY <1>1 DEF Size, FileIsRight, EntryIsRight
    <3>6. entry.offset <= Size /\ (file.mtime = entry.mtime \/ Size > entry.offset)
      BY <3>4, <3>5
    <3>7. entry.mixed \in BOOLEAN
      BY <1>1 DEF EntryIsRight
    <3> HIDE DEF e
    <3>8. e.mixed \in BOOLEAN
      BY <3>2, <3>7
    <3>9. ASSUME Belongs(e, file) PROVE Belongs(entry, file)
      <4>1. ~entry.mixed /\ ~Hidden
        BY <3>2, <3>9 DEF Belongs
      <4>2. entry.gen = file.gen
        BY <3>4, <3>6, <4>1 DEF Hidden
      <4> QED BY <3>4, <4>1, <4>2 DEF Belongs
    <3>10. EntryIsRight(e, file)
      BY <1>1, <3>2, <3>5, <3>8, <3>9 DEF EntryIsRight, IsEmptyEntry, Follows
    <3> QED BY <3>2, <3>3, <3>4, <3>6, <3>10
  <2> QED BY <2>1, <2>2
<1>4. CASE file.ino # 0 /\ ~reset /\ Size = entry.size /\ file.mtime = entry.mtime
  <2>1. entry' = [e EXCEPT !.inFlight = "none"] /\ Resolves(r)
    BY <1>4 DEF Stats
  <2> HIDE DEF e
  <2>2. EntryIsRight(entry', file)
    BY <1>3, <1>4, <2>1, InFlightIsIrrelevant
  <2> QED BY <1>1, <2>1, <2>2, ResolveKeepsTail
<1>5. CASE file.ino # 0 /\ ~(~reset /\ Size = entry.size /\ file.mtime = entry.mtime)
  <2>1. /\ entry' = entry
        /\ reads' = [reads EXCEPT ![r] =
             [pc |-> "data", entry |-> e, size |-> Size, mtime |-> file.mtime]]
    BY <1>5 DEF Stats
  <2> HIDE DEF e, reset
  <2>2. /\ reads'[r].entry = e /\ reads'[r].size = Size
        /\ \A q \in Readers : q # r => reads'[q] = reads[q]
    BY <1>1, <2>1 DEF ReadsInv
  <2>3. Size \in Nat /\ Size <= Len(file.data)
    BY <1>1 DEF Size, FileIsRight
  <2>4. ReadIsRight(reads'[r], file)
    BY <1>3, <1>5, <2>2, <2>3 DEF ReadIsRight
  <2>5. ASSUME NEW q \in Readers, reads'[q].pc = "data" PROVE ReadIsRight(reads'[q], file')
    BY <1>1, <2>2, <2>4, <2>5 DEF TailInv
  <2> QED BY <1>1, <2>1, <2>5 DEF TailInv
<1> QED BY <1>2, <1>4, <1>5

\* The data read is consumed as if it had been read with what was read before.
LEMMA FetchesKeepsTail == ASSUME TailInv, NEW r \in Readers, Fetches(r) PROVE TailInv'
<1>1. /\ ReadsInv /\ ReadsInv' /\ UNCHANGED <<file, clock>> /\ Reading(r) /\ Resolves(r)
      /\ entry # Absent /\ IsEntry(entry) /\ IsEntry(reads[r].entry)
      /\ EntryIsRight(entry, file) /\ FileIsRight(file, clock)
      /\ ReadIsRight(reads[r], file)
  BY FetchesStep DEF Fetches, Reading, ReadsInv, TailInv
<1> DEFINE this == reads[r]
           e == this.entry
           text == Chunk(e, this.size)
           done == Consume(e.parsed, e.rest, text)
           next == [e EXCEPT !.offset = @ + Len(text), !.rest = done.rest,
                             !.parsed = done.parsed, !.mtime = this.mtime,
                             !.size = this.size, !.inFlight = "none"]
<1>2. entry' = [entry EXCEPT !.inFlight = "none"] \/ entry' = next
  BY DEF Fetches, FailsWithout
<1>3. EntryIsRight(next, file)
  <2>1. /\ e.offset \in Nat /\ this.size \in Nat /\ e.offset <= this.size
        /\ EntryIsRight(e, file) /\ e.ino # 0
        /\ file.data \in Seq(Units) /\ Size \in Nat /\ Size = Len(file.data)
    BY <1>1 DEF ReadIsRight, EntryIsRight, FileIsRight, Size
  <2> DEFINE m == IF this.size < Size THEN this.size ELSE Size
  <2>2. m \in Nat /\ m <= this.size /\ m <= Size
    BY <2>1
  <2>3. text = SubSeq(file.data, e.offset + 1, m)
    BY DEF Chunk
  <2>4. /\ text \in Seq(Units)
        /\ Len(text) = IF e.offset < m THEN m - e.offset ELSE 0
    <3> DEFINE data == file.data
               o == e.offset
    <3>1. /\ o \in Nat /\ m \in Nat /\ data \in Seq(Units) /\ m <= Len(data)
          /\ text = SubSeq(data, o + 1, m)
      BY <2>1, <2>2, <2>3
    <3> HIDE DEF data, o, m, text
    <3>2. \A i \in o + 1 .. m : data[i] \in Units
      BY <3>1
    <3>3. /\ SubSeq(data, o + 1, m) \in Seq(Units)
          /\ Len(SubSeq(data, o + 1, m)) = IF o + 1 <= m THEN m - (o + 1) + 1 ELSE 0
      BY <3>1, <3>2, SubSeqProperties
    <3>4. (o + 1 <= m <=> o < m) /\ m - (o + 1) + 1 = m - o
      BY <3>1
    <3> QED BY <3>1, <3>3, <3>4 DEF o
  <2>5. HasTypes(done)
    BY <2>1, <2>4, ConsumeKeepsTypes DEF EntryIsRight
  <2>6. /\ next.offset = e.offset + Len(text) /\ next.size = this.size
        /\ next.rest = done.rest /\ next.parsed = done.parsed
        /\ next.mixed = e.mixed /\ next.gen = e.gen /\ next.ino = e.ino
    <3> HIDE DEF text, done
    <3> QED BY <1>1 DEF IsEntry
  <2>7. next.offset \in Nat /\ next.offset <= next.size
    <3> HIDE DEF text, m, e, this, next
    <3> QED BY <2>1, <2>2, <2>4, <2>6
  <2>8. HasTypes([parsed |-> next.parsed, rest |-> next.rest])
    <3> HIDE DEF done, next
    <3> QED BY <2>5, <2>6 DEF HasTypes
  <2>9. ASSUME Belongs(e, file) PROVE Follows(next, file)
    <3>1. Follows(e, file) /\ this.size <= Len(file.data)
      BY <1>1, <2>1, <2>9 DEF EntryIsRight, ReadIsRight
    <3>2. m = this.size
      BY <2>1, <3>1
    <3>3. m \in 0 .. Len(file.data) /\ e.offset \in 0 .. m
      BY <2>1, <2>2, <3>2
    <3>4. /\ KeepsRest(done.rest, SubSeq(file.data, 1, m))
          /\ KeepsParsed(done.parsed, SubSeq(file.data, 1, m))
      <4>1. /\ KeepsRest(e.rest, SubSeq(file.data, 1, e.offset))
            /\ KeepsParsed(e.parsed, SubSeq(file.data, 1, e.offset))
        BY <3>1 DEF Follows
      <4> DEFINE data == file.data
                 o == e.offset
                 parsed == e.parsed
                 rest == e.rest
      <4>2. /\ data \in Seq(Units) /\ m \in 0 .. Len(data) /\ o \in 0 .. m
            /\ KeepsRest(rest, SubSeq(data, 1, o)) /\ KeepsParsed(parsed, SubSeq(data, 1, o))
        BY <2>1, <3>3, <4>1
      <4>3. done = Consume(parsed, rest, SubSeq(data, o + 1, m))
        BY <2>3
      <4> HIDE DEF data, o, parsed, rest, m, done
      <4>4. /\ KeepsRest(done.rest, SubSeq(data, 1, m))
            /\ KeepsParsed(done.parsed, SubSeq(data, 1, m))
        BY <4>2, <4>3, ConsumeKeeps
      <4> QED BY <4>4 DEF data
    <3>5. next.offset = m /\ next.size = m
      <4> HIDE DEF text, m, e, this, next
      <4> QED BY <2>1, <2>2, <2>4, <2>6, <3>2, <3>3
    <3> HIDE DEF next, done, m
    <3>6. m <= Len(file.data)
      BY <2>1, <2>2
    <3> QED BY <2>6, <3>4, <3>5, <3>6 DEF Follows
  <2> HIDE DEF next, done, text, m
  <2> QED BY <2>1, <2>6, <2>7, <2>8, <2>9 DEF EntryIsRight, Belongs
<1>4. EntryIsRight(entry', file)
  <2> HIDE DEF next
  <2> QED BY <1>1, <1>2, <1>3, InFlightIsIrrelevant
<1> QED BY <1>1, <1>4, ResolveKeepsTail

\* The invariant of the entries holds in every reachable state.
THEOREM TailInvariance == TailSpec => []TailInv
<1>1. TailInv /\ [TailNext]_tailVars => TailInv'
  <2> SUFFICES ASSUME TailInv, [TailNext]_tailVars PROVE TailInv'
    OBVIOUS
  <2>1. CASE UNCHANGED tailVars
    <3>1. UNCHANGED <<file, clock, entry, reads>>
      BY <2>1 DEF tailVars, tail
    <3>2. ReadsInv'
      BY <3>1 DEF TailInv, ReadsInv, Reading, IsFile, IsEntry
    <3> QED BY <3>1, <3>2 DEF TailInv
  <2>2. CASE FileNext
    BY <2>2, FileKeepsTail
  <2>3. CASE ReaderNext
    BY <2>3, ReadsKeepsTail, StatsKeepsTail, FetchesKeepsTail DEF ReaderNext
  <2> QED BY <2>1, <2>2, <2>3 DEF TailNext
<1> QED BY <1>1, TailInvInit, PTL DEF TailSpec

\* File, entry and reads keep their types, for any readers, payloads and bounds.
THEOREM TailTypeCorrect == TailSpec => []TailTypeOK
<1>1. TailInv => TailTypeOK
  <2> SUFFICES ASSUME TailInv PROVE TailTypeOK
    OBVIOUS
  <2>1. /\ file.gen \in 0 .. MaxRewrites /\ file.ino \in 0 .. MaxRewrites
        /\ file.data \in Seq(Units) /\ Size <= MaxLength
        /\ file.mtime \in 0 .. MaxTicks /\ clock \in 0 .. MaxTicks
    BY TailBoundsAssumption DEF TailInv, FileIsRight, Size
  <2>2. \A r \in Readers : reads[r].pc \in {"idle", "joined", "stat", "data"}
    <3> SUFFICES ASSUME NEW r \in Readers
                 PROVE  reads[r].pc \in {"idle", "joined", "stat", "data"}
      OBVIOUS
    <3>1. \/ reads[r] = Idle
          \/ reads[r] = [pc |-> "joined", of |-> reads[r].of]
          \/ reads[r].pc \in {"stat", "data"}
      BY DEF TailInv, ReadsInv
    <3>2. CASE reads[r] = [pc |-> "joined", of |-> reads[r].of]
      <4>1. reads[r].pc = "joined"
        BY <3>2
      <4> QED BY <4>1
    <3> QED BY <3>1, <3>2 DEF Idle
  <2>3. ASSUME entry # Absent
        PROVE  /\ entry.inFlight \in Readers \cup {"none"}
               /\ entry.parsed.activity \in Payloads \cup {"none"}
               /\ entry.parsed.exited \in BOOLEAN
               /\ entry.offset <= entry.size
    <3>1. IsEntry(entry) /\ EntryIsRight(entry, file)
      BY <2>3 DEF TailInv, ReadsInv
    <3>2. entry.parsed \in [activity : Payloads \cup {"none"}, exited : BOOLEAN]
      BY <3>1 DEF EntryIsRight, HasTypes
    <3> QED BY <3>1, <3>2 DEF IsEntry, EntryIsRight
  <2> QED BY <2>1, <2>2, <2>3 DEF TailTypeOK
<1> QED BY <1>1, TailInvariance, PTL

\* An entry that matches the file says what the whole file says, for files of
\* any length, cut into reads in any way.
THEOREM WhatIsReadIsRight == TailSpec => []ParsedIsExact
<1>1. TailInv => ParsedIsExact
  <2> SUFFICES ASSUME TailInv, entry # Absent, ~entry.mixed, entry.gen = file.gen,
                      entry.ino = file.ino, entry.size = Size
               PROVE  entry.parsed = Parse(file.data)
    BY DEF ParsedIsExact
  <2>1. Follows(entry, file)
    BY DEF TailInv, EntryIsRight, Belongs
  <2>2. file.data \in Seq(Units)
    BY DEF TailInv, FileIsRight
  <2>3. entry.offset = Len(file.data)
    BY <2>1 DEF Follows, Size
  <2>4. SubSeq(file.data, 1, entry.offset) = file.data
    BY <2>2, <2>3, SubSeqFull
  <2> QED BY <2>1, <2>2, <2>4, KeptIsParsed DEF Follows
<1> QED BY <1>1, TailInvariance, PTL
=============================================================================

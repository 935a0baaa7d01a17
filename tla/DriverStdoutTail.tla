-------------------------- MODULE DriverStdoutTail --------------------------
(***************************************************************************)
(* DriverStdoutTailReader (driver-stdout-tail-reader.ts): the stdout file  *)
(* of an agent is read incrementally, line by line, for whoever shows its  *)
(* activity.  The file is written by the agent in its container, and       *)
(* emptied in place when its task is run again.                            *)
(*                                                                         *)
(* A file is a sequence of units: a payload, the end of the driver or the  *)
(* end of a line.  A line of one unit is an event, any other is ignored,   *)
(* as a line is that JSON.parse refuses.  mtime and ctime move together.   *)
(***************************************************************************)
EXTENDS Integers, Sequences

CONSTANTS
  Readers,      \* callers of read: samplers and streaming API handlers
  Payloads,     \* contents of activity events
  MaxLength,    \* bound on the length of the file
  MaxRewrites,  \* bound on the times it is emptied, removed or made again
  MaxTicks      \* bound on the clock of the file system

ASSUME ReadersAssumption == Readers # {} /\ "none" \notin Readers
ASSUME PayloadsAssumption == "exit" \notin Payloads /\ "nl" \notin Payloads /\ "none" \notin Payloads
ASSUME TailBoundsAssumption == MaxLength \in Nat /\ MaxRewrites \in Nat /\ MaxTicks \in Nat

VARIABLES
  file,    \* [ino, data, mtime]; ino = 0: there is none.  gen counts the rewrites
  clock,   \* the time of the file system, in ticks of its resolution
  entry,   \* the entry of the file in entries, or Absent
  reads    \* readInternal of each caller

tail == <<entry, reads>>
tailVars == <<file, clock, tail>>

-----------------------------------------------------------------------------
(* The protocol: parseDriverStdout and applyEvent. *)

Units == Payloads \cup {"exit", "nl"}
EmptyParsed == [activity |-> "none", exited |-> FALSE]

ApplyEvent(parsed, line) ==
  IF Len(line) # 1 THEN parsed
  ELSE IF line[1] = "exit" THEN [parsed EXCEPT !.exited = TRUE]
       ELSE [parsed EXCEPT !.activity = line[1]]

\* A unit ends the line read so far, which is applied, or is added to it.
TakeUnit(s, u) ==
  IF u = "nl" THEN [parsed |-> ApplyEvent(s.parsed, s.rest), rest |-> <<>>]
  ELSE [s EXCEPT !.rest = Append(@, u)]

\* The lines that text completes are applied; what follows the last is kept.
Consume(parsed, rest, text) ==
  LET after[i \in 0 .. Len(text)] ==
        IF i = 0 THEN [parsed |-> parsed, rest |-> rest]
        ELSE TakeUnit(after[i - 1], text[i]) IN
  after[Len(text)]

\* What the whole file says, without reading it in pieces.
Events(data) ==
  {i \in 1 .. Len(data) - 1 :
     data[i] # "nl" /\ data[i + 1] = "nl" /\ (i = 1 \/ data[i - 1] = "nl")}
Parse(data) ==
  LET activities == {i \in Events(data) : data[i] # "exit"} IN
  [activity |-> IF activities = {} THEN "none"
                ELSE data[CHOOSE i \in activities : \A j \in activities : j <= i],
   exited |-> \E i \in Events(data) : data[i] = "exit"]

-----------------------------------------------------------------------------
(* The file. *)

NoFile == [ino |-> 0, data |-> <<>>, mtime |-> 0, gen |-> 0]
Size == Len(file.data)

Appends(u) ==
  /\ file.ino # 0 /\ Size < MaxLength
  /\ file' = [file EXCEPT !.data = Append(@, u), !.mtime = clock]
  /\ UNCHANGED <<clock, tail>>

\* initializeAgentRuntimeFiles empties the file in place, or creates it.
Empties ==
  /\ file.gen < MaxRewrites
  /\ file' = [ino |-> IF file.ino = 0 THEN file.gen + 1 ELSE file.ino,
              data |-> <<>>, mtime |-> clock, gen |-> file.gen + 1]
  /\ UNCHANGED <<clock, tail>>

\* The directory of the job is removed.
Removes ==
  /\ file.ino # 0
  /\ file' = [NoFile EXCEPT !.gen = file.gen]
  /\ UNCHANGED <<clock, tail>>

Ticks ==
  /\ clock < MaxTicks /\ clock' = clock + 1
  /\ UNCHANGED <<file, tail>>

-----------------------------------------------------------------------------
(* The reader.  gen and mixed are not in the code: the rewrite an entry was *)
(* last compared with, and that it could not see one (Hidden).             *)

Absent == [ino |-> -1]
Fresh(ino, mtime) ==
  [ino |-> ino, offset |-> 0, mtime |-> mtime, size |-> 0, rest |-> <<>>,
   parsed |-> EmptyParsed, inFlight |-> "none", gen |-> file.gen, mixed |-> FALSE]

Idle == [pc |-> "idle"]
Reading(r) == reads[r].pc \in {"stat", "data"}

\* All who await the promise of r go on with its result.
Resolves(r) ==
  reads' = [q \in Readers |-> IF q = r \/ reads[q] = [pc |-> "joined", of |-> r]
                              THEN Idle ELSE reads[q]]

\* Fault: the first read of a file leaves no trace until it is done.
ReadsUnannounced(r) ==
  /\ reads[r] = Idle
  /\ IF entry # Absent /\ entry.inFlight # "none"
     THEN reads' = [reads EXCEPT ![r] = [pc |-> "joined", of |-> entry.inFlight]]
          /\ UNCHANGED entry
     ELSE /\ entry' = IF entry = Absent THEN entry ELSE [entry EXCEPT !.inFlight = r]
          /\ reads' = [reads EXCEPT ![r] = [pc |-> "stat", existing |-> entry # Absent]]
  /\ UNCHANGED <<file, clock>>

\* read: a caller joins the read in flight, or starts one and leaves a
\* placeholder for the others.
Reads(r) ==
  /\ reads[r] = Idle
  /\ IF entry # Absent /\ entry.inFlight # "none"
     THEN reads' = [reads EXCEPT ![r] = [pc |-> "joined", of |-> entry.inFlight]]
          /\ UNCHANGED entry
     ELSE /\ entry' = [(IF entry = Absent THEN Fresh(0, 0) ELSE entry) EXCEPT !.inFlight = r]
          /\ reads' = [reads EXCEPT ![r] = [pc |-> "stat", existing |-> entry # Absent]]
  /\ UNCHANGED <<file, clock>>

\* Fault: a file that is rewritten to the size it had is taken as unchanged.
NeedsResetOnShrink(existing) ==
  ~existing \/ entry.ino # file.ino \/ Size < entry.offset

NeedsReset(existing) ==
  \/ ~existing
  \/ entry.ino # file.ino
  \/ Size < entry.offset
  \/ file.mtime # entry.mtime /\ Size <= entry.offset

\* A rewrite leaves no sign when the file is longer again than what was read,
\* or was rewritten within one tick of the clock.
Hidden ==
  /\ entry.ino = file.ino /\ entry.gen # file.gen
  /\ Size > entry.offset \/ file.mtime = entry.mtime

Stats(r) ==
  /\ reads[r].pc = "stat"
  /\ \/ /\ file.ino = 0
        /\ entry' = Absent
        /\ Resolves(r)
     \/ /\ file.ino # 0
        /\ LET reset == NeedsReset(reads[r].existing)
               e == IF reset THEN Fresh(file.ino, file.mtime)
                    ELSE [entry EXCEPT !.gen = file.gen, !.mixed = @ \/ Hidden] IN
           IF ~reset /\ Size = entry.size /\ file.mtime = entry.mtime
           THEN entry' = [e EXCEPT !.inFlight = "none"] /\ Resolves(r)
           ELSE /\ reads' = [reads EXCEPT ![r] =
                     [pc |-> "data", entry |-> e, size |-> Size, mtime |-> file.mtime]]
                /\ UNCHANGED entry
  /\ UNCHANGED <<file, clock>>

\* Fault: the read goes to the end of the file whatever the stat said.
ChunkToEnd(e, size) == SubSeq(file.data, e.offset + 1, Size)
Chunk(e, size) == SubSeq(file.data, e.offset + 1, IF size < Size THEN size ELSE Size)

\* Fault: a read that failed stays in flight.
HangsWithout(e) == UNCHANGED entry
FailsWithout(e) == entry' = [e EXCEPT !.inFlight = "none"]

\* The open and the read: what is there now, up to the size of the stat.  When
\* the file is gone the call fails and the entry stays as it was.
Fetches(r) ==
  LET this == reads[r]
      e == this.entry
      text == Chunk(e, this.size)
      done == Consume(e.parsed, e.rest, text) IN
  /\ this.pc = "data"
  /\ IF this.size > e.offset /\ file.ino = 0 THEN FailsWithout(entry)
     ELSE entry' = [e EXCEPT !.offset = @ + Len(text), !.rest = done.rest,
                             !.parsed = done.parsed, !.mtime = this.mtime,
                             !.size = this.size, !.inFlight = "none"]
  /\ Resolves(r)
  /\ UNCHANGED <<file, clock>>

-----------------------------------------------------------------------------
TailInit ==
  /\ file = NoFile /\ clock = 0
  /\ entry = Absent
  /\ reads = [r \in Readers |-> Idle]

FileNext == (\E u \in Units : Appends(u)) \/ Empties \/ Removes \/ Ticks
ReaderNext == \E r \in Readers : Reads(r) \/ Stats(r) \/ Fetches(r)
TailNext == FileNext \/ ReaderNext

TailSpec == TailInit /\ [][TailNext]_tailVars

\* Callers poll, and the file system answers.
TailFairness ==
  \A r \in Readers : WF_tailVars(Reads(r)) /\ WF_tailVars(Stats(r) \/ Fetches(r))

FairTailSpec == TailSpec /\ TailFairness

-----------------------------------------------------------------------------
\* The entry and the reads stay in their types; a read in flight is announced.
TailTypeOK ==
  /\ file.ino \in 0 .. MaxRewrites /\ file.gen \in 0 .. MaxRewrites
  /\ file.data \in Seq(Units) /\ Size <= MaxLength
  /\ file.mtime \in 0 .. MaxTicks /\ clock \in 0 .. MaxTicks
  /\ \A r \in Readers : reads[r].pc \in {"idle", "joined", "stat", "data"}
  /\ entry # Absent =>
       /\ entry.inFlight \in Readers \cup {"none"}
       /\ entry.parsed.activity \in Payloads \cup {"none"}
       /\ entry.parsed.exited \in BOOLEAN
       /\ entry.offset <= entry.size

\* Two callers share one read of the file, also the first, and also when the
\* file is replaced while it is read.
ReadsDoNotOverlap ==
  \A r \in Readers : Reading(r) =>
    /\ entry # Absent /\ entry.inFlight = r
    /\ \A q \in Readers : reads[q].pc = "joined" => reads[q].of = r

\* An entry that matches the file says what the whole file says, however the
\* lines were cut into reads, whatever was written between stat and read, and
\* however the file was rewritten, unless that was hidden.
ParsedIsExact ==
  entry # Absent /\ entry.inFlight = "none" /\ ~entry.mixed
    /\ entry.gen = file.gen /\ entry.ino = file.ino
    /\ entry.size = Size /\ entry.mtime = file.mtime =>
  entry.parsed = Parse(file.data)

\* Whoever polls sees what the file says in the end.
CatchesUp ==
  <>[](IF file.ino = 0 THEN entry = Absent \/ entry.inFlight # "none"
       ELSE entry # Absent /\ (entry.mixed \/ entry.parsed = Parse(file.data)))
=============================================================================

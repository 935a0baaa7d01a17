SPECIFICATION FairTailSpec
CONSTANTS
  Readers = {r1, r2}
  Payloads = {a}
  MaxLength = 3
  MaxRewrites = 2
  MaxTicks = 1
INVARIANTS
  TailTypeOK
  ReadsDoNotOverlap
  ParsedIsExact
PROPERTIES
  CatchesUp
CHECK_DEADLOCK FALSE

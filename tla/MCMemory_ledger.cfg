SPECIFICATION Spec
CONSTANTS
  SizeMax = 9
  Headroom = 2
  MinCapacity = 1
  Blocks = {b1}
  Handles = {h1}
  MemoryLimits = {4, 8}
  OutputLimits = {0, 2}
  Modes = {"Buffer", "Callback", "Discard"}
  Overflows = {"Truncate", "Fail"}
  ChunkBytes = 2
  QuotaBytes = 2
  SetDuringReport = FALSE
  ArgsBytes = 1
  MaxBlock = 2
  MaxWrite = 2
  MaxBytes = 3
  MaxFrames = 8
CONSTRAINT Focus
INVARIANTS
  TypeOK
  LedgerBalances
  CeilingIsEarned
  StreamIsWhole
  TruncationIsOwnedUp
PROPERTIES
  GrowthFits
  CollectorCatchesUp
CHECK_DEADLOCK FALSE

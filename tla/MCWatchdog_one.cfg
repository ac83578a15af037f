SPECIFICATION Spec
CONSTANTS
  o1 = o1
  o2 = o2
  s1 = s1
  s2 = s2
  Owners = {o1}
  NoIrq = NoIrq
  U64Max = 8
  Floor = 1
  Slots = {s1}
  NoSlot = NoSlot
  NoEntry = NoEntry
  Limits = {0, 2, 8}
  CoarseLimits = {2}
  HookArmed = TRUE
  ThreadMayFail = TRUE
  CaptureMayFail = TRUE
  ClockMayFail = TRUE
  HeapMayFail = FALSE
  MaxTime = 3
  MaxOps = 4
  MaxStartups = 1
INVARIANTS
  TypeOK
  DeadlineCovered
PROPERTIES
  HonestReturn
  NoEarlyTrip
  MeasuredOrStopped
  DeadlinesAdvance
CHECK_DEADLOCK FALSE

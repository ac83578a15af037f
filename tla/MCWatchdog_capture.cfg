SPECIFICATION Spec
CONSTANTS
  o1 = o1
  o2 = o2
  s1 = s1
  s2 = s2
  Owners = {o1}
  NoIrq = NoIrq
  U64Max = 8
  Floor = 1
  Slots = {s1}
  NoSlot = NoSlot
  NoEntry = NoEntry
  Limits = {0, 2}
  CoarseLimits = {}
  HookArmed = TRUE
  ThreadMayFail = FALSE
  CaptureMayFail = TRUE
  ClockMayFail = FALSE
  HeapMayFail = FALSE
  MaxTime = 4
  MaxOps = 4
  MaxStartups = 1
PROPERTIES
  UnmeasurableMeansStopped
CHECK_DEADLOCK FALSE

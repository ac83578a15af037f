SPECIFICATION Spec
CONSTANTS
  o1 = o1
  o2 = o2
  s1 = s1
  s2 = s2
  Owners = {o1, o2}
  NoIrq = NoIrq
  U64Max = 8
  Floor = 1
  Slots = {s1}
  NoSlot = NoSlot
  NoEntry = NoEntry
  Limits = {0, 1}
  CoarseLimits = {}
  HookArmed = TRUE
  ThreadMayFail = TRUE
  CaptureMayFail = FALSE
  ClockMayFail = FALSE
  HeapMayFail = TRUE
  MaxTime = 3
  MaxOps = 3
  MaxStartups = 2
INVARIANTS
  BilledExactly
  NoLostWakeup
  NoFlagBetweenCalls
  LimitsHaveAnEnforcer
  ThreadNeverOutlivesPool
SYMMETRY Symmetry
CHECK_DEADLOCK FALSE

SPECIFICATION Spec
CONSTANTS
  sb = sb
  Owners = {sb}
  NoIrq = NoIrq
  U64Max = 99
  Floor = 1
  Self = sb
  Limits = {0, 2}
  Policies <- AnyPolicy
  Pausers = {"backend"}
  Reentrants = {"callback", "sink", "resolver"}
  Flushers = {}
  Interrupts = TRUE
  MaxDepth = 5
  MaxSteps = 6
  MaxTime = 3
INVARIANTS
  LuaTimeCounts
CHECK_DEADLOCK FALSE

SPECIFICATION BoundarySpec
CONSTANTS
  sb = sb
  Owners = {sb}
  NoIrq = NoIrq
  U64Max = 99
  Floor = 1
  Self = sb
  Limits = {0, 2}
  Policies <- AnyPolicy
  Pausers = {"callback"}
  Reentrants = {"callback", "sink", "resolver"}
  Flushers = {}
  Interrupts = TRUE
  MaxDepth = 5
  MaxSteps = 6
  MaxTime = 3
  Sites <- AnySite
  MaxCalls = 3
  MaxTrips = 2
  MaxAborts = 1
INVARIANTS
  TypeOK
  BilledByTheFrames
  LuaTimeCounts
  PauseFollowsTheFrame
  BreachDiesWithItsCall
PROPERTIES
  NoSuccessAfterBreach
  NoSuccessPastATrip
  FencedRaiseNamesItsReason
CHECK_DEADLOCK FALSE

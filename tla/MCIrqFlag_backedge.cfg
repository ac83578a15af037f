SPECIFICATION IrqSpec
CONSTANTS
  Sites <- BackEdges
  MaxCalls = 2
  MaxTrips = 1
  MaxAborts = 0
INVARIANTS
  RaiseNamesItsReason
CHECK_DEADLOCK FALSE

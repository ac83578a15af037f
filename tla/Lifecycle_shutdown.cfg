SPECIFICATION LifecycleFairSpec
CONSTANTS
  Boxes = {b1, b2}
  Items = {i1}
  Handles = {h1}
  Nothing = Nothing
  MaxPasses = 2
  MaxStack = 6
  MaxSteps = 4
  FatalInTeardown = TRUE
PROPERTY ShutdownEnds
CHECK_DEADLOCK FALSE

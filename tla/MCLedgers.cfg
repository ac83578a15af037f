SPECIFICATION LedgersSpec
CONSTANTS
  FileSlots = {f1, f2}
  Paths = {a}
  NoFile = NoFile
  OpenModes = {"r", "w", "a"}
  MaxOpenHandles = 1
  MaxOperations = 2
  MaxFiles = 1
  MaxTotalBytes = 1
  MaxFileBytes = 1
  MaxNesting = 2
  Modules = {m1, m2}
  NoModule = NoModule
  MaxModules = 1
  MaxRequireDepth = 2
  MaxLoads = 5
SYMMETRY Symmetry
INVARIANTS
  FilesAddUp
  WritesAreNotForgotten
  RequireHoldsItsLimits
CHECK_DEADLOCK FALSE

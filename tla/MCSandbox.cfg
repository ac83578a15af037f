SPECIFICATION Spec
CONSTANTS
  Threads = {t1, t2, t3}
  Main = Main
  None = None
  MaxLive = 1
  MaxDepth = 1
  MaxPhp = 1
  SettleCallsHost = FALSE
  MaxFrames = 4
  MaxMoves = 6
  Boxes = {b1, b2}
  Items = {i1, i2}
  Handles = {h1, h2}
  Nothing = Nothing
  MaxPasses = 2
  MaxStack = 6
  MaxSteps = 5
  FatalInTeardown = FALSE
  Kinds = {"Base", "Derived"}
  Lineage <- MCLineage
  Names = {n1}
  Records = {r1, r2}
  Proxies = {p1, p2}
  Nobody = Nobody
  MaxTokens = 2
  MaxActs = 3
SYMMETRY Symmetry
INVARIANTS
  TypesOK
  FatalArrives
  SweepLeavesNothing
  PopulationCapped
  RunningIsInnermost
  HandlesNameTheirOwn
  NothingOutlivesTheRequest
  DispatchReadsALiveRecord
PROPERTIES
  KeepsCustody
CHECK_DEADLOCK FALSE

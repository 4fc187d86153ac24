SPECIFICATION Spec
CONSTANTS
  p1 = p1
  p2 = p2
  s1 = s1
  s2 = s2
  NoKey = NoKey
  NoPool = NoPool
  Plot = {p1, p2}
  Pool = {s1, s2}
  MaxRank = 1
  CacheCap = 1
  EarlyGrace = TRUE
  PlannerMayPanic = TRUE
  Key <- ThreeKeys
  LaneOf <- ThreeKeysLane
  Slots <- LongTwo
  Room <- NoRoomLong
  IslandKey <- OneIsland
SYMMETRY PlotSymmetry
INVARIANTS
  PermitsConserved
  MemoryBounded
  PoolWheneverAdmitted
  OwnPool
  OrphansStopOrRefine
  FallbackNeverCached
PROPERTY
  FirstComeFirstServed

SPECIFICATION FairSpec
CONSTANTS
  p1 = p1
  p2 = p2
  s1 = s1
  s2 = s2
  NoKey = NoKey
  NoPool = NoPool
  Plot = {p1, p2}
  Pool = {s1}
  MaxRank = 2
  CacheCap = 1
  EarlyGrace = TRUE
  PlannerMayPanic = FALSE
  Key <- OneKey
  LaneOf <- OneKeyLane
  Slots <- OneSlot
  Room <- OneRoom
  IslandKey <- NoIsland
PROPERTIES
  SlotsComeBack
  EveryRequestEnds

---------------------------- MODULE MCRoutePlot ----------------------------
(* RoutePlot on small instances: a near key, a far key and an island.      *)
EXTENDS RoutePlot, TLC

CONSTANTS p1, p2, s1, s2

ThreeKeys == {"near", "far", "isle"}
OneKey == {"far"}
Lanes(keys) == [k \in keys |-> IF k = "far" THEN "long" ELSE "interactive"]
ThreeKeysLane == Lanes(ThreeKeys)
OneKeyLane == Lanes(OneKey)

OneSlot == [l \in Lane |-> 1]
TwoSlots == [l \in Lane |-> 2]
LongTwo == [l \in Lane |-> IF l = "long" THEN 2 ELSE 1]
NoRoom == [l \in Lane |-> 0]
OneRoom == [l \in Lane |-> 1]
NoRoomLong == [l \in Lane |-> IF l = "long" THEN 0 ELSE 1]

NoIsland == {}
OneIsland == {"isle"}
PlotSymmetry == Permutations(Plot) \cup Permutations(Pool)
=============================================================================

-------------------------- MODULE RoutePlotProofs --------------------------
(***************************************************************************)
(* Proofs about RoutePlot for every number of plots, keys, slots, pools,   *)
(* ranks and every cap: its types, that no permit is ever lost or returned *)
(* twice, that a checkout never finds the long pools all taken, what the   *)
(* memories may come to hold, and that its gates implement LaneGate.       *)
(*                                                                         *)
(* The argument: a plot's state alone says which permits and which pool it *)
(* holds (ShapeOf); each step changes one plot, so it moves each count of  *)
(* holders by at most one, and it moves the semaphore the other way. The   *)
(* plots with a pool are then among the plots with a long slot, one fewer  *)
(* than them while a plot with a slot has no pool yet.                     *)
(***************************************************************************)
EXTENDS RoutePlot, FiniteSetTheorems, SequenceTheorems, TLAPS

\* The task states in which a long plot's planner has its pool.
Working == {"planning", "ended", "reinstating", "leaving"}

ShapeOf(r) ==
  /\ r.handler # "done" \/ r.task # "done" => r.key \in Key
  /\ r.handler \in {"waiting", "slotted"} => r.task = "done"
  /\ r.checking # {} \/ r.keeping # {} => r.task = "planning"
  /\ r.lease # NoPool <=> (r.task \in Working /\ r.key \in Key /\ LaneOf[r.key] = "long")

Shape == \A p \in Plot : ShapeOf(plot[p])

LeaseHolders == {p \in Plot : plot[p].lease # NoPool}

\* The plots that wait in a lane, and what a step does to the lanes.
InLine(l) == {p \in Plot : plot[p].handler = "waiting" /\ LaneOf[KeyOf(p)] = l}

LanesKept ==
  /\ UNCHANGED waiters
  /\ \A l \in Lane : SlotHolders(l)' = SlotHolders(l) /\ InLine(l)' = InLine(l)
SlotLeft(p) ==
  /\ UNCHANGED waiters
  /\ \E m \in Lane : p \in SlotHolders(m) /\ \A l \in Lane :
       /\ SlotHolders(l)' = IF l = m THEN SlotHolders(l) \ {p} ELSE SlotHolders(l)
       /\ InLine(l)' = InLine(l)

PoolsConserved == Cardinality(free) + Cardinality(LeaseHolders) = Slots["long"]

IInv == TypeOK /\ Shape /\ PermitsConserved /\ PoolsConserved /\ OwnPool

-----------------------------------------------------------------------------
(* Counting.                                                                *)

LEMMA AddOne ==
  ASSUME NEW S, IsFiniteSet(S), NEW x, x \notin S
  PROVE  Cardinality(S \cup {x}) = Cardinality(S) + 1 /\ Cardinality(S) \in Nat
BY FS_AddElement, FS_CardinalityType

LEMMA RemoveOne ==
  ASSUME NEW S, IsFiniteSet(S), NEW x \in S
  PROVE  Cardinality(S \ {x}) = Cardinality(S) - 1 /\ Cardinality(S) \in Nat \ {0}
<1>1. /\ Cardinality(S) \in Nat
      /\ IsFiniteSet(S \ {x})
      /\ Cardinality(S \ {x}) = Cardinality(S) - 1
  BY FS_CardinalityType, FS_RemoveElement
<1>2. Cardinality(S \ {x}) \in Nat
  BY <1>1, FS_CardinalityType
<1> QED BY <1>1, <1>2

LEMMA HoldersFinite ==
  ASSUME NEW l
  PROVE  /\ IsFiniteSet(PlaceHolders(l))
         /\ IsFiniteSet(SlotHolders(l))
         /\ IsFiniteSet(LeaseHolders)
BY ConstantsAssumption, FS_Subset DEF PlaceHolders, SlotHolders, LeaseHolders

-----------------------------------------------------------------------------
(* One plot changes from plot[p] to r.                                      *)

LEMMA SettleHolds ==
  ASSUME NEW r, ShapeOf(r)
  PROVE  /\ ShapeOf(Settle(r))
         /\ HoldsPlace(Settle(r)) <=> HoldsPlace(r)
         /\ HoldsSlot(Settle(r)) <=> HoldsSlot(r)
         /\ Settle(r).lease = r.lease
         /\ HoldsPlace(r) \/ HoldsSlot(r) => Settle(r) = r
BY DEF Settle, NoPlot, ShapeOf, HoldsPlace, HoldsSlot, Working

LEMMA SettleType ==
  ASSUME NEW r \in PlotState
  PROVE  Settle(r) \in PlotState
<1>1. NoPlot \in PlotState
  BY DEF NoPlot, PlotState, HandlerState, TaskState, Outcome
<1> QED BY <1>1 DEF Settle

\* The holders after the change, and what the change keeps of Shape and of
\* the type of plot.
LEMMA HoldersAfter ==
  ASSUME TypeOK, Shape, NEW p \in Plot, NEW r \in PlotState, ShapeOf(r),
         Becomes(p, r)
  PROVE  /\ plot' \in [Plot -> PlotState]
         /\ Shape'
         /\ \A l \in Lane : PlaceHolders(l)' =
              IF HoldsPlace(r) /\ LaneOf[r.key] = l
              THEN PlaceHolders(l) \cup {p} ELSE PlaceHolders(l) \ {p}
         /\ \A l \in Lane : SlotHolders(l)' =
              IF HoldsSlot(r) /\ LaneOf[r.key] = l
              THEN SlotHolders(l) \cup {p} ELSE SlotHolders(l) \ {p}
         /\ LeaseHolders' = IF r.lease # NoPool
                            THEN LeaseHolders \cup {p} ELSE LeaseHolders \ {p}
         /\ \A l \in Lane : InLine(l)' =
              IF r.handler = "waiting" /\ LaneOf[r.key] = l
              THEN InLine(l) \cup {p} ELSE InLine(l) \ {p}
<1> DEFINE s == Settle(r)
<1>1. /\ s \in PlotState /\ ShapeOf(s)
      /\ HoldsPlace(s) <=> HoldsPlace(r)
      /\ HoldsSlot(s) <=> HoldsSlot(r)
      /\ s.lease = r.lease
      /\ HoldsPlace(r) \/ HoldsSlot(r) => s.key = r.key
  BY SettleHolds, SettleType
<1>0. s.handler = r.handler /\ (r.handler = "waiting" => s.key = r.key)
  BY DEF s, Settle, NoPlot
<1> HIDE DEF s
<1>2. plot' = [plot EXCEPT ![p] = s] /\ plot \in [Plot -> PlotState]
  BY DEF Becomes, s, TypeOK
<1>3. /\ plot' \in [Plot -> PlotState] /\ plot'[p] = s
      /\ \A q \in Plot : q # p => plot'[q] = plot[q]
  BY <1>1, <1>2
<1>4. Shape'
  BY <1>1, <1>3 DEF Shape, ShapeOf, Working
<1>5. ASSUME NEW l \in Lane
      PROVE  PlaceHolders(l)' = IF HoldsPlace(r) /\ LaneOf[r.key] = l
               THEN PlaceHolders(l) \cup {p} ELSE PlaceHolders(l) \ {p}
  <2>1. PlaceHolders(l)' = {q \in Plot : HoldsPlace(plot'[q]) /\ LaneOf[plot'[q].key] = l}
    BY DEF PlaceHolders, KeyOf, HoldsPlace
  <2> QED BY <1>1, <1>3, <2>1 DEF PlaceHolders, KeyOf
<1>6. ASSUME NEW l \in Lane
      PROVE  SlotHolders(l)' = IF HoldsSlot(r) /\ LaneOf[r.key] = l
               THEN SlotHolders(l) \cup {p} ELSE SlotHolders(l) \ {p}
  <2>1. SlotHolders(l)' = {q \in Plot : HoldsSlot(plot'[q]) /\ LaneOf[plot'[q].key] = l}
    BY DEF SlotHolders, KeyOf, HoldsSlot
  <2> QED BY <1>1, <1>3, <2>1 DEF SlotHolders, KeyOf
<1>7. LeaseHolders' = IF r.lease # NoPool
                      THEN LeaseHolders \cup {p} ELSE LeaseHolders \ {p}
  BY <1>1, <1>3 DEF LeaseHolders
<1>8. ASSUME NEW l \in Lane
      PROVE  InLine(l)' = IF r.handler = "waiting" /\ LaneOf[r.key] = l
               THEN InLine(l) \cup {p} ELSE InLine(l) \ {p}
  <2>1. InLine(l)' = {q \in Plot : plot'[q].handler = "waiting" /\ LaneOf[plot'[q].key] = l}
    BY DEF InLine, KeyOf
  <2> QED BY <1>0, <1>3, <2>1 DEF InLine, KeyOf
<1> QED BY <1>3, <1>4, <1>5, <1>6, <1>7, <1>8

PlacesOK == \A l \in Lane :
  places[l] + Cardinality(PlaceHolders(l)) = Slots[l] + Room[l]
SlotsOK == \A l \in Lane :
  slots[l] + Cardinality(SlotHolders(l)) = Slots[l]

\* Plot p, becoming r, keeps, takes or gives back a permit or its pool, and
\* the semaphore or the free list moves the other way.
PlaceMoves(p, r) ==
  \/ /\ HoldsPlace(r) <=> HoldsPlace(plot[p])
     /\ HoldsPlace(r) => r.key = plot[p].key
     /\ places' = places
  \/ /\ ~HoldsPlace(plot[p]) /\ HoldsPlace(r) /\ places[LaneOf[r.key]] > 0
     /\ places' = [places EXCEPT ![LaneOf[r.key]] = @ - 1]
  \/ /\ HoldsPlace(plot[p]) /\ ~HoldsPlace(r)
     /\ places' = [places EXCEPT ![LaneOf[plot[p].key]] = @ + 1]

SlotMoves(p, r) ==
  \/ /\ HoldsSlot(r) <=> HoldsSlot(plot[p])
     /\ HoldsSlot(r) => r.key = plot[p].key
     /\ slots' = slots
  \/ /\ ~HoldsSlot(plot[p]) /\ HoldsSlot(r) /\ slots[LaneOf[r.key]] > 0
     /\ slots' = [slots EXCEPT ![LaneOf[r.key]] = @ - 1]
  \/ /\ HoldsSlot(plot[p]) /\ ~HoldsSlot(r)
     /\ slots' = [slots EXCEPT ![LaneOf[plot[p].key]] = @ + 1]

PoolMoves(p, r) ==
  \/ r.lease = plot[p].lease /\ free' = free
  \/ plot[p].lease = NoPool /\ r.lease \in free /\ free' = free \ {r.lease}
  \/ /\ plot[p].lease # NoPool /\ r.lease = NoPool
     /\ free' = free \cup {plot[p].lease}

\* A plot that keeps, takes or gives back its waiting-room permit.
LEMMA PlacesStep ==
  ASSUME TypeOK, Shape, PlacesOK,
         NEW p \in Plot, NEW r \in PlotState, ShapeOf(r), Becomes(p, r),
         PlaceMoves(p, r)
  PROVE  PlacesOK' /\ places' \in [Lane -> Nat]
<1>1. /\ places \in [Lane -> Nat]
      /\ HoldsPlace(r) => LaneOf[r.key] \in Lane
      /\ HoldsPlace(plot[p]) => LaneOf[plot[p].key] \in Lane
  BY ConstantsAssumption DEF TypeOK, HoldsPlace
<1>2. places' \in [Lane -> Nat]
  BY <1>1 DEF PlaceMoves
<1>3. ASSUME NEW l \in Lane
      PROVE  places'[l] + Cardinality(PlaceHolders(l)') = Slots[l] + Room[l]
  <2> DEFINE S == PlaceHolders(l)
  <2>1. /\ IsFiniteSet(S) /\ Cardinality(S) \in Nat
        /\ places[l] + Cardinality(S) = Slots[l] + Room[l]
        /\ p \in S <=> HoldsPlace(plot[p]) /\ LaneOf[plot[p].key] = l
        /\ places[l] \in Nat
    BY <1>1, HoldersFinite, FS_CardinalityType DEF PlacesOK, PlaceHolders, KeyOf
  <2>2. S' = IF HoldsPlace(r) /\ LaneOf[r.key] = l THEN S \cup {p} ELSE S \ {p}
    BY HoldersAfter
  <2> HIDE DEF S
  <2>3. CASE p \in S <=> HoldsPlace(r) /\ LaneOf[r.key] = l
    <3>1. S' = S
      BY <2>2, <2>3
    <3>2. places'[l] = places[l]
      BY <1>1, <2>1, <2>3 DEF PlaceMoves
    <3> QED BY <2>1, <3>1, <3>2 DEF S
  <2>4. CASE p \notin S /\ HoldsPlace(r) /\ LaneOf[r.key] = l
    <3>1. Cardinality(S') = Cardinality(S) + 1
      BY <2>1, <2>2, <2>4, AddOne
    <3>2. places'[l] = places[l] - 1
      BY <1>1, <2>1, <2>4 DEF PlaceMoves
    <3> QED BY <2>1, <3>1, <3>2 DEF S
  <2>5. CASE p \in S /\ ~(HoldsPlace(r) /\ LaneOf[r.key] = l)
    <3>1. Cardinality(S') = Cardinality(S) - 1
      BY <2>1, <2>2, <2>5, RemoveOne
    <3>2. places'[l] = places[l] + 1
      BY <1>1, <2>1, <2>5 DEF PlaceMoves
    <3> QED BY <2>1, <3>1, <3>2 DEF S
  <2> QED BY <2>3, <2>4, <2>5
<1> QED BY <1>2, <1>3 DEF PlacesOK, PlaceHolders, HoldsPlace, KeyOf

\* A plot that keeps, takes or gives back its slot permit.
LEMMA SlotsStep ==
  ASSUME TypeOK, Shape, SlotsOK,
         NEW p \in Plot, NEW r \in PlotState, ShapeOf(r), Becomes(p, r),
         SlotMoves(p, r)
  PROVE  SlotsOK' /\ slots' \in [Lane -> Nat]
<1>1. /\ slots \in [Lane -> Nat]
      /\ HoldsSlot(r) => LaneOf[r.key] \in Lane
      /\ HoldsSlot(plot[p]) => LaneOf[plot[p].key] \in Lane
  BY ConstantsAssumption DEF TypeOK, HoldsSlot
<1>2. slots' \in [Lane -> Nat]
  BY <1>1 DEF SlotMoves
<1>3. ASSUME NEW l \in Lane
      PROVE  slots'[l] + Cardinality(SlotHolders(l)') = Slots[l]
  <2> DEFINE S == SlotHolders(l)
  <2>1. /\ IsFiniteSet(S) /\ Cardinality(S) \in Nat
        /\ slots[l] + Cardinality(S) = Slots[l]
        /\ p \in S <=> HoldsSlot(plot[p]) /\ LaneOf[plot[p].key] = l
        /\ slots[l] \in Nat
    BY <1>1, HoldersFinite, FS_CardinalityType DEF SlotsOK, SlotHolders, KeyOf
  <2>2. S' = IF HoldsSlot(r) /\ LaneOf[r.key] = l THEN S \cup {p} ELSE S \ {p}
    BY HoldersAfter
  <2> HIDE DEF S
  <2>3. CASE p \in S <=> HoldsSlot(r) /\ LaneOf[r.key] = l
    <3>1. S' = S
      BY <2>2, <2>3
    <3>2. slots'[l] = slots[l]
      BY <1>1, <2>1, <2>3 DEF SlotMoves
    <3> QED BY <2>1, <3>1, <3>2 DEF S
  <2>4. CASE p \notin S /\ HoldsSlot(r) /\ LaneOf[r.key] = l
    <3>1. Cardinality(S') = Cardinality(S) + 1
      BY <2>1, <2>2, <2>4, AddOne
    <3>2. slots'[l] = slots[l] - 1
      BY <1>1, <2>1, <2>4 DEF SlotMoves
    <3> QED BY <2>1, <3>1, <3>2 DEF S
  <2>5. CASE p \in S /\ ~(HoldsSlot(r) /\ LaneOf[r.key] = l)
    <3>1. Cardinality(S') = Cardinality(S) - 1
      BY <2>1, <2>2, <2>5, RemoveOne
    <3>2. slots'[l] = slots[l] + 1
      BY <1>1, <2>1, <2>5 DEF SlotMoves
    <3> QED BY <2>1, <3>1, <3>2 DEF S
  <2> QED BY <2>3, <2>4, <2>5
<1> QED BY <1>2, <1>3 DEF SlotsOK, SlotHolders, HoldsSlot, KeyOf

\* A plot that keeps, checks out or returns its pool.
LEMMA PoolsStep ==
  ASSUME TypeOK, Shape, PoolsConserved, OwnPool,
         NEW p \in Plot, NEW r \in PlotState, ShapeOf(r), Becomes(p, r),
         PoolMoves(p, r)
  PROVE  PoolsConserved' /\ OwnPool' /\ free' \in SUBSET Pool
<1> DEFINE S == LeaseHolders
<1>1. /\ IsFiniteSet(S) /\ Cardinality(S) \in Nat
      /\ p \in S <=> plot[p].lease # NoPool
      /\ S' = IF r.lease # NoPool THEN S \cup {p} ELSE S \ {p}
  BY HoldersFinite, HoldersAfter, FS_CardinalityType DEF LeaseHolders
<1>2. /\ free \subseteq Pool /\ IsFiniteSet(free) /\ Cardinality(free) \in Nat
      /\ NoPool \notin Pool
      /\ plot[p].lease \in Pool \cup {NoPool}
      /\ Cardinality(free) + Cardinality(S) = Slots["long"]
  BY ConstantsAssumption, FS_Subset, FS_CardinalityType
     DEF TypeOK, PlotState, PoolsConserved
<1>3. /\ Settle(r).lease = r.lease /\ Settle(r) \in PlotState
      /\ plot \in [Plot -> PlotState]
      /\ plot' = [plot EXCEPT ![p] = Settle(r)]
  BY SettleHolds, SettleType DEF Becomes, TypeOK
<1>4. \A q \in Plot : plot'[q].lease = IF q = p THEN r.lease ELSE plot[q].lease
  BY <1>3
<1>5. /\ \A a, b \in Plot : plot[a].lease = plot[b].lease => a = b \/ plot[a].lease = NoPool
      /\ \A a \in Plot : plot[a].lease # NoPool
           => plot[a].lease \in Pool /\ plot[a].lease \notin free
      /\ \A x \in Pool : x \notin free => \E a \in Plot : plot[a].lease = x
  BY <1>2 DEF OwnPool
<1> HIDE DEF S
<1>6. free' \in SUBSET Pool
  BY <1>2 DEF PoolMoves
<1>7. Cardinality(free') + Cardinality(S') = Slots["long"]
  <2>1. CASE r.lease = plot[p].lease /\ free' = free
    BY <1>1, <1>2, <2>1
  <2>2. CASE plot[p].lease = NoPool /\ r.lease \in free /\ free' = free \ {r.lease}
    <3>1. S' = S \cup {p} /\ p \notin S
      BY <1>1, <1>2, <2>2
    <3> QED BY <1>1, <1>2, <2>2, <3>1, AddOne, RemoveOne
  <2>3. CASE plot[p].lease # NoPool /\ r.lease = NoPool /\ free' = free \cup {plot[p].lease}
    <3>1. S' = S \ {p} /\ p \in S /\ plot[p].lease \notin free
      BY <1>1, <1>5, <2>3
    <3> QED BY <1>1, <1>2, <2>3, <3>1, AddOne, RemoveOne
  <2> QED BY <2>1, <2>2, <2>3 DEF PoolMoves
<1>8. OwnPool'
  <2>1. \A a, b \in Plot : plot'[a].lease = plot'[b].lease => a = b \/ plot'[a].lease = NoPool
    BY <1>2, <1>4, <1>5 DEF PoolMoves
  <2>2. \A a \in Plot : plot'[a].lease # NoPool
          => plot'[a].lease \in Pool /\ plot'[a].lease \notin free'
    BY <1>2, <1>4, <1>5 DEF PoolMoves
  <2>3. \A x \in Pool : x \notin free' => \E a \in Plot : plot'[a].lease = x
    BY <1>2, <1>4, <1>5 DEF PoolMoves
  <2>4. \A a \in Plot : plot'[a].lease # NoPool => plot'[a].lease \in Pool \ free'
    BY <2>2
  <2> QED BY <1>2, <2>1, <2>3, <2>4 DEF OwnPool
<1> QED BY <1>6, <1>7, <1>8 DEF PoolsConserved, S

-----------------------------------------------------------------------------
(* The memories keep their types.                                           *)

LEMMA EntryType ==
  ASSUME TypeOK, NEW p \in Plot, NEW rank \in Rank \cup {None}, NEW b \in BOOLEAN
  PROVE  EntryOf(p, rank, b) \in Entry
BY DEF TypeOK, PlotState, EntryOf, Entry

LEMMA StoreType ==
  ASSUME TypeOK, NEW k \in Key, NEW e \in Entry, StoreIn(k, e)
  PROVE  cache' \in [Key -> Entry]
<1>1. NoEntry \in Entry
  BY DEF NoEntry, Entry
<1> QED BY <1>1 DEF StoreIn, TypeOK, Occupied

LEMMA RefuseType ==
  ASSUME TypeOK, NEW k \in Key, Refuse(k)
  PROVE  refused' \in SUBSET Key
BY DEF TypeOK, Refuse

LEMMA KeyInLane ==
  ASSUME TypeOK, Shape, NEW p \in Plot, ~IsIdle(p)
  PROVE  KeyOf(p) \in Key /\ LaneOfPlot(p) \in Lane
BY ConstantsAssumption DEF Shape, ShapeOf, IsIdle, KeyOf, LaneOfPlot

-----------------------------------------------------------------------------
(* One step of one plot.                                                    *)

\* Whether a plot in state r is between its slot and the planner's end, or
\* waits for the planner's answer: it keeps what it holds.
Past(r) == r.handler \notin {"waiting", "slotted"}

LEMMA KeptShape ==
  ASSUME NEW q, NEW n, ShapeOf(q), q.handler # "done" \/ q.task # "done",
         Past(q), Past(n), n.key = q.key, n.lease = q.lease,
         n.task = q.task \/ (n.task \in Working /\ q.task \in Working),
         n.checking # {} \/ n.keeping # {} => n.task = "planning"
  PROVE  /\ ShapeOf(n)
         /\ HoldsPlace(n) <=> HoldsPlace(q)
         /\ HoldsSlot(n) <=> HoldsSlot(q)
BY DEF ShapeOf, Past, HoldsPlace, HoldsSlot, Working

\* A step of one plot whose permits and pool move as the semaphores do.
LEMMA MoveStep ==
  ASSUME IInv, NEW p \in Plot, NEW n \in PlotState, ShapeOf(n), Becomes(p, n),
         PlaceMoves(p, n), SlotMoves(p, n), PoolMoves(p, n),
         waiters' \in [Lane -> Seq(Plot)],
         cache' \in [Key -> Entry], refused' \in SUBSET Key
  PROVE  IInv'
<1>1. TypeOK /\ Shape /\ PlacesOK /\ SlotsOK /\ PoolsConserved /\ OwnPool
  BY DEF IInv, PermitsConserved, PlacesOK, SlotsOK
<1>2. PlacesOK' /\ places' \in [Lane -> Nat]
  BY <1>1, PlacesStep
<1>3. SlotsOK' /\ slots' \in [Lane -> Nat]
  BY <1>1, SlotsStep
<1>4. PoolsConserved' /\ OwnPool' /\ free' \in SUBSET Pool
  BY <1>1, PoolsStep
<1>5. plot' \in [Plot -> PlotState] /\ Shape'
  BY <1>1, HoldersAfter
<1>6. TypeOK'
  BY <1>2, <1>3, <1>4, <1>5 DEF TypeOK
<1> QED BY <1>2, <1>3, <1>4, <1>5, <1>6 DEF IInv, PermitsConserved, PlacesOK, SlotsOK

\* A plot that neither waits nor will, and keeps its slot if it has one.
LEMMA SameLanes ==
  ASSUME TypeOK, Shape, NEW p \in Plot, NEW n \in PlotState, ShapeOf(n), Becomes(p, n),
         plot[p].handler # "waiting", n.handler # "waiting",
         HoldsSlot(n) <=> HoldsSlot(plot[p]), n.key = plot[p].key, UNCHANGED waiters
  PROVE  LanesKept
<1>1. ASSUME NEW l \in Lane PROVE SlotHolders(l)' = SlotHolders(l) /\ InLine(l)' = InLine(l)
  <2>1. /\ SlotHolders(l)' = IF HoldsSlot(n) /\ LaneOf[n.key] = l
                              THEN SlotHolders(l) \cup {p} ELSE SlotHolders(l) \ {p}
        /\ InLine(l)' = InLine(l) \ {p}
    BY HoldersAfter
  <2>2. InLine(l)' = InLine(l)
    BY <2>1 DEF InLine
  <2>3. p \in SlotHolders(l) <=> HoldsSlot(n) /\ LaneOf[n.key] = l
    BY DEF SlotHolders, KeyOf
  <2> QED BY <2>1, <2>2, <2>3
<1> QED BY <1>1 DEF LanesKept

\* A step that moves no permit and no pool.
LEMMA KeepStep ==
  ASSUME IInv, NEW p \in Plot, NEW n \in PlotState, Becomes(p, n),
         ~IsIdle(p), Past(plot[p]), Past(n),
         n.key = plot[p].key, n.lease = plot[p].lease,
         n.task = plot[p].task \/ (n.task \in Working /\ plot[p].task \in Working),
         n.checking # {} \/ n.keeping # {} => n.task = "planning",
         UNCHANGED <<places, slots, waiters, free>>,
         cache' \in [Key -> Entry], refused' \in SUBSET Key
  PROVE  IInv' /\ LanesKept
<1>1. /\ ShapeOf(n)
      /\ HoldsPlace(n) <=> HoldsPlace(plot[p])
      /\ HoldsSlot(n) <=> HoldsSlot(plot[p])
  BY KeptShape DEF IInv, Shape, IsIdle
<1>2. PlaceMoves(p, n) /\ SlotMoves(p, n) /\ PoolMoves(p, n)
  BY <1>1 DEF PlaceMoves, SlotMoves, PoolMoves
<1>3. waiters' \in [Lane -> Seq(Plot)]
  BY DEF IInv, TypeOK
<1>4. LanesKept
  BY <1>1, SameLanes DEF IInv, Past
<1> QED BY <1>1, <1>2, <1>3, <1>4, MoveStep

\* A step that drops both permits and touches no pool.
LEMMA DropStep ==
  ASSUME IInv, NEW p \in Plot, NEW n \in PlotState, ShapeOf(n), Becomes(p, n),
         n.lease = plot[p].lease,
         HoldsPlace(plot[p]), HoldsSlot(plot[p]), ~HoldsPlace(n), ~HoldsSlot(n),
         DropPermits(p), UNCHANGED <<waiters, free, cache, refused>>
  PROVE  IInv' /\ (plot[p].handler # "waiting" /\ n.handler # "waiting" => SlotLeft(p))
<1>1. PlaceMoves(p, n) /\ SlotMoves(p, n) /\ PoolMoves(p, n)
  BY DEF PlaceMoves, SlotMoves, PoolMoves, DropPermits, LaneOfPlot, KeyOf
<1>2. /\ waiters' \in [Lane -> Seq(Plot)]
      /\ cache' \in [Key -> Entry] /\ refused' \in SUBSET Key
  BY DEF IInv, TypeOK
<1>3. ASSUME plot[p].handler # "waiting", n.handler # "waiting" PROVE SlotLeft(p)
  <2>1. KeyOf(p) \in Key /\ LaneOfPlot(p) \in Lane /\ p \in SlotHolders(LaneOfPlot(p))
    BY ConstantsAssumption DEF HoldsSlot, KeyOf, LaneOfPlot, SlotHolders
  <2>2. ASSUME NEW l \in Lane
        PROVE  /\ SlotHolders(l)' = IF l = LaneOfPlot(p) THEN SlotHolders(l) \ {p} ELSE SlotHolders(l)
               /\ InLine(l)' = InLine(l)
    <3>1. SlotHolders(l)' = SlotHolders(l) \ {p} /\ InLine(l)' = InLine(l) \ {p}
      BY <1>3, HoldersAfter DEF IInv
    <3> QED BY <1>3, <3>1 DEF SlotHolders, InLine, LaneOfPlot
  <2> QED BY <2>1, <2>2 DEF SlotLeft
<1> QED BY <1>1, <1>2, <1>3, MoveStep

-----------------------------------------------------------------------------
(* One lemma per action.                                                    *)

LEMMA ReceiveStep ==
  ASSUME IInv, NEW p \in Plot, NEW r \in Rank, Receive(p, r)
  PROVE  IInv' /\ LanesKept
<1> DEFINE n == [plot[p] EXCEPT !.handler = "grace", !.best = Better(@, r)]
<1>1. TypeOK /\ Shape /\ plot[p] \in PlotState /\ ShapeOf(plot[p])
  BY DEF IInv, TypeOK, Shape
<1>2. KeyOf(p) \in Key /\ ~IsIdle(p) /\ Past(plot[p])
  BY <1>1 DEF Receive, IsIdle, Past, ShapeOf, KeyOf
<1>3. Becomes(p, n) /\ UNCHANGED <<places, slots, waiters, free>>
  BY DEF Receive
<1>4. n \in PlotState
  <2>1. Better(plot[p].best, r) \in Rank \cup {None}
    BY <1>1 DEF Better, PlotState
  <2> QED BY <1>1, <2>1 DEF PlotState, HandlerState, TaskState, Outcome
<1>5. cache' \in [Key -> Entry]
  BY <1>1 DEF Receive, TypeOK
<1>6. refused' \in SUBSET Key
  BY <1>1 DEF Receive, TypeOK
<1>7. /\ Past(n) /\ n.key = plot[p].key /\ n.lease = plot[p].lease
      /\ n.task = plot[p].task \/ (n.task \in Working /\ plot[p].task \in Working)
      /\ n.checking # {} \/ n.keeping # {} => n.task = "planning"
  BY <1>1, <1>2 DEF Receive, Past, ShapeOf, PlotState, Working
<1> HIDE DEF n
<1> QED BY <1>2, <1>3, <1>4, <1>5, <1>6, <1>7, KeepStep

LEMMA FirstDeadlineStep ==
  ASSUME IInv, NEW p \in Plot, FirstDeadline(p)
  PROVE  IInv' /\ LanesKept
<1> DEFINE n == [plot[p] EXCEPT !.handler = "deadline", !.gone = TRUE]
<1>1. TypeOK /\ Shape /\ plot[p] \in PlotState /\ ShapeOf(plot[p])
  BY DEF IInv, TypeOK, Shape
<1>2. KeyOf(p) \in Key /\ ~IsIdle(p) /\ Past(plot[p])
  BY <1>1 DEF FirstDeadline, IsIdle, Past, ShapeOf, KeyOf
<1>3. Becomes(p, n) /\ UNCHANGED <<places, slots, waiters, free>>
  BY DEF FirstDeadline
<1>4. n \in PlotState
  BY <1>1 DEF PlotState, HandlerState, TaskState, Outcome
<1>5. cache' \in [Key -> Entry]
  BY <1>1 DEF FirstDeadline, TypeOK
<1>6. refused' \in SUBSET Key
  BY <1>1 DEF FirstDeadline, TypeOK
<1>7. /\ Past(n) /\ n.key = plot[p].key /\ n.lease = plot[p].lease
      /\ n.task = plot[p].task \/ (n.task \in Working /\ plot[p].task \in Working)
      /\ n.checking # {} \/ n.keeping # {} => n.task = "planning"
  BY <1>1, <1>2 DEF FirstDeadline, Past, ShapeOf, PlotState, Working
<1> HIDE DEF n
<1> QED BY <1>2, <1>3, <1>4, <1>5, <1>6, <1>7, KeepStep

LEMMA GraceOverStep ==
  ASSUME IInv, NEW p \in Plot, GraceOver(p)
  PROVE  IInv' /\ LanesKept
<1> DEFINE n == [plot[p] EXCEPT !.handler = "serving", !.served = TRUE]
<1>1. TypeOK /\ Shape /\ plot[p] \in PlotState /\ ShapeOf(plot[p])
  BY DEF IInv, TypeOK, Shape
<1>2. KeyOf(p) \in Key /\ ~IsIdle(p) /\ Past(plot[p])
  BY <1>1 DEF GraceOver, IsIdle, Past, ShapeOf, KeyOf
<1>3. Becomes(p, n) /\ UNCHANGED <<places, slots, waiters, free>>
  BY DEF GraceOver
<1>4. n \in PlotState
  BY <1>1 DEF PlotState, HandlerState, TaskState, Outcome
<1>5. cache' \in [Key -> Entry]
  BY <1>1 DEF GraceOver, TypeOK
<1>6. refused' \in SUBSET Key
  BY <1>1 DEF GraceOver, TypeOK
<1>7. /\ Past(n) /\ n.key = plot[p].key /\ n.lease = plot[p].lease
      /\ n.task = plot[p].task \/ (n.task \in Working /\ plot[p].task \in Working)
      /\ n.checking # {} \/ n.keeping # {} => n.task = "planning"
  BY <1>1, <1>2 DEF GraceOver, Past, ShapeOf, PlotState, Working
<1> HIDE DEF n
<1> QED BY <1>2, <1>3, <1>4, <1>5, <1>6, <1>7, KeepStep

LEMMA ServeEarlyStep ==
  ASSUME IInv, NEW p \in Plot, ServeEarly(p)
  PROVE  IInv' /\ LanesKept
<1> DEFINE n == [plot[p] EXCEPT !.handler = "done"]
<1>1. TypeOK /\ Shape /\ plot[p] \in PlotState /\ ShapeOf(plot[p])
  BY DEF IInv, TypeOK, Shape
<1>2. KeyOf(p) \in Key /\ ~IsIdle(p) /\ Past(plot[p])
  BY <1>1 DEF ServeEarly, IsIdle, Past, ShapeOf, KeyOf
<1>3. Becomes(p, n) /\ UNCHANGED <<places, slots, waiters, free>>
  BY DEF ServeEarly
<1>4. n \in PlotState
  BY <1>1 DEF PlotState, HandlerState, TaskState, Outcome
<1>5. cache' \in [Key -> Entry]
  <2>1. plot[p].best \in Rank \cup {None}
    BY <1>1 DEF PlotState
  <2>2. EntryOf(p, plot[p].best, TRUE) \in Entry
    BY <1>1, <2>1, EntryType
  <2> QED BY <1>1, <1>2, <2>2, StoreType DEF ServeEarly, TypeOK
<1>6. refused' \in SUBSET Key
  BY <1>1 DEF ServeEarly, TypeOK
<1>7. /\ Past(n) /\ n.key = plot[p].key /\ n.lease = plot[p].lease
      /\ n.task = plot[p].task \/ (n.task \in Working /\ plot[p].task \in Working)
      /\ n.checking # {} \/ n.keeping # {} => n.task = "planning"
  BY <1>1, <1>2 DEF ServeEarly, Past, ShapeOf, PlotState, Working
<1> HIDE DEF n
<1> QED BY <1>2, <1>3, <1>4, <1>5, <1>6, <1>7, KeepStep

LEMMA JoinStep ==
  ASSUME IInv, NEW p \in Plot, Join(p)
  PROVE  IInv' /\ LanesKept
<1> DEFINE n == [plot[p] EXCEPT !.handler = "done"]
<1>1. TypeOK /\ Shape /\ plot[p] \in PlotState /\ ShapeOf(plot[p])
  BY DEF IInv, TypeOK, Shape
<1>2. KeyOf(p) \in Key /\ ~IsIdle(p) /\ Past(plot[p])
  BY <1>1 DEF Join, IsIdle, Past, ShapeOf, KeyOf
<1>3. Becomes(p, n) /\ UNCHANGED <<places, slots, waiters, free>>
  BY DEF Join
<1>4. n \in PlotState
  BY <1>1 DEF PlotState, HandlerState, TaskState, Outcome
<1>5. cache' \in [Key -> Entry]
  BY <1>1 DEF Join, TypeOK
<1>6. refused' \in SUBSET Key
  BY <1>1, <1>2, RefuseType DEF Join, TypeOK
<1>7. /\ Past(n) /\ n.key = plot[p].key /\ n.lease = plot[p].lease
      /\ n.task = plot[p].task \/ (n.task \in Working /\ plot[p].task \in Working)
      /\ n.checking # {} \/ n.keeping # {} => n.task = "planning"
  BY <1>1, <1>2 DEF Join, Past, ShapeOf, PlotState, Working
<1> HIDE DEF n
<1> QED BY <1>2, <1>3, <1>4, <1>5, <1>6, <1>7, KeepStep

LEMMA FoundStep ==
  ASSUME IInv, NEW p \in Plot, NEW r \in Rank, Found(p, r)
  PROVE  IInv' /\ LanesKept
<1> DEFINE n == [plot[p] EXCEPT !.seen = @ \cup {r}, !.checking = @ \cup {r}]
<1>1. TypeOK /\ Shape /\ plot[p] \in PlotState /\ ShapeOf(plot[p])
  BY DEF IInv, TypeOK, Shape
<1>2. KeyOf(p) \in Key /\ ~IsIdle(p) /\ Past(plot[p])
  BY <1>1 DEF Found, IsIdle, Past, ShapeOf, KeyOf
<1>3. Becomes(p, n) /\ UNCHANGED <<places, slots, waiters, free>>
  BY DEF Found
<1>4. n \in PlotState
  BY <1>1 DEF PlotState, HandlerState, TaskState, Outcome
<1>5. cache' \in [Key -> Entry]
  BY <1>1 DEF Found, TypeOK
<1>6. refused' \in SUBSET Key
  BY <1>1 DEF Found, TypeOK
<1>7. /\ Past(n) /\ n.key = plot[p].key /\ n.lease = plot[p].lease
      /\ n.task = plot[p].task \/ (n.task \in Working /\ plot[p].task \in Working)
      /\ n.checking # {} \/ n.keeping # {} => n.task = "planning"
  BY <1>1, <1>2 DEF Found, Past, ShapeOf, PlotState, Working
<1> HIDE DEF n
<1> QED BY <1>2, <1>3, <1>4, <1>5, <1>6, <1>7, KeepStep

LEMMA FoundCheckStep ==
  ASSUME IInv, NEW p \in Plot, NEW r \in Rank, FoundCheck(p, r)
  PROVE  IInv' /\ LanesKept
<1> DEFINE keeps == /\ plot[p].served /\ cache[KeyOf(p)].refining
                    /\ r < cache[KeyOf(p)].route
<1> DEFINE n == [plot[p] EXCEPT !.checking = @ \ {r},
                                !.keeping = IF keeps THEN @ \cup {r} ELSE @]
<1>1. TypeOK /\ Shape /\ plot[p] \in PlotState /\ ShapeOf(plot[p])
  BY DEF IInv, TypeOK, Shape
<1>2. KeyOf(p) \in Key /\ ~IsIdle(p) /\ Past(plot[p])
  BY <1>1 DEF FoundCheck, IsIdle, Past, ShapeOf, KeyOf
<1>3. Becomes(p, n) /\ UNCHANGED <<places, slots, waiters, free>>
  BY DEF FoundCheck
<1>4. n \in PlotState
  <2> HIDE DEF keeps
  <2> QED BY <1>1 DEF PlotState, HandlerState, TaskState, Outcome
<1>5. cache' \in [Key -> Entry]
  BY <1>1 DEF FoundCheck, TypeOK
<1>6. refused' \in SUBSET Key
  BY <1>1 DEF FoundCheck, TypeOK
<1>7. /\ Past(n) /\ n.key = plot[p].key /\ n.lease = plot[p].lease
      /\ n.task = plot[p].task \/ (n.task \in Working /\ plot[p].task \in Working)
      /\ n.checking # {} \/ n.keeping # {} => n.task = "planning"
  BY <1>1, <1>2 DEF FoundCheck, Past, ShapeOf, PlotState, Working
<1> HIDE DEF n
<1> QED BY <1>2, <1>3, <1>4, <1>5, <1>6, <1>7, KeepStep

LEMMA KeepBestSoFarStep ==
  ASSUME IInv, NEW p \in Plot, NEW r \in Rank, KeepBestSoFar(p, r)
  PROVE  IInv' /\ LanesKept
<1> DEFINE n == [plot[p] EXCEPT !.keeping = @ \ {r}]
<1>1. TypeOK /\ Shape /\ plot[p] \in PlotState /\ ShapeOf(plot[p])
  BY DEF IInv, TypeOK, Shape
<1>2. KeyOf(p) \in Key /\ ~IsIdle(p) /\ Past(plot[p])
  BY <1>1 DEF KeepBestSoFar, IsIdle, Past, ShapeOf, KeyOf
<1>3. Becomes(p, n) /\ UNCHANGED <<places, slots, waiters, free>>
  BY DEF KeepBestSoFar
<1>4. n \in PlotState
  BY <1>1 DEF PlotState, HandlerState, TaskState, Outcome
<1>5. cache' \in [Key -> Entry]
  <2>1. r \in Rank \cup {None}
    BY <1>1 DEF PlotState
  <2>2. EntryOf(p, r, TRUE) \in Entry
    BY <1>1, <2>1, EntryType
  <2> QED BY <1>1, <1>2, <2>2, StoreType DEF KeepBestSoFar, TypeOK
<1>6. refused' \in SUBSET Key
  BY <1>1 DEF KeepBestSoFar, TypeOK
<1>7. /\ Past(n) /\ n.key = plot[p].key /\ n.lease = plot[p].lease
      /\ n.task = plot[p].task \/ (n.task \in Working /\ plot[p].task \in Working)
      /\ n.checking # {} \/ n.keeping # {} => n.task = "planning"
  BY <1>1, <1>2 DEF KeepBestSoFar, Past, ShapeOf, PlotState, Working
<1> HIDE DEF n
<1> QED BY <1>2, <1>3, <1>4, <1>5, <1>6, <1>7, KeepStep

LEMMA StoreFinalStep ==
  ASSUME IInv, NEW p \in Plot, StoreFinal(p)
  PROVE  IInv' /\ LanesKept
<1> DEFINE n == [plot[p] EXCEPT !.task = "leaving"]
<1>1. TypeOK /\ Shape /\ plot[p] \in PlotState /\ ShapeOf(plot[p])
  BY DEF IInv, TypeOK, Shape
<1>2. KeyOf(p) \in Key /\ ~IsIdle(p) /\ Past(plot[p])
  BY <1>1 DEF StoreFinal, IsIdle, Past, ShapeOf, KeyOf
<1>3. Becomes(p, n) /\ UNCHANGED <<places, slots, waiters, free>>
  BY DEF StoreFinal
<1>4. n \in PlotState
  BY <1>1 DEF PlotState, HandlerState, TaskState, Outcome
<1>5. cache' \in [Key -> Entry]
  <2>1. plot[p].final \in Rank \cup {None}
    BY <1>1 DEF PlotState
  <2>2. EntryOf(p, plot[p].final, FALSE) \in Entry
    BY <1>1, <2>1, EntryType
  <2> QED BY <1>1, <1>2, <2>2, StoreType DEF StoreFinal, TypeOK
<1>6. refused' \in SUBSET Key
  BY <1>1 DEF StoreFinal, TypeOK
<1>7. /\ Past(n) /\ n.key = plot[p].key /\ n.lease = plot[p].lease
      /\ n.task = plot[p].task \/ (n.task \in Working /\ plot[p].task \in Working)
      /\ n.checking # {} \/ n.keeping # {} => n.task = "planning"
  BY <1>1, <1>2 DEF StoreFinal, Past, ShapeOf, PlotState, Working
<1> HIDE DEF n
<1> QED BY <1>2, <1>3, <1>4, <1>5, <1>6, <1>7, KeepStep

LEMMA EndWithoutRouteStep ==
  ASSUME IInv, NEW p \in Plot, EndWithoutRoute(p)
  PROVE  IInv' /\ LanesKept
<1> DEFINE reinstates == /\ plot[p].outcome = "infeasible"
                         /\ plot[p].served /\ Held(KeyOf(p))
<1> DEFINE task == IF reinstates THEN "reinstating" ELSE "leaving"
<1> DEFINE final == IF reinstates THEN cache[KeyOf(p)].route ELSE None
<1> DEFINE n == [plot[p] EXCEPT !.task = task, !.final = final]
<1>1. TypeOK /\ Shape /\ plot[p] \in PlotState /\ ShapeOf(plot[p])
  BY DEF IInv, TypeOK, Shape
<1>2. KeyOf(p) \in Key /\ ~IsIdle(p) /\ Past(plot[p])
  BY <1>1 DEF EndWithoutRoute, IsIdle, Past, ShapeOf, KeyOf
<1>3. Becomes(p, n) /\ UNCHANGED <<places, slots, waiters, free>>
  BY DEF EndWithoutRoute
<1>4. n \in PlotState
  <2>1. final \in Rank \cup {None} /\ task \in {"reinstating", "leaving"}
    BY <1>1, <1>2 DEF TypeOK, Entry
  <2> HIDE DEF task, final
  <2> QED BY <1>1, <2>1 DEF PlotState, HandlerState, TaskState, Outcome
<1>5. cache' \in [Key -> Entry]
  BY <1>1 DEF EndWithoutRoute, TypeOK
<1>6. refused' \in SUBSET Key
  BY <1>1 DEF EndWithoutRoute, TypeOK
<1>7. /\ Past(n) /\ n.key = plot[p].key /\ n.lease = plot[p].lease
      /\ n.task = plot[p].task \/ (n.task \in Working /\ plot[p].task \in Working)
      /\ n.checking # {} \/ n.keeping # {} => n.task = "planning"
  BY <1>1, <1>2 DEF EndWithoutRoute, Past, ShapeOf, PlotState, Working
<1> HIDE DEF n
<1> QED BY <1>2, <1>3, <1>4, <1>5, <1>6, <1>7, KeepStep

LEMMA ReinstateStep ==
  ASSUME IInv, NEW p \in Plot, Reinstate(p)
  PROVE  IInv' /\ LanesKept
<1> DEFINE n == [plot[p] EXCEPT !.task = "leaving"]
<1>1. TypeOK /\ Shape /\ plot[p] \in PlotState /\ ShapeOf(plot[p])
  BY DEF IInv, TypeOK, Shape
<1>2. KeyOf(p) \in Key /\ ~IsIdle(p) /\ Past(plot[p])
  BY <1>1 DEF Reinstate, IsIdle, Past, ShapeOf, KeyOf
<1>3. Becomes(p, n) /\ UNCHANGED <<places, slots, waiters, free>>
  BY DEF Reinstate
<1>4. n \in PlotState
  BY <1>1 DEF PlotState, HandlerState, TaskState, Outcome
<1>5. cache' \in [Key -> Entry]
  <2>1. plot[p].final \in Rank \cup {None}
    BY <1>1 DEF PlotState
  <2>2. EntryOf(p, plot[p].final, FALSE) \in Entry
    BY <1>1, <2>1, EntryType
  <2> QED BY <1>1, <1>2, <2>2, StoreType DEF Reinstate, TypeOK
<1>6. refused' \in SUBSET Key
  BY <1>1 DEF Reinstate, TypeOK
<1>7. /\ Past(n) /\ n.key = plot[p].key /\ n.lease = plot[p].lease
      /\ n.task = plot[p].task \/ (n.task \in Working /\ plot[p].task \in Working)
      /\ n.checking # {} \/ n.keeping # {} => n.task = "planning"
  BY <1>1, <1>2 DEF Reinstate, Past, ShapeOf, PlotState, Working
<1> HIDE DEF n
<1> QED BY <1>2, <1>3, <1>4, <1>5, <1>6, <1>7, KeepStep

LEMMA PanicStep ==
  ASSUME IInv, NEW p \in Plot, Panic(p)
  PROVE  IInv' /\ LanesKept
<1> DEFINE n == [plot[p] EXCEPT !.task = "leaving", !.outcome = "panic"]
<1>1. TypeOK /\ Shape /\ plot[p] \in PlotState /\ ShapeOf(plot[p])
  BY DEF IInv, TypeOK, Shape
<1>2. KeyOf(p) \in Key /\ ~IsIdle(p) /\ Past(plot[p])
  BY <1>1 DEF Panic, IsIdle, Past, ShapeOf, KeyOf
<1>3. Becomes(p, n) /\ UNCHANGED <<places, slots, waiters, free>>
  BY DEF Panic
<1>4. n \in PlotState
  BY <1>1 DEF PlotState, HandlerState, TaskState, Outcome
<1>5. cache' \in [Key -> Entry]
  BY <1>1 DEF Panic, TypeOK
<1>6. refused' \in SUBSET Key
  BY <1>1 DEF Panic, TypeOK
<1>7. /\ Past(n) /\ n.key = plot[p].key /\ n.lease = plot[p].lease
      /\ n.task = plot[p].task \/ (n.task \in Working /\ plot[p].task \in Working)
      /\ n.checking # {} \/ n.keeping # {} => n.task = "planning"
  BY <1>1, <1>2 DEF Panic, Past, ShapeOf, PlotState, Working
<1> HIDE DEF n
<1> QED BY <1>2, <1>3, <1>4, <1>5, <1>6, <1>7, KeepStep

LEMMA PlanEndStep ==
  ASSUME IInv, NEW p \in Plot, NEW outcome \in Outcome, NEW r \in Rank \cup {None}, PlanEnd(p, outcome, r)
  PROVE  IInv' /\ LanesKept
<1> DEFINE n == [plot[p] EXCEPT !.task = "ended", !.outcome = outcome, !.final = r]
<1>1. TypeOK /\ Shape /\ plot[p] \in PlotState /\ ShapeOf(plot[p])
  BY DEF IInv, TypeOK, Shape
<1>2. KeyOf(p) \in Key /\ ~IsIdle(p) /\ Past(plot[p])
  BY <1>1 DEF PlanEnd, IsIdle, Past, ShapeOf, KeyOf
<1>3. Becomes(p, n) /\ UNCHANGED <<places, slots, waiters, free>>
  BY DEF PlanEnd
<1>4. n \in PlotState
  BY <1>1 DEF PlotState, HandlerState, TaskState, Outcome
<1>5. cache' \in [Key -> Entry]
  BY <1>1 DEF PlanEnd, TypeOK
<1>6. refused' \in SUBSET Key
  BY <1>1 DEF PlanEnd, TypeOK
<1>7. /\ Past(n) /\ n.key = plot[p].key /\ n.lease = plot[p].lease
      /\ n.task = plot[p].task \/ (n.task \in Working /\ plot[p].task \in Working)
      /\ n.checking # {} \/ n.keeping # {} => n.task = "planning"
  BY <1>1, <1>2 DEF PlanEnd, Past, ShapeOf, PlotState, Working
<1> HIDE DEF n
<1> QED BY <1>2, <1>3, <1>4, <1>5, <1>6, <1>7, KeepStep

LEMMA EnterStep ==
  ASSUME IInv, NEW p \in Plot, NEW k \in Key, NEW storable \in BOOLEAN,
         Enter(p, k, storable)
  PROVE  IInv'
<1> DEFINE n == [NoPlot EXCEPT !.key = k, !.storable = storable, !.handler = "waiting"]
<1>1. TypeOK /\ Shape /\ ShapeOf(plot[p]) /\ LaneOf[k] \in Lane
  BY ConstantsAssumption DEF IInv, Shape
<1>2. n \in PlotState
  BY DEF NoPlot, PlotState, HandlerState, TaskState, Outcome
<1>3. ShapeOf(n) /\ HoldsPlace(n) /\ ~HoldsSlot(n) /\ n.key = k /\ n.lease = NoPool
  BY DEF NoPlot, ShapeOf, HoldsPlace, HoldsSlot, Working
<1>4. ~HoldsPlace(plot[p]) /\ ~HoldsSlot(plot[p]) /\ plot[p].lease = NoPool
  BY <1>1 DEF Enter, IsIdle, ShapeOf, HoldsPlace, HoldsSlot, Working
<1>5. Becomes(p, n)
  BY DEF Enter, Becomes, Settle, NoPlot
<1> HIDE DEF n
<1>6. PlaceMoves(p, n) /\ SlotMoves(p, n) /\ PoolMoves(p, n)
  BY <1>3, <1>4 DEF PlaceMoves, SlotMoves, PoolMoves, Enter
<1>7. waiters' \in [Lane -> Seq(Plot)]
  BY <1>1 DEF Enter, TypeOK
<1>8. cache' \in [Key -> Entry] /\ refused' \in SUBSET Key
  BY <1>1 DEF Enter, TypeOK
<1> QED BY <1>2, <1>3, <1>5, <1>6, <1>7, <1>8, MoveStep

LEMMA GrantSlotStep ==
  ASSUME IInv, NEW p \in Plot, GrantSlot(p)
  PROVE  IInv'
<1> DEFINE n == [plot[p] EXCEPT !.handler = "slotted"]
<1>1. TypeOK /\ Shape /\ plot[p] \in PlotState /\ ShapeOf(plot[p])
  BY DEF IInv, TypeOK, Shape
<1>2. KeyOf(p) \in Key /\ LaneOfPlot(p) \in Lane /\ plot[p].task = "done"
  BY <1>1, ConstantsAssumption DEF GrantSlot, ShapeOf, KeyOf, LaneOfPlot
<1>3. n \in PlotState /\ n.handler = "slotted" /\ n.task = "done"
      /\ n.key = plot[p].key /\ n.lease = plot[p].lease
      /\ n.checking = plot[p].checking /\ n.keeping = plot[p].keeping
  BY <1>1, <1>2 DEF PlotState, HandlerState
<1>4. Becomes(p, n)
  BY DEF GrantSlot
<1> HIDE DEF n
<1>5. ShapeOf(n) /\ HoldsPlace(n) /\ HoldsSlot(n)
  BY <1>1, <1>2, <1>3 DEF ShapeOf, HoldsPlace, HoldsSlot, KeyOf
<1>6. HoldsPlace(plot[p]) /\ ~HoldsSlot(plot[p])
  BY <1>1, <1>2 DEF GrantSlot, HoldsPlace, HoldsSlot, KeyOf
<1>7. PlaceMoves(p, n) /\ SlotMoves(p, n) /\ PoolMoves(p, n)
  BY <1>3, <1>5, <1>6 DEF PlaceMoves, SlotMoves, PoolMoves, GrantSlot, LaneOfPlot, KeyOf
<1>8. waiters' \in [Lane -> Seq(Plot)]
  <2>1. Tail(waiters[LaneOfPlot(p)]) \in Seq(Plot)
    BY <1>1, <1>2 DEF GrantSlot, TypeOK
  <2> QED BY <1>1, <1>2, <2>1 DEF GrantSlot, TypeOK
<1>9. cache' \in [Key -> Entry] /\ refused' \in SUBSET Key
  BY <1>1 DEF GrantSlot, TypeOK
<1> QED BY <1>3, <1>4, <1>5, <1>7, <1>8, <1>9, MoveStep

LEMMA SpawnStep ==
  ASSUME IInv, NEW p \in Plot, Spawn(p)
  PROVE  IInv' /\ LanesKept
<1>1. TypeOK /\ Shape /\ plot[p] \in PlotState /\ ShapeOf(plot[p]) /\ NoPool \notin Pool
  BY ConstantsAssumption DEF IInv, TypeOK, Shape
<1>2. /\ KeyOf(p) \in Key /\ plot[p].task = "done" /\ plot[p].lease = NoPool
      /\ plot[p].checking = {} /\ plot[p].keeping = {}
  BY <1>1 DEF Spawn, ShapeOf, KeyOf, Working
<1> DEFINE handler == IF AnswersEarly(p) THEN "listening" ELSE "awaiting"
<1>3. PICK s \in IF LaneOfPlot(p) = "long" THEN free ELSE {NoPool} :
        /\ free' = free \ {s}
        /\ Becomes(p, [plot[p] EXCEPT !.lease = s, !.task = "planning",
                                      !.handler = handler])
  BY DEF Spawn
<1> DEFINE n == [plot[p] EXCEPT !.lease = s, !.task = "planning", !.handler = handler]
<1>4. /\ s \in Pool \cup {NoPool}
      /\ s # NoPool <=> LaneOfPlot(p) = "long"
      /\ s # NoPool => s \in free
      /\ s = NoPool => free' = free
  BY <1>1, <1>3 DEF TypeOK
<1>5. handler \in {"listening", "awaiting"}
  OBVIOUS
<1> HIDE DEF handler
<1>6. /\ n \in PlotState /\ n.task = "planning" /\ n.handler = handler
      /\ n.lease = s /\ n.key = plot[p].key
      /\ n.checking = {} /\ n.keeping = {}
  BY <1>1, <1>2, <1>4, <1>5 DEF PlotState, HandlerState, TaskState
<1>7. Becomes(p, n)
  BY <1>3
<1> HIDE DEF n
<1>8. ShapeOf(n) /\ HoldsPlace(n) /\ HoldsSlot(n)
  BY <1>2, <1>4, <1>5, <1>6 DEF ShapeOf, HoldsPlace, HoldsSlot, KeyOf, LaneOfPlot, Working
<1>9. HoldsPlace(plot[p]) /\ HoldsSlot(plot[p])
  BY <1>1, <1>2 DEF Spawn, HoldsPlace, HoldsSlot, KeyOf
<1>10. PlaceMoves(p, n) /\ SlotMoves(p, n)
  BY <1>6, <1>8, <1>9 DEF PlaceMoves, SlotMoves, Spawn
<1>11. PoolMoves(p, n)
  BY <1>2, <1>3, <1>4, <1>6 DEF PoolMoves
<1>12. /\ waiters' \in [Lane -> Seq(Plot)]
       /\ cache' \in [Key -> Entry] /\ refused' \in SUBSET Key
  BY <1>1 DEF Spawn, TypeOK
<1>13. LanesKept
  BY <1>1, <1>5, <1>6, <1>7, <1>8, <1>9, SameLanes DEF Spawn
<1> QED BY <1>6, <1>7, <1>8, <1>10, <1>11, <1>12, <1>13, MoveStep

\* A plot that leaves before it has a planner, with what it holds.
LEMMA LeaveShape ==
  ASSUME TypeOK, Shape, NEW p \in Plot, plot[p].handler \in {"waiting", "slotted"},
         NEW n, n = [plot[p] EXCEPT !.handler = "done"]
  PROVE  /\ n \in PlotState /\ ShapeOf(n) /\ n.lease = plot[p].lease
         /\ ~HoldsPlace(n) /\ ~HoldsSlot(n) /\ HoldsPlace(plot[p])
         /\ HoldsSlot(plot[p]) <=> plot[p].handler = "slotted"
<1>1. plot[p] \in PlotState /\ ShapeOf(plot[p]) /\ plot[p].task = "done"
  BY DEF TypeOK, Shape, ShapeOf
<1>2. n \in PlotState /\ n.handler = "done" /\ n.task = "done"
      /\ n.key = plot[p].key /\ n.lease = plot[p].lease
      /\ n.checking = plot[p].checking /\ n.keeping = plot[p].keeping
  BY <1>1 DEF PlotState, HandlerState
<1> QED BY <1>1, <1>2 DEF ShapeOf, HoldsPlace, HoldsSlot

LEMMA HitAfterWaitStep ==
  ASSUME IInv, NEW p \in Plot, HitAfterWait(p)
  PROVE  IInv' /\ SlotLeft(p)
<1> DEFINE n == [plot[p] EXCEPT !.handler = "done"]
<1>1. /\ n \in PlotState /\ ShapeOf(n) /\ n.lease = plot[p].lease
      /\ ~HoldsPlace(n) /\ ~HoldsSlot(n)
      /\ HoldsPlace(plot[p]) /\ HoldsSlot(plot[p])
  BY LeaveShape DEF HitAfterWait, IInv
<1>2. Becomes(p, n) /\ DropPermits(p) /\ UNCHANGED <<waiters, free, cache, refused>>
  BY DEF HitAfterWait
<1>3. plot[p].handler # "waiting" /\ n.handler # "waiting"
  BY DEF HitAfterWait, IInv, TypeOK, PlotState
<1> HIDE DEF n
<1> QED BY <1>1, <1>2, <1>3, DropStep

LEMMA GoneStep ==
  ASSUME IInv, NEW p \in Plot, Gone(p)
  PROVE  /\ IInv'
         /\ plot[p].handler = "slotted" => SlotLeft(p)
         /\ plot[p].handler \notin {"waiting", "slotted"} => LanesKept
<1>1. TypeOK /\ Shape /\ plot[p] \in PlotState /\ ShapeOf(plot[p])
  BY DEF IInv, TypeOK, Shape
<1> DEFINE n == [plot[p] EXCEPT !.handler = "done"]
           m == [plot[p] EXCEPT !.handler = "done", !.gone = TRUE]
           l == LaneOfPlot(p)
<1>2. CASE plot[p].handler = "waiting"
  <2>1. /\ n \in PlotState /\ ShapeOf(n) /\ n.lease = plot[p].lease
        /\ ~HoldsPlace(n) /\ ~HoldsSlot(n)
        /\ HoldsPlace(plot[p]) /\ ~HoldsSlot(plot[p])
    BY <1>1, <1>2, LeaveShape
  <2>2. /\ Becomes(p, n)
        /\ places' = [places EXCEPT ![l] = @ + 1]
        /\ UNCHANGED <<slots, free, cache, refused>>
    BY <1>2 DEF Gone
  <2>3. PICK i \in DOMAIN waiters[l] :
          waiters' = [waiters EXCEPT ![l] =
            SubSeq(@, 1, i - 1) \o SubSeq(@, i + 1, Len(@))]
    BY <1>2 DEF Gone
  <2>4. waiters' \in [Lane -> Seq(Plot)]
    <3>1. l \in Lane /\ waiters \in [Lane -> Seq(Plot)]
      BY <1>1, <1>2, ConstantsAssumption DEF ShapeOf, LaneOfPlot, KeyOf, TypeOK
    <3> DEFINE w == waiters[l]
    <3>2. w \in Seq(Plot) /\ i \in 1 .. Len(w)
      BY <2>3, <3>1
    <3> HIDE DEF w
    <3>3. SubSeq(w, 1, i - 1) \in Seq(Plot)
      BY <3>2, SubSeqProperties
    <3>4. SubSeq(w, i + 1, Len(w)) \in Seq(Plot)
      BY <3>2, SubSeqProperties
    <3>5. SubSeq(w, 1, i - 1) \o SubSeq(w, i + 1, Len(w)) \in Seq(Plot)
      BY <3>3, <3>4
    <3> QED BY <2>3, <3>1, <3>5 DEF w
  <2> HIDE DEF n
  <2>5. PlaceMoves(p, n) /\ SlotMoves(p, n) /\ PoolMoves(p, n)
    BY <2>1, <2>2 DEF PlaceMoves, SlotMoves, PoolMoves, LaneOfPlot, KeyOf
  <2>6. cache' \in [Key -> Entry] /\ refused' \in SUBSET Key
    BY <1>1, <2>2 DEF TypeOK
  <2> QED BY <1>2, <2>1, <2>2, <2>4, <2>5, <2>6, MoveStep
<1>3. CASE plot[p].handler = "slotted"
  <2>1. /\ n \in PlotState /\ ShapeOf(n) /\ n.lease = plot[p].lease
        /\ ~HoldsPlace(n) /\ ~HoldsSlot(n)
        /\ HoldsPlace(plot[p]) /\ HoldsSlot(plot[p])
    BY <1>1, <1>3, LeaveShape
  <2>2. Becomes(p, n) /\ DropPermits(p) /\ UNCHANGED <<waiters, free, cache, refused>>
    BY <1>3 DEF Gone
  <2>3. plot[p].handler # "waiting" /\ n.handler # "waiting"
    BY <1>1, <1>3 DEF PlotState
  <2> HIDE DEF n
  <2> QED BY <1>3, <2>1, <2>2, <2>3, DropStep
<1>4. CASE plot[p].handler \in {"awaiting", "listening", "grace", "deadline"}
  <2>1. /\ m \in PlotState /\ Past(m) /\ Past(plot[p]) /\ ~IsIdle(p)
        /\ m.key = plot[p].key /\ m.lease = plot[p].lease /\ m.task = plot[p].task
        /\ m.checking # {} \/ m.keeping # {} => m.task = "planning"
    BY <1>1, <1>4 DEF PlotState, HandlerState, Past, IsIdle, ShapeOf
  <2>2. Becomes(p, m) /\ UNCHANGED <<places, slots, waiters, free, cache, refused>>
    BY <1>4 DEF Gone
  <2>3. cache' \in [Key -> Entry] /\ refused' \in SUBSET Key
    BY <1>1, <2>2 DEF TypeOK
  <2> HIDE DEF m
  <2> QED BY <1>4, <2>1, <2>2, <2>3, KeepStep
<1> QED BY <1>2, <1>3, <1>4 DEF Gone

LEMMA ReturnPoolStep ==
  ASSUME IInv, NEW p \in Plot, ReturnPool(p)
  PROVE  IInv' /\ LanesKept
<1> DEFINE n == [plot[p] EXCEPT !.task = "unpooled", !.lease = NoPool]
<1>1. TypeOK /\ Shape /\ plot[p] \in PlotState /\ ShapeOf(plot[p])
  BY DEF IInv, TypeOK, Shape
<1>2. n \in PlotState /\ n.task = "unpooled" /\ n.lease = NoPool
      /\ n.key = plot[p].key /\ n.handler = plot[p].handler
      /\ n.checking = plot[p].checking /\ n.keeping = plot[p].keeping
  BY <1>1 DEF PlotState, TaskState
<1>3. Becomes(p, n)
  BY DEF ReturnPool
<1> HIDE DEF n
<1>4. /\ ShapeOf(n) /\ HoldsPlace(n) /\ HoldsSlot(n)
      /\ HoldsPlace(plot[p]) /\ HoldsSlot(plot[p])
  BY <1>1, <1>2 DEF ReturnPool, ShapeOf, HoldsPlace, HoldsSlot, Working
<1>5. PlaceMoves(p, n) /\ SlotMoves(p, n) /\ PoolMoves(p, n)
  BY <1>2, <1>4 DEF PlaceMoves, SlotMoves, PoolMoves, ReturnPool
<1>6. /\ waiters' \in [Lane -> Seq(Plot)]
      /\ cache' \in [Key -> Entry] /\ refused' \in SUBSET Key
  BY <1>1 DEF ReturnPool, TypeOK
<1>7. LanesKept
  BY <1>1, <1>2, <1>3, <1>4, SameLanes DEF ReturnPool, ShapeOf
<1> QED BY <1>2, <1>3, <1>4, <1>5, <1>6, <1>7, MoveStep

LEMMA ReturnPermitsStep ==
  ASSUME IInv, NEW p \in Plot, ReturnPermits(p)
  PROVE  IInv' /\ SlotLeft(p)
<1> DEFINE n == [plot[p] EXCEPT !.task = "done"]
<1>1. TypeOK /\ Shape /\ plot[p] \in PlotState /\ ShapeOf(plot[p])
  BY DEF IInv, TypeOK, Shape
<1>2. n \in PlotState /\ n.task = "done" /\ n.lease = plot[p].lease
      /\ n.key = plot[p].key /\ n.handler = plot[p].handler
      /\ n.checking = plot[p].checking /\ n.keeping = plot[p].keeping
  BY <1>1 DEF PlotState, TaskState
<1>3. Becomes(p, n) /\ DropPermits(p) /\ UNCHANGED <<waiters, free, cache, refused>>
  BY DEF ReturnPermits
<1> HIDE DEF n
<1>4. /\ ShapeOf(n) /\ ~HoldsPlace(n) /\ ~HoldsSlot(n)
      /\ HoldsPlace(plot[p]) /\ HoldsSlot(plot[p])
  BY <1>1, <1>2 DEF ReturnPermits, ShapeOf, HoldsPlace, HoldsSlot, Working
<1>5. plot[p].handler # "waiting" /\ n.handler # "waiting"
  BY <1>1, <1>2 DEF ReturnPermits, ShapeOf
<1> QED BY <1>2, <1>3, <1>4, <1>5, DropStep

\* Steps that touch no plot: what expires, and the refusal of an island.
LEMMA MemoryStep ==
  ASSUME IInv, NEW k \in Key, CacheExpires(k) \/ RefusalExpires(k) \/ RefuseIsland(k)
  PROVE  IInv' /\ LanesKept
<1>1. UNCHANGED <<plot, places, slots, waiters, free>>
  BY DEF CacheExpires, RefusalExpires, RefuseIsland
<1>2. cache' \in [Key -> Entry]
  <2>1. NoEntry \in Entry /\ cache \in [Key -> Entry]
    BY DEF IInv, TypeOK, NoEntry, Entry
  <2> QED BY <2>1 DEF CacheExpires, RefusalExpires, RefuseIsland
<1>3. refused' \in SUBSET Key
  BY DEF IInv, TypeOK, CacheExpires, RefusalExpires, RefuseIsland, Refuse
<1>4. LanesKept
  BY <1>1 DEF LanesKept, SlotHolders, InLine, KeyOf
<1> QED BY <1>1, <1>2, <1>3, <1>4 DEF IInv, TypeOK, Shape, PermitsConserved, PoolsConserved, OwnPool, PlaceHolders, SlotHolders, LeaseHolders, KeyOf

-----------------------------------------------------------------------------
(* The invariant.                                                           *)

LEMMA InitIInv == Init => IInv
<1> SUFFICES ASSUME Init PROVE IInv
  OBVIOUS
<1>1. NoPlot \in PlotState /\ ShapeOf(NoPlot) /\ ~HoldsPlace(NoPlot) /\ ~HoldsSlot(NoPlot)
  BY ConstantsAssumption
     DEF NoPlot, PlotState, HandlerState, TaskState, Outcome, ShapeOf, HoldsPlace, HoldsSlot, Working
<1>2. TypeOK
  BY <1>1, ConstantsAssumption DEF Init, TypeOK, NoEntry, Entry
<1>3. Shape
  BY <1>1 DEF Init, Shape
<1>4. \A l \in Lane : PlaceHolders(l) = {} /\ SlotHolders(l) = {}
  BY <1>1 DEF Init, PlaceHolders, SlotHolders
<1>5. PermitsConserved
  <2>1. Cardinality({}) = 0
    BY FS_EmptySet
  <2>2. ASSUME NEW l \in Lane
        PROVE  places[l] + 0 = Slots[l] + Room[l] /\ slots[l] + 0 = Slots[l]
    BY ConstantsAssumption DEF Init
  <2> QED BY <1>4, <2>1, <2>2 DEF PermitsConserved
<1>6. LeaseHolders = {} /\ \A p \in Plot : plot[p].lease = NoPool
  BY DEF Init, LeaseHolders, NoPlot
<1>7. PoolsConserved
  <2>1. Cardinality({}) = 0
    BY FS_EmptySet
  <2>2. free = Pool /\ Cardinality(Pool) = Slots["long"] /\ Slots["long"] \in Nat
    BY ConstantsAssumption DEF Init, Lane
  <2>3. Slots["long"] + 0 = Slots["long"]
    BY <2>2
  <2> QED BY <1>6, <2>1, <2>2, <2>3 DEF PoolsConserved
<1>8. OwnPool
  BY <1>6 DEF Init, OwnPool
<1> QED BY <1>2, <1>3, <1>5, <1>7, <1>8 DEF IInv

LEMMA NextIInv == IInv /\ [Next]_vars => IInv'
<1> SUFFICES ASSUME IInv, [Next]_vars PROVE IInv'
  OBVIOUS
<1>1. ASSUME NEW k \in Key, CacheExpires(k) \/ RefusalExpires(k) \/ RefuseIsland(k)
      PROVE  IInv'
  BY <1>1, MemoryStep
<1>2. ASSUME NEW p \in Plot, NEW k \in Key, NEW storable \in BOOLEAN, Enter(p, k, storable)
      PROVE  IInv'
  BY <1>2, EnterStep
<1>3. ASSUME NEW p \in Plot, HandlerStep(p) PROVE IInv'
  BY <1>3, GrantSlotStep, HitAfterWaitStep, SpawnStep, ReceiveStep, FirstDeadlineStep,
     GraceOverStep, ServeEarlyStep, JoinStep, GoneStep DEF HandlerStep
<1>4. ASSUME NEW p \in Plot, TaskStep(p) PROVE IInv'
  BY <1>4, FoundStep, FoundCheckStep, KeepBestSoFarStep, PlanEndStep, StoreFinalStep,
     EndWithoutRouteStep, ReinstateStep, ReturnPoolStep, ReturnPermitsStep, PanicStep
     DEF TaskStep, PlanEnds
<1>5. ASSUME UNCHANGED vars PROVE IInv'
  BY <1>5 DEF vars, IInv, TypeOK, Shape, PermitsConserved, PoolsConserved, OwnPool,
              PlaceHolders, SlotHolders, LeaseHolders, KeyOf
<1> QED BY <1>1, <1>2, <1>3, <1>4, <1>5 DEF Next

THEOREM Invariance == Spec => []IInv
BY InitIInv, NextIInv, PTL DEF Spec

\* Every variable keeps its type, for every number of plots, keys and slots.
THEOREM TypeCorrect == Spec => []TypeOK
<1>1. IInv => TypeOK
  BY DEF IInv
<1> QED BY Invariance, <1>1, PTL

\* No permit leaks and none is returned twice: a lane's free permits and the
\* plots that must hold one always add up to what the lane started with.
THEOREM PermitsNeverLeak == Spec => []PermitsConserved
<1>1. IInv => PermitsConserved
  BY DEF IInv
<1> QED BY Invariance, <1>1, PTL

\* Two planners never share a pool and no pool is lost.
THEOREM PoolsNeverShared == Spec => []OwnPool
<1>1. IInv => OwnPool
  BY DEF IInv
<1> QED BY Invariance, <1>1, PTL

\* A plot with a long slot and no planner yet: the plots with a pool are
\* among the others with a long slot, so they are fewer than the pools.
LEMMA PoolLeft == IInv => PoolWheneverAdmitted
<1> SUFFICES ASSUME IInv, NEW p \in Plot, plot[p].handler = "slotted",
                    LaneOfPlot(p) = "long", free = {}
             PROVE  FALSE
  BY DEF PoolWheneverAdmitted
<1> DEFINE S == SlotHolders("long")
<1>1. TypeOK /\ Shape
  BY DEF IInv
<1>2. plot[p].task = "done" /\ plot[p].key \in Key /\ plot[p].lease = NoPool
  BY <1>1 DEF Shape, ShapeOf, Working
<1>3. p \in S /\ p \notin LeaseHolders
  BY <1>2 DEF SlotHolders, LeaseHolders, HoldsSlot, LaneOfPlot
<1>4. LeaseHolders \subseteq S \ {p}
  BY <1>1, <1>2 DEF LeaseHolders, SlotHolders, HoldsSlot, Shape, ShapeOf, Working, KeyOf
<1>5. IsFiniteSet(S) /\ IsFiniteSet(LeaseHolders)
  BY HoldersFinite
<1> HIDE DEF S
<1>6. /\ Cardinality(S \ {p}) = Cardinality(S) - 1 /\ IsFiniteSet(S \ {p})
      /\ Cardinality(S) \in Nat
  BY <1>3, <1>5, RemoveOne, FS_Subset
<1>7. Cardinality(LeaseHolders) <= Cardinality(S \ {p}) /\ Cardinality(LeaseHolders) \in Nat
  BY <1>4, <1>6, <1>5, FS_Subset, FS_CardinalityType
<1>8. slots["long"] + Cardinality(S) = Slots["long"] /\ slots["long"] \in Nat
  BY <1>1 DEF IInv, PermitsConserved, TypeOK, Lane, S
<1>9. Cardinality(LeaseHolders) = Slots["long"]
  BY <1>7, FS_EmptySet, ConstantsAssumption DEF IInv, PoolsConserved, Lane
<1> QED BY <1>6, <1>7, <1>8, <1>9

\* The `expect` of Pools::checkout never fires, in any interleaving of any
\* number of plots: a plot that has its long slot finds a pool.
THEOREM CheckoutFindsAPool == Spec => []PoolWheneverAdmitted
BY Invariance, PoolLeft, PTL
-----------------------------------------------------------------------------
(* The memories, and planners whose request is gone.  What a plot may still *)
(* store follows from how its handler ended (Course): only a plot answered  *)
(* early keeps routes or reinstates, only a storable plot answers early,    *)
(* and a handler ends a running plot either by the early answer or by the   *)
(* cancel flag, never by both.                                              *)

CourseOf(r) ==
  /\ r.handler \in {"waiting", "slotted", "awaiting", "listening", "grace"}
       => ~r.gone /\ ~r.served
  /\ r.handler = "deadline" => r.gone /\ ~r.served
  /\ r.handler = "serving" => ~r.gone /\ r.served
  /\ r.handler = "done" /\ r.task # "done" => r.gone # r.served
  /\ r.handler \in {"listening", "grace", "deadline", "serving"} \/ r.served
       => r.storable
  /\ r.keeping # {} \/ r.task = "reinstating" => r.served

Course == \A p \in Plot : CourseOf(plot[p])

MInv == Course /\ FallbackNeverCached /\ MemoryBounded

-----------------------------------------------------------------------------
(* Counting.                                                                *)

LEMMA AddAtMostOne ==
  ASSUME NEW S, IsFiniteSet(S), NEW x
  PROVE  /\ IsFiniteSet(S \cup {x}) /\ Cardinality(S \cup {x}) \in Nat
         /\ Cardinality(S) \in Nat
         /\ Cardinality(S \cup {x}) <= Cardinality(S) + 1
<1>1. Cardinality(S) \in Nat
  BY FS_CardinalityType
<1>2. /\ IsFiniteSet(S \cup {x})
      /\ Cardinality(S \cup {x}) =
           IF x \in S THEN Cardinality(S) ELSE Cardinality(S) + 1
  BY FS_AddElement
<1>3. Cardinality(S \cup {x}) \in Nat
  BY <1>2, FS_CardinalityType
<1> QED BY <1>1, <1>2, <1>3

LEMMA PartIsSmaller ==
  ASSUME NEW S, IsFiniteSet(S), NEW T, T \subseteq S
  PROVE  Cardinality(T) <= Cardinality(S) /\ Cardinality(T) \in Nat
BY FS_Subset, FS_CardinalityType

-----------------------------------------------------------------------------
(* The course of a plot.                                                    *)

LEMMA CourseAfter ==
  ASSUME TypeOK, Course, NEW p \in Plot, NEW r, CourseOf(r), Becomes(p, r)
  PROVE  Course'
<1>1. CourseOf(NoPlot)
  BY DEF CourseOf, NoPlot
<1>2. CourseOf(Settle(r))
  BY <1>1 DEF Settle
<1>3. \A q \in Plot : plot'[q] = IF q = p THEN Settle(r) ELSE plot[q]
  BY DEF TypeOK, Becomes
<1> QED BY <1>2, <1>3 DEF Course, CourseOf

LEMMA HandlerCourse ==
  ASSUME IInv, Course, NEW p \in Plot, HandlerStep(p)
  PROVE  Course'
<1>1. TypeOK /\ plot[p] \in PlotState /\ CourseOf(plot[p]) /\ ShapeOf(plot[p])
  BY DEF IInv, TypeOK, Course, Shape
<1>2. CASE GrantSlot(p)
  <2>1. CourseOf([plot[p] EXCEPT !.handler = "slotted"])
    BY <1>1, <1>2 DEF GrantSlot, CourseOf, ShapeOf, PlotState
  <2> QED BY <1>1, <1>2, <2>1, CourseAfter DEF GrantSlot
<1>3. CASE HitAfterWait(p)
  <2>1. CourseOf([plot[p] EXCEPT !.handler = "done"])
    BY <1>1, <1>3 DEF HitAfterWait, CourseOf, ShapeOf, PlotState
  <2> QED BY <1>1, <1>3, <2>1, CourseAfter DEF HitAfterWait
<1>4. CASE Spawn(p)
  <2> DEFINE handler == IF AnswersEarly(p) THEN "listening" ELSE "awaiting"
  <2>1. PICK s : Becomes(p, [plot[p] EXCEPT !.lease = s, !.task = "planning",
                                            !.handler = handler])
    BY <1>4 DEF Spawn
  <2>2. /\ handler \in {"listening", "awaiting"}
        /\ handler = "listening" => plot[p].storable
    BY DEF AnswersEarly
  <2> HIDE DEF handler
  <2>3. CourseOf([plot[p] EXCEPT !.lease = s, !.task = "planning", !.handler = handler])
    BY <1>1, <1>4, <2>2 DEF Spawn, CourseOf, ShapeOf, PlotState
  <2> QED BY <1>1, <2>1, <2>3, CourseAfter
<1>5. ASSUME NEW r \in Rank, Receive(p, r) PROVE Course'
  <2> DEFINE best == Better(plot[p].best, r)
  <2>1. CourseOf([plot[p] EXCEPT !.handler = "grace", !.best = best])
    BY <1>1, <1>5 DEF Receive, CourseOf, PlotState
  <2> QED BY <1>1, <1>5, <2>1, CourseAfter DEF Receive
<1>6. CASE FirstDeadline(p)
  <2>1. CourseOf([plot[p] EXCEPT !.handler = "deadline", !.gone = TRUE])
    BY <1>1, <1>6 DEF FirstDeadline, CourseOf, PlotState
  <2> QED BY <1>1, <1>6, <2>1, CourseAfter DEF FirstDeadline
<1>7. CASE GraceOver(p)
  <2>1. CourseOf([plot[p] EXCEPT !.handler = "serving", !.served = TRUE])
    BY <1>1, <1>7 DEF GraceOver, CourseOf, PlotState
  <2> QED BY <1>1, <1>7, <2>1, CourseAfter DEF GraceOver
<1>8. CASE ServeEarly(p)
  <2>1. CourseOf([plot[p] EXCEPT !.handler = "done"])
    BY <1>1, <1>8 DEF ServeEarly, CourseOf, PlotState
  <2> QED BY <1>1, <1>8, <2>1, CourseAfter DEF ServeEarly
<1>9. CASE Join(p)
  <2>1. CourseOf([plot[p] EXCEPT !.handler = "done"])
    BY <1>1, <1>9 DEF Join, CourseOf, PlotState
  <2> QED BY <1>1, <1>9, <2>1, CourseAfter DEF Join
<1>10. CASE Gone(p)
  <2>1. CASE plot[p].handler \in {"waiting", "slotted"} /\ Becomes(p, [plot[p] EXCEPT !.handler = "done"])
    <3>1. CourseOf([plot[p] EXCEPT !.handler = "done"])
      BY <1>1, <2>1 DEF CourseOf, ShapeOf, PlotState
    <3> QED BY <1>1, <2>1, <3>1, CourseAfter
  <2>2. CASE /\ plot[p].handler \in {"awaiting", "listening", "grace", "deadline"}
             /\ Becomes(p, [plot[p] EXCEPT !.handler = "done", !.gone = TRUE])
    <3>1. CourseOf([plot[p] EXCEPT !.handler = "done", !.gone = TRUE])
      BY <1>1, <2>2 DEF CourseOf, PlotState
    <3> QED BY <1>1, <2>2, <3>1, CourseAfter
  <2> QED BY <1>10, <2>1, <2>2 DEF Gone
<1> QED BY <1>2, <1>3, <1>4, <1>5, <1>6, <1>7, <1>8, <1>9, <1>10 DEF HandlerStep

LEMMA TaskCourse ==
  ASSUME IInv, Course, NEW p \in Plot, TaskStep(p)
  PROVE  Course'
<1>1. TypeOK /\ plot[p] \in PlotState /\ CourseOf(plot[p]) /\ ShapeOf(plot[p])
  BY DEF IInv, TypeOK, Course, Shape
<1>2. ASSUME NEW r \in Rank, Found(p, r) PROVE Course'
  <2>1. CourseOf([plot[p] EXCEPT !.seen = @ \cup {r}, !.checking = @ \cup {r}])
    BY <1>1, <1>2 DEF Found, CourseOf, PlotState
  <2> QED BY <1>1, <1>2, <2>1, CourseAfter DEF Found
<1>3. ASSUME NEW r \in Rank, FoundCheck(p, r) PROVE Course'
  <2> DEFINE held == cache[KeyOf(p)]
  <2> DEFINE keeps == plot[p].served /\ held.refining /\ r < held.route
  <2> DEFINE keeping == IF keeps THEN plot[p].keeping \cup {r} ELSE plot[p].keeping
  <2> DEFINE n == [plot[p] EXCEPT !.checking = @ \ {r}, !.keeping = keeping]
  <2>1. Becomes(p, n)
    BY <1>1, <1>3 DEF FoundCheck, PlotState
  <2>2. keeping # {} => plot[p].served
    BY <1>1 DEF CourseOf
  <2>3. CourseOf(n)
    <3> HIDE DEF keeping
    <3> QED BY <1>1, <2>2 DEF CourseOf, PlotState
  <2> QED BY <1>1, <2>1, <2>3, CourseAfter
<1>4. ASSUME NEW r \in Rank, KeepBestSoFar(p, r) PROVE Course'
  <2>1. CourseOf([plot[p] EXCEPT !.keeping = @ \ {r}])
    BY <1>1, <1>4 DEF KeepBestSoFar, CourseOf, PlotState
  <2> QED BY <1>1, <1>4, <2>1, CourseAfter DEF KeepBestSoFar
<1>5. ASSUME NEW outcome, NEW r, PlanEnd(p, outcome, r) PROVE Course'
  <2>1. CourseOf([plot[p] EXCEPT !.task = "ended", !.outcome = outcome, !.final = r])
    BY <1>1, <1>5 DEF PlanEnd, CourseOf, PlotState
  <2> QED BY <1>1, <1>5, <2>1, CourseAfter DEF PlanEnd
<1>6. CASE StoreFinal(p) \/ Reinstate(p)
  <2>1. CourseOf([plot[p] EXCEPT !.task = "leaving"])
    BY <1>1, <1>6 DEF StoreFinal, Reinstate, CourseOf, PlotState
  <2> QED BY <1>1, <1>6, <2>1, CourseAfter DEF StoreFinal, Reinstate
<1>7. CASE EndWithoutRoute(p)
  <2> DEFINE reinstates == /\ plot[p].outcome = "infeasible"
                           /\ plot[p].served /\ Held(KeyOf(p))
  <2> DEFINE task == IF reinstates THEN "reinstating" ELSE "leaving"
  <2> DEFINE final == IF reinstates THEN cache[KeyOf(p)].route ELSE None
  <2> DEFINE n == [plot[p] EXCEPT !.task = task, !.final = final]
  <2>1. Becomes(p, n)
    BY <1>7 DEF EndWithoutRoute
  <2>2. /\ task \in {"reinstating", "leaving"}
        /\ task = "reinstating" => plot[p].served
    OBVIOUS
  <2>3. CourseOf(n)
    <3> HIDE DEF task, final
    <3> QED BY <1>1, <1>7, <2>2 DEF EndWithoutRoute, CourseOf, PlotState
  <2> QED BY <1>1, <2>1, <2>3, CourseAfter
<1>8. CASE ReturnPool(p)
  <2>1. CourseOf([plot[p] EXCEPT !.task = "unpooled", !.lease = NoPool])
    BY <1>1, <1>8 DEF ReturnPool, CourseOf, PlotState
  <2> QED BY <1>1, <1>8, <2>1, CourseAfter DEF ReturnPool
<1>9. CASE ReturnPermits(p)
  <2>1. CourseOf([plot[p] EXCEPT !.task = "done"])
    BY <1>1, <1>9 DEF ReturnPermits, CourseOf, PlotState
  <2> QED BY <1>1, <1>9, <2>1, CourseAfter DEF ReturnPermits
<1>10. CASE Panic(p)
  <2>1. CourseOf([plot[p] EXCEPT !.task = "leaving", !.outcome = "panic"])
    BY <1>1, <1>10 DEF Panic, CourseOf, PlotState
  <2> QED BY <1>1, <1>10, <2>1, CourseAfter DEF Panic
<1> QED BY <1>2, <1>3, <1>4, <1>5, <1>6, <1>7, <1>8, <1>9, <1>10 DEF TaskStep, PlanEnds

LEMMA EnterCourse ==
  ASSUME IInv, Course, NEW p \in Plot, NEW k \in Key, NEW storable \in BOOLEAN,
         Enter(p, k, storable)
  PROVE  Course'
<1> DEFINE n == [NoPlot EXCEPT !.key = k, !.storable = storable, !.handler = "waiting"]
<1>1. CourseOf(n)
  BY DEF CourseOf, NoPlot
<1>2. n.handler # "done" /\ plot' = [plot EXCEPT ![p] = n]
  BY DEF NoPlot, Enter
<1>3. Becomes(p, n)
  BY <1>2 DEF Becomes, Settle
<1> QED BY <1>1, <1>3, CourseAfter DEF IInv

-----------------------------------------------------------------------------
(* The memories.                                                            *)

\* Storing an entry of a storable plot keeps the cache bounded and free of
\* fallback routes.
LEMMA StoreKeeps ==
  ASSUME TypeOK, FallbackNeverCached, MemoryBounded,
         NEW p \in Plot, KeyOf(p) \in Key, plot[p].storable,
         NEW rank, NEW b, StoreIn(KeyOf(p), EntryOf(p, rank, b)),
         Cardinality(refused') <= CacheCap
  PROVE  FallbackNeverCached' /\ MemoryBounded'
<1> DEFINE k == KeyOf(p)
           e == EntryOf(p, rank, b)
           S == Occupied
<1>1. k \in Key /\ ~e.bare /\ cache \in [Key -> Entry]
  BY DEF EntryOf, TypeOK
<1>2. /\ IsFiniteSet(S) /\ Cardinality(S) \in Nat /\ Cardinality(S) <= CacheCap
      /\ CacheCap \in Nat \ {0}
  BY ConstantsAssumption, FS_Subset, FS_CardinalityType DEF Occupied, MemoryBounded
<1>3. S \subseteq Key /\ \A j \in S : cache[j].route # None
  BY DEF Occupied, Held
<1>4. ASSUME NEW j \in Key, j \notin S PROVE cache[j].route = None
  BY <1>4 DEF Occupied, Held
<1>5. Occupied' = {j \in Key : cache'[j].route # None}
  BY DEF Occupied, Held
<1>6. \/ Cardinality(S) < CacheCap /\ cache' = [cache EXCEPT ![k] = e]
      \/ \E old \in S :
           cache' = [j \in Key |-> IF j = k THEN e
                                   ELSE IF j = old THEN NoEntry ELSE cache[j]]
  BY <1>2 DEF StoreIn
<1> HIDE DEF k, e, S
<1>7. FallbackNeverCached'
  BY <1>1, <1>6 DEF FallbackNeverCached, NoEntry
<1>8. Cardinality(Occupied') <= CacheCap
  <2>1. CASE Cardinality(S) < CacheCap /\ cache' = [cache EXCEPT ![k] = e]
    <3>1. Occupied' \subseteq S \cup {k}
      BY <1>1, <1>4, <1>5, <2>1
    <3>2. /\ IsFiniteSet(S \cup {k})
          /\ Cardinality(S \cup {k}) <= Cardinality(S) + 1
          /\ Cardinality(S \cup {k}) \in Nat
      BY <1>2, AddAtMostOne
    <3>3. Cardinality(Occupied') <= Cardinality(S \cup {k}) /\ Cardinality(Occupied') \in Nat
      BY <3>1, <3>2, PartIsSmaller
    <3> QED BY <1>2, <2>1, <3>2, <3>3
  <2>2. ASSUME NEW old \in S,
               cache' = [j \in Key |-> IF j = k THEN e
                                       ELSE IF j = old THEN NoEntry ELSE cache[j]]
        PROVE  Cardinality(Occupied') <= CacheCap
    <3>1. Occupied' \subseteq (S \ {old}) \cup {k}
      BY <1>1, <1>4, <1>5, <2>2 DEF NoEntry
    <3>2. IsFiniteSet(S \ {old}) /\ Cardinality(S \ {old}) = Cardinality(S) - 1
      BY <1>2, <2>2, RemoveOne, FS_Subset
    <3>3. /\ IsFiniteSet((S \ {old}) \cup {k})
          /\ Cardinality((S \ {old}) \cup {k}) <= Cardinality(S)
          /\ Cardinality((S \ {old}) \cup {k}) \in Nat
      <4> DEFINE T == S \ {old}
      <4>1. IsFiniteSet(T) /\ Cardinality(T) + 1 = Cardinality(S)
        BY <1>2, <3>2
      <4> HIDE DEF T
      <4>2. /\ IsFiniteSet(T \cup {k}) /\ Cardinality(T \cup {k}) \in Nat
            /\ Cardinality(T \cup {k}) <= Cardinality(T) + 1
        BY <4>1, AddAtMostOne
      <4> QED BY <4>1, <4>2 DEF T
    <3>4. Cardinality(Occupied') <= Cardinality((S \ {old}) \cup {k})
          /\ Cardinality(Occupied') \in Nat
      BY <3>1, <3>3, PartIsSmaller
    <3> QED BY <1>2, <3>3, <3>4
  <2> QED BY <1>6, <2>1, <2>2
<1> QED BY <1>7, <1>8 DEF MemoryBounded

\* The refusals: a step that remembers one, or leaves them alone.
LEMMA RefuseKeeps ==
  ASSUME TypeOK, MemoryBounded, NEW k \in Key, Refuse(k)
  PROVE  Cardinality(refused') <= CacheCap
<1>1. /\ IsFiniteSet(refused) /\ Cardinality(refused) \in Nat
      /\ CacheCap \in Nat \ {0} /\ Cardinality(refused) <= CacheCap
  BY ConstantsAssumption, FS_Subset, FS_CardinalityType DEF TypeOK, MemoryBounded
<1>2. CASE Cardinality(refused) >= CacheCap
  <2>1. refused' = {k}
    BY <1>2 DEF Refuse
  <2> QED BY <1>1, <2>1, FS_Singleton
<1>3. CASE ~(Cardinality(refused) >= CacheCap)
  <2>1. refused' = refused \cup {k}
    BY <1>3 DEF Refuse
  <2>2. Cardinality(refused \cup {k}) <= Cardinality(refused) + 1
        /\ Cardinality(refused \cup {k}) \in Nat
    BY <1>1, AddAtMostOne
  <2> QED BY <1>1, <1>3, <2>1, <2>2
<1> QED BY <1>2, <1>3

Remembers == FallbackNeverCached /\ MemoryBounded

LEMMA SameMemory ==
  ASSUME Remembers, UNCHANGED <<cache, refused>>
  PROVE  Remembers'
BY DEF Remembers, FallbackNeverCached, MemoryBounded, Occupied, Held

LEMMA HandlerRemembers ==
  ASSUME IInv, MInv, NEW p \in Plot, HandlerStep(p)
  PROVE  Remembers'
<1>1. /\ TypeOK /\ FallbackNeverCached /\ MemoryBounded /\ Remembers
      /\ CourseOf(plot[p]) /\ ShapeOf(plot[p])
  BY DEF IInv, MInv, Course, Shape, Remembers
<1>2. CASE ServeEarly(p)
  <2>1. plot[p].storable /\ KeyOf(p) \in Key /\ Cardinality(refused') <= CacheCap
    BY <1>1, <1>2 DEF ServeEarly, CourseOf, ShapeOf, KeyOf, MemoryBounded
  <2> QED BY <1>1, <1>2, <2>1, StoreKeeps DEF ServeEarly, Remembers
<1>3. CASE Join(p)
  <2>1. KeyOf(p) \in Key /\ UNCHANGED cache
    BY <1>1, <1>3 DEF Join, ShapeOf, KeyOf
  <2>2. Cardinality(refused') <= CacheCap
    BY <1>1, <1>3, <2>1, RefuseKeeps DEF Join, MemoryBounded
  <2> QED BY <1>1, <2>1, <2>2
          DEF Remembers, FallbackNeverCached, MemoryBounded, Occupied, Held
<1>4. CASE \/ GrantSlot(p) \/ HitAfterWait(p) \/ Spawn(p)
           \/ \E r \in Rank : Receive(p, r)
           \/ FirstDeadline(p) \/ GraceOver(p) \/ Gone(p)
  <2>1. UNCHANGED <<cache, refused>>
    BY <1>4 DEF GrantSlot, HitAfterWait, Spawn, Receive, FirstDeadline, GraceOver, Gone
  <2> QED BY <1>1, <2>1, SameMemory
<1> QED BY <1>2, <1>3, <1>4 DEF HandlerStep

LEMMA TaskRemembers ==
  ASSUME IInv, MInv, NEW p \in Plot, TaskStep(p)
  PROVE  Remembers'
<1>1. /\ TypeOK /\ FallbackNeverCached /\ MemoryBounded /\ Remembers
      /\ CourseOf(plot[p]) /\ ShapeOf(plot[p])
  BY DEF IInv, MInv, Course, Shape, Remembers
<1>2. ASSUME NEW r \in Rank, KeepBestSoFar(p, r) PROVE Remembers'
  <2>1. plot[p].storable /\ KeyOf(p) \in Key /\ Cardinality(refused') <= CacheCap
    BY <1>1, <1>2 DEF KeepBestSoFar, CourseOf, ShapeOf, KeyOf, MemoryBounded
  <2> QED BY <1>1, <1>2, <2>1, StoreKeeps DEF KeepBestSoFar, Remembers
<1>3. CASE StoreFinal(p)
  <2>1. KeyOf(p) \in Key /\ Cardinality(refused') <= CacheCap
    BY <1>1, <1>3 DEF StoreFinal, ShapeOf, KeyOf, MemoryBounded
  <2>2. CASE plot[p].storable
    BY <1>1, <1>3, <2>1, <2>2, StoreKeeps DEF StoreFinal, Remembers
  <2>3. CASE ~plot[p].storable
    BY <1>1, <1>3, <2>3, SameMemory DEF StoreFinal
  <2> QED BY <2>2, <2>3
<1>4. CASE Reinstate(p)
  <2>1. plot[p].storable /\ KeyOf(p) \in Key /\ Cardinality(refused') <= CacheCap
    BY <1>1, <1>4 DEF Reinstate, CourseOf, ShapeOf, KeyOf, MemoryBounded
  <2> QED BY <1>1, <1>4, <2>1, StoreKeeps DEF Reinstate, Remembers
<1>5. CASE \/ \E r \in Rank : Found(p, r) \/ FoundCheck(p, r)
           \/ PlanEnds(p) \/ EndWithoutRoute(p)
           \/ ReturnPool(p) \/ ReturnPermits(p) \/ Panic(p)
  <2>1. UNCHANGED <<cache, refused>>
    BY <1>5 DEF Found, FoundCheck, PlanEnds, PlanEnd, EndWithoutRoute, ReturnPool,
                ReturnPermits, Panic
  <2> QED BY <1>1, <2>1, SameMemory
<1> QED BY <1>2, <1>3, <1>4, <1>5 DEF TaskStep

LEMMA ExpiryRemembers ==
  ASSUME IInv, MInv, NEW k \in Key, CacheExpires(k) \/ RefusalExpires(k) \/ RefuseIsland(k)
  PROVE  MInv'
<1>1. TypeOK /\ Course /\ FallbackNeverCached /\ MemoryBounded /\ UNCHANGED plot
  BY DEF IInv, MInv, CacheExpires, RefusalExpires, RefuseIsland
<1>2. Course'
  BY <1>1 DEF Course, CourseOf
<1>3. /\ IsFiniteSet(Occupied) /\ IsFiniteSet(refused) /\ CacheCap \in Nat
      /\ Cardinality(Occupied) \in Nat /\ Cardinality(refused) \in Nat
  BY ConstantsAssumption, FS_Subset, FS_CardinalityType, <1>1 DEF Occupied, TypeOK
<1>4. CASE CacheExpires(k)
  <2>1. cache' = [cache EXCEPT ![k] = NoEntry] /\ refused' = refused
    BY <1>4 DEF CacheExpires
  <2>2. FallbackNeverCached'
    BY <1>1, <2>1 DEF FallbackNeverCached, NoEntry, TypeOK
  <2>3. Occupied' \subseteq Occupied
    BY <1>1, <2>1 DEF Occupied, Held, NoEntry, TypeOK
  <2>4. Cardinality(Occupied') <= Cardinality(Occupied) /\ Cardinality(Occupied') \in Nat
    BY <1>3, <2>3, PartIsSmaller
  <2> QED BY <1>1, <1>2, <1>3, <2>1, <2>2, <2>4 DEF MInv, MemoryBounded
<1>5. CASE RefusalExpires(k) \/ RefuseIsland(k)
  <2>1. UNCHANGED cache
    BY <1>5 DEF RefusalExpires, RefuseIsland
  <2>2. Cardinality(refused') <= CacheCap
    <3>1. CASE RefusalExpires(k)
      <4>1. refused' \subseteq refused
        BY <3>1 DEF RefusalExpires
      <4>2. Cardinality(refused') <= Cardinality(refused) /\ Cardinality(refused') \in Nat
        BY <1>3, <4>1, PartIsSmaller
      <4> QED BY <1>1, <1>3, <4>2 DEF MemoryBounded
    <3>2. CASE RefuseIsland(k)
      BY <1>1, <3>2, RefuseKeeps DEF RefuseIsland
    <3> QED BY <1>5, <3>1, <3>2
  <2> QED BY <1>1, <1>2, <2>1, <2>2 DEF MInv, FallbackNeverCached, MemoryBounded, Occupied, Held
<1> QED BY <1>4, <1>5

-----------------------------------------------------------------------------
(* The invariant.                                                           *)

LEMMA InitMInv == Init => MInv
<1> SUFFICES ASSUME Init PROVE MInv
  OBVIOUS
<1>1. CourseOf(NoPlot)
  BY DEF CourseOf, NoPlot
<1>2. Course
  BY <1>1 DEF Init, Course
<1>3. Occupied = {} /\ refused = {} /\ CacheCap \in Nat
  BY ConstantsAssumption DEF Init, Occupied, Held, NoEntry
<1>4. MemoryBounded
  BY <1>3, FS_EmptySet DEF MemoryBounded
<1>5. FallbackNeverCached
  BY DEF Init, FallbackNeverCached, NoEntry
<1> QED BY <1>2, <1>4, <1>5 DEF MInv

LEMMA NextMInv == IInv /\ MInv /\ [Next]_vars => MInv'
<1> SUFFICES ASSUME IInv, MInv, [Next]_vars PROVE MInv'
  OBVIOUS
<1>1. Course /\ Remembers
  BY DEF MInv, Remembers
<1>2. ASSUME NEW k \in Key, CacheExpires(k) \/ RefusalExpires(k) \/ RefuseIsland(k)
      PROVE  MInv'
  BY <1>2, ExpiryRemembers
<1>3. ASSUME NEW p \in Plot, NEW k \in Key, NEW storable \in BOOLEAN, Enter(p, k, storable)
      PROVE  MInv'
  <2>1. UNCHANGED <<cache, refused>>
    BY <1>3 DEF Enter
  <2> QED BY <1>1, <1>3, <2>1, EnterCourse, SameMemory DEF MInv, Remembers
<1>4. ASSUME NEW p \in Plot, HandlerStep(p) PROVE MInv'
  BY <1>1, <1>4, HandlerCourse, HandlerRemembers DEF MInv, Remembers
<1>5. ASSUME NEW p \in Plot, TaskStep(p) PROVE MInv'
  BY <1>1, <1>5, TaskCourse, TaskRemembers DEF MInv, Remembers
<1>6. ASSUME UNCHANGED vars PROVE MInv'
  <2>1. UNCHANGED <<plot, cache, refused>>
    BY <1>6 DEF vars
  <2>2. Course'
    BY <1>1, <2>1 DEF Course, CourseOf
  <2> QED BY <1>1, <2>1, <2>2, SameMemory DEF MInv, Remembers
<1> QED BY <1>2, <1>3, <1>4, <1>5, <1>6 DEF Next

THEOREM MemoryInvariance == Spec => []MInv
<1>1. Init => MInv
  BY InitMInv
<1>2. IInv /\ MInv /\ [Next]_vars => MInv'
  BY NextMInv
<1> QED BY <1>1, <1>2, Invariance, PTL DEF Spec

\* Neither the cache nor the refusals outgrow their cap, whatever plots
\* store and refuse and in whatever order.
THEOREM MemoriesStayBounded == Spec => []MemoryBounded
<1>1. MInv => MemoryBounded
  BY DEF MInv
<1> QED BY MemoryInvariance, <1>1, PTL

\* No path that stores ever caches a fallback route: not the early answer,
\* not a better route kept after it, not the final or the reinstated one.
THEOREM FallbacksStayOut == Spec => []FallbackNeverCached
<1>1. MInv => FallbackNeverCached
  BY DEF MInv
<1> QED BY MemoryInvariance, <1>1, PTL

\* A planner without its request is either told to stop or was answered
\* early, never neither and never both.
THEOREM OrphansAreToldOrServed == Spec => []OrphansStopOrRefine
<1>1. MInv => OrphansStopOrRefine
  BY DEF MInv, Course, CourseOf, OrphansStopOrRefine
<1> QED BY MemoryInvariance, <1>1, PTL
-----------------------------------------------------------------------------
(* The lanes: RoutePlot implements LaneGate.  The semaphore's queue holds    *)
(* the plots that wait, each once, and the free permits say how many are     *)
(* inside; a step of a plot is then a step of the gate, or none.             *)

Elems(s) == {s[i] : i \in DOMAIN s}
NoDup(s) == \A i, j \in DOMAIN s : s[i] = s[j] => i = j

Queued == \A l \in Lane : NoDup(waiters[l]) /\ Elems(waiters[l]) = InLine(l)

LEMMA AddedLast ==
  ASSUME NEW S, NEW s \in Seq(S), NoDup(s), NEW x \in S, x \notin Elems(s)
  PROVE  NoDup(Append(s, x)) /\ Elems(Append(s, x)) = Elems(s) \cup {x}
<1> DEFINE t == Append(s, x)
<1>1. /\ Len(s) \in Nat /\ DOMAIN s = 1..Len(s) /\ DOMAIN t = 1..(Len(s) + 1)
      /\ t[Len(s) + 1] = x /\ \A i \in 1..Len(s) : t[i] = s[i]
  BY AppendProperties, LenProperties
<1> HIDE DEF t
<1>2. NoDup(t)
  BY <1>1 DEF NoDup, Elems
<1>3. \A y : y \in Elems(t) <=> y \in Elems(s) \cup {x}
  <2>1. 1..(Len(s) + 1) = (1..Len(s)) \cup {Len(s) + 1}
    BY <1>1
  <2> QED BY <1>1, <2>1 DEF Elems
<1> QED BY <1>2, <1>3 DEF t

LEMMA WithoutFirst ==
  ASSUME NEW S, NEW s \in Seq(S), NoDup(s), s # <<>>
  PROVE  NoDup(Tail(s)) /\ Elems(Tail(s)) = Elems(s) \ {Head(s)}
<1> DEFINE t == Tail(s)
<1>1. /\ Len(s) \in Nat \ {0} /\ DOMAIN s = 1..Len(s) /\ Head(s) = s[1]
      /\ DOMAIN t = 1..(Len(s) - 1) /\ \A i \in 1..(Len(s) - 1) : t[i] = s[i + 1]
  BY HeadTailProperties, LenProperties, EmptySeq
<1> HIDE DEF t
<1>2. NoDup(t)
  BY <1>1 DEF NoDup
<1>3. ASSUME NEW y \in Elems(t) PROVE y \in Elems(s) \ {s[1]}
  <2>1. PICK i \in 1..(Len(s) - 1) : y = s[i + 1]
    BY <1>1 DEF Elems
  <2>2. i + 1 \in 1..Len(s) /\ i + 1 # 1
    BY <1>1
  <2> QED BY <1>1, <2>1, <2>2 DEF Elems, NoDup
<1>4. ASSUME NEW y \in Elems(s), y # s[1] PROVE y \in Elems(t)
  <2>1. PICK i \in 1..Len(s) : y = s[i]
    BY <1>1 DEF Elems
  <2>2. i - 1 \in 1..(Len(s) - 1) /\ (i - 1) + 1 = i
    BY <1>1, <1>4, <2>1
  <2>3. t[i - 1] = y
    BY <1>1, <2>1, <2>2
  <2> QED BY <1>1, <2>2, <2>3 DEF Elems
<1> QED BY <1>1, <1>2, <1>3, <1>4 DEF t

LEMMA WithoutOne ==
  ASSUME NEW S, NEW s \in Seq(S), NoDup(s), NEW k \in DOMAIN s
  PROVE  LET t == SubSeq(s, 1, k - 1) \o SubSeq(s, k + 1, Len(s))
         IN  NoDup(t) /\ Elems(t) = Elems(s) \ {s[k]}
<1> DEFINE a == SubSeq(s, 1, k - 1)
           b == SubSeq(s, k + 1, Len(s))
           t == a \o b
<1>1. Len(s) \in Nat /\ DOMAIN s = 1..Len(s) /\ \A i \in 1..Len(s) : s[i] \in S
  BY LenProperties, ElementOfSeq
<1>2. a \in Seq(S) /\ Len(a) = k - 1 /\ \A i \in 1..(k - 1) : a[i] = s[i]
  BY <1>1, SubSeqProperties
<1>3. b \in Seq(S) /\ Len(b) = Len(s) - k /\ \A i \in 1..(Len(s) - k) : b[i] = s[k + i]
  BY <1>1, SubSeqProperties
<1> HIDE DEF a, b
<1>4. /\ t \in Seq(S) /\ Len(t) = Len(a) + Len(b)
      /\ \A i \in 1..(Len(a) + Len(b)) : t[i] = IF i <= Len(a) THEN a[i] ELSE b[i - Len(a)]
  BY <1>2, <1>3, ConcatProperties
<1> HIDE DEF t
<1>41. Len(t) = Len(s) - 1 /\ Len(a) + Len(b) = Len(s) - 1
  BY <1>1, <1>2, <1>3, <1>4
<1>5. DOMAIN t = 1..(Len(s) - 1)
  BY <1>4, <1>41, LenProperties
<1>6. ASSUME NEW i \in 1..(Len(s) - 1)
      PROVE  t[i] = IF i < k THEN s[i] ELSE s[i + 1]
  <2>1. CASE i < k
    <3>1. i <= k - 1 /\ i \in 1..(k - 1)
      BY <1>1, <2>1
    <3> QED BY <1>2, <1>4, <1>41, <2>1, <3>1
  <2>2. CASE ~(i < k)
    <3>1. i - (k - 1) \in 1..(Len(s) - k) /\ k + (i - (k - 1)) = i + 1
      BY <1>1, <2>2
    <3>2. b[i - (k - 1)] = s[i + 1]
      BY <1>3, <3>1
    <3>3. ~(i <= k - 1)
      BY <1>1, <2>2
    <3>4. t[i] = b[i - (k - 1)]
      BY <1>2, <1>4, <1>41, <3>3
    <3> QED BY <2>2, <3>2, <3>4
  <2> QED BY <2>1, <2>2
<1>7. NoDup(t)
  <2>1. ASSUME NEW i \in 1..(Len(s) - 1), NEW j \in 1..(Len(s) - 1), t[i] = t[j] PROVE i = j
    <3>1. \A m \in 1..(Len(s) - 1) : m \in 1..Len(s) /\ m + 1 \in 1..Len(s)
      BY <1>1
    <3> QED BY <1>1, <1>6, <2>1, <3>1 DEF NoDup
  <2> QED BY <1>5, <2>1 DEF NoDup
<1>8. ASSUME NEW y \in Elems(t) PROVE y \in Elems(s) \ {s[k]}
  <2>1. PICK i \in 1..(Len(s) - 1) : y = t[i]
    BY <1>5, <1>8 DEF Elems
  <2>2. PICK j \in 1..Len(s) : y = s[j] /\ j # k
    <3>1. CASE i < k
      BY <1>1, <1>6, <2>1, <3>1
    <3>2. CASE ~(i < k)
      <4>1. i + 1 \in 1..Len(s) /\ i + 1 # k
        BY <1>1, <3>2
      <4> QED BY <1>6, <2>1, <3>2, <4>1
    <3> QED BY <3>1, <3>2
  <2> QED BY <1>1, <2>2 DEF Elems, NoDup
<1>9. ASSUME NEW y \in Elems(s), y # s[k] PROVE y \in Elems(t)
  <2>1. PICK j \in 1..Len(s) : y = s[j]
    BY <1>1 DEF Elems
  <2>2. PICK i \in 1..(Len(s) - 1) : y = t[i]
    <3>1. CASE j < k
      <4>1. j \in 1..(Len(s) - 1)
        BY <1>1, <3>1
      <4> QED BY <1>6, <2>1, <3>1, <4>1
    <3>2. CASE ~(j < k)
      <4>1. j # k
        BY <1>9, <2>1
      <4>2. j - 1 \in 1..(Len(s) - 1) /\ ~(j - 1 < k) /\ (j - 1) + 1 = j
        BY <1>1, <3>2, <4>1
      <4>3. t[j - 1] = y
        BY <1>6, <2>1, <4>2
      <4> QED BY <4>2, <4>3
    <3> QED BY <3>1, <3>2
  <2> QED BY <1>5, <2>2 DEF Elems
<1> QED BY <1>7, <1>8, <1>9 DEF t, a, b
-----------------------------------------------------------------------------
LEMMA InsideIsHeld ==
  ASSUME IInv, Queued, NEW l \in Lane
  PROVE  Gates!Inside(l) = PlaceHolders(l) /\ Gates!Waiting(l) = InLine(l)
<1>1. Gates!Waiting(l) = InLine(l)
  BY DEF Queued, Gates!Waiting, Elems
<1>2. PlaceHolders(l) = InLine(l) \cup SlotHolders(l)
  BY DEF IInv, Shape, ShapeOf, PlaceHolders, SlotHolders, InLine, HoldsPlace, HoldsSlot
<1> QED BY <1>1, <1>2 DEF Gates!Inside

LEMMA Counts ==
  ASSUME IInv, NEW l \in Lane
  PROVE  /\ places[l] > 0 => Cardinality(PlaceHolders(l)) < Slots[l] + Room[l]
         /\ slots[l] > 0 => Cardinality(SlotHolders(l)) < Slots[l]
<1>1. /\ places[l] \in Nat /\ slots[l] \in Nat
      /\ places[l] + Cardinality(PlaceHolders(l)) = Slots[l] + Room[l]
      /\ slots[l] + Cardinality(SlotHolders(l)) = Slots[l]
  BY DEF IInv, TypeOK, PermitsConserved
<1>2. Cardinality(PlaceHolders(l)) \in Nat /\ Cardinality(SlotHolders(l)) \in Nat
  BY HoldersFinite, FS_CardinalityType
<1>3. Slots[l] \in Nat /\ Room[l] \in Nat
  BY ConstantsAssumption
<1> QED BY <1>1, <1>2, <1>3

\* The gate counts as the endpoint does.
LEMMA SameCount == ASSUME NEW S PROVE Gates!Cardinality(S) = Cardinality(S)
BY DEF Gates!Cardinality, Cardinality

Running == [l \in Lane |-> SlotHolders(l)]

LEMMA LanesKeptStep ==
  ASSUME Queued, LanesKept
  PROVE  Queued' /\ UNCHANGED <<waiters, Running>>
BY DEF Queued, LanesKept, Running

LEMMA SlotLeftStep ==
  ASSUME Queued, NEW p \in Plot, SlotLeft(p)
  PROVE  Queued' /\ Gates!Next
<1>1. PICK m \in Lane : p \in SlotHolders(m) /\ \A l \in Lane :
        /\ SlotHolders(l)' = IF l = m THEN SlotHolders(l) \ {p} ELSE SlotHolders(l)
        /\ InLine(l)' = InLine(l)
  BY DEF SlotLeft
<1>2. Queued'
  BY <1>1 DEF Queued, SlotLeft
<1>3. Gates!End(m, p)
  <2>1. Running' = [Running EXCEPT ![m] = @ \ {p}]
    BY <1>1 DEF Running
  <2> QED BY <1>1, <2>1 DEF Gates!End, Running, SlotLeft
<1> QED BY <1>2, <1>3 DEF Gates!Next

LEMMA EnterLane ==
  ASSUME IInv, Queued, NEW p \in Plot, NEW k \in Key, NEW storable \in BOOLEAN,
         Enter(p, k, storable)
  PROVE  Queued' /\ Gates!Next
<1> DEFINE n == [NoPlot EXCEPT !.key = k, !.storable = storable, !.handler = "waiting"]
           m == LaneOf[k]
<1>1. TypeOK /\ Shape /\ m \in Lane /\ waiters[m] \in Seq(Plot) /\ waiters \in [Lane -> Seq(Plot)]
  BY ConstantsAssumption DEF IInv, TypeOK
<1>2. /\ n \in PlotState /\ ShapeOf(n) /\ ~HoldsSlot(n) /\ n.handler = "waiting" /\ n.key = k
      /\ Becomes(p, n)
  BY DEF NoPlot, PlotState, HandlerState, TaskState, Outcome, ShapeOf, HoldsSlot, Working,
         Enter, Becomes, Settle
<1> HIDE DEF n
<1>3. \A l \in Lane : p \notin InLine(l) /\ p \notin SlotHolders(l) /\ p \notin PlaceHolders(l)
  BY DEF Enter, IsIdle, InLine, SlotHolders, PlaceHolders, HoldsSlot, HoldsPlace
<1>4. ASSUME NEW l \in Lane
      PROVE  /\ InLine(l)' = IF l = m THEN InLine(l) \cup {p} ELSE InLine(l)
             /\ SlotHolders(l)' = SlotHolders(l)
  <2>1. /\ InLine(l)' = IF LaneOf[n.key] = l THEN InLine(l) \cup {p} ELSE InLine(l) \ {p}
        /\ SlotHolders(l)' = SlotHolders(l) \ {p}
    BY <1>1, <1>2, HoldersAfter
  <2> QED BY <1>2, <1>3, <2>1
<1>5. waiters' = [waiters EXCEPT ![m] = Append(waiters[m], p)]
  BY DEF Enter
<1>6. NoDup(waiters'[m]) /\ Elems(waiters'[m]) = InLine(m) \cup {p}
  <2>1. NoDup(waiters[m]) /\ Elems(waiters[m]) = InLine(m)
    BY <1>1 DEF Queued
  <2>2. waiters'[m] = Append(waiters[m], p)
    BY <1>1, <1>5
  <2> QED BY <1>1, <1>3, <2>1, <2>2, AddedLast
<1>7. Queued'
  <2>1. \A l \in Lane : l # m => waiters'[l] = waiters[l]
    BY <1>1, <1>5
  <2> QED BY <1>4, <1>6, <2>1 DEF Queued
<1>8. Gates!Arrive(m, p)
  <2>1. Running' = Running
    BY <1>4 DEF Running
  <2>2. Cardinality(Gates!Inside(m)) < Slots[m] + Room[m]
    BY <1>1, InsideIsHeld, Counts DEF Enter
  <2>3. \A l \in Lane : p \notin Gates!Inside(l)
    BY <1>3, InsideIsHeld
  <2>4. UNCHANGED [l \in Lane |-> SlotHolders(l)]
    BY <2>1 DEF Running
  <2> QED BY <1>1, <1>5, <2>2, <2>3, <2>4, SameCount DEF Gates!Arrive
<1> QED BY <1>1, <1>7, <1>8 DEF Gates!Next

LEMMA GrantLane ==
  ASSUME IInv, Queued, NEW p \in Plot, GrantSlot(p)
  PROVE  Queued' /\ Gates!Next
<1> DEFINE n == [plot[p] EXCEPT !.handler = "slotted"]
           m == LaneOfPlot(p)
<1>1. TypeOK /\ Shape /\ plot[p] \in PlotState /\ ShapeOf(plot[p])
  BY DEF IInv, TypeOK, Shape
<1>2. /\ m \in Lane /\ KeyOf(p) \in Key /\ plot[p].task = "done"
      /\ waiters[m] \in Seq(Plot) /\ waiters \in [Lane -> Seq(Plot)]
  BY <1>1, ConstantsAssumption DEF GrantSlot, ShapeOf, KeyOf, LaneOfPlot, TypeOK
<1>3. /\ n \in PlotState /\ n.handler = "slotted" /\ n.key = plot[p].key /\ n.task = "done"
      /\ n.lease = plot[p].lease /\ n.checking = plot[p].checking /\ n.keeping = plot[p].keeping
      /\ Becomes(p, n)
  BY <1>1, <1>2 DEF PlotState, HandlerState, GrantSlot
<1> HIDE DEF n
<1>4. ShapeOf(n) /\ HoldsSlot(n)
  BY <1>1, <1>2, <1>3 DEF ShapeOf, HoldsSlot, KeyOf
<1>5. \A l \in Lane : l # m => p \notin InLine(l) /\ p \notin SlotHolders(l)
  BY DEF InLine, SlotHolders, LaneOfPlot
<1>6. ASSUME NEW l \in Lane
      PROVE  /\ InLine(l)' = IF l = m THEN InLine(l) \ {p} ELSE InLine(l)
             /\ SlotHolders(l)' = IF l = m THEN SlotHolders(l) \cup {p} ELSE SlotHolders(l)
  <2>1. /\ InLine(l)' = InLine(l) \ {p}
        /\ SlotHolders(l)' = IF HoldsSlot(n) /\ LaneOf[n.key] = l
                             THEN SlotHolders(l) \cup {p} ELSE SlotHolders(l) \ {p}
    BY <1>1, <1>3, <1>4, HoldersAfter
  <2>2. LaneOf[n.key] = m
    BY <1>3 DEF LaneOfPlot, KeyOf
  <2> QED BY <1>4, <1>5, <2>1, <2>2
<1>7. /\ waiters' = [waiters EXCEPT ![m] = Tail(waiters[m])]
      /\ waiters[m] # <<>> /\ Head(waiters[m]) = p /\ slots[m] > 0
  BY DEF GrantSlot
<1>8. NoDup(waiters'[m]) /\ Elems(waiters'[m]) = InLine(m) \ {p}
  <2>1. NoDup(waiters[m]) /\ Elems(waiters[m]) = InLine(m)
    BY <1>2 DEF Queued
  <2>2. waiters'[m] = Tail(waiters[m])
    BY <1>2, <1>7
  <2> QED BY <1>2, <1>7, <2>1, <2>2, WithoutFirst
<1>9. Queued'
  <2>1. \A l \in Lane : l # m => waiters'[l] = waiters[l]
    BY <1>2, <1>7
  <2> QED BY <1>6, <1>8, <2>1 DEF Queued
<1>10. Gates!Start(m, p)
  <2>1. Running' = [Running EXCEPT ![m] = @ \cup {p}]
    BY <1>2, <1>6 DEF Running
  <2>2. Cardinality(Running[m]) < Slots[m]
    BY <1>2, <1>7, Counts DEF Running
  <2> QED BY <1>2, <1>7, <2>1, <2>2, SameCount DEF Gates!Start, Running
<1> QED BY <1>2, <1>9, <1>10 DEF Gates!Next

\* A waiting plot whose client goes away.
LEMMA GoneLane ==
  ASSUME IInv, Queued, NEW p \in Plot, Gone(p), plot[p].handler = "waiting"
  PROVE  Queued' /\ Gates!Next
<1> DEFINE n == [plot[p] EXCEPT !.handler = "done"]
           m == LaneOfPlot(p)
<1>1. TypeOK /\ Shape /\ plot[p] \in PlotState /\ ShapeOf(plot[p])
  BY DEF IInv, TypeOK, Shape
<1>2. m \in Lane /\ waiters[m] \in Seq(Plot) /\ waiters \in [Lane -> Seq(Plot)]
  BY <1>1, ConstantsAssumption DEF ShapeOf, KeyOf, LaneOfPlot, TypeOK
<1>3. /\ n \in PlotState /\ ShapeOf(n) /\ ~HoldsSlot(n) /\ ~HoldsSlot(plot[p])
      /\ n.handler # "waiting" /\ Becomes(p, n)
  BY <1>1, LeaveShape DEF Gone
<1> HIDE DEF n
<1>4. ASSUME NEW l \in Lane
      PROVE  InLine(l)' = InLine(l) \ {p} /\ SlotHolders(l)' = SlotHolders(l)
  <2>1. InLine(l)' = InLine(l) \ {p} /\ SlotHolders(l)' = SlotHolders(l) \ {p}
    BY <1>1, <1>3, HoldersAfter
  <2> QED BY <1>3, <2>1 DEF SlotHolders
<1>5. PICK i \in DOMAIN waiters[m] :
        /\ waiters[m][i] = p
        /\ waiters' = [waiters EXCEPT ![m] =
             SubSeq(waiters[m], 1, i - 1) \o SubSeq(waiters[m], i + 1, Len(waiters[m]))]
  BY DEF Gone
<1>6. NoDup(waiters'[m]) /\ Elems(waiters'[m]) = InLine(m) \ {p}
  <2>1. NoDup(waiters[m]) /\ Elems(waiters[m]) = InLine(m)
    BY <1>2 DEF Queued
  <2>2. waiters'[m] = SubSeq(waiters[m], 1, i - 1) \o SubSeq(waiters[m], i + 1, Len(waiters[m]))
    BY <1>2, <1>5
  <2> QED BY <1>2, <1>5, <2>1, <2>2, WithoutOne
<1>7. Queued'
  <2>1. \A l \in Lane : l # m => waiters'[l] = waiters[l] /\ p \notin InLine(l)
    BY <1>2, <1>5 DEF InLine, LaneOfPlot
  <2>2. \A l \in Lane : InLine(l)' = IF l = m THEN InLine(l) \ {p} ELSE InLine(l)
    BY <1>4, <2>1
  <2> QED BY <1>6, <2>1, <2>2 DEF Queued
<1>8. Gates!Leave(m, p)
  <2>1. Running' = Running
    BY <1>4 DEF Running
  <2> QED BY <1>5, <2>1 DEF Gates!Leave, Running
<1> QED BY <1>2, <1>7, <1>8 DEF Gates!Next

LEMMA HandlerLane ==
  ASSUME IInv, Queued, NEW p \in Plot, HandlerStep(p)
  PROVE  \/ Queued' /\ Gates!Next
         \/ Queued' /\ UNCHANGED <<waiters, Running>>
<1>1. CASE GrantSlot(p)
  BY <1>1, GrantLane
<1>2. CASE HitAfterWait(p)
  BY <1>2, HitAfterWaitStep, SlotLeftStep
<1>3. CASE Spawn(p)
  BY <1>3, SpawnStep, LanesKeptStep
<1>4. ASSUME NEW r \in Rank, Receive(p, r)
      PROVE  Queued' /\ UNCHANGED <<waiters, Running>>
  BY <1>4, ReceiveStep, LanesKeptStep
<1>5. CASE FirstDeadline(p) \/ GraceOver(p) \/ ServeEarly(p) \/ Join(p)
  BY <1>5, FirstDeadlineStep, GraceOverStep, ServeEarlyStep, JoinStep, LanesKeptStep
<1>6. CASE Gone(p)
  <2>1. CASE plot[p].handler = "waiting"
    BY <1>6, <2>1, GoneLane
  <2>2. CASE plot[p].handler = "slotted"
    BY <1>6, <2>2, GoneStep, SlotLeftStep
  <2>3. CASE plot[p].handler \notin {"waiting", "slotted"}
    BY <1>6, <2>3, GoneStep, LanesKeptStep
  <2> QED BY <2>1, <2>2, <2>3
<1> QED BY <1>1, <1>2, <1>3, <1>4, <1>5, <1>6 DEF HandlerStep

LEMMA TaskLane ==
  ASSUME IInv, Queued, NEW p \in Plot, TaskStep(p)
  PROVE  \/ Queued' /\ Gates!Next
         \/ Queued' /\ UNCHANGED <<waiters, Running>>
<1>1. ASSUME NEW r \in Rank, Found(p, r) \/ FoundCheck(p, r) \/ KeepBestSoFar(p, r)
      PROVE  Queued' /\ UNCHANGED <<waiters, Running>>
  BY <1>1, FoundStep, FoundCheckStep, KeepBestSoFarStep, LanesKeptStep
<1>2. CASE PlanEnds(p)
  BY <1>2, PlanEndStep, LanesKeptStep DEF PlanEnds
<1>3. CASE StoreFinal(p) \/ EndWithoutRoute(p) \/ Reinstate(p) \/ ReturnPool(p) \/ Panic(p)
  BY <1>3, StoreFinalStep, EndWithoutRouteStep, ReinstateStep, ReturnPoolStep, PanicStep,
     LanesKeptStep
<1>4. CASE ReturnPermits(p)
  BY <1>4, ReturnPermitsStep, SlotLeftStep
<1> QED BY <1>1, <1>2, <1>3, <1>4 DEF TaskStep

LEMMA LaneStep ==
  ASSUME IInv, Queued, [Next]_vars
  PROVE  Queued' /\ [Gates!Next]_<<waiters, Running>>
<1>1. ASSUME NEW k \in Key, CacheExpires(k) \/ RefusalExpires(k) \/ RefuseIsland(k)
      PROVE  Queued' /\ UNCHANGED <<waiters, Running>>
  BY <1>1, MemoryStep, LanesKeptStep
<1>2. ASSUME NEW p \in Plot, NEW k \in Key, NEW storable \in BOOLEAN, Enter(p, k, storable)
      PROVE  Queued' /\ Gates!Next
  BY <1>2, EnterLane
<1>3. ASSUME NEW p \in Plot, HandlerStep(p) \/ TaskStep(p)
      PROVE  Queued' /\ [Gates!Next]_<<waiters, Running>>
  BY <1>3, HandlerLane, TaskLane
<1>4. ASSUME UNCHANGED vars PROVE Queued' /\ UNCHANGED <<waiters, Running>>
  BY <1>4 DEF vars, Queued, InLine, KeyOf, Running, SlotHolders
<1> QED BY <1>1, <1>2, <1>3, <1>4 DEF Next

LEMMA LaneStart == Init => Queued /\ Gates!Init
<1> SUFFICES ASSUME Init PROVE Queued /\ Gates!Init
  OBVIOUS
<1>1. \A l \in Lane : waiters[l] = <<>> /\ InLine(l) = {} /\ SlotHolders(l) = {}
  BY ConstantsAssumption DEF Init, InLine, SlotHolders, HoldsSlot, NoPlot
<1>2. DOMAIN <<>> = {}
  OBVIOUS
<1>3. Queued
  BY <1>1, <1>2 DEF Queued, NoDup, Elems
<1> QED BY <1>1, <1>3 DEF Init, Gates!Init

\* The gates of the endpoint are what a lane promises: in any interleaving of any
\* number of plots the next slot goes to whoever has waited longest, no more
\* planners run than there are slots, none is forgotten while it runs on behind an
\* answer or a departed client, and whoever leaves the waiting room, from any
\* place in it, makes room for one more (ed-api plot.rs, Gate).
THEOREM GatesAreFair == Spec => FirstComeFirstServed
<1>1. Spec => [](IInv /\ Queued)
  <2>1. Init => IInv /\ Queued
    BY InitIInv, LaneStart
  <2>2. IInv /\ Queued /\ [Next]_vars => (IInv /\ Queued)'
    BY NextIInv, LaneStep
  <2> QED BY <2>1, <2>2, PTL DEF Spec
<1>2. Init => Gates!Init
  BY LaneStart
<1>3. IInv /\ Queued /\ [Next]_vars => [Gates!Next]_<<waiters, Running>>
  BY LaneStep
<1>4. [Gates!Next]_<<waiters, Running>> <=> [Gates!Next]_<<waiters, [l \in Lane |-> SlotHolders(l)]>>
  BY DEF Running
<1> QED BY <1>1, <1>2, <1>3, <1>4, PTL DEF Spec, FirstComeFirstServed, Gates!Spec
=============================================================================

----------------------------- MODULE FollowProofs -----------------------------
(***************************************************************************)
(* Proofs about the followers, for any systems, any planner, any routes of  *)
(* the commander and any number of jumps, orders, events and plots.         *)
(*                                                                         *)
(* The laps: a trade route's cursor leaves the first stop only by an        *)
(* arrival there or by a start in dock, so the arrivals there and the laps  *)
(* agree as soon as either is known (LapsOf).  The row: whoever writes it   *)
(* for a trade route either has that trade route, is about to save it, or   *)
(* is late (LeftInv).  The cursor: it is where the ship is or its jump leads, *)
(* or a jump that puts it right is among the events still to come            *)
(* (CourseInv).                                                            *)
(***************************************************************************)
EXTENDS Follow, SequenceTheorems, TLAPS

RoutePath == Plans \cup UNION Range(Paths)
Trip == [stops : Seq(System), cycle : BOOLEAN, at : Nat, arrivals : Nat, lap : Nat]
Event == [e : {"start", "jump", "dock", "undock", "carry"}, sys : System]
InFlight == {p \in [for : {"trade", "replan"}, dest : System \cup {Nothing},
                    path : RoutePath \cup {<<>>}] :
               /\ p.path = <<>> \/ Last(p.path) = p.dest
               /\ p.for = "trade" => p.dest \in System}
Order ==
  [do : {"none"}]
    \cup [do : {"activate"}, path : RoutePath, next : Nat, trading : BOOLEAN]
    \cup [do : {"advance"}, route : Route]
    \cup [do : {"start"}, met : BOOLEAN, trade : Trip]
    \cup [do : {"stop"}, had : BOOLEAN]

\* A trade route under way, and n arrivals at its first stop since it began.
TripOK(t) == t \in Trip /\ t.at < Len(t.stops) /\ (t.cycle => Len(t.stops) > 1)

LapsOf(t, n) ==
  /\ n \in Nat /\ n <= t.arrivals + 1
  /\ t.lap = IF n = 0 THEN 1 ELSE n
  /\ t.at # 0 \/ t.arrivals > 0 => n # 0
  /\ t.at = 0 /\ t.arrivals = 0 /\ Len(t.stops) > 1 => n = 0

LapInv ==
  /\ rounds \in Nat
  /\ trade # Nothing => TripOK(trade) /\ LapsOf(trade, rounds)
  /\ order.do = "start" =>
       TripOK(order.trade) /\ LapsOf(order.trade, IF order.met THEN 1 ELSE 0)

OnRoute(r) == r \in Route /\ r.next \in 1..Len(r.path)

TypeInv ==
  /\ ship \in Place /\ place \in Place /\ tunnel \in System \cup {Nothing}
  /\ jumps \in 0..MaxJumps /\ orders \in 0..MaxOrders
  /\ unread \in Seq(Event) /\ pending \in Seq(Event)
  /\ pass \in {"idle", "due", "on"} /\ (pass # "idle" => pending # <<>>)
  /\ ~seeded => pending = <<>>
  /\ boot \in {"sync", "place", "done"}
  /\ row # Nothing => OnRoute(row)
  /\ plots \in Seq(InFlight)
  /\ order \in Order
  /\ order.do = "activate" => order.next \in 1..Len(order.path)
  /\ order.do = "advance" => OnRoute(order.route)
  /\ {up, seeded, off, ghost} \subseteq BOOLEAN
  /\ ~up => plots = <<>> /\ pending = <<>> /\ order = Idle /\ ~seeded

\* A row placed for a trade route that is gone was placed late; so was one
\* placed while a stop that did not find it waits to write.
LeftInv ==
  row # Nothing /\ row.src = "trade" =>
    /\ trade = Nothing /\ order.do \notin {"start", "activate"} => ghost
    /\ order.do = "stop" /\ ~order.had => ghost

FollowInv == TypeInv /\ LapInv /\ LeftInv
-----------------------------------------------------------------------------
(* Paths and places on them.                                                *)

LEMMA RoutePathType ==
  ASSUME NEW path \in RoutePath
  PROVE  path \in Seq(System) /\ path # <<>> /\ Len(path) \in Nat \ {0} /\ Last(path) \in System
<1>1. CASE path \in Plans
  <2>1. path \in Seq(System) /\ path # <<>>
    BY <1>1, FollowAssumption DEF FollowAssumption
  <2>2. Len(path) \in Nat \ {0}
    BY <2>1, EmptySeq
  <2> QED BY <2>1, <2>2, ElementOfSeq DEF Last
<1>2. CASE path \in UNION Range(Paths)
  <2>1. PICK p \in System \X System : path \in Paths[p]
    BY <1>2, FollowAssumption DEF FollowAssumption, Range
  <2>2. path \in Seq(System) /\ path # <<>>
    BY <2>1, FollowAssumption DEF FollowAssumption
  <2>3. Len(path) \in Nat \ {0}
    BY <2>2, EmptySeq
  <2> QED BY <2>2, <2>3, ElementOfSeq DEF Last
<1> QED BY <1>1, <1>2 DEF RoutePath

LEMMA PlannedPath ==
  ASSUME NEW a \in System, NEW b \in System, NEW path \in Paths[<<a, b>>]
  PROVE  path \in RoutePath /\ Last(path) = b
<1>1. <<a, b>> \in System \X System /\ DOMAIN Paths = System \X System
  BY FollowAssumption DEF FollowAssumption
<1>2. Paths[<<a, b>>] \in Range(Paths)
  BY <1>1 DEF Range
<1>3. Last(path) = b
  BY <1>1, FollowAssumption DEF FollowAssumption
<1> QED BY <1>2, <1>3 DEF RoutePath

LEMMA OnType ==
  ASSUME NEW path \in Seq(System), NEW s
  PROVE  /\ On(path, s) \in 0..Len(path)
         /\ s \in Range(path) => On(path, s) # 0 /\ path[On(path, s)] = s
         /\ s \notin Range(path) => On(path, s) = 0
<1>1. Len(path) \in Nat /\ DOMAIN path = 1..Len(path)
  BY LenProperties
<1>2. CASE s \in Range(path)
  <2>1. \E i \in DOMAIN path : path[i] = s
    BY <1>2 DEF Range
  <2>2. On(path, s) \in DOMAIN path /\ path[On(path, s)] = s
    BY <1>2, <2>1 DEF On
  <2> QED BY <1>1, <1>2, <2>2
<1>3. CASE s \notin Range(path)
  BY <1>1, <1>3 DEF On
<1> QED BY <1>2, <1>3

LEMMA StartAtType ==
  ASSUME NEW path \in RoutePath, NEW s
  PROVE  StartAt(path, s) \in 1..Len(path)
<1>1. On(path, s) \in 0..Len(path) /\ Len(path) \in Nat \ {0}
  BY RoutePathType, OnType
<1> QED BY <1>1 DEF StartAt, Lesser

LEMMA ClampType ==
  ASSUME NEW n \in Int, NEW len \in Nat \ {0}
  PROVE  Clamp(n, len) \in 1..len
BY DEF Clamp, Lesser

LEMMA RouteType ==
  ASSUME NEW path \in RoutePath, NEW n \in 1..Len(path), NEW src \in Source
  PROVE  OnRoute([path |-> path, next |-> n, src |-> src])
BY RoutePathType DEF OnRoute, Route, RoutePath
LEMMA NothingIsNoTrip == Nothing \notin Trip /\ Nothing \notin System
BY FollowAssumption DEF FollowAssumption, Trip

LEMMA SameRow ==
  ASSUME NEW r, OnRoute(r), NEW n \in 1..Len(r.path)
  PROVE  OnRoute([r EXCEPT !.next = n]) /\ [r EXCEPT !.next = n].src = r.src
BY DEF OnRoute, Route

LEMMA MovedRow ==
  ASSUME OnRoute(row), NEW n \in Nat \ {0}, MoveCursor(n)
  PROVE  row' # Nothing => OnRoute(row') /\ row'.src = row.src
<1>1. CASE n >= Len(row.path)
  BY <1>1 DEF MoveCursor
<1>2. CASE ~(n >= Len(row.path))
  <2>1. Len(row.path) \in Nat
    BY RoutePathType DEF OnRoute, Route, RoutePath
  <2> QED BY <1>2, <2>1, SameRow DEF MoveCursor
<1> QED BY <1>1, <1>2

LEMMA RowPlace ==
  ASSUME OnRoute(row), NEW s
  PROVE  /\ row.path \in RoutePath /\ Len(row.path) \in Nat \ {0}
         /\ On(row.path, s) \in 0..Len(row.path)
BY RoutePathType, OnType DEF OnRoute, Route, RoutePath

LEMMA Asked ==
  ASSUME plots \in Seq(InFlight), NEW for \in {"trade", "replan"},
         NEW dest \in System \cup {Nothing}, for = "trade" => dest \in System,
         Asks(for, dest)
  PROVE  plots' \in Seq(InFlight)
<1>1. [for |-> for, dest |-> dest, path |-> <<>>] \in InFlight
  BY DEF InFlight
<1> QED BY <1>1, AppendProperties DEF Asks

LEMMA Shorter ==
  ASSUME NEW S, NEW s \in Seq(S), NEW i \in DOMAIN s
  PROVE  RemoveAt(s, i) \in Seq(S)
<1>1. Len(s) \in Nat /\ i \in 1..Len(s) /\ \A j \in 1..Len(s) : s[j] \in S
  BY LenProperties, ElementOfSeq
<1>2. SubSeq(s, 1, i - 1) \in Seq(S)
  <2>1. \A j \in 1..(i - 1) : s[j] \in S
    BY <1>1
  <2> QED BY <1>1, <2>1, SubSeqProperties
<1>3. SubSeq(s, i + 1, Len(s)) \in Seq(S)
  <2>1. \A j \in (i + 1)..Len(s) : s[j] \in S
    BY <1>1
  <2> QED BY <1>1, <2>1, SubSeqProperties
<1> QED BY <1>2, <1>3, ConcatProperties DEF RemoveAt
-----------------------------------------------------------------------------
(* The game and the journal.                                                *)

\* The trade route, the row and the command under way are left alone.
Untouched == UNCHANGED <<row, trade, order, rounds, ghost>>

LEMMA Untroubled ==
  ASSUME FollowInv, Untouched, TypeInv'
  PROVE  FollowInv'
BY DEF FollowInv, Untouched, LapInv, LeftInv

LEMMA Logged ==
  ASSUME unread \in Seq(Event), NEW e \in {"start", "jump", "dock", "undock", "carry"}, NEW s \in System,
         Log(e, s)
  PROVE  unread' \in Seq(Event)
<1>1. [e |-> e, sys |-> s] \in Event
  BY DEF Event
<1> QED BY <1>1, AppendProperties DEF Log

LEMMA FlyStep ==
  ASSUME FollowInv, Fly
  PROVE  FollowInv'
<1> USE DEF FollowInv
<1>1. unread' \in Seq(Event) /\ ship' \in Place /\ tunnel' \in System \cup {Nothing}
      /\ jumps' \in 0..MaxJumps
  <2>1. CASE \E s \in System : Charge(s)
    BY <2>1, Logged, FollowAssumption DEF FollowAssumption, Charge, TypeInv
  <2>2. CASE Arrive
    BY <2>2, Logged DEF Arrive, TypeInv, Place
  <2>3. CASE Dock
    BY <2>3, Logged DEF Dock, TypeInv, Place
  <2>4. CASE Undock
    BY <2>4, Logged DEF Undock, TypeInv, Place
  <2>5. CASE \E s \in System : Carry(s)
    BY <2>5, Logged, FollowAssumption DEF FollowAssumption, Carry, TypeInv, Place
  <2> QED BY <2>1, <2>2, <2>3, <2>4, <2>5 DEF Fly
<1>2. UNCHANGED <<place, pending, seeded, pass, boot, row, trade, plots, app, history>>
  BY DEF Fly, Charge, Arrive, Dock, Undock, Carry, Flown
<1>3. TypeInv'
  BY <1>1, <1>2 DEF TypeInv, app, history
<1> QED BY <1>2, <1>3, Untroubled DEF Untouched, app, history

LEMMA Read ==
  ASSUME TypeInv, ReadJournal
  PROVE  /\ unread' \in Seq(Event) /\ pending' \in Seq(Event) /\ place' \in Place
         /\ ~seeded => pending' = <<>>
         /\ seeded /\ (pending # <<>> \/ unread # <<>>) => pending' # <<>>
<1>1. /\ pending \o unread \in Seq(Event) /\ <<>> \in Seq(Event)
      /\ pending \o unread = <<>> => pending = <<>> /\ unread = <<>>
  BY ConcatProperties, ConcatEqualIffEmpty, EmptySeq DEF TypeInv
<1> QED BY <1>1 DEF ReadJournal, TypeInv

LEMMA SyncStep ==
  ASSUME FollowInv, Sync
  PROVE  FollowInv'
<1> USE DEF FollowInv
<1>1. /\ unread' \in Seq(Event) /\ pending' \in Seq(Event) /\ place' \in Place
      /\ pass' \in {"idle", "due"} /\ seeded' = TRUE /\ off' \in BOOLEAN
      /\ pass' # "idle" => pending' # <<>>
  BY Read DEF Sync, TypeInv, AlignedWith
<1>2. UNCHANGED <<game, boot, row, trade, plots, app, rounds, ghost>> /\ up
  BY DEF Sync
<1>3. TypeInv'
  BY <1>1, <1>2 DEF TypeInv, game, app
<1> QED BY <1>2, <1>3, Untroubled DEF Untouched, app

LEMMA InitialSyncStep ==
  ASSUME FollowInv, InitialSync
  PROVE  FollowInv'
<1> USE DEF FollowInv
<1>1. /\ unread' \in Seq(Event) /\ pending' \in Seq(Event) /\ place' \in Place
      /\ ~seeded => pending' = <<>>
      /\ pass # "idle" => pending' # <<>>
  BY Read DEF InitialSync, TypeInv
<1>2. UNCHANGED <<game, seeded, pass, row, trade, plots, app, history>> /\ boot' = "place"
      /\ pass # "on"
  BY DEF InitialSync, Unlocked
<1>3. TypeInv'
  BY <1>1, <1>2 DEF TypeInv, game, app, history
<1> QED BY <1>2, <1>3, Untroubled DEF Untouched, app, history
-----------------------------------------------------------------------------
(* The watcher.                                                             *)

LEMMA Handling ==
  ASSUME TypeInv, NEW e, Handle(e)
  PROVE  /\ up /\ seeded /\ Here \in System /\ pending' \in Seq(Event)
         /\ pass' \in {"idle", "on"} /\ (pass' # "idle" => pending' # <<>>)
<1>1. pending # <<>> /\ up /\ seeded
  BY DEF Handle, TypeInv
<1>2. Head(pending) \in Event /\ Tail(pending) \in Seq(Event)
  BY <1>1, HeadTailProperties DEF TypeInv
<1> QED BY <1>1, <1>2 DEF Handle, Here, Event

\* A handler may move the cursor or delete the row, and ask for a plot.
LEMMA HandlerTypes ==
  ASSUME TypeInv, NEW e, Handle(e), Handled,
         row' # Nothing => OnRoute(row'),
         plots' \in Seq(InFlight), off' \in BOOLEAN, ghost' \in BOOLEAN
  PROVE  TypeInv'
BY Handling DEF TypeInv, Handled, game, app

LEMMA OnWitchspaceStep ==
  ASSUME FollowInv, OnWitchspace
  PROVE  FollowInv'
<1>1. Handle("start") /\ Handled /\ UNCHANGED <<trade, plots, rounds, off, ghost, order>>
  BY DEF OnWitchspace, Handled, history, app
<1>2. row' # Nothing => row # Nothing /\ OnRoute(row') /\ row'.src = row.src
  <2>1. CASE /\ row # Nothing /\ On(row.path, Here) \in 1..(Len(row.path) - 1)
             /\ row' = [row EXCEPT !.next = On(row.path, Here)]
    <3>1. OnRoute(row) /\ Len(row.path) \in Nat
      BY <2>1, RowPlace DEF FollowInv, TypeInv
    <3>2. On(row.path, Here) \in 1..Len(row.path)
      BY <2>1, <3>1
    <3> QED BY <2>1, <3>1, <3>2, SameRow
  <2>2. CASE UNCHANGED row
    BY <2>2 DEF FollowInv, TypeInv
  <2> QED BY <2>1, <2>2 DEF OnWitchspace
<1>3. TypeInv'
  BY <1>1, <1>2, HandlerTypes DEF FollowInv, TypeInv
<1> QED BY <1>1, <1>2, <1>3 DEF FollowInv, LapInv, LeftInv

LEMMA OnJumpStep ==
  ASSUME FollowInv, OnJump
  PROVE  FollowInv'
<1>1. Handle("jump") /\ Handled /\ UNCHANGED <<trade, rounds, ghost, order>>
  BY DEF OnJump, Handled, app
<1>2. /\ row' # Nothing => row # Nothing /\ OnRoute(row') /\ row'.src = row.src
      /\ plots' \in Seq(InFlight)
  <2>1. CASE row = Nothing
    BY <2>1 DEF OnJump, FollowInv, TypeInv
  <2>2. CASE row # Nothing /\ On(row.path, Here) = 0
    BY <2>2, Asked DEF OnJump, FollowInv, TypeInv
  <2>3. CASE row # Nothing /\ On(row.path, Here) # 0
    <3>1. OnRoute(row) /\ On(row.path, Here) \in Nat \ {0}
      BY <2>3, RowPlace DEF FollowInv, TypeInv
    <3>2. MoveCursor(On(row.path, Here)) \/ UNCHANGED row
      BY <2>3 DEF OnJump, Left
    <3>3. plots' \in Seq(InFlight)
      BY <2>3, Asked DEF OnJump, FollowInv, TypeInv
    <3> QED BY <2>3, <3>1, <3>2, <3>3, MovedRow
  <2> QED BY <2>1, <2>2, <2>3
<1>3. off' \in BOOLEAN
  BY DEF OnJump, Left, AlignedWith, FollowInv, TypeInv
<1>4. TypeInv'
  BY <1>1, <1>2, <1>3, HandlerTypes DEF FollowInv, TypeInv
<1> QED BY <1>1, <1>2, <1>4 DEF FollowInv, LapInv, LeftInv

LEMMA OnCarriedStep ==
  ASSUME FollowInv, OnCarried
  PROVE  FollowInv'
<1>1. /\ Handle("carry") /\ Handled /\ UNCHANGED <<row, trade, plots, rounds, ghost, order>>
      /\ off' \in BOOLEAN
  BY DEF OnCarried, Handled, Left, AlignedWith, app, FollowInv, TypeInv
<1>2. TypeInv'
  BY <1>1, HandlerTypes DEF FollowInv, TypeInv
<1> QED BY <1>1, <1>2, Untroubled DEF Untouched

\* The laps after an arrival that is not the last.
LEMMA Arrival ==
  ASSUME NEW t, TripOK(t), NEW n, LapsOf(t, n), ~EndsHere(t)
  PROVE  LET u == [t EXCEPT !.at = After(t), !.arrivals = @ + 1,
                            !.lap = IF CompletesLap(t) THEN @ + 1 ELSE @]
         IN  TripOK(u) /\ LapsOf(u, IF t.at = 0 THEN n + 1 ELSE n)
<1> DEFINE u == [t EXCEPT !.at = After(t), !.arrivals = @ + 1,
                          !.lap = IF CompletesLap(t) THEN @ + 1 ELSE @]
           m == IF t.at = 0 THEN n + 1 ELSE n
<1>1. /\ t \in Trip /\ t.at \in Nat /\ t.arrivals \in Nat /\ t.lap \in Nat /\ n \in Nat
      /\ t.stops \in Seq(System) /\ Len(t.stops) \in Nat \ {0} /\ t.at < Len(t.stops)
  BY LenProperties DEF TripOK, Trip, LapsOf
<1>2. Len(t.stops) > 1
  BY <1>1 DEF EndsHere, TripOK, Trip
<1>3. After(t) \in Nat /\ After(t) < Len(t.stops)
  BY <1>1 DEF After
<1>4. /\ u \in Trip /\ u.stops = t.stops /\ u.cycle = t.cycle
      /\ u.at = After(t) /\ u.arrivals = t.arrivals + 1
      /\ u.lap = IF CompletesLap(t) THEN t.lap + 1 ELSE t.lap
  <2>1. PICK lap \in Nat : lap = IF CompletesLap(t) THEN t.lap + 1 ELSE t.lap
    BY <1>1
  <2>2. u = [t EXCEPT !.at = After(t), !.arrivals = t.arrivals + 1, !.lap = lap]
    BY <2>1
  <2>3. t.arrivals + 1 \in Nat
    BY <1>1
  <2> HIDE DEF u
  <2> QED BY <1>1, <1>3, <2>1, <2>2, <2>3 DEF Trip
<1> HIDE DEF u
<1>5. TripOK(u)
  BY <1>3, <1>4 DEF TripOK
<1>6. LapsOf(u, m)
  <2>1. CASE t.at = 0 /\ t.arrivals = 0
    BY <2>1, <1>1, <1>2, <1>4 DEF LapsOf, CompletesLap
  <2>2. CASE t.at = 0 /\ t.arrivals # 0
    BY <2>2, <1>1, <1>4 DEF LapsOf, CompletesLap
  <2>3. CASE t.at # 0
    BY <2>3, <1>1, <1>4 DEF LapsOf, CompletesLap
  <2> QED BY <2>1, <2>2, <2>3
<1> QED BY <1>5, <1>6 DEF u

LEMMA OnDockedStep ==
  ASSUME FollowInv, OnDocked
  PROVE  FollowInv'
<1>1. /\ Handle("dock") /\ Handled /\ UNCHANGED <<off, order>>
      /\ Here \in System
  BY Handling DEF OnDocked, Handled, app, FollowInv
<1>2. /\ row' # Nothing => UNCHANGED row
      /\ plots' \in Seq(InFlight)
      /\ trade' # Nothing => trade # Nothing /\ TripOK(trade') /\ LapsOf(trade', rounds')
      /\ rounds' \in Nat
      /\ trade' = Nothing /\ trade # Nothing => row' = Nothing \/ ghost'
      /\ ghost' = ghost \/ ghost' = TRUE
  <2>1. CASE trade = Nothing \/ Stop(trade) # Here
    BY <2>1 DEF OnDocked, FollowInv, TypeInv, LapInv
  <2>2. CASE trade # Nothing /\ Stop(trade) = Here /\ EndsHere(trade)
    BY <2>2 DEF OnDocked, EndTour, FollowInv, TypeInv, LapInv
  <2>3. CASE trade # Nothing /\ Stop(trade) = Here /\ ~EndsHere(trade)
    <3> DEFINE next == trade.stops[After(trade) + 1]
    <3>1. TripOK(trade) /\ LapsOf(trade, rounds)
      BY <2>3 DEF FollowInv, LapInv
    <3>2. next \in System
      <4>1. /\ trade.stops \in Seq(System) /\ Len(trade.stops) \in Nat \ {0}
            /\ trade.at \in Nat
        BY <3>1, LenProperties DEF TripOK, Trip
      <4>2. After(trade) + 1 \in 1..Len(trade.stops)
        BY <4>1 DEF After
      <4> QED BY <4>1, <4>2, ElementOfSeq
    <3>3. /\ UNCHANGED <<row, ghost>>
          /\ (next # Here /\ Asks("trade", next)) \/ UNCHANGED plots
          /\ Advance
      BY <2>3 DEF OnDocked
    <3>4. TripOK(trade') /\ LapsOf(trade', rounds')
      <4>1. CASE UNCHANGED <<trade, rounds>>
        BY <3>1, <4>1
      <4>2. CASE ~UNCHANGED <<trade, rounds>>
        BY <2>3, <3>1, <3>3, <4>2, Arrival DEF Advance
      <4> QED BY <4>1, <4>2
    <3>5. plots' \in Seq(InFlight)
      BY <3>2, <3>3, Asked DEF FollowInv, TypeInv
    <3>6. trade' # Nothing /\ rounds' \in Nat
      BY <3>4, NothingIsNoTrip DEF TripOK, LapsOf
    <3> QED BY <2>3, <3>3, <3>4, <3>5, <3>6
  <2> QED BY <2>1, <2>2, <2>3
<1>3. TypeInv'
  <2>1. ghost' \in BOOLEAN /\ (row' # Nothing => OnRoute(row'))
    BY <1>2 DEF FollowInv, TypeInv
  <2> QED BY <1>1, <1>2, <2>1, HandlerTypes DEF FollowInv, TypeInv
<1>4. LapInv'
  BY <1>1, <1>2 DEF FollowInv, LapInv
<1>5. LeftInv'
  BY <1>1, <1>2 DEF FollowInv, LeftInv
<1> QED BY <1>3, <1>4, <1>5 DEF FollowInv

LEMMA OnUndockedStep ==
  ASSUME FollowInv, OnUndocked
  PROVE  FollowInv'
<1>1. Handle("undock") /\ Handled /\ UNCHANGED <<row, trade, rounds, off, ghost, order>>
  BY DEF OnUndocked, Handled, app, history
<1>2. plots' \in Seq(InFlight)
  BY Asked DEF OnUndocked, FollowInv, TypeInv
<1>3. TypeInv'
  BY <1>1, <1>2, HandlerTypes DEF FollowInv, TypeInv
<1> QED BY <1>1, <1>3, Untroubled DEF Untouched

LEMMA WatchStep ==
  ASSUME FollowInv, Watch
  PROVE  FollowInv'
BY SyncStep, OnWitchspaceStep, OnJumpStep, OnCarriedStep, OnDockedStep, OnUndockedStep DEF Watch
-----------------------------------------------------------------------------
(* Plots in flight.                                                         *)

LEMMA PlotReadsStep ==
  ASSUME FollowInv, NEW i \in DOMAIN plots, PlotReads(i)
  PROVE  FollowInv'
<1> DEFINE to == Target(plots[i])
<1>1. plots[i] \in InFlight /\ DOMAIN plots = 1..Len(plots) /\ Len(plots) \in Nat
  BY LenProperties, ElementOfSeq DEF FollowInv, TypeInv
<1>2. to \in System
  <2>1. CASE plots[i].for = "trade"
    BY <2>1, <1>1 DEF Target, InFlight
  <2>2. CASE plots[i].for = "replan"
    <3>1. row # Nothing /\ OnRoute(row)
      BY <2>2 DEF PlotReads, FollowInv, TypeInv
    <3> QED BY <2>2, <3>1, RowPlace, RoutePathType DEF Target, Dest
  <2> QED BY <1>1, <2>1, <2>2 DEF InFlight
<1>3. place.sys \in System
  BY DEF FollowInv, TypeInv, Place
<1>4. PICK path \in Paths[<<place.sys, to>>] :
        plots' = [plots EXCEPT ![i].path = path, ![i].dest = to]
  BY DEF PlotReads
<1>5. path \in RoutePath /\ Last(path) = to
  BY <1>2, <1>3, PlannedPath
<1> HIDE DEF to
<1>6. PICK p \in InFlight : p = [plots[i] EXCEPT !.path = path, !.dest = to]
  BY <1>1, <1>2, <1>5 DEF InFlight
<1>7. plots' = [plots EXCEPT ![i] = p]
  BY <1>1, <1>4, <1>6 DEF InFlight
<1>8. plots' \in Seq(InFlight)
  BY <1>1, <1>7, ExceptSeq DEF FollowInv, TypeInv
<1>9. up
  BY DEF FollowInv, TypeInv
<1>10. UNCHANGED <<game, watcher, row, trade, app, history>>
  BY DEF PlotReads
<1>11. TypeInv'
  BY <1>8, <1>9, <1>10 DEF FollowInv, TypeInv, game, watcher, app, history
<1> QED BY <1>10, <1>11, Untroubled DEF Untouched, app, history

LEMMA Fewer ==
  ASSUME FollowInv, NEW i \in DOMAIN plots, Ended(i)
  PROVE  up /\ plots' \in Seq(InFlight)
BY Shorter DEF Ended, FollowInv, TypeInv

LEMMA PlotFailsStep ==
  ASSUME FollowInv, NEW i \in DOMAIN plots, PlotFails(i)
  PROVE  FollowInv'
<1>1. UNCHANGED <<game, watcher, row, trade, app, history>> /\ up /\ plots' \in Seq(InFlight)
  BY Fewer DEF PlotFails
<1>2. TypeInv'
  BY <1>1 DEF FollowInv, TypeInv, game, watcher, app, history
<1> QED BY <1>1, <1>2, Untroubled DEF Untouched, app, history

LEMMA Saved ==
  ASSUME FollowInv, NEW r, OnRoute(r), NEW late \in BOOLEAN, SaveRow(r, late)
  PROVE  row' = r /\ ghost' = late /\ off' \in BOOLEAN
BY DEF SaveRow, AlignedWith

LEMMA SavePlotStep ==
  ASSUME FollowInv, NEW i \in DOMAIN plots, SavePlot(i)
  PROVE  FollowInv'
<1>1. plots[i] \in InFlight
  BY ElementOfSeq, LenProperties DEF FollowInv, TypeInv
<1>2. plots[i].path \in RoutePath
  BY <1>1 DEF InFlight, SavePlot
<1>3. /\ UNCHANGED <<game, watcher, trade, app, rounds>>
      /\ up /\ plots' \in Seq(InFlight)
  BY Fewer DEF SavePlot
<1>4. CASE plots[i].for = "trade"
  <2> DEFINE r == [path |-> plots[i].path, next |-> 1, src |-> "trade"]
             late == order.do = "stop" \/ (trade = Nothing /\ order.do # "start")
  <2>1. OnRoute(r)
    <3>1. 1 \in 1..Len(plots[i].path)
      BY <1>2, RoutePathType
    <3> QED BY <1>2, <3>1, RouteType DEF Source
  <2>2. SaveRow(r, late)
    BY <1>4 DEF SavePlot
  <2> HIDE DEF r
  <2>3. row' = r /\ ghost' = late /\ off' \in BOOLEAN
    BY <2>1, <2>2, Saved
  <2> HIDE DEF late
  <2>4. TypeInv'
    BY <1>3, <2>1, <2>3 DEF FollowInv, TypeInv, game, watcher, app, late
  <2>5. LapInv'
    BY <1>3 DEF FollowInv, LapInv, app
  <2>6. LeftInv'
    BY <1>3, <2>3 DEF LeftInv, app, late
  <2> QED BY <2>4, <2>5, <2>6 DEF FollowInv
<1>5. CASE plots[i].for # "trade"
  <2> DEFINE r == [path |-> plots[i].path, next |-> StartAt(plots[i].path, place.sys),
                   src |-> "replan"]
  <2>1. OnRoute(r) /\ r.src = "replan"
    BY <1>2, StartAtType, RouteType DEF Source
  <2>2. SaveRow(r, FALSE)
    BY <1>5 DEF SavePlot
  <2> HIDE DEF r
  <2>3. row' = r /\ ghost' = FALSE /\ off' \in BOOLEAN
    BY <2>1, <2>2, Saved
  <2>4. TypeInv'
    BY <1>3, <2>1, <2>3 DEF FollowInv, TypeInv, game, watcher, app
  <2>5. LapInv'
    BY <1>3 DEF FollowInv, LapInv, app
  <2>6. LeftInv'
    BY <2>1, <2>3 DEF LeftInv
  <2> QED BY <2>4, <2>5, <2>6 DEF FollowInv
<1> QED BY <1>4, <1>5

LEMMA PlotStep ==
  ASSUME FollowInv, Plot
  PROVE  FollowInv'
BY PlotReadsStep, PlotFailsStep, SavePlotStep DEF Plot
-----------------------------------------------------------------------------
(* The window's commands.                                                   *)

LEMMA Commanded ==
  ASSUME TypeInv, Command
  PROVE  up /\ up' /\ order = Idle /\ orders' \in 0..MaxOrders
BY FollowAssumption DEF FollowAssumption, TypeInv, Command

LEMMA OrderTypes ==
  ASSUME order \in Order
  PROVE  /\ order.do = "none" => order = Idle
         /\ order.do = "activate" => order.path \in RoutePath /\ order.next \in Nat /\ order.trading \in BOOLEAN
         /\ order.do = "advance" => order.route \in Route
         /\ order.do = "start" => order.met \in BOOLEAN /\ order.trade \in Trip
         /\ order.do = "stop" => order.had \in BOOLEAN
BY DEF Order, Idle

LEMMA RouteActivateStep ==
  ASSUME FollowInv, NEW path \in Plans, RouteActivate(path)
  PROVE  FollowInv'
<1>1. up /\ up' /\ order = Idle /\ orders' \in 0..MaxOrders
  BY Commanded DEF RouteActivate, FollowInv
<1>2. /\ order' = [do |-> "activate", path |-> path, next |-> StartAt(path, place.sys),
                   trading |-> trade # Nothing]
      /\ UNCHANGED <<game, watcher, row, trade, plots, history>>
  BY DEF RouteActivate
<1>3. path \in RoutePath /\ StartAt(path, place.sys) \in 1..Len(path)
  BY StartAtType DEF RoutePath
<1>4. StartAt(path, place.sys) \in Nat
  BY <1>3, RoutePathType
<1>5. /\ order' \in Order /\ order'.do = "activate"
      /\ order'.path = path /\ order'.next = StartAt(path, place.sys)
  BY <1>2, <1>3, <1>4 DEF Order
<1>6. TypeInv'
  BY <1>1, <1>2, <1>3, <1>5 DEF FollowInv, TypeInv, game, watcher, history
<1>7. LapInv'
  BY <1>2, <1>5 DEF FollowInv, LapInv, history
<1>8. LeftInv'
  BY <1>2, <1>5 DEF FollowInv, LeftInv, history
<1> QED BY <1>6, <1>7, <1>8 DEF FollowInv

LEMMA ActivateStopsTradeStep ==
  ASSUME FollowInv, ActivateStopsTrade
  PROVE  FollowInv'
<1>1. /\ order.do = "activate" /\ trade' \in {Nothing, trade} /\ order' = [order EXCEPT !.trading = FALSE]
      /\ UNCHANGED <<game, watcher, row, plots, orders, up, history>>
  BY DEF ActivateStopsTrade
<1>2. order \in [do : {"activate"}, path : RoutePath, next : Nat, trading : BOOLEAN]
  BY <1>1 DEF FollowInv, TypeInv, Order
<1>3. /\ order' \in Order /\ order'.do = "activate"
      /\ order'.path = order.path /\ order'.next = order.next
  BY <1>1, <1>2 DEF Order
<1>4. TypeInv'
  BY <1>1, <1>2, <1>3 DEF FollowInv, TypeInv, game, watcher, history, Idle
<1>5. LapInv'
  BY <1>1, <1>3 DEF FollowInv, LapInv, history
<1>6. LeftInv'
  BY <1>1, <1>3 DEF FollowInv, LeftInv, history
<1> QED BY <1>4, <1>5, <1>6 DEF FollowInv

\* The last write of a command leaves none under way.
LEMMA Written ==
  ASSUME TypeInv, NEW do, do # "none", Writes(do)
  PROVE  /\ up /\ order.do = do /\ order' = Idle /\ order'.do = "none" /\ order' \in Order
         /\ UNCHANGED <<orders, up>>
BY DEF Writes, TypeInv, Order, Idle

LEMMA ActivateSavesStep ==
  ASSUME FollowInv, ActivateSaves
  PROVE  FollowInv'
<1> DEFINE r == [path |-> order.path, next |-> order.next, src |-> "plot"]
<1>1. /\ up /\ order.do = "activate" /\ order'.do = "none" /\ order' \in Order
      /\ UNCHANGED <<orders, up>>
  BY Written DEF ActivateSaves, FollowInv
<1>2. OnRoute(r) /\ r.src = "plot"
  BY <1>1, OrderTypes, RouteType DEF FollowInv, TypeInv, Source
<1>3. SaveRow(r, FALSE) /\ UNCHANGED <<game, watcher, trade, plots, rounds>>
  BY DEF ActivateSaves
<1> HIDE DEF r
<1>4. row' = r /\ ghost' = FALSE /\ off' \in BOOLEAN
  BY <1>2, <1>3, Saved
<1>5. TypeInv'
  BY <1>1, <1>2, <1>3, <1>4 DEF FollowInv, TypeInv, game, watcher
<1>6. LapInv'
  BY <1>1, <1>3 DEF FollowInv, LapInv
<1>7. LeftInv'
  BY <1>2, <1>4 DEF LeftInv
<1> QED BY <1>5, <1>6, <1>7 DEF FollowInv

LEMMA RouteClearStep ==
  ASSUME FollowInv, RouteClear
  PROVE  FollowInv'
<1>1. up /\ up' /\ order = Idle /\ orders' \in 0..MaxOrders
  BY Commanded DEF RouteClear, FollowInv
<1>2. row' = Nothing /\ UNCHANGED <<game, watcher, trade, plots, order, history>>
  BY DEF RouteClear
<1>3. TypeInv'
  BY <1>1, <1>2 DEF FollowInv, TypeInv, game, watcher, history
<1> QED BY <1>2, <1>3 DEF FollowInv, LapInv, LeftInv, history

LEMMA RouteAdvanceStep ==
  ASSUME FollowInv, RouteAdvance
  PROVE  FollowInv'
<1>1. up /\ up' /\ order = Idle /\ orders' \in 0..MaxOrders
  BY Commanded DEF RouteAdvance, FollowInv
<1>2. row # Nothing /\ OnRoute(row) /\ UNCHANGED <<game, watcher, row, trade, plots, history>>
  BY DEF RouteAdvance, FollowInv, TypeInv
<1>3. PICK n \in {row.next - 1, row.next + 1} :
        order' = [do |-> "advance", route |-> [row EXCEPT !.next = Clamp(n, Len(row.path))]]
  BY DEF RouteAdvance
<1>4. n \in Int /\ Len(row.path) \in Nat \ {0}
  BY <1>2, RowPlace DEF OnRoute, Route
<1>5. Clamp(n, Len(row.path)) \in 1..Len(row.path)
  BY <1>4, ClampType
<1>6. OnRoute([row EXCEPT !.next = Clamp(n, Len(row.path))])
  BY <1>2, <1>5, SameRow
<1>7. order' \in Order /\ order'.do = "advance" /\ OnRoute(order'.route)
  BY <1>3, <1>6 DEF Order, OnRoute
<1>8. TypeInv'
  BY <1>1, <1>2, <1>7 DEF FollowInv, TypeInv, game, watcher, history
<1>9. LapInv'
  BY <1>2, <1>7 DEF FollowInv, LapInv, history
<1>10. LeftInv'
  BY <1>1, <1>2, <1>7 DEF FollowInv, LeftInv, history, Idle
<1> QED BY <1>8, <1>9, <1>10 DEF FollowInv

LEMMA AdvanceSavesStep ==
  ASSUME FollowInv, AdvanceSaves
  PROVE  FollowInv'
<1>1. /\ up /\ order.do = "advance" /\ order'.do = "none" /\ order' \in Order
      /\ UNCHANGED <<orders, up>>
  BY Written DEF AdvanceSaves, FollowInv
<1>2. OnRoute(order.route)
  BY <1>1 DEF FollowInv, TypeInv
<1>3. /\ SaveRow(order.route, order.route.src = "trade" /\ trade = Nothing)
      /\ UNCHANGED <<game, watcher, trade, plots, rounds>>
  BY DEF AdvanceSaves
<1>4. /\ row' = order.route /\ off' \in BOOLEAN
      /\ ghost' = (order.route.src = "trade" /\ trade = Nothing)
  BY <1>2, <1>3, Saved
<1>5. TypeInv'
  BY <1>1, <1>2, <1>3, <1>4 DEF FollowInv, TypeInv, game, watcher
<1>6. LapInv'
  BY <1>1, <1>3 DEF FollowInv, LapInv
<1>7. LeftInv'
  BY <1>1, <1>3, <1>4 DEF LeftInv
<1> QED BY <1>5, <1>6, <1>7 DEF FollowInv

LEMMA RotatedType ==
  ASSUME NEW stops \in Seq(System), NEW i \in 1..Len(stops)
  PROVE  Rotated(stops, i) \in Seq(System) /\ Len(Rotated(stops, i)) = Len(stops)
<1>1. Len(stops) \in Nat /\ \A j \in 1..Len(stops) : stops[j] \in System
  BY LenProperties, ElementOfSeq
<1>2. SubSeq(stops, i, Len(stops)) \in Seq(System) /\ Len(SubSeq(stops, i, Len(stops))) = Len(stops) - i + 1
  <2>1. \A j \in i..Len(stops) : stops[j] \in System
    BY <1>1
  <2> QED BY <1>1, <2>1, SubSeqProperties
<1>3. SubSeq(stops, 1, i - 1) \in Seq(System) /\ Len(SubSeq(stops, 1, i - 1)) = i - 1
  <2>1. \A j \in 1..(i - 1) : stops[j] \in System
    BY <1>1
  <2> QED BY <1>1, <2>1, SubSeqProperties
<1>4. /\ Rotated(stops, i) \in Seq(System)
      /\ Len(Rotated(stops, i)) = (Len(stops) - i + 1) + (i - 1)
  BY <1>2, <1>3, ConcatProperties DEF Rotated
<1> QED BY <1>1, <1>4

\* What a start puts in its order.
LEMMA Begun ==
  ASSUME NEW stops \in Seq(System), stops # <<>>, NEW cycle \in BOOLEAN,
         cycle => Len(stops) > 1, NEW met \in BOOLEAN
  PROVE  LET t == [stops |-> stops, cycle |-> cycle,
                   at |-> IF met THEN 1 % Len(stops) ELSE 0, arrivals |-> 0, lap |-> 1]
         IN  TripOK(t) /\ LapsOf(t, IF met THEN 1 ELSE 0) /\ stops[t.at + 1] \in System
<1> DEFINE at == IF met THEN 1 % Len(stops) ELSE 0
<1>1. Len(stops) \in Nat \ {0}
  BY EmptySeq
<1>2. at \in Nat /\ at < Len(stops) /\ (met /\ Len(stops) > 1 => at # 0)
  BY <1>1
<1>3. stops[at + 1] \in System
  BY <1>1, <1>2, ElementOfSeq
<1> HIDE DEF at
<1> QED BY <1>1, <1>2, <1>3 DEF TripOK, Trip, LapsOf, at

LEMMA TradeFollowStartStep ==
  ASSUME FollowInv, NEW r \in Rounds, NEW i \in {0, On(r.stops, place.sys)},
         TradeFollowStart(r, i)
  PROVE  FollowInv'
<1> DEFINE stops == IF i = 0 THEN r.stops ELSE Rotated(r.stops, i)
           at == IF i = 0 THEN 0 ELSE 1 % Len(stops)
           t == [stops |-> stops, cycle |-> r.cycle, at |-> at, arrivals |-> 0, lap |-> 1]
<1>1. up /\ up' /\ order = Idle /\ orders' \in 0..MaxOrders
  BY Commanded DEF TradeFollowStart, FollowInv
<1>2. /\ order' = [do |-> "start", met |-> i # 0, trade |-> t]
      /\ Asks("trade", stops[at + 1]) \/ UNCHANGED plots
      /\ UNCHANGED <<game, watcher, row, trade, history>>
  BY DEF TradeFollowStart
<1>3. /\ r.stops \in Seq(System) /\ r.stops # <<>> /\ r.cycle \in BOOLEAN
      /\ r.cycle => Len(r.stops) > 1
  BY FollowAssumption DEF FollowAssumption
<1>4. i \in 0..Len(r.stops) /\ Len(r.stops) \in Nat \ {0}
  BY <1>3, OnType, EmptySeq
<1>5. stops \in Seq(System) /\ Len(stops) = Len(r.stops)
  BY <1>3, <1>4, RotatedType
<1> HIDE DEF stops
<1>6. stops # <<>>
  BY <1>4, <1>5, EmptySeq
<1>7. /\ TripOK(t) /\ LapsOf(t, IF i # 0 THEN 1 ELSE 0) /\ stops[at + 1] \in System
  <2>1. PICK met \in BOOLEAN : met = (i # 0)
    OBVIOUS
  <2>2. /\ at = IF met THEN 1 % Len(stops) ELSE 0
        /\ t = [stops |-> stops, cycle |-> r.cycle,
                at |-> IF met THEN 1 % Len(stops) ELSE 0, arrivals |-> 0, lap |-> 1]
        /\ t.at = at
    BY <2>1
  <2> HIDE DEF t, at
  <2>3. TripOK(t) /\ LapsOf(t, IF met THEN 1 ELSE 0) /\ stops[t.at + 1] \in System
    BY <1>3, <1>5, <1>6, <2>2, Begun
  <2> QED BY <2>1, <2>2, <2>3
<1> HIDE DEF t, at
<1>8. /\ order' \in Order /\ order'.do = "start" /\ order'.trade = t
      /\ order'.met = (i # 0)
  BY <1>2, <1>7 DEF Order, TripOK
<1>9. plots' \in Seq(InFlight)
  BY <1>2, <1>7, Asked DEF FollowInv, TypeInv
<1>10. TypeInv'
  BY <1>1, <1>2, <1>8, <1>9 DEF FollowInv, TypeInv, game, watcher, history
<1>11. LapInv'
  BY <1>2, <1>7, <1>8 DEF FollowInv, LapInv, history
<1>12. LeftInv'
  BY <1>1, <1>2, <1>8 DEF FollowInv, LeftInv, history
<1> QED BY <1>10, <1>11, <1>12 DEF FollowInv

LEMMA StartSavesStep ==
  ASSUME FollowInv, StartSaves
  PROVE  FollowInv'
<1>1. /\ up /\ order.do = "start" /\ order'.do = "none" /\ order' \in Order
      /\ UNCHANGED <<orders, up>>
  BY Written DEF StartSaves, FollowInv
<1>2. /\ trade' = order.trade /\ rounds' = IF order.met THEN 1 ELSE 0
      /\ UNCHANGED <<game, watcher, row, plots, off, ghost>>
  BY DEF StartSaves
<1>3. /\ TripOK(trade') /\ LapsOf(trade', rounds') /\ rounds' \in Nat /\ trade' # Nothing
  BY <1>1, <1>2, NothingIsNoTrip DEF FollowInv, LapInv, TripOK
<1>4. TypeInv'
  BY <1>1, <1>2 DEF FollowInv, TypeInv, game, watcher
<1>5. LapInv'
  BY <1>1, <1>3 DEF LapInv
<1>6. LeftInv'
  BY <1>1, <1>3 DEF LeftInv
<1> QED BY <1>4, <1>5, <1>6 DEF FollowInv

LEMMA TradeFollowStopStep ==
  ASSUME FollowInv, TradeFollowStop
  PROVE  FollowInv'
<1>1. up /\ up' /\ order = Idle /\ orders' \in 0..MaxOrders
  BY Commanded DEF TradeFollowStop, FollowInv
<1>2. /\ trade # Nothing
      /\ order' = [do |-> "stop", had |-> row # Nothing /\ row.src = "trade"]
      /\ UNCHANGED <<game, watcher, row, trade, plots, history>>
  BY DEF TradeFollowStop
<1>3. /\ order' \in Order /\ order'.do = "stop"
      /\ order'.had = (row # Nothing /\ row.src = "trade")
  BY <1>2 DEF Order
<1>4. TypeInv'
  BY <1>1, <1>2, <1>3 DEF FollowInv, TypeInv, game, watcher, history
<1>5. LapInv'
  BY <1>2, <1>3 DEF FollowInv, LapInv, history
<1>6. LeftInv'
  BY <1>2, <1>3 DEF LeftInv, history
<1> QED BY <1>4, <1>5, <1>6 DEF FollowInv

LEMMA StopSavesStep ==
  ASSUME FollowInv, StopSaves
  PROVE  FollowInv'
<1>1. /\ up /\ order.do = "stop" /\ order'.do = "none" /\ order' \in Order
      /\ UNCHANGED <<orders, up>>
  BY Written DEF StopSaves, FollowInv
<1>2. /\ trade' \in {Nothing, trade}
      /\ \/ row' = Nothing /\ UNCHANGED ghost
         \/ UNCHANGED row /\ (ghost' = TRUE \/ (~order.had /\ UNCHANGED ghost))
      /\ UNCHANGED <<game, watcher, plots, rounds, off>>
  BY DEF StopSaves
<1>3. TypeInv'
  BY <1>1, <1>2 DEF FollowInv, TypeInv, game, watcher
<1>4. LapInv'
  BY <1>1, <1>2 DEF FollowInv, LapInv
<1>5. LeftInv'
  BY <1>1, <1>2 DEF FollowInv, LeftInv
<1> QED BY <1>3, <1>4, <1>5 DEF FollowInv

LEMMA OrderFailsStep ==
  ASSUME FollowInv, OrderFails
  PROVE  FollowInv'
<1>1. /\ up /\ order.do \in {"activate", "advance", "start"} /\ order'.do = "none"
      /\ order' \in Order /\ UNCHANGED <<orders, up>>
  BY Written DEF OrderFails, FollowInv
<1>2. /\ ghost' = (ghost \/ (trade = Nothing /\ order.do # "advance"))
      /\ UNCHANGED <<game, watcher, row, trade, plots, rounds, off>>
  BY DEF OrderFails
<1>3. TypeInv'
  BY <1>1, <1>2 DEF FollowInv, TypeInv, game, watcher
<1>4. LapInv'
  BY <1>1, <1>2 DEF FollowInv, LapInv
<1>5. LeftInv'
  BY <1>1, <1>2 DEF FollowInv, LeftInv
<1> QED BY <1>3, <1>4, <1>5 DEF FollowInv

LEMMA WindowStep ==
  ASSUME FollowInv, Window
  PROVE  FollowInv'
BY RouteActivateStep, ActivateStopsTradeStep, ActivateSavesStep, RouteClearStep,
   RouteAdvanceStep, AdvanceSavesStep, TradeFollowStartStep, StartSavesStep,
   TradeFollowStopStep, StopSavesStep, OrderFailsStep DEF Window
-----------------------------------------------------------------------------
(* The app's life.                                                          *)

LEMMA ExitStep ==
  ASSUME FollowInv, Exit
  PROVE  FollowInv'
<1>1. /\ orders' \in 0..MaxOrders
  BY FollowAssumption DEF FollowAssumption, FollowInv, TypeInv, Exit
<1>2. /\ up' = FALSE /\ seeded' = FALSE /\ boot' = "done" /\ pass' = "idle"
      /\ pending' = <<>> /\ plots' = <<>> /\ order' = Idle
      /\ ghost' = (ghost \/ order.do \in {"start", "activate"})
      /\ UNCHANGED <<game, unread, place, row, trade, rounds, off>>
  BY DEF Exit
<1>3. order' \in Order /\ order'.do = "none" /\ pending' \in Seq(Event) /\ plots' \in Seq(InFlight)
  BY <1>2 DEF Order, Idle
<1>4. TypeInv'
  BY <1>1, <1>2, <1>3 DEF FollowInv, TypeInv, game
<1>5. LapInv'
  BY <1>2, <1>3 DEF FollowInv, LapInv
<1>6. LeftInv'
  BY <1>2, <1>3 DEF FollowInv, LeftInv
<1> QED BY <1>4, <1>5, <1>6 DEF FollowInv

LEMMA StartStep ==
  ASSUME FollowInv, Start
  PROVE  FollowInv'
<1>1. /\ up' = TRUE /\ boot' = "sync"
      /\ UNCHANGED <<game, unread, place, pending, seeded, pass, row, trade, plots, order,
                     orders, history>>
  BY DEF Start
<1>2. TypeInv'
  BY <1>1 DEF FollowInv, TypeInv, game, history
<1> QED BY <1>1, <1>2, Untroubled DEF Untouched, history

LEMMA InitialSyncFailsStep ==
  ASSUME FollowInv, InitialSyncFails
  PROVE  FollowInv'
<1>1. /\ boot' = "done"
      /\ UNCHANGED <<game, unread, place, pending, seeded, pass, row, trade, plots, app, history>>
  BY DEF InitialSyncFails
<1>2. TypeInv'
  BY <1>1 DEF FollowInv, TypeInv, game, app, history
<1> QED BY <1>1, <1>2, Untroubled DEF Untouched, app, history

LEMMA ReconcileStep ==
  ASSUME FollowInv, Reconcile
  PROVE  FollowInv'
<1>1. /\ boot' = "done"
      /\ UNCHANGED <<game, unread, place, pending, seeded, pass, trade, plots, app, rounds, ghost>>
  BY DEF Reconcile
<1>2. /\ row' # Nothing => row # Nothing /\ OnRoute(row') /\ row'.src = row.src
      /\ off' \in BOOLEAN
  <2>1. CASE row # Nothing /\ On(row.path, place.sys) # 0 /\ row.next # On(row.path, place.sys)
    <3>1. OnRoute(row) /\ On(row.path, place.sys) \in Nat \ {0}
      BY <2>1, RowPlace DEF FollowInv, TypeInv
    <3>2. (MoveCursor(On(row.path, place.sys)) \/ UNCHANGED row) /\ off' \in BOOLEAN
      BY <2>1 DEF Reconcile
    <3> QED BY <2>1, <3>1, <3>2, MovedRow
  <2>2. CASE ~(row # Nothing /\ On(row.path, place.sys) # 0 /\ row.next # On(row.path, place.sys))
    BY <2>2 DEF Reconcile, FollowInv, TypeInv
  <2> QED BY <2>1, <2>2
<1>3. TypeInv'
  BY <1>1, <1>2 DEF FollowInv, TypeInv, game, app
<1>4. LapInv'
  BY <1>1 DEF FollowInv, LapInv, app
<1>5. LeftInv'
  BY <1>1, <1>2 DEF FollowInv, LeftInv, app
<1> QED BY <1>3, <1>4, <1>5 DEF FollowInv

LEMMA LifeStep ==
  ASSUME FollowInv, Life
  PROVE  FollowInv'
BY ExitStep, StartStep, InitialSyncStep, InitialSyncFailsStep, ReconcileStep DEF Life
-----------------------------------------------------------------------------
(* What follows for every behaviour.                                        *)

LEMMA FollowStart ==
  ASSUME Init
  PROVE  FollowInv
<1>1. ship \in Place /\ place \in Place
  <2>1. Home \subseteq System
    BY FollowAssumption DEF FollowAssumption
  <2>2. PICK s \in Home : ship = [sys |-> s, docked |-> TRUE]
    BY DEF Init
  <2>3. place = ship
    BY DEF Init
  <2> QED BY <2>1, <2>2, <2>3 DEF Place
<1>2. jumps \in 0..MaxJumps /\ orders \in 0..MaxOrders
  BY FollowAssumption DEF FollowAssumption, Init
<1>3. TypeInv
  <2>1. /\ order \in Order /\ order.do = "none"
        /\ unread \in Seq(Event) /\ pending \in Seq(Event) /\ plots \in Seq(InFlight)
    BY DEF Init, Order, Idle
  <2>2. /\ pass = "idle" /\ seeded = TRUE /\ boot = "done" /\ row = Nothing /\ tunnel = Nothing
        /\ up = TRUE /\ off = FALSE /\ ghost = FALSE
    BY DEF Init
  <2> QED BY <1>1, <1>2, <2>1, <2>2 DEF TypeInv
<1> QED BY <1>3 DEF Init, FollowInv, LapInv, LeftInv, Idle

LEMMA FollowStep ==
  ASSUME FollowInv, [Next]_vars
  PROVE  FollowInv'
<1>1. CASE UNCHANGED vars
  BY <1>1 DEF vars, game, watcher, app, history, FollowInv, TypeInv, LapInv, LeftInv
<1> QED BY <1>1, FlyStep, WatchStep, PlotStep, WindowStep, LifeStep DEF Next

LEMMA FollowInvariance == Spec => []FollowInv
BY FollowStart, FollowStep, PTL DEF Spec

\* The rows, the plots in flight and the command under way are what the code
\* takes them for, whatever interleaves: the cursor of active_route is on its
\* path (follow.rs indexes hops with it) and the lap of a trade route is at most
\* one more than its arrivals.
THEOREM FollowTypes == Spec => []TypeOK
<1>1. FollowInv => TypeOK
  <2> SUFFICES ASSUME FollowInv PROVE TypeOK
    OBVIOUS
  <2>1. row # Nothing => row \in Route /\ row.next \in 1..Len(row.path)
    BY DEF FollowInv, TypeInv, OnRoute
  <2>2. trade # Nothing => /\ trade.at \in 0..(Len(trade.stops) - 1)
                           /\ trade.lap \in 1..(trade.arrivals + 1)
    BY LenProperties DEF FollowInv, LapInv, TripOK, Trip, LapsOf
  <2>3. \A i \in DOMAIN plots :
          /\ plots[i].for \in {"trade", "replan"} /\ plots[i].dest \in System \cup {Nothing}
          /\ plots[i].path = <<>> \/ Last(plots[i].path) = plots[i].dest
    <3> SUFFICES ASSUME NEW i \in DOMAIN plots
                 PROVE  plots[i] \in InFlight
      BY DEF InFlight
    <3> QED BY ElementOfSeq, LenProperties DEF FollowInv, TypeInv
  <2> QED BY <2>1, <2>2, <2>3 DEF FollowInv, TypeInv, TypeOK
<1> QED BY <1>1, FollowInvariance, PTL

\* However arrivals, plots, commands and restarts interleave, trade_follow.rs
\* counts one lap per recorded flight round the stops, also when the follow began
\* in dock and when arrivals could not be saved.
THEOREM LapsAreCounted == Spec => []LapsAreLoops
<1>1. FollowInv => LapsAreLoops
  BY DEF FollowInv, LapInv, LapsOf, LapsAreLoops
<1> QED BY <1>1, FollowInvariance, PTL

\* The jump route of a trade route goes with it: only a save that comes late, an
\* exit or an error between a command's two writes, or a deletion that failed
\* unnoticed (trade_follow.rs:541) leaves one behind.
THEOREM NoLegIsLeft == Spec => []TradeLeavesNothing
<1>1. FollowInv => TradeLeavesNothing
  BY DEF FollowInv, LeftInv, TradeLeavesNothing, Idle
<1> QED BY <1>1, FollowInvariance, PTL
-----------------------------------------------------------------------------
(* The cursor and the journal.  Between the ship and the cursor stand the   *)
(* lines no sync has read and the events the watcher has not handled; the   *)
(* last move among them, by a jump or with a carrier, leads to where they    *)
(* leave the ship, and a start after it to where the ship's jump leads       *)
(* (Trail).  So the cursor is right, or a move is still to come, of which a  *)
(* jump puts it right and any other leaves it and says so (OnCourse).       *)

Moving == {"jump", "carry"}
Moves(q) == {i \in DOMAIN q : q[i].e \in Moving}

Lands(q, s) == \A i \in Moves(q) : (\A j \in Moves(q) : j <= i) => q[i].sys = s

Leads(q, s) ==
  \A i \in DOMAIN q : q[i].e = "start" /\ (\A j \in Moves(q) : j < i) => q[i].sys = s

Trail ==
  /\ Lands(unread, ship.sys) /\ Lands(pending, place.sys)
  /\ Leads(unread, tunnel)
  /\ Moves(unread) = {} => place.sys = ship.sys /\ Leads(pending, tunnel)

Aimed ==
  \/ Moves(pending) # {} \/ Moves(unread) # {}
  \/ AlignedWith(row, place.sys)
  \/ tunnel # Nothing /\ AlignedWith(row, tunnel)

OnCourse == up /\ seeded /\ ~off => Aimed

CourseInv == Trail /\ OnCourse

LEMMA Queue ==
  ASSUME NEW q \in Seq(Event)
  PROVE  /\ DOMAIN q = 1..Len(q) /\ Len(q) \in Nat
         /\ Moves(q) = {i \in 1..Len(q) : q[i].e \in Moving}
         /\ \A i \in 1..Len(q) : q[i] \in Event
BY LenProperties, ElementOfSeq DEF Moves

\* A line at the end of a queue.
LEMMA Lined ==
  ASSUME NEW q \in Seq(Event), NEW v \in Event
  PROVE  LET r == Append(q, v)
         IN  /\ v.e \in Moving => Moves(r) # {} /\ Lands(r, v.sys) /\ \A t : Leads(r, t)
             /\ v.e \notin Moving => (Moves(r) = {} <=> Moves(q) = {})
                                /\ \A s : Lands(q, s) => Lands(r, s)
             /\ v.e = "start" /\ Leads(q, Nothing) => Leads(r, v.sys)
             /\ v.e \notin Moving \cup {"start"} => \A t : Leads(q, t) => Leads(r, t)
<1> DEFINE r == Append(q, v)
           n == Len(q) + 1
<1>1. /\ r \in Seq(Event) /\ Len(r) = n /\ r[n] = v
      /\ \A i \in 1..Len(q) : r[i] = q[i]
      /\ Len(q) \in Nat
  BY AppendProperties, Queue
<1> HIDE DEF r
<1>2. /\ DOMAIN q = 1..Len(q) /\ DOMAIN r = 1..n
      /\ Moves(q) = {i \in 1..Len(q) : q[i].e \in Moving}
      /\ Moves(r) = {i \in 1..n : r[i].e \in Moving}
  BY <1>1, Queue
<1>3. ASSUME v.e \in Moving
      PROVE  Moves(r) # {} /\ Lands(r, v.sys) /\ \A t : Leads(r, t)
  <2>1. n \in Moves(r)
    BY <1>1, <1>2, <1>3
  <2> QED BY <2>1, <1>1, <1>2 DEF Lands, Leads
<1>4. ASSUME v.e \notin Moving
      PROVE  Moves(r) = Moves(q)
  BY <1>1, <1>2, <1>4
<1>5. ASSUME v.e \notin Moving, NEW s, Lands(q, s)
      PROVE  Lands(r, s)
  BY <1>1, <1>2, <1>4, <1>5 DEF Lands
<1>6. ASSUME v.e = "start", Leads(q, Nothing)
      PROVE  Leads(r, v.sys)
  <2>0. v.e \notin Moving
    BY <1>6 DEF Moving
  <2> SUFFICES ASSUME NEW i \in 1..n, r[i].e = "start", \A j \in Moves(r) : j < i
               PROVE  r[i].sys = v.sys
    BY <1>2 DEF Leads
  <2>1. CASE i = n
    BY <2>1, <1>1
  <2>2. CASE i # n
    <3>1. i \in 1..Len(q) /\ r[i] = q[i] /\ q[i] \in Event
      BY <2>2, <1>1, Queue
    <3>2. q[i].sys = Nothing
      BY <3>1, <1>2, <1>4, <1>6, <2>0 DEF Leads
    <3> QED BY <3>1, <3>2, FollowAssumption DEF Event, FollowAssumption
  <2> QED BY <2>1, <2>2
<1>7. ASSUME v.e \notin Moving \cup {"start"}, NEW t, Leads(q, t)
      PROVE  Leads(r, t)
  BY <1>1, <1>2, <1>4, <1>7 DEF Leads
<1> QED BY <1>3, <1>4, <1>5, <1>6, <1>7 DEF r

\* A queue read behind another.
LEMMA Joined ==
  ASSUME NEW p \in Seq(Event), NEW u \in Seq(Event)
  PROVE  /\ Moves(p \o u) = {} <=> Moves(p) = {} /\ Moves(u) = {}
         /\ Moves(u) # {} =>
              /\ \A s : Lands(u, s) => Lands(p \o u, s)
              /\ \A t : Leads(u, t) => Leads(p \o u, t)
         /\ Moves(u) = {} =>
              /\ \A s : Lands(p, s) => Lands(p \o u, s)
              /\ \A t : Leads(p, t) /\ Leads(u, t) => Leads(p \o u, t)
<1> DEFINE m == Len(p)
           n == Len(p) + Len(u)
           q == p \o u
<1>1. /\ q \in Seq(Event) /\ Len(q) = n
      /\ m \in Nat /\ Len(u) \in Nat
  BY ConcatProperties, Queue
<1>2. /\ \A i \in 1..m : i \in 1..n /\ q[i] = p[i]
      /\ \A i \in 1..Len(u) : m + i \in 1..n /\ q[m + i] = u[i]
      /\ \A k \in 1..n : k \in 1..m \/ (k - m \in 1..Len(u) /\ q[k] = u[k - m])
  BY <1>1, ConcatProperties
<1>3. /\ DOMAIN p = 1..m /\ DOMAIN u = 1..Len(u) /\ DOMAIN q = 1..n
      /\ Moves(p) = {i \in 1..m : p[i].e \in Moving}
      /\ Moves(u) = {i \in 1..Len(u) : u[i].e \in Moving}
      /\ Moves(q) = {i \in 1..n : q[i].e \in Moving}
  BY <1>1, Queue
<1> HIDE DEF q, m, n
<1>4. /\ \A i \in Moves(p) : i \in Moves(q)
      /\ \A i \in Moves(u) : m + i \in Moves(q)
      /\ \A k \in Moves(q) : k \in Moves(p) \/ k - m \in Moves(u)
  BY <1>2, <1>3
<1>5. Moves(q) = {} <=> Moves(p) = {} /\ Moves(u) = {}
  BY <1>4
<1>6. ASSUME Moves(u) # {}
      PROVE  /\ \A s : Lands(u, s) => Lands(q, s)
             /\ \A t : Leads(u, t) => Leads(q, t)
  <2>1. PICK l \in Moves(u) : TRUE
    BY <1>6
  <2>2. ASSUME NEW k \in 1..n, \A j \in Moves(q) : j <= k
        PROVE  /\ k - m \in 1..Len(u) /\ q[k] = u[k - m]
               /\ \A j \in Moves(u) : j <= k - m
    <3>1. l \in 1..Len(u) /\ m + l <= k
      BY <1>3, <1>4, <2>1, <2>2
    <3>2. k - m \in 1..Len(u) /\ q[k] = u[k - m]
      BY <1>1, <1>2, <3>1
    <3>3. ASSUME NEW j \in Moves(u)
          PROVE  j <= k - m
      <4>1. m + j <= k /\ j \in Nat
        BY <1>3, <1>4, <2>2
      <4> QED BY <4>1, <1>1 DEF n
    <3> QED BY <3>2, <3>3
  <2>3. ASSUME NEW s, Lands(u, s)
        PROVE  Lands(q, s)
    <3> SUFFICES ASSUME NEW k \in Moves(q), \A j \in Moves(q) : j <= k
                 PROVE  q[k].sys = s
      BY DEF Lands
    <3>1. k \in 1..n /\ q[k].e \in Moving
      BY <1>3
    <3>2. k - m \in Moves(u) /\ q[k] = u[k - m] /\ \A j \in Moves(u) : j <= k - m
      BY <1>3, <2>2, <3>1
    <3> QED BY <2>3, <3>2 DEF Lands
  <2>4. ASSUME NEW t, Leads(u, t)
        PROVE  Leads(q, t)
    <3> SUFFICES ASSUME NEW k \in 1..n, q[k].e = "start", \A j \in Moves(q) : j < k
                 PROVE  q[k].sys = t
      BY <1>3 DEF Leads
    <3>1. \A j \in Moves(q) : j <= k
      BY <1>3, <1>1
    <3>2. k - m \in 1..Len(u) /\ q[k] = u[k - m] /\ \A j \in Moves(u) : j <= k - m
      BY <2>2, <3>1
    <3>3. ASSUME NEW j \in Moves(u)
          PROVE  j < k - m
      <4>1. j # k - m
        BY <1>3, <3>2
      <4> QED BY <4>1, <3>2, <1>3, <1>1
    <3> QED BY <2>4, <1>3, <3>2, <3>3 DEF Leads
  <2> QED BY <2>3, <2>4
<1>7. ASSUME Moves(u) = {}
      PROVE  /\ \A s : Lands(p, s) => Lands(q, s)
             /\ \A t : Leads(p, t) /\ Leads(u, t) => Leads(q, t)
  <2>1. Moves(q) = Moves(p) /\ \A k \in Moves(p) : q[k] = p[k]
    BY <1>2, <1>3, <1>4, <1>7
  <2>2. ASSUME NEW s, Lands(p, s)
        PROVE  Lands(q, s)
    BY <2>1, <2>2 DEF Lands
  <2>3. ASSUME NEW t, Leads(p, t), Leads(u, t)
        PROVE  Leads(q, t)
    <3> SUFFICES ASSUME NEW k \in 1..n, q[k].e = "start", \A j \in Moves(q) : j < k
                 PROVE  q[k].sys = t
      BY <1>3 DEF Leads
    <3>1. CASE k \in 1..m
      BY <3>1, <1>2, <1>3, <2>1, <2>3 DEF Leads
    <3>2. CASE k \notin 1..m
      BY <3>2, <1>2, <1>3, <1>7, <2>3 DEF Leads
    <3> QED BY <3>1, <3>2
  <2> QED BY <2>2, <2>3
<1> QED BY <1>5, <1>6, <1>7 DEF q

\* The head of a queue handled.
LEMMA Beheaded ==
  ASSUME NEW p \in Seq(Event), p # <<>>
  PROVE  /\ \A s : Lands(p, s) => Lands(Tail(p), s)
         /\ \A t : Leads(p, t) => Leads(Tail(p), t)
         /\ Head(p).e \notin Moving /\ Moves(Tail(p)) = {} => Moves(p) = {}
         /\ Head(p).e \in Moving /\ Moves(Tail(p)) = {} =>
              \A s : Lands(p, s) => Head(p).sys = s
         /\ Head(p).e = "start" /\ Moves(Tail(p)) = {} =>
              \A t : Leads(p, t) => Head(p).sys = t
<1> DEFINE q == Tail(p)
           n == Len(p)
<1>1. /\ q \in Seq(Event) /\ Len(q) = n - 1 /\ n \in Nat \ {0} /\ Head(p) = p[1]
      /\ \A i \in 1..(n - 1) : q[i] = p[i + 1]
  <2>1. n \in Nat \ {0}
    BY EmptySeq
  <2>2. q \in Seq(Event) /\ Len(q) = n - 1 /\ \A i \in 1..Len(q) : q[i] = p[i + 1]
    BY HeadTailProperties
  <2>3. Head(p) = p[1]
    OBVIOUS
  <2> QED BY <2>1, <2>2, <2>3
<1>2. /\ DOMAIN p = 1..n /\ DOMAIN q = 1..(n - 1)
      /\ Moves(p) = {i \in 1..n : p[i].e \in Moving}
      /\ Moves(q) = {i \in 1..(n - 1) : q[i].e \in Moving}
  BY <1>1, Queue
<1> HIDE DEF q
<1>3. /\ \A i \in Moves(q) : i + 1 \in Moves(p)
      /\ \A k \in Moves(p) : k = 1 \/ k - 1 \in Moves(q)
      /\ \A k \in Moves(p) : k \in Nat /\ k >= 1
  BY <1>1, <1>2
<1>4. ASSUME NEW s, Lands(p, s)
      PROVE  Lands(q, s)
  <2> SUFFICES ASSUME NEW i \in Moves(q), \A j \in Moves(q) : j <= i
               PROVE  q[i].sys = s
    BY DEF Lands
  <2>1. i + 1 \in Moves(p) /\ q[i] = p[i + 1] /\ i \in Nat
    BY <1>1, <1>2, <1>3
  <2>2. ASSUME NEW k \in Moves(p)
        PROVE  k <= i + 1
    <3>1. CASE k = 1
      BY <3>1, <2>1
    <3>2. CASE k # 1
      <4>1. k - 1 \in Moves(q) /\ k \in Nat
        BY <3>2, <1>3
      <4>2. k - 1 <= i
        BY <4>1
      <4> QED BY <4>1, <4>2, <2>1
    <3> QED BY <3>1, <3>2
  <2> QED BY <2>1, <2>2, <1>4 DEF Lands
<1>5. ASSUME NEW t, Leads(p, t)
      PROVE  Leads(q, t)
  <2> SUFFICES ASSUME NEW i \in 1..(n - 1), q[i].e = "start", \A j \in Moves(q) : j < i
               PROVE  q[i].sys = t
    BY <1>2 DEF Leads
  <2>1. i + 1 \in 1..n /\ q[i] = p[i + 1] /\ i \in Nat /\ i >= 1
    BY <1>1
  <2>2. ASSUME NEW k \in Moves(p)
        PROVE  k < i + 1
    <3>1. CASE k = 1
      BY <3>1, <2>1
    <3>2. CASE k # 1
      <4>1. k - 1 \in Moves(q) /\ k \in Nat
        BY <3>2, <1>3
      <4>2. k - 1 < i
        BY <4>1
      <4> QED BY <4>1, <4>2, <2>1
    <3> QED BY <3>1, <3>2
  <2> QED BY <2>1, <2>2, <1>2, <1>5 DEF Leads
<1>6. ASSUME Moves(q) = {}
      PROVE  Moves(p) = IF Head(p).e \in Moving THEN {1} ELSE {}
  BY <1>1, <1>2, <1>3, <1>6
<1>7. ASSUME Moves(q) = {}, Head(p).e \in Moving, NEW s, Lands(p, s)
      PROVE  Head(p).sys = s
  BY <1>1, <1>6, <1>7 DEF Lands
<1>8. ASSUME Moves(q) = {}, Head(p).e = "start", NEW t, Leads(p, t)
      PROVE  Head(p).sys = t
  BY <1>1, <1>2, <1>6, <1>8 DEF Leads, Moving
<1> QED BY <1>4, <1>5, <1>6, <1>7, <1>8 DEF q

\* A queue read, or one nothing is read of.
LEMMA ReadTrail ==
  ASSUME TypeInv, Trail, ReadJournal, UNCHANGED <<ship, tunnel>>
  PROVE  /\ Trail' /\ place' = ship /\ Moves(unread') = {}
         /\ seeded => (Moves(pending') = {} => Moves(pending) = {} /\ Moves(unread) = {})
<1>1. Moves(<<>>) = {} /\ (\A s : Lands(<<>>, s) /\ Leads(<<>>, s))
  BY DEF Moves, Lands, Leads
<1>2. unread' = <<>> /\ place' = ship
  BY DEF ReadJournal
<1>3. CASE seeded
  <2>1. pending' = pending \o unread /\ pending \in Seq(Event) /\ unread \in Seq(Event)
    BY <1>3 DEF ReadJournal, TypeInv
  <2>2. CASE Moves(unread) # {}
    <3>1. Lands(pending', ship.sys) /\ Leads(pending', tunnel) /\ Moves(pending') # {}
      BY <2>1, <2>2, Joined DEF Trail
    <3> QED BY <1>1, <1>2, <3>1 DEF Trail
  <2>3. CASE Moves(unread) = {}
    <3>1. /\ Lands(pending', ship.sys) /\ Leads(pending', tunnel)
          /\ Moves(pending') = {} => Moves(pending) = {}
      BY <2>1, <2>3, Joined DEF Trail
    <3> QED BY <1>1, <1>2, <2>3, <3>1 DEF Trail
  <2> QED BY <2>2, <2>3
<1>4. CASE ~seeded
  <2>1. pending' = <<>>
    BY <1>4 DEF ReadJournal
  <2> QED BY <1>1, <1>2, <1>4, <2>1 DEF Trail
<1> QED BY <1>3, <1>4 DEF TypeInv

\* The row and the places are left alone, and no jump is handled.
LEMMA StaysAimed ==
  ASSUME Trail', Aimed, Moves(pending') = {} /\ Moves(unread') = {}
                          => Moves(pending) = {} /\ Moves(unread) = {},
         place'.sys = place.sys, tunnel # Nothing => tunnel' = tunnel, UNCHANGED row
  PROVE  Aimed'
BY DEF Aimed, AlignedWith

LEMMA FlyCourse ==
  ASSUME FollowInv, CourseInv, Fly
  PROVE  CourseInv'
<1>1. unread \in Seq(Event) /\ Trail /\ ship \in Place
  BY DEF FollowInv, TypeInv, CourseInv
<1>2. UNCHANGED <<place, pending, seeded, pass, boot, row, up, off>>
  BY DEF Fly, Charge, Arrive, Dock, Undock, Carry, Flown, app, history
<1>3. Trail' /\ (Moves(unread') # {} \/ (Moves(unread) = {} /\ (tunnel # Nothing => tunnel' = tunnel)))
  <2>1. ASSUME NEW s \in System, Charge(s)
        PROVE  /\ Trail'
               /\ Moves(unread') # {} \/ (Moves(unread) = {} /\ tunnel = Nothing)
    <3> DEFINE v == [e |-> "start", sys |-> s]
    <3>1. unread' = Append(unread, v) /\ tunnel = Nothing /\ tunnel' = s /\ ship' = ship
      BY <2>1 DEF Charge, Log
    <3>2. v \in Event /\ v.e = "start" /\ v.sys = s /\ v.e \notin Moving
      BY DEF Event, Moving
    <3> HIDE DEF v
    <3>3. /\ Moves(unread') = {} <=> Moves(unread) = {}
          /\ Lands(unread', ship.sys) /\ Leads(unread', s)
      BY <1>1, <3>1, <3>2, Lined DEF Trail
    <3>4. Moves(unread) = {} => Leads(pending, s)
      <4> SUFFICES ASSUME Leads(pending, Nothing) PROVE Leads(pending, s)
        BY <1>1, <3>1 DEF Trail
      <4>1. pending \in Seq(Event)
        BY DEF FollowInv, TypeInv
      <4>2. \A i \in DOMAIN pending : pending[i].sys \in System
        BY <4>1, Queue DEF Event
      <4> QED BY <4>2, FollowAssumption DEF Leads, FollowAssumption
    <3> QED BY <1>1, <1>2, <3>1, <3>3, <3>4 DEF Trail
  <2>2. CASE Arrive
    <3> DEFINE v == [e |-> "jump", sys |-> tunnel]
    <3>1. unread' = Append(unread, v) /\ ship'.sys = tunnel /\ tunnel # Nothing
      BY <1>1, <2>2 DEF Arrive, Log, Place
    <3>2. v \in Event /\ v.e \in Moving /\ v.sys = tunnel
      BY <3>1 DEF Event, FollowInv, TypeInv, Moving
    <3> HIDE DEF v
    <3>3. Moves(unread') # {} /\ Lands(unread', tunnel) /\ Leads(unread', tunnel')
      BY <1>1, <3>1, <3>2, Lined
    <3> QED BY <1>1, <1>2, <3>1, <3>3 DEF Trail
  <2>3. CASE Dock \/ Undock
    <3>1. PICK e \in {"dock", "undock"} : unread' = Append(unread, [e |-> e, sys |-> ship.sys])
      BY <2>3 DEF Dock, Undock, Log
    <3> DEFINE v == [e |-> e, sys |-> ship.sys]
    <3>2. v \in Event /\ v.e \notin Moving /\ v.e \notin Moving \cup {"start"}
      BY <1>1 DEF Event, Place, Moving
    <3>3. tunnel' = tunnel /\ ship'.sys = ship.sys
      BY <1>1, <2>3 DEF Dock, Undock, Place
    <3> HIDE DEF v
    <3>4. /\ Moves(unread') = {} <=> Moves(unread) = {}
          /\ Lands(unread', ship.sys) /\ Leads(unread', tunnel)
      BY <1>1, <3>1, <3>2, Lined DEF Trail, v
    <3> QED BY <1>1, <1>2, <3>3, <3>4 DEF Trail
  <2>4. ASSUME NEW s \in System, Carry(s)
        PROVE  Trail' /\ Moves(unread') # {}
    <3> DEFINE v == [e |-> "carry", sys |-> s]
    <3>1. unread' = Append(unread, v) /\ ship'.sys = s
      BY <2>4 DEF Carry, Log
    <3>2. v \in Event /\ v.e \in Moving /\ v.sys = s
      BY DEF Event, Moving
    <3> HIDE DEF v
    <3>3. Moves(unread') # {} /\ Lands(unread', s) /\ Leads(unread', tunnel')
      BY <1>1, <3>1, <3>2, Lined
    <3> QED BY <1>1, <1>2, <3>1, <3>3 DEF Trail
  <2> QED BY <2>1, <2>2, <2>3, <2>4 DEF Fly
<1>4. Aimed => Aimed'
  <2>1. CASE Moves(unread') # {}
    BY <2>1 DEF Aimed
  <2>2. CASE Moves(unread') = {}
    BY <1>2, <1>3, <2>2, StaysAimed
  <2> QED BY <2>1, <2>2
<1> QED BY <1>2, <1>3, <1>4 DEF CourseInv, OnCourse

LEMMA SyncCourse ==
  ASSUME FollowInv, CourseInv, Sync
  PROVE  CourseInv'
<1>1. /\ ReadJournal /\ UNCHANGED <<ship, tunnel, boot, row, up>> /\ seeded' = TRUE
      /\ off' = IF seeded THEN off ELSE off \/ ~AlignedWith(row, ship.sys)
  BY DEF Sync, game, app
<1>2. TypeInv /\ Trail
  BY DEF FollowInv, CourseInv
<1>3. /\ Trail' /\ place' = ship /\ Moves(unread') = {}
      /\ seeded => (Moves(pending') = {} => Moves(pending) = {} /\ Moves(unread) = {})
  BY <1>1, <1>2, ReadTrail
<1>4. CASE seeded
  <2>1. ASSUME Aimed PROVE Aimed'
    <3>1. CASE Moves(pending') # {}
      BY <3>1 DEF Aimed
    <3>2. CASE Moves(pending') = {}
      <4>1. Moves(pending) = {} /\ Moves(unread) = {} /\ place'.sys = place.sys
        BY <1>2, <1>3, <1>4, <3>2 DEF Trail
      <4> QED BY <1>1, <1>3, <2>1, <4>1, StaysAimed
    <3> QED BY <3>1, <3>2
  <2> QED BY <1>1, <1>3, <1>4, <2>1 DEF CourseInv, OnCourse
<1>5. CASE ~seeded
  <2>1. ~off' => AlignedWith(row', place'.sys)
    BY <1>1, <1>3, <1>5 DEF AlignedWith
  <2> QED BY <1>3, <2>1 DEF CourseInv, OnCourse, Aimed
<1> QED BY <1>4, <1>5 DEF FollowInv, TypeInv

\* Before the watcher has its watermark there is nothing to show; after, the
\* start-up sync only queues what it reads.
LEMMA InitialSyncCourse ==
  ASSUME FollowInv, CourseInv, InitialSync
  PROVE  CourseInv'
<1>1. ReadJournal /\ UNCHANGED <<ship, tunnel, row, seeded, off, up>>
  BY DEF InitialSync, game, app, history
<1>2. TypeInv /\ Trail
  BY DEF FollowInv, CourseInv
<1>3. /\ Trail' /\ place' = ship /\ Moves(unread') = {}
      /\ seeded => (Moves(pending') = {} => Moves(pending) = {} /\ Moves(unread) = {})
  BY <1>1, <1>2, ReadTrail
<1>4. ASSUME seeded, Aimed PROVE Aimed'
  <2>1. CASE Moves(pending') # {}
    BY <2>1 DEF Aimed
  <2>2. CASE Moves(pending') = {}
    <3>1. Moves(pending) = {} /\ Moves(unread) = {} /\ place'.sys = place.sys
      BY <1>2, <1>3, <1>4, <2>2 DEF Trail
    <3> QED BY <1>1, <1>3, <1>4, <3>1, StaysAimed
  <2> QED BY <2>1, <2>2
<1> QED BY <1>1, <1>3, <1>4 DEF CourseInv, OnCourse

\* An event handled: where the queue led it still leads.
LEMMA HandledTrail ==
  ASSUME TypeInv, Trail, NEW e, Handle(e), Handled
  PROVE  /\ Trail' /\ UNCHANGED <<unread, place, tunnel, seeded, boot, up>>
         /\ e \notin Moving /\ Moves(pending') = {} => Moves(pending) = {}
         /\ e \in Moving /\ Moves(pending') = {} => Here = place.sys
         /\ e = "start" /\ Moves(pending') = {} /\ Moves(unread) = {} => Here = tunnel
<1>1. /\ pending \in Seq(Event) /\ pending # <<>> /\ pending' = Tail(pending)
      /\ Head(pending).e = e /\ Here = Head(pending).sys
  BY DEF Handle, TypeInv, Here
<1>2. UNCHANGED <<unread, place, ship, tunnel, seeded, boot, up>>
  BY DEF Handled, game, app
<1>3. /\ \A s : Lands(pending, s) => Lands(pending', s)
      /\ \A t : Leads(pending, t) => Leads(pending', t)
  BY <1>1, Beheaded
<1>4. Trail'
  BY <1>2, <1>3 DEF Trail
<1> QED BY <1>1, <1>2, <1>4, Beheaded DEF Trail

LEMMA MovedThere ==
  ASSUME row \in Route, NEW s, MoveCursor(On(row.path, s))
  PROVE  AlignedWith(row', s)
BY DEF MoveCursor, AlignedWith, Route

LEMMA OnWitchspaceCourse ==
  ASSUME FollowInv, CourseInv, OnWitchspace
  PROVE  CourseInv'
<1>1. Handle("start") /\ Handled /\ off' = off
  BY DEF OnWitchspace, history
<1>2. /\ Trail' /\ UNCHANGED <<unread, place, tunnel, seeded, boot, up>>
      /\ Moves(pending') = {} => Moves(pending) = {}
      /\ Moves(pending') = {} /\ Moves(unread) = {} => Here = tunnel
  BY <1>1, HandledTrail DEF FollowInv, CourseInv, Moving
<1>3. ASSUME Aimed, Moves(pending') = {}, Moves(unread) = {}
      PROVE  Aimed'
  <2>1. Here = tunnel /\ Here \in System
    BY <1>1, <1>2, <1>3, Handling DEF FollowInv
  <2>2. CASE row # Nothing /\ row' = [row EXCEPT !.next = On(row.path, Here)]
    <3>1. row'.path = row.path /\ row'.next = On(row.path, Here)
      BY <2>2 DEF FollowInv, TypeInv, OnRoute, Route
    <3>2. AlignedWith(row', tunnel') /\ tunnel' # Nothing
      BY <1>2, <2>1, <3>1, NothingIsNoTrip DEF AlignedWith
    <3> QED BY <3>2 DEF Aimed
  <2>3. CASE UNCHANGED row
    BY <1>2, <1>3, <2>3, StaysAimed
  <2> QED BY <2>2, <2>3 DEF OnWitchspace
<1>4. Aimed => Aimed'
  BY <1>2, <1>3 DEF Aimed
<1> QED BY <1>1, <1>2, <1>4 DEF CourseInv, OnCourse

\* A jump handled puts the cursor right, or the row says it is not.
LEMMA OnJumpCourse ==
  ASSUME FollowInv, CourseInv, OnJump
  PROVE  CourseInv'
<1>1. Handle("jump") /\ Handled
  BY DEF OnJump
<1>2. /\ Trail' /\ UNCHANGED <<unread, place, tunnel, seeded, boot, up>>
      /\ Moves(pending') = {} => Here = place.sys
  BY <1>1, HandledTrail DEF FollowInv, CourseInv, Moving
<1>3. ~off' => AlignedWith(row', Here)
  <2>1. CASE row = Nothing
    BY <2>1 DEF OnJump, AlignedWith
  <2>2. CASE row # Nothing /\ On(row.path, Here) = 0
    BY <2>2 DEF OnJump, AlignedWith
  <2>3. CASE row # Nothing /\ On(row.path, Here) # 0
    <3>1. CASE MoveCursor(On(row.path, Here))
      BY <2>3, <3>1, MovedThere DEF FollowInv, TypeInv, OnRoute
    <3>2. CASE Left
      BY <3>2 DEF Left, AlignedWith
    <3> QED BY <2>3, <3>1, <3>2 DEF OnJump
  <2> QED BY <2>1, <2>2, <2>3
<1>4. ~off' => Aimed'
  BY <1>2, <1>3 DEF Aimed
<1> QED BY <1>2, <1>4 DEF CourseInv, OnCourse

\* Carried, the ship is elsewhere and the cursor where it was: off says so.
LEMMA OnCarriedCourse ==
  ASSUME FollowInv, CourseInv, OnCarried
  PROVE  CourseInv'
<1>1. Handle("carry") /\ Handled /\ Left
  BY DEF OnCarried
<1>2. /\ Trail' /\ UNCHANGED <<unread, place, tunnel, seeded, boot, up>>
      /\ Moves(pending') = {} => Here = place.sys
  BY <1>1, HandledTrail DEF FollowInv, CourseInv, Moving
<1>3. ~off' => AlignedWith(row', Here)
  BY <1>1 DEF Left, AlignedWith
<1>4. ~off' => Aimed'
  BY <1>2, <1>3 DEF Aimed
<1> QED BY <1>2, <1>4 DEF CourseInv, OnCourse

LEMMA OnDockedCourse ==
  ASSUME FollowInv, CourseInv, OnDocked \/ OnUndocked
  PROVE  CourseInv'
<1>1. PICK e \in {"dock", "undock"} : Handle(e)
  BY DEF OnDocked, OnUndocked
<1>2. Handled /\ off' = off /\ (row' = row \/ row' = Nothing)
  BY DEF OnDocked, OnUndocked, EndTour, history
<1>3. /\ Trail' /\ UNCHANGED <<unread, place, tunnel, seeded, boot, up>>
      /\ Moves(pending') = {} => Moves(pending) = {}
  BY <1>1, <1>2, HandledTrail DEF FollowInv, CourseInv, Moving
<1>4. Aimed => Aimed'
  <2>1. CASE row' = row
    BY <1>3, <2>1, StaysAimed
  <2>2. CASE row' = Nothing
    BY <2>2 DEF Aimed, AlignedWith
  <2> QED BY <1>2, <2>1, <2>2
<1> QED BY <1>2, <1>3, <1>4 DEF CourseInv, OnCourse

\* Nothing of the queue moves; the row is left alone, is deleted, or is saved.
LEMMA RowCourse ==
  ASSUME CourseInv, UNCHANGED <<game, watcher, up>>,
         \/ UNCHANGED <<row, off>>
         \/ row' = Nothing /\ UNCHANGED off
         \/ \E r, late : SaveRow(r, late)
  PROVE  CourseInv'
<1>1. Trail' /\ UNCHANGED <<unread, pending, place, tunnel, seeded, boot, up>>
  BY DEF game, watcher, CourseInv, Trail, Lands, Leads, Moves
<1>2. CASE UNCHANGED <<row, off>>
  BY <1>1, <1>2, StaysAimed DEF CourseInv, OnCourse
<1>3. CASE row' = Nothing /\ UNCHANGED off
  BY <1>1, <1>3 DEF CourseInv, OnCourse, Aimed, AlignedWith
<1>4. CASE \E r, late : SaveRow(r, late)
  <2>1. off' = ~AlignedWith(row', place.sys)
    BY <1>4 DEF SaveRow, AlignedWith
  <2>2. ~off' => Aimed'
    BY <1>1, <2>1 DEF Aimed, AlignedWith
  <2> QED BY <1>1, <2>2 DEF CourseInv, OnCourse
<1> QED BY <1>2, <1>3, <1>4

LEMMA PlotCourse ==
  ASSUME CourseInv, Plot
  PROVE  CourseInv'
<1>1. PICK i \in DOMAIN plots : PlotReads(i) \/ PlotFails(i) \/ SavePlot(i)
  BY DEF Plot
<1>2. CASE PlotReads(i) \/ PlotFails(i)
  BY <1>2, RowCourse DEF PlotReads, PlotFails, app, history
<1>3. CASE SavePlot(i)
  <2>1. \E r, late : SaveRow(r, late)
    BY <1>3 DEF SavePlot
  <2> QED BY <1>3, <2>1, RowCourse DEF SavePlot, app
<1> QED BY <1>1, <1>2, <1>3

LEMMA WindowCourse ==
  ASSUME CourseInv, Window
  PROVE  CourseInv'
<1>1. CASE (\E path \in Plans : RouteActivate(path)) \/ ActivateStopsTrade \/ RouteAdvance
  BY <1>1, RowCourse DEF RouteActivate, ActivateStopsTrade, RouteAdvance, Command, history
<1>2. CASE \/ \E r \in Rounds : \E i \in {0, On(r.stops, place.sys)} : TradeFollowStart(r, i)
           \/ StartSaves \/ TradeFollowStop \/ OrderFails
  BY <1>2, RowCourse DEF TradeFollowStart, StartSaves, TradeFollowStop, OrderFails, Command,
                        Writes, history
<1>3. CASE RouteClear \/ StopSaves
  BY <1>3, RowCourse DEF RouteClear, StopSaves, Command, Writes, history
<1>4. CASE ActivateSaves \/ AdvanceSaves
  <2>1. \E r, late : SaveRow(r, late)
    BY <1>4 DEF ActivateSaves, AdvanceSaves
  <2> QED BY <1>4, <2>1, RowCourse DEF ActivateSaves, AdvanceSaves, Writes
<1> QED BY <1>1, <1>2, <1>3, <1>4 DEF Window

LEMMA ReconcileCourse ==
  ASSUME FollowInv, CourseInv, Reconcile
  PROVE  CourseInv'
<1>1. Trail' /\ UNCHANGED <<unread, pending, place, tunnel>>
  BY DEF Reconcile, game, CourseInv, Trail, Lands, Leads, Moves
<1>2. UNCHANGED <<seeded, up>> /\ (~off' => AlignedWith(row', place.sys))
  <2>1. CASE row # Nothing /\ On(row.path, place.sys) # 0 /\ row.next # On(row.path, place.sys)
    <3>1. (MoveCursor(On(row.path, place.sys)) \/ off' = TRUE) /\ row \in Route
      BY <2>1 DEF Reconcile, FollowInv, TypeInv, OnRoute
    <3> QED BY <3>1, MovedThere DEF Reconcile, app
  <2>2. CASE ~(row # Nothing /\ On(row.path, place.sys) # 0 /\ row.next # On(row.path, place.sys))
    BY <2>2 DEF Reconcile, AlignedWith, app
  <2> QED BY <2>1, <2>2
<1> QED BY <1>1, <1>2 DEF CourseInv, OnCourse, Aimed, AlignedWith

LEMMA LifeCourse ==
  ASSUME FollowInv, CourseInv, Life
  PROVE  CourseInv'
<1>1. CASE Exit
  <2>1. up' = FALSE /\ pending' = <<>> /\ UNCHANGED <<ship, tunnel, unread, place>>
    BY <1>1 DEF Exit, game
  <2>2. \A s : Lands(<<>>, s) /\ Leads(<<>>, s)
    BY DEF Moves, Lands, Leads
  <2> QED BY <2>1, <2>2 DEF CourseInv, OnCourse, Trail
<1>2. CASE Start
  <2>1. ~seeded' /\ UNCHANGED <<ship, tunnel, unread, place, pending>>
    BY <1>2 DEF Start, game, FollowInv, TypeInv
  <2> QED BY <2>1 DEF CourseInv, OnCourse, Trail
<1>3. CASE InitialSyncFails
  <2>1. UNCHANGED <<ship, tunnel, unread, place, pending, seeded, row, up, off>>
    BY <1>3 DEF InitialSyncFails, game, app, history
  <2> QED BY <2>1 DEF CourseInv, OnCourse, Trail, Aimed, AlignedWith
<1> QED BY <1>1, <1>2, <1>3, InitialSyncCourse, ReconcileCourse DEF Life

LEMMA CourseStart ==
  ASSUME Init
  PROVE  CourseInv
<1>1. \A s : Lands(<<>>, s) /\ Leads(<<>>, s)
  BY DEF Moves, Lands, Leads
<1> QED BY <1>1 DEF Init, CourseInv, Trail, OnCourse, Aimed, AlignedWith

LEMMA CourseStep ==
  ASSUME FollowInv, CourseInv, [Next]_vars
  PROVE  CourseInv'
<1>1. CASE UNCHANGED vars
  BY <1>1, RowCourse DEF vars, app, history
<1>2. CASE Watch
  BY <1>2, SyncCourse, OnWitchspaceCourse, OnJumpCourse, OnCarriedCourse, OnDockedCourse DEF Watch
<1> QED BY <1>1, <1>2, FlyCourse, PlotCourse, WindowCourse, LifeCourse DEF Next

\* When nothing of the journal is left to read or to handle, the cursor of a
\* followed route the ship is on stands at the ship, or at the system its jump
\* leads to: neither the order of witchspace entries, arrivals, plots and
\* commands nor an exit and a start (follow.rs reconciles there) leaves it behind.
\* Placed where the ship was not, or left by a write that failed, by the first
\* pass, or by a carrier or a respawn (watcher.rs hands on_jump the FSDJump only),
\* it is behind until the next jump on the route or the next start.
THEOREM CursorIsAligned == Spec => []AlignedWhenQuiet
<1>1. CourseInv => AlignedWhenQuiet
  BY DEF CourseInv, OnCourse, Aimed, Moves, AlignedWhenQuiet
<1>2. FollowInv /\ CourseInv /\ [Next]_vars => CourseInv'
  BY CourseStep
<1> QED BY <1>1, <1>2, CourseStart, FollowInvariance, PTL DEF Spec
=============================================================================

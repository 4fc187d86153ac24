------------------------------- MODULE Follow -------------------------------
(***************************************************************************)
(* The desktop's followers: a jump route with a cursor (active_route), and *)
(* above it a trade route that plots a jump route to each stop and advances *)
(* when the ship docks there (trade_route).  Both are rows of the          *)
(* commander's store.  They are moved by the journal watcher, which handles *)
(* one event after the other, by the window's commands, which read and     *)
(* write in two steps, and by plots in flight, which save what they plotted *)
(* whenever they end.  Meanwhile the ship flies, or is carried along, and   *)
(* the app may be away.  A write of a row may fail: a command that reports  *)
(* it ends, the watcher goes on to the next event.                          *)
(***************************************************************************)
EXTENDS Naturals, Sequences, SequencesExt

CONSTANTS
    System,   \* the systems, each with one station
    Home,     \* where the ship may be at first (a bound)
    Paths,    \* what the planner may answer for a start and a destination
    Plans,    \* the routes the commander may follow from the Route tab
    Rounds,   \* the trade routes and tours the commander may start
    Nothing,  \* no row
    MaxJumps, \* jumps of the ship (a bound)
    MaxOrders,\* commands and restarts (a bound)
    MaxLag,   \* events the game has written and no sync has read (a bound)
    MaxPlots  \* plots in flight (a bound)

\* A route with a loop has two stops at least: stops_from_legs gives a leg's two ends.
ASSUME FollowAssumption ==
    /\ Home \subseteq System
    /\ Paths \in [System \X System -> SUBSET Seq(System)]
    /\ \A p \in System \X System : \A path \in Paths[p] : path # <<>> /\ Last(path) = p[2]
    /\ \A path \in Plans : path # <<>> /\ path \in Seq(System)
    /\ Rounds \subseteq [stops : Seq(System), cycle : BOOLEAN]
    /\ \A r \in Rounds : r.stops # <<>> /\ (r.cycle => Len(r.stops) > 1)
    /\ {MaxJumps, MaxOrders, MaxLag, MaxPlots} \subseteq Nat
    /\ Nothing \notin System
    /\ Nothing \notin [stops : Seq(System), cycle : BOOLEAN, at : Nat, arrivals : Nat, lap : Nat]

VARIABLES
    ship,     \* the game: where the ship is
    tunnel,   \* the game: the system a jump under way leads to
    jumps,
    unread,   \* lines of the journal no sync has read
    place,    \* the store: where the last line read leaves the ship
    pending,  \* events of the store behind the watcher's watermark
    seeded,   \* the watcher has its watermark
    pass,     \* the watcher: "idle", "due" after a sync, "on" with the store locked
    boot,     \* the start-up job: "sync", "place" before its reconcile, "done"
    row,      \* active_route: path, the cursor, and who placed it
    trade,    \* trade_route
    plots,    \* plots in flight
    order,    \* the command under way, between its reads and its writes
    orders,
    up,       \* the app runs
    rounds,   \* history: arrivals at the first stop recorded since the follow began
    off,      \* history: the cursor was placed, or left, where the ship was not
    ghost     \* history: the row was placed for a trade route not there

game == <<ship, tunnel, jumps>>
watcher == <<unread, place, pending, seeded, pass, boot>>
app == <<order, orders, up>>
history == <<rounds, off, ghost>>
vars == <<game, watcher, row, trade, plots, app, history>>

Source == {"plot", "trade", "replan"}
Place == [sys : System, docked : BOOLEAN]
Route == [path : Plans \cup UNION Range(Paths), next : Nat, src : Source]
Idle == [do |-> "none"]

\* The place of a system on a path, 0 where it is not on it.  The cursor counts
\* the hops passed, so a ship at the n-th system of a path has its cursor at n.
On(path, s) == IF s \in Range(path) THEN CHOOSE i \in DOMAIN path : path[i] = s ELSE 0
Dest(r) == Last(r.path)
Lesser(i, j) == IF i < j THEN i ELSE j
StartAt(path, s) == IF On(path, s) = 0 THEN Lesser(1, Len(path)) ELSE On(path, s)

\* The cursor is where a ship at s has it.
AlignedWith(r, s) == r # Nothing /\ On(r.path, s) # 0 => r.next = On(r.path, s)

\* The row is written: by whom decides what it may contradict.
SaveRow(r, late) ==
    /\ row' = r
    /\ off' = ~AlignedWith(r, place.sys)
    /\ ghost' = late

Stop(t) == t.stops[t.at + 1]
After(t) == (t.at + 1) % Len(t.stops)
EndsHere(t) == ~t.cycle /\ t.at + 1 = Len(t.stops)

TypeOK ==
    /\ ship \in Place /\ place \in Place /\ jumps \in 0..MaxJumps /\ orders \in 0..MaxOrders
    /\ tunnel \in System \cup {Nothing}
    /\ pass \in {"idle", "due", "on"} /\ (pass = "on" => pending # <<>>)
    /\ boot \in {"sync", "place", "done"}
    /\ row # Nothing => row \in Route /\ row.next \in 1..Len(row.path)
    /\ trade # Nothing => /\ trade.at \in 0..(Len(trade.stops) - 1)
                          /\ trade.lap \in 1..(trade.arrivals + 1)
    /\ \A i \in DOMAIN plots :
         /\ plots[i].for \in {"trade", "replan"} /\ plots[i].dest \in System \cup {Nothing}
         /\ plots[i].path = <<>> \/ Last(plots[i].path) = plots[i].dest
    /\ {up, seeded, off, ghost} \subseteq BOOLEAN
    /\ ~up => plots = <<>> /\ pending = <<>> /\ order = Idle /\ ~seeded

\* The app runs, with nothing followed, beside a ship in dock.
Init ==
    /\ ship \in {[sys |-> s, docked |-> TRUE] : s \in Home}
    /\ place = ship /\ tunnel = Nothing /\ jumps = 0
    /\ unread = <<>> /\ pending = <<>> /\ seeded = TRUE /\ pass = "idle" /\ boot = "done"
    /\ row = Nothing /\ trade = Nothing /\ plots = <<>>
    /\ order = Idle /\ orders = 0 /\ up = TRUE
    /\ rounds = 0 /\ off = FALSE /\ ghost = FALSE

Asks(for, dest) ==
    /\ Len(plots) < MaxPlots
    /\ plots' = Append(plots, [for |-> for, dest |-> dest, path |-> <<>>])
----------------------------------------------------------------------------
(* The game, and the reading of its journal.                               *)

Log(e, s) == Len(unread) < MaxLag /\ unread' = Append(unread, [e |-> e, sys |-> s])
Flown == UNCHANGED <<place, pending, seeded, pass, boot, row, trade, plots, app, history>>

Charge(s) ==
    /\ jumps < MaxJumps /\ jumps' = jumps + 1
    /\ tunnel = Nothing /\ ~ship.docked /\ s # ship.sys
    /\ tunnel' = s
    /\ Log("start", s)
    /\ Flown /\ UNCHANGED ship

Arrive ==
    /\ tunnel # Nothing
    /\ ship' = [ship EXCEPT !.sys = tunnel] /\ tunnel' = Nothing
    /\ Log("jump", tunnel)
    /\ Flown /\ UNCHANGED jumps

Dock ==
    /\ tunnel = Nothing /\ ~ship.docked
    /\ ship' = [ship EXCEPT !.docked = TRUE]
    /\ Log("dock", ship.sys)
    /\ Flown /\ UNCHANGED <<tunnel, jumps>>

Undock ==
    /\ ship.docked
    /\ ship' = [ship EXCEPT !.docked = FALSE]
    /\ Log("undock", ship.sys)
    /\ Flown /\ UNCHANGED <<tunnel, jumps>>

\* The ship gets elsewhere without a jump of its own: in the dock of a carrier
\* that jumps (CarrierJump), or rebuilt at a station after a loss (Location).
Carry(s) ==
    /\ jumps < MaxJumps /\ jumps' = jumps + 1
    /\ tunnel = Nothing /\ s # ship.sys
    /\ ship' = [sys |-> s, docked |-> TRUE]
    /\ Log("carry", s)
    /\ Flown /\ UNCHANGED tunnel

\* Whichever thread syncs, the store takes what the journal has.  The watcher
\* finds it behind its watermark, if it has one.
ReadJournal ==
    /\ place' = ship /\ unread' = <<>>
    /\ pending' = IF seeded THEN pending \o unread ELSE <<>>

\* One sync of the watcher.  The first takes the watermark from the store it has
\* just filled, so nothing of what it read is ever handled.
Sync ==
    /\ up /\ pass = "idle" /\ (unread # <<>> \/ ~seeded)
    /\ ReadJournal
    /\ seeded' = TRUE
    /\ pass' = IF seeded THEN "due" ELSE "idle"
    /\ off' = IF seeded THEN off ELSE off \/ ~AlignedWith(row, ship.sys)
    /\ UNCHANGED <<game, boot, row, trade, plots, app, rounds, ghost>>
----------------------------------------------------------------------------
(* What the watcher does with an event.  A pass holds the store's lock from *)
(* its first event to its last.                                            *)

Handle(e) ==
    /\ up /\ pass # "idle" /\ Head(pending).e = e
    /\ pending' = Tail(pending)
    /\ pass' = IF Tail(pending) = <<>> THEN "idle" ELSE "on"
Here == Head(pending).sys
Handled == UNCHANGED <<game, unread, place, seeded, boot, app>>

\* The cursor goes to the n-th system; a route whose end is reached is deleted.
MoveCursor(n) ==
    row' = IF n >= Len(row.path) THEN Nothing ELSE [row EXCEPT !.next = n]

\* StartJump: the leg is flown, except the last one, which completes on arrival.
\* A write that fails is logged.
OnWitchspace ==
    /\ Handle("start")
    /\ \/ /\ row # Nothing /\ On(row.path, Here) \in 1..(Len(row.path) - 1)
          /\ row' = [row EXCEPT !.next = On(row.path, Here)]
       \/ UNCHANGED row
    /\ Handled /\ UNCHANGED <<trade, plots, history>>

\* The event is behind the watcher, and the row as it was.
Left == UNCHANGED row /\ off' = (off \/ ~AlignedWith(row, Here))

\* FSDJump: off the route a new one is plotted; on it the cursor moves, and the
\* tank or another ship may call for a new plot.  A write that fails ends it all.
OnJump ==
    /\ Handle("jump")
    /\ IF row = Nothing THEN UNCHANGED <<row, plots, off>>
       ELSE IF On(row.path, Here) = 0
            THEN /\ UNCHANGED <<row, off>>
                 /\ IF Len(row.path) > 1 THEN Asks("replan", Nothing) ELSE UNCHANGED plots
            ELSE \/ /\ MoveCursor(On(row.path, Here)) /\ off' = FALSE
                    /\ \/ UNCHANGED plots
                       \/ row' # Nothing /\ Asks("replan", Nothing)
                 \/ Left /\ UNCHANGED plots
    /\ Handled /\ UNCHANGED <<trade, rounds, ghost>>

\* CarrierJump and Location move the store's location and no cursor.
OnCarried ==
    /\ Handle("carry")
    /\ Left
    /\ Handled /\ UNCHANGED <<trade, plots, rounds, ghost>>

\* Mutant: the first arrival at the first stop counts as a lap.
CompletesLap_Always(t) == t.at = 0

\* A lap completes on the arrival back at the first stop.
CompletesLap(t) == t.at = 0 /\ t.arrivals > 0

\* Mutant: the end of a tour forgets the jump route.
EndTour_KeepsRow == trade' = Nothing /\ UNCHANGED <<row, ghost>>

\* The last stop of a tour ends it, and the jump route with it: two deletions,
\* either of which may fail unnoticed.
EndTour ==
    /\ trade' \in {Nothing, trade}
    /\ \/ row' = Nothing /\ UNCHANGED ghost
       \/ UNCHANGED row /\ ghost' = TRUE

\* The arrival is recorded, unless the write fails.
Advance ==
    \/ /\ trade' = [trade EXCEPT !.at = After(trade), !.arrivals = @ + 1,
                                  !.lap = IF CompletesLap(trade) THEN @ + 1 ELSE @]
       /\ rounds' = IF trade.at = 0 THEN rounds + 1 ELSE rounds
    \/ UNCHANGED <<trade, rounds>>

\* Docked at the stop the trade route heads for: on to the next, and a jump
\* route to it unless it is in this system.
OnDocked ==
    /\ Handle("dock")
    /\ IF trade = Nothing \/ Stop(trade) # Here
       THEN UNCHANGED <<row, trade, plots, rounds, ghost>>
       ELSE IF EndsHere(trade) THEN EndTour /\ UNCHANGED <<plots, rounds>>
            ELSE LET next == trade.stops[After(trade) + 1]
                 IN  /\ Advance
                     /\ IF next # Here THEN Asks("trade", next) ELSE UNCHANGED plots
                     /\ UNCHANGED <<row, ghost>>
    /\ Handled /\ UNCHANGED off

\* Undocked: a route of another source that no longer fits the ship is plotted
\* again.  No handler leaves a trade route's phase at AtStop, so its own replan
\* never happens.
OnUndocked ==
    /\ Handle("undock")
    /\ \/ UNCHANGED plots
       \/ row # Nothing /\ row.src # "trade" /\ Asks("replan", Nothing)
    /\ Handled /\ UNCHANGED <<row, trade, history>>
----------------------------------------------------------------------------
(* Plots in flight.  Each reads where it starts from, takes its time, and   *)
(* saves what it has, whatever was saved meanwhile; any of them may be next. *)

Unlocked == pass # "on"
Ended(i) == plots' = RemoveAt(plots, i)

\* A replan takes its destination from the route it finds.
Target(p) == IF p.for = "trade" THEN p.dest ELSE Dest(row)

PlotReads(i) ==
    /\ plots[i].path = <<>> /\ (plots[i].for = "replan" => row # Nothing)
    /\ \E path \in Paths[<<place.sys, Target(plots[i])>>] :
         plots' = [plots EXCEPT ![i].path = path, ![i].dest = Target(plots[i])]
    /\ UNCHANGED <<game, watcher, row, trade, app, history>>

\* No route, no service, nothing followed any more; the game's own plotter takes
\* the leg; or the route found cannot be saved.
PlotFails(i) ==
    /\ Ended(i)
    /\ UNCHANGED <<game, watcher, row, trade, app, history>>

\* A trade leg is saved with its cursor at the start, a replan with its cursor
\* where the ship is.
SavePlot(i) ==
    /\ plots[i].path # <<>> /\ Unlocked
    /\ IF plots[i].for = "trade"
       THEN SaveRow([path |-> plots[i].path, next |-> 1, src |-> "trade"],
                    order.do = "stop" \/ (trade = Nothing /\ order.do # "start"))
       ELSE SaveRow([path |-> plots[i].path, next |-> StartAt(plots[i].path, place.sys),
                     src |-> "replan"], FALSE)
    /\ Ended(i)
    /\ UNCHANGED <<game, watcher, trade, app, rounds>>
----------------------------------------------------------------------------
(* The window's commands, one under way at a time.                         *)

Command == up /\ order = Idle /\ orders < MaxOrders /\ orders' = orders + 1 /\ UNCHANGED up
Writes(do) == order.do = do /\ Unlocked /\ order' = Idle /\ UNCHANGED <<orders, up>>

RouteActivate(path) ==
    /\ Command
    /\ order' = [do |-> "activate", path |-> path, next |-> StartAt(path, place.sys),
                 trading |-> trade # Nothing]
    /\ UNCHANGED <<game, watcher, row, trade, plots, history>>

\* The trade layer steps aside, unless the deletion fails unnoticed ...
ActivateStopsTrade ==
    /\ order.do = "activate" /\ order.trading /\ Unlocked
    /\ trade' \in {Nothing, trade}
    /\ order' = [order EXCEPT !.trading = FALSE]
    /\ UNCHANGED <<game, watcher, row, plots, orders, up, history>>

\* ... and the route is saved.
ActivateSaves ==
    /\ Writes("activate") /\ ~order.trading
    /\ SaveRow([path |-> order.path, next |-> order.next, src |-> "plot"], FALSE)
    /\ UNCHANGED <<game, watcher, trade, plots, rounds>>

RouteClear ==
    /\ Command /\ row # Nothing /\ Unlocked
    /\ row' = Nothing
    /\ UNCHANGED <<game, watcher, trade, plots, order, history>>

\* Mutant: the cursor moved by hand runs past the end of the route.
Clamp_Low(n, len) == IF n < 1 THEN 1 ELSE n

\* By hand the cursor stays on the route.
Clamp(n, len) == IF n < 1 THEN 1 ELSE Lesser(n, len)

RouteAdvance ==
    /\ Command /\ row # Nothing
    /\ \E n \in {row.next - 1, row.next + 1} :
         order' = [do |-> "advance", route |-> [row EXCEPT !.next = Clamp(n, Len(row.path))]]
    /\ UNCHANGED <<game, watcher, row, trade, plots, history>>

\* The copy read before is written back.
AdvanceSaves ==
    /\ Writes("advance")
    /\ SaveRow(order.route, order.route.src = "trade" /\ trade = Nothing)
    /\ UNCHANGED <<game, watcher, trade, plots, rounds>>

Rotated(stops, i) == SubSeq(stops, i, Len(stops)) \o SubSeq(stops, 1, i - 1)

\* Docked at a stop, the follow begins there and heads for the next; in space, or
\* docked anywhere else in the system, it heads for the first.  The leg's plot is
\* under way before the follow is saved.
TradeFollowStart(r, i) ==
    /\ Command
    /\ i # 0 => place.docked
    /\ LET stops == IF i = 0 THEN r.stops ELSE Rotated(r.stops, i)
           at == IF i = 0 THEN 0 ELSE 1 % Len(stops)
           first == stops[at + 1]
       IN  /\ order' = [do |-> "start", met |-> i # 0,
                        trade |-> [stops |-> stops, cycle |-> r.cycle, at |-> at,
                                   arrivals |-> 0, lap |-> 1]]
           /\ IF i # 0 /\ first = place.sys THEN UNCHANGED plots ELSE Asks("trade", first)
    /\ UNCHANGED <<game, watcher, row, trade, history>>

StartSaves ==
    /\ Writes("start")
    /\ trade' = order.trade
    /\ rounds' = IF order.met THEN 1 ELSE 0
    /\ UNCHANGED <<game, watcher, row, plots, off, ghost>>

\* Either deletion may fail unnoticed.
TradeFollowStop ==
    /\ Command /\ trade # Nothing
    /\ order' = [do |-> "stop", had |-> row # Nothing /\ row.src = "trade"]
    /\ UNCHANGED <<game, watcher, row, trade, plots, history>>

StopSaves ==
    /\ Writes("stop")
    /\ trade' \in {Nothing, trade}
    /\ \/ row' = (IF order.had THEN Nothing ELSE row) /\ UNCHANGED ghost
       \/ order.had /\ UNCHANGED row /\ ghost' = TRUE
    /\ UNCHANGED <<game, watcher, plots, rounds, off>>

\* The last write of a command fails: an error in the window, the rest stands.
OrderFails ==
    /\ order.do \in {"activate", "advance", "start"}
    /\ Writes(order.do) /\ (order.do = "activate" => ~order.trading)
    /\ ghost' = (ghost \/ (trade = Nothing /\ order.do # "advance"))
    /\ UNCHANGED <<game, watcher, row, trade, plots, rounds, off>>
----------------------------------------------------------------------------
(* The app ends anywhere, and starts beside a ship that went on.           *)

Exit ==
    /\ up /\ orders < MaxOrders /\ orders' = orders + 1
    /\ up' = FALSE /\ seeded' = FALSE /\ boot' = "done" /\ pass' = "idle"
    /\ pending' = <<>> /\ plots' = <<>> /\ order' = Idle
    /\ ghost' = (ghost \/ order.do \in {"start", "activate"})
    /\ UNCHANGED <<game, unread, place, row, trade, rounds, off>>

Start ==
    /\ ~up /\ up' = TRUE /\ boot' = "sync"
    /\ UNCHANGED <<game, unread, place, pending, seeded, pass, row, trade, plots, order, orders, history>>

InitialSync ==
    /\ boot = "sync" /\ Unlocked
    /\ ReadJournal /\ boot' = "place"
    /\ UNCHANGED <<game, seeded, pass, row, trade, plots, app, history>>

\* A sync that fails is logged, and there is no reconcile.
InitialSyncFails ==
    /\ boot = "sync" /\ boot' = "done"
    /\ UNCHANGED <<game, unread, place, pending, seeded, pass, row, trade, plots,
                   app, history>>

\* Mutant: the cursor only ever moves forward.
Reconcile_Forward ==
    /\ boot = "place" /\ Unlocked /\ boot' = "done"
    /\ IF row # Nothing /\ On(row.path, place.sys) # 0
       THEN /\ IF On(row.path, place.sys) > row.next
               THEN MoveCursor(On(row.path, place.sys)) ELSE UNCHANGED row
            /\ off' = FALSE
       ELSE UNCHANGED <<row, off>>
    /\ UNCHANGED <<game, unread, place, pending, seeded, pass, trade, plots, app, rounds, ghost>>

\* The cursor goes where the journal says the ship is, unless the write fails; off
\* the route it stays.
Reconcile ==
    /\ boot = "place" /\ Unlocked /\ boot' = "done"
    /\ IF row # Nothing /\ On(row.path, place.sys) # 0
       THEN \/ /\ IF row.next # On(row.path, place.sys)
                  THEN MoveCursor(On(row.path, place.sys)) ELSE UNCHANGED row
               /\ off' = FALSE
            \/ row.next # On(row.path, place.sys) /\ UNCHANGED row /\ off' = TRUE
       ELSE UNCHANGED <<row, off>>
    /\ UNCHANGED <<game, unread, place, pending, seeded, pass, trade, plots, app, rounds, ghost>>
----------------------------------------------------------------------------
Fly == (\E s \in System : Charge(s) \/ Carry(s)) \/ Arrive \/ Dock \/ Undock
Watch == Sync \/ OnWitchspace \/ OnJump \/ OnCarried \/ OnDocked \/ OnUndocked
Plot == \E i \in DOMAIN plots : PlotReads(i) \/ PlotFails(i) \/ SavePlot(i)
Window ==
    \/ \E path \in Plans : RouteActivate(path)
    \/ ActivateStopsTrade \/ ActivateSaves
    \/ RouteClear
    \/ RouteAdvance \/ AdvanceSaves
    \/ \E r \in Rounds : \E i \in {0, On(r.stops, place.sys)} : TradeFollowStart(r, i)
    \/ StartSaves \/ TradeFollowStop \/ StopSaves \/ OrderFails
Life == Exit \/ Start \/ InitialSync \/ InitialSyncFails \/ Reconcile

Next == Fly \/ Watch \/ Plot \/ Window \/ Life

Spec == Init /\ [][Next]_vars
----------------------------------------------------------------------------
(* What the followers promise.                                             *)

\* A lap is counted once per flight round the stops, also when the follow begins
\* in dock at a stop, and however arrivals, plots, failed writes and restarts
\* interleave: trade_follow.rs counts a lap on the arrival back at the first stop.
\* An arrival that could not be saved did not happen for the trade route, which
\* goes on heading for that stop.
LapsAreLoops ==
    trade # Nothing => trade.lap = IF rounds = 0 THEN 1 ELSE rounds

\* When the watcher has caught up, the cursor of a route the ship is on stands
\* where the ship is, or where its jump leads: follow.rs moves it at witchspace
\* entry, at arrival and once at start-up, and no order of these leaves it
\* behind.  Excepted until the next jump on the route are cursors placed elsewhere
\* (by hand, by a save of what was read before a jump), and cursors left behind: by
\* the first pass, which announces nothing, by a carrier or a respawn, which move
\* the ship and no cursor, and by a failed write.
AlignedWhenQuiet ==
    up /\ seeded /\ boot = "done" /\ unread = <<>> /\ pending = <<>> /\ ~off
        => AlignedWith(row, place.sys) \/ (tunnel # Nothing /\ AlignedWith(row, tunnel))

\* A jump route placed for a trade route goes when the trade route goes, by its
\* end, by the stop command or by another route; only a save that comes after
\* that, of a plot or of a stale copy, an exit or an error between the two writes
\* of a command, or a deletion that failed unnoticed can leave one.
TradeLeavesNothing ==
    row # Nothing /\ row.src = "trade" /\ trade = Nothing /\ order = Idle => ghost

=============================================================================

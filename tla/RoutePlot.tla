----------------------------- MODULE RoutePlot -----------------------------
(***************************************************************************)
(* The plot endpoint's shared state (ed-api/src/plot.rs, RouteService):    *)
(* two lanes, each with a gate of two semaphores (a waiting room and       *)
(* running slots), one planner pool per long slot, the route cache with    *)
(* its early, "refining" answers, and the memory of refusals.              *)
(*                                                                         *)
(* A plot is two actors that outlive each other: the HANDLER (the request  *)
(* future, dropped when the client goes away) and the TASK (the planner in *)
(* spawn_blocking, whose variants report routes from several threads).     *)
(* Routes are abstracted to their rank under `better`: smaller is better.  *)
(* Entry timestamps are abstracted: an entry may age out at any time and   *)
(* the evicted "oldest" entry is any entry.                                *)
(***************************************************************************)
EXTENDS Naturals, FiniteSets, Sequences

CONSTANTS
  Plot,           \* places for plots in flight
  Key,            \* cache keys (version, request and true positions)
  LaneOf,         \* the lane of a key: a function of the end points alone
  Slots,          \* running slots per lane
  Room,           \* waiting places per lane beyond the running slots
  Pool,           \* the long lane's planner pools, one per long slot
  MaxRank,        \* routes are ranked 1..MaxRank
  CacheCap,       \* most entries of the cache, and of the refusals
  IslandKey,      \* keys with an end no known star reaches
  EarlyGrace,     \* whether EDDA_API_EARLY_GRACE_MS is not zero
  PlannerMayPanic,\* whether the planner task may panic
  NoKey, NoPool   \* not a key, not a pool

Lane == {"interactive", "long"}
Rank == 1 .. MaxRank
None == 0         \* no route

ASSUME ConstantsAssumption ==
  /\ IsFiniteSet(Plot) /\ IsFiniteSet(Pool) /\ IsFiniteSet(Key)
  /\ LaneOf \in [Key -> Lane]
  /\ Slots \in [Lane -> Nat \ {0}]
  /\ Room \in [Lane -> Nat]
  /\ Cardinality(Pool) = Slots["long"]
  /\ MaxRank \in Nat \ {0}
  /\ CacheCap \in Nat \ {0}
  /\ IslandKey \subseteq Key
  /\ EarlyGrace \in BOOLEAN /\ PlannerMayPanic \in BOOLEAN
  /\ NoKey \notin Key /\ NoPool \notin Pool

VARIABLES
  plot,     \* plot place -> the state of the plot that uses it
  places,   \* lane -> free permits of the gate's `queue` semaphore
  slots,    \* lane -> free permits of the gate's `slots` semaphore
  waiters,  \* lane -> plots waiting in the `slots` semaphore, in order
  free,     \* long_free: the long pools not checked out
  cache,    \* key -> cache entry
  refused   \* keys with a remembered refusal

vars == <<plot, places, slots, waiters, free, cache, refused>>

-----------------------------------------------------------------------------
(* The state of one plot.                                                   *)

HandlerState ==
  { "done",       \* answered, refused or dropped
    "waiting",    \* admitted, waiting for a slot
    "slotted",    \* has the slot, about to look the key up again
    "awaiting",   \* waits for the planner's own answer
    "listening",  \* early answer: no variant has reported yet
    "grace",      \* a first route is in; waits for a better one
    "deadline",   \* first-route deadline passed: waits for the planner
    "serving" }   \* served_early is set, the early store comes next

TaskState ==
  { "done", "planning",
    "ended",        \* plan_best returned
    "reinstating",  \* infeasible final: read the held entry, store follows
    "leaving",      \* the closure returns: its pool is dropped first
    "unpooled" }    \* then its permits

Outcome == {"none", "route", "infeasible", "refused", "cancelled", "panic"}

PlotState ==
  [ key : Key \cup {NoKey}, storable : BOOLEAN,
    handler : HandlerState, task : TaskState, lease : Pool \cup {NoPool},
    outcome : Outcome, final : Rank \cup {None}, best : Rank \cup {None},
    seen : SUBSET Rank, checking : SUBSET Rank, keeping : SUBSET Rank,
    served : BOOLEAN, gone : BOOLEAN ]

NoPlot ==
  [ key |-> NoKey, storable |-> FALSE,
    handler |-> "done", task |-> "done", lease |-> NoPool,
    outcome |-> "none", final |-> None, best |-> None,
    seen |-> {}, checking |-> {}, keeping |-> {},
    served |-> FALSE, gone |-> FALSE ]

Entry == [route : Rank \cup {None}, refining : BOOLEAN, bare : BOOLEAN]
NoEntry == [route |-> None, refining |-> FALSE, bare |-> FALSE]

KeyOf(p) == plot[p].key
LaneOfPlot(p) == LaneOf[KeyOf(p)]
IsIdle(p) == plot[p].handler = "done" /\ plot[p].task = "done"

\* Mutant: a fallback plan answers early too.
AnswersEarly_AnyVersion(p) == LaneOfPlot(p) = "long" /\ EarlyGrace

\* A long plot of a version with a highway answers early.
AnswersEarly(p) ==
  LaneOfPlot(p) = "long" /\ EarlyGrace /\ plot[p].storable

\* A place is free again once both actors of its plot have finished.
Settle(r) == IF r.handler = "done" /\ r.task = "done" THEN NoPlot ELSE r
Becomes(p, r) == plot' = [plot EXCEPT ![p] = Settle(r)]

Better(a, b) == IF a = None \/ b < a THEN b ELSE a

-----------------------------------------------------------------------------
(* The cache and the refusals.                                              *)

Held(k) == cache[k].route # None
Occupied == {k \in Key : Held(k)}

\* Mutant: nothing is evicted.
StoreIn_NoEviction(k, e) == cache' = [cache EXCEPT ![k] = e]

\* store_in: at the cap the oldest entry goes, then the key is inserted.
StoreIn(k, e) ==
  IF Cardinality(Occupied) >= CacheCap
  THEN \E old \in Occupied :
         cache' = [j \in Key |-> IF j = k THEN e
                                 ELSE IF j = old THEN NoEntry ELSE cache[j]]
  ELSE cache' = [cache EXCEPT ![k] = e]

\* refuse: at the cap every refusal is forgotten, then the key is inserted.
Refuse(k) ==
  refused' = (IF Cardinality(refused) >= CacheCap THEN {} ELSE refused) \cup {k}

EntryOf(p, rank, refining) ==
  [route |-> rank, refining |-> refining, bare |-> ~plot[p].storable]

\* The retain() of `cached` and `refused`: an entry older than its time to
\* live is dropped by the next look-up.
CacheExpires(k) ==
  /\ Held(k)
  /\ cache' = [cache EXCEPT ![k] = NoEntry]
  /\ UNCHANGED <<plot, places, slots, waiters, free, refused>>

RefusalExpires(k) ==
  /\ k \in refused
  /\ refused' = refused \ {k}
  /\ UNCHANGED <<plot, places, slots, waiters, free, cache>>

-----------------------------------------------------------------------------
(* The handler: plot_endpoints.                                             *)

\* A key neither cached nor refused whose end points are an island: refused
\* with its numbers, before the gate.
RefuseIsland(k) ==
  /\ k \in IslandKey /\ ~Held(k) /\ k \notin refused
  /\ Refuse(k)
  /\ UNCHANGED <<plot, places, slots, waiters, free, cache>>

\* Admission. A cached or refused key is answered from memory and a full
\* waiting room is the 503: neither changes anything. `storable` is false
\* while this version's highway is not built (highway_less).
Enter(p, k, storable) ==
  LET l == LaneOf[k] IN
  /\ IsIdle(p)
  /\ k \notin IslandKey /\ ~Held(k) /\ k \notin refused
  /\ places[l] > 0
  /\ places' = [places EXCEPT ![l] = @ - 1]
  /\ waiters' = [waiters EXCEPT ![l] = Append(@, p)]
  /\ plot' = [plot EXCEPT ![p] = [NoPlot EXCEPT !.key = k,
                                    !.storable = storable, !.handler = "waiting"]]
  /\ UNCHANGED <<slots, free, cache, refused>>

\* Mutant: whoever is polled first gets the slot.
GrantSlot_AnyWaiter(p) ==
  LET l == LaneOfPlot(p) IN
  /\ plot[p].handler = "waiting" /\ slots[l] > 0
  /\ slots' = [slots EXCEPT ![l] = @ - 1]
  /\ waiters' = [waiters EXCEPT ![l] = SelectSeq(@, LAMBDA q : q # p)]
  /\ Becomes(p, [plot[p] EXCEPT !.handler = "slotted"])
  /\ UNCHANGED <<places, free, cache, refused>>

\* The semaphore hands a free slot to the plot that has waited longest.
GrantSlot(p) ==
  LET l == LaneOfPlot(p) IN
  /\ plot[p].handler = "waiting"
  /\ waiters[l] # <<>> /\ Head(waiters[l]) = p
  /\ slots[l] > 0
  /\ slots' = [slots EXCEPT ![l] = @ - 1]
  /\ waiters' = [waiters EXCEPT ![l] = Tail(@)]
  /\ Becomes(p, [plot[p] EXCEPT !.handler = "slotted"])
  /\ UNCHANGED <<places, free, cache, refused>>

\* Both permits of a plot that never reached the planner are dropped.
DropPermits(p) ==
  /\ places' = [places EXCEPT ![LaneOfPlot(p)] = @ + 1]
  /\ slots' = [slots EXCEPT ![LaneOfPlot(p)] = @ + 1]

\* The wait outlived a twin's plot: the second look-up hits.
HitAfterWait(p) ==
  /\ plot[p].handler = "slotted" /\ Held(KeyOf(p))
  /\ DropPermits(p)
  /\ Becomes(p, [plot[p] EXCEPT !.handler = "done"])
  /\ UNCHANGED <<waiters, free, cache, refused>>

\* Mutant: the pool is looked at and not taken out.
Spawn_SharedPool(p) ==
  /\ plot[p].handler = "slotted" /\ ~Held(KeyOf(p))
  /\ \E s \in IF LaneOfPlot(p) = "long" THEN free ELSE {NoPool} :
       Becomes(p, [plot[p] EXCEPT
            !.lease = s, !.task = "planning",
            !.handler = IF AnswersEarly(p) THEN "listening" ELSE "awaiting"])
  /\ UNCHANGED <<places, slots, waiters, free, cache, refused>>

\* Check a pool out (long lane only) and hand the permits to the planner.
Spawn(p) ==
  /\ plot[p].handler = "slotted" /\ ~Held(KeyOf(p))
  /\ \E s \in IF LaneOfPlot(p) = "long" THEN free ELSE {NoPool} :
       /\ free' = free \ {s}
       /\ Becomes(p, [plot[p] EXCEPT
            !.lease = s, !.task = "planning",
            !.handler = IF AnswersEarly(p) THEN "listening" ELSE "awaiting"])
  /\ UNCHANGED <<places, slots, waiters, cache, refused>>

\* A reported route reaches the handler's channel end.
Receive(p, r) ==
  /\ plot[p].handler \in {"listening", "grace"}
  /\ r \in plot[p].seen
  /\ Becomes(p, [plot[p] EXCEPT !.handler = "grace", !.best = Better(@, r)])
  /\ UNCHANGED <<places, slots, waiters, free, cache, refused>>

\* The first-route deadline with nothing received: stop the planner, then
\* wait for it.
FirstDeadline(p) ==
  /\ plot[p].handler = "listening"
  /\ Becomes(p, [plot[p] EXCEPT !.handler = "deadline", !.gone = TRUE])
  /\ UNCHANGED <<places, slots, waiters, free, cache, refused>>

\* The grace is over: served_early is set and the cancel guard disarmed ...
GraceOver(p) ==
  /\ plot[p].handler = "grace"
  /\ Becomes(p, [plot[p] EXCEPT !.handler = "serving", !.served = TRUE])
  /\ UNCHANGED <<places, slots, waiters, free, cache, refused>>

\* Mutant: the early answer ends the plot, and its permits with it.
ServeEarly_FreesSlot(p) ==
  /\ plot[p].handler = "serving"
  /\ StoreIn(KeyOf(p), EntryOf(p, plot[p].best, TRUE))
  /\ DropPermits(p)
  /\ Becomes(p, [plot[p] EXCEPT !.handler = "done"])
  /\ UNCHANGED <<waiters, free, refused>>

\* ... then the best route so far is stored as refining and answered.
ServeEarly(p) ==
  /\ plot[p].handler = "serving"
  /\ StoreIn(KeyOf(p), EntryOf(p, plot[p].best, TRUE))
  /\ Becomes(p, [plot[p] EXCEPT !.handler = "done"])
  /\ UNCHANGED <<places, slots, waiters, free, refused>>

\* The planner's own answer: a route, a refusal to remember, or neither
\* (cancelled, or a panic turned into an error). After the first-route
\* deadline the answer is a refusal whatever the planner returned.
Join(p) ==
  /\ plot[p].handler \in {"awaiting", "listening", "grace", "deadline"}
  /\ plot[p].task = "done"
  /\ IF \/ plot[p].handler = "deadline"
        \/ plot[p].outcome \in {"infeasible", "refused"}
     THEN Refuse(KeyOf(p)) ELSE UNCHANGED refused
  /\ Becomes(p, [plot[p] EXCEPT !.handler = "done"])
  /\ UNCHANGED <<places, slots, waiters, free, cache>>

\* Mutant: nothing watches the request future.
Gone_NoGuard(p) ==
  /\ plot[p].handler \in {"awaiting", "listening", "grace", "deadline"}
  /\ Becomes(p, [plot[p] EXCEPT !.handler = "done"])
  /\ UNCHANGED <<places, slots, waiters, free, cache, refused>>

\* The client goes away and the request future is dropped at an await: a
\* waiting plot gives its place back, a planned one sets the planner's
\* cancel flag through the guard.
Gone(p) ==
  LET l == LaneOfPlot(p) IN
  \/ /\ plot[p].handler = "waiting"
     /\ \E i \in DOMAIN waiters[l] :
          /\ waiters[l][i] = p
          /\ waiters' = [waiters EXCEPT ![l] =
                SubSeq(@, 1, i - 1) \o SubSeq(@, i + 1, Len(@))]
     /\ places' = [places EXCEPT ![l] = @ + 1]
     /\ Becomes(p, [plot[p] EXCEPT !.handler = "done"])
     /\ UNCHANGED <<slots, free, cache, refused>>
  \/ /\ plot[p].handler = "slotted"
     /\ DropPermits(p)
     /\ Becomes(p, [plot[p] EXCEPT !.handler = "done"])
     /\ UNCHANGED <<waiters, free, cache, refused>>
  \/ /\ plot[p].handler \in {"awaiting", "listening", "grace", "deadline"}
     /\ Becomes(p, [plot[p] EXCEPT !.handler = "done", !.gone = TRUE])
     /\ UNCHANGED <<places, slots, waiters, free, cache, refused>>

-----------------------------------------------------------------------------
(* The task: the planner in spawn_blocking.                                 *)

\* A variant reports a route between the two end points: it is sent to the
\* handler's channel, whoever still listens.
Found(p, r) ==
  /\ plot[p].task = "planning" /\ r \notin plot[p].seen
  /\ Becomes(p, [plot[p] EXCEPT !.seen = @ \cup {r}, !.checking = @ \cup {r}])
  /\ UNCHANGED <<places, slots, waiters, free, cache, refused>>

\* The same callback goes on: after the early answer, a route that beats
\* the refining entry is to be kept (keep_best_so_far reads the entry and
\* lets go of the lock ...
FoundCheck(p, r) ==
  LET held == cache[KeyOf(p)]
      keeps == plot[p].served /\ held.refining /\ r < held.route IN
  /\ r \in plot[p].checking
  /\ Becomes(p, [plot[p] EXCEPT !.checking = @ \ {r},
                                !.keeping = IF keeps THEN @ \cup {r} ELSE @])
  /\ UNCHANGED <<places, slots, waiters, free, cache, refused>>

\* ... before it stores the candidate).
KeepBestSoFar(p, r) ==
  /\ r \in plot[p].keeping
  /\ StoreIn(KeyOf(p), EntryOf(p, r, TRUE))
  /\ Becomes(p, [plot[p] EXCEPT !.keeping = @ \ {r}])
  /\ UNCHANGED <<places, slots, waiters, free, refused>>

\* plan_best returns once its variants have: with a route if any variant
\* reported one (a cancel does not take it back), else with whatever the
\* last fallback or the budget cut hands over, or without a route.
\* A final route the tank cannot fly is not an answer.
PlanEnd(p, outcome, r) ==
  /\ plot[p].task = "planning"
  /\ plot[p].checking = {} /\ plot[p].keeping = {}
  /\ \/ outcome = "route" /\ r \in Rank
     \/ outcome = "infeasible" /\ r = None
     \/ outcome = "refused" /\ r = None /\ plot[p].seen = {}
     \/ outcome = "cancelled" /\ r = None /\ plot[p].seen = {} /\ plot[p].gone
  /\ Becomes(p, [plot[p] EXCEPT !.task = "ended", !.outcome = outcome, !.final = r])
  /\ UNCHANGED <<places, slots, waiters, free, cache, refused>>

\* The finished route replaces any early answer under its key.
StoreFinal(p) ==
  /\ plot[p].task = "ended" /\ plot[p].outcome = "route"
  /\ IF plot[p].storable
     THEN StoreIn(KeyOf(p), EntryOf(p, plot[p].final, FALSE))
     ELSE UNCHANGED cache
  /\ Becomes(p, [plot[p] EXCEPT !.task = "leaving"])
  /\ UNCHANGED <<places, slots, waiters, free, refused>>

\* No route to store. After an early answer an infeasible final lets the
\* held entry stand as the finished one: read it, then store it.
EndWithoutRoute(p) ==
  LET reinstates == /\ plot[p].outcome = "infeasible"
                    /\ plot[p].served /\ Held(KeyOf(p)) IN
  /\ plot[p].task = "ended" /\ plot[p].outcome # "route"
  /\ Becomes(p, [plot[p] EXCEPT
       !.task = IF reinstates THEN "reinstating" ELSE "leaving",
       !.final = IF reinstates THEN cache[KeyOf(p)].route ELSE None])
  /\ UNCHANGED <<places, slots, waiters, free, cache, refused>>

Reinstate(p) ==
  /\ plot[p].task = "reinstating"
  /\ StoreIn(KeyOf(p), EntryOf(p, plot[p].final, FALSE))
  /\ Becomes(p, [plot[p] EXCEPT !.task = "leaving"])
  /\ UNCHANGED <<places, slots, waiters, free, refused>>

\* Mutant: the lease has no Drop.
ReturnPool_Leaks(p) ==
  /\ plot[p].task = "leaving"
  /\ Becomes(p, [plot[p] EXCEPT !.task = "unpooled", !.lease = NoPool])
  /\ UNCHANGED <<places, slots, waiters, free, cache, refused>>

\* The closure's locals drop in reverse order: the pool lease ...
ReturnPool(p) ==
  /\ plot[p].task = "leaving"
  /\ free' = free \cup ({plot[p].lease} \ {NoPool})
  /\ Becomes(p, [plot[p] EXCEPT !.task = "unpooled", !.lease = NoPool])
  /\ UNCHANGED <<places, slots, waiters, cache, refused>>

\* Mutant: the permits wait for the request future to end.
ReturnPermits_AfterAnswer(p) ==
  /\ plot[p].task = "unpooled" /\ plot[p].handler = "done"
  /\ DropPermits(p)
  /\ Becomes(p, [plot[p] EXCEPT !.task = "done"])
  /\ UNCHANGED <<waiters, free, cache, refused>>

\* ... then the permits.
ReturnPermits(p) ==
  /\ plot[p].task = "unpooled"
  /\ DropPermits(p)
  /\ Becomes(p, [plot[p] EXCEPT !.task = "done"])
  /\ UNCHANGED <<waiters, free, cache, refused>>

\* A panic of the planner unwinds through the same drops.
Panic(p) ==
  /\ PlannerMayPanic
  /\ plot[p].task = "planning"
  /\ plot[p].checking = {} /\ plot[p].keeping = {}
  /\ Becomes(p, [plot[p] EXCEPT !.task = "leaving", !.outcome = "panic"])
  /\ UNCHANGED <<places, slots, waiters, free, cache, refused>>

-----------------------------------------------------------------------------
Init ==
  /\ plot = [p \in Plot |-> NoPlot]
  /\ places = [l \in Lane |-> Slots[l] + Room[l]]
  /\ slots = Slots
  /\ waiters = [l \in Lane |-> <<>>]
  /\ free = Pool
  /\ cache = [k \in Key |-> NoEntry]
  /\ refused = {}

PlanEnds(p) == \E outcome \in Outcome, r \in Rank \cup {None} : PlanEnd(p, outcome, r)

HandlerStep(p) ==
  \/ GrantSlot(p) \/ HitAfterWait(p) \/ Spawn(p)
  \/ \E r \in Rank : Receive(p, r)
  \/ FirstDeadline(p) \/ GraceOver(p) \/ ServeEarly(p) \/ Join(p) \/ Gone(p)

TaskStep(p) ==
  \/ \E r \in Rank : Found(p, r) \/ FoundCheck(p, r) \/ KeepBestSoFar(p, r)
  \/ PlanEnds(p) \/ StoreFinal(p) \/ EndWithoutRoute(p) \/ Reinstate(p)
  \/ ReturnPool(p) \/ ReturnPermits(p) \/ Panic(p)

Next ==
  \/ \E k \in Key : CacheExpires(k) \/ RefusalExpires(k) \/ RefuseIsland(k)
  \/ \E p \in Plot, k \in Key, storable \in BOOLEAN : Enter(p, k, storable)
  \/ \E p \in Plot : HandlerStep(p) \/ TaskStep(p)

Spec == Init /\ [][Next]_vars

\* The runtime polls ready futures and runs spawned tasks; every planner
\* loop checks its budget and its cancel flag; timers fire. Clients,
\* expiry, panics and the reports of variants are not promised.
Fairness ==
  \A p \in Plot :
    /\ WF_vars(GrantSlot(p)) /\ WF_vars(HitAfterWait(p)) /\ WF_vars(Spawn(p))
    /\ WF_vars(GraceOver(p)) /\ WF_vars(ServeEarly(p)) /\ WF_vars(Join(p))
    /\ WF_vars(\E r \in Rank : FoundCheck(p, r) \/ KeepBestSoFar(p, r))
    /\ WF_vars(PlanEnds(p)) /\ WF_vars(StoreFinal(p))
    /\ WF_vars(EndWithoutRoute(p)) /\ WF_vars(Reinstate(p))
    /\ WF_vars(ReturnPool(p)) /\ WF_vars(ReturnPermits(p))

FairSpec == Spec /\ Fairness
-----------------------------------------------------------------------------
(* Properties.                                                              *)

TypeOK ==
  /\ plot \in [Plot -> PlotState]
  /\ places \in [Lane -> Nat]
  /\ slots \in [Lane -> Nat]
  /\ waiters \in [Lane -> Seq(Plot)]
  /\ free \in SUBSET Pool
  /\ cache \in [Key -> Entry]
  /\ refused \in SUBSET Key

\* Whether a plot in state r must hold a waiting-room permit, a slot permit.
HoldsPlace(r) ==
  r.key \in Key /\ (r.handler \in {"waiting", "slotted"} \/ r.task # "done")
HoldsSlot(r) ==
  r.key \in Key /\ (r.handler = "slotted" \/ r.task # "done")

PlaceHolders(l) == {p \in Plot : HoldsPlace(plot[p]) /\ LaneOf[KeyOf(p)] = l}
SlotHolders(l) == {p \in Plot : HoldsSlot(plot[p]) /\ LaneOf[KeyOf(p)] = l}

Gates == INSTANCE LaneGate
           WITH queue <- waiters, running <- [l \in Lane |-> SlotHolders(l)]

\* Whoever waited longest gets the next slot, no more planners run than the
\* lane has slots and no more plots wait than it has room for, whatever their
\* clients, their answers and the memories do meanwhile (Gate::enter and
\* Gate::slot; the permits a planner keeps until it has ended).
FirstComeFirstServed == Gates!Spec

\* No permit leaks and none is returned twice, whichever of the handler and
\* the planner finishes first and wherever the client goes away: in each
\* lane the free permits and the plots that must hold one add up. So a lane
\* never runs more planners than it has slots, which an answered-early plot
\* once broke by freeing its slot while its planner ran on.
PermitsConserved ==
  \A l \in Lane :
    /\ places[l] + Cardinality(PlaceHolders(l)) = Slots[l] + Room[l]
    /\ slots[l] + Cardinality(SlotHolders(l)) = Slots[l]

\* The `expect` of Pools::checkout never fires: whenever a long plot has its
\* slot and no planner yet, a long pool is free.
PoolWheneverAdmitted ==
  \A p \in Plot :
    plot[p].handler = "slotted" /\ LaneOfPlot(p) = "long" => free # {}

\* Every long planner runs on a pool of its own, and every pool is either
\* free or leased: one crossing never queues behind another's variants.
OwnPool ==
  /\ \A p, q \in Plot : plot[p].lease = plot[q].lease => p = q \/ plot[p].lease = NoPool
  /\ {plot[p].lease : p \in Plot} \ {NoPool} = Pool \ free

\* A planner whose request future is gone is told to stop, unless it was
\* answered early, and then it never is: exactly one of the two holds.
OrphansStopOrRefine ==
  \A p \in Plot :
    plot[p].handler = "done" /\ plot[p].task = "planning"
      => plot[p].gone # plot[p].served

\* A fallback route planned without the version's highway is served but
\* never cached, on any of the four paths that store.
FallbackNeverCached == \A k \in Key : ~cache[k].bare

\* Neither memory outgrows its cap.
MemoryBounded ==
  Cardinality(Occupied) <= CacheCap /\ Cardinality(refused) <= CacheCap

\* Every admitted request is answered or its client leaves: the waiting room
\* drains in order and no planner outlives its budget.
EveryRequestEnds ==
  \A p \in Plot : plot[p].handler # "done" ~> plot[p].handler = "done"

\* Every planner gives its slot and its pool back, also after an early
\* answer or a departed client.
SlotsComeBack ==
  \A p \in Plot : plot[p].task # "done" ~> plot[p].task = "done"

-----------------------------------------------------------------------------
(* What comments and tests of plot.rs say and the code does not keep.       *)

\* "a refining entry is an early answer the portfolio is still improving;
\* the finished route replaces it": some planner of the key will still store.
RefiningIsImproved ==
  \A k \in Key : cache[k].refining =>
    \E p \in Plot : KeyOf(p) = k
                   /\ plot[p].task \in {"planning", "ended", "reinstating"}

\* "A finished entry (refining = false) [...] is never touched" by
\* keep_best_so_far.
KeepBestSparesFinished ==
  [][\A p \in Plot, r \in Rank :
       KeepBestSoFar(p, r) =>
         ~(Held(KeyOf(p)) /\ ~cache[KeyOf(p)].refining)]_vars

\* "Nothing found by the deadline: nothing will be": a plot refused at the
\* first-route deadline is one whose planner has no route.
DeadlineMeansNoRoute ==
  \A p \in Plot : plot[p].handler = "deadline" => plot[p].outcome # "route"
=============================================================================

------------------------- MODULE GalaxyStoreProofs -------------------------
(***************************************************************************)
(* Proofs about the galaxy tables and the two programs that write them at   *)
(* the same time, for any systems, stations, plans and faults.              *)
(*                                                                         *)
(* The argument: what a transaction has written it holds the locks of, and  *)
(* no lock is held twice.  A station row names a system that is there, or   *)
(* one whose move is not over yet; a provisional row only moves under a     *)
(* lock that nobody who files a station below it can have.  A board is      *)
(* written under one lock from the look at its watermark to the commit.     *)
(* Where the plans agree on the systems' names, every row keeps its name, no *)
(* two rows share one, and the dump's boards stay in their own systems.     *)
(* The writer on its own finds each name it files held by the row it aims   *)
(* at or by none, and no lock taken: it fails at what the database refuses  *)
(* whatever is stored, and at nothing else.                                 *)
(***************************************************************************)
EXTENDS GalaxyStore, SequenceTheorems, TLAPS

Resting == {"idle", "done", "broken", "stars", "complete"}
BoardStages == {"out", "system", "station", "fresh", "write"}
JournalStages == {"held", "journal"}
SourceStages == {"migrate", "cascade", "taken", "insert"}
Stages == Resting \cup BoardStages \cup JournalStages \cup SourceStages
            \cup {"push", "ensure", "commit"}

\* The statement a program is at is one of the operation it is at.
Fits(ops, stage) ==
  \/ stage = "commit" /\ ops = <<>>
  \/ /\ ops # <<>>
     /\ \/ Head(ops).op = "board" /\ stage \in BoardStages
        \/ Head(ops).op = "journal" /\ stage \in JournalStages
        \/ Head(ops).op = "source" /\ stage \in SourceStages
        \/ Head(ops).op \in {"journal", "source"} /\ stage = "push"
        \/ Head(ops).op = "ensure" /\ stage = "ensure"

AnyOp == FeedOp \cup DumpOp
Writes(D, R) == UNION {[E -> R] : E \in SUBSET D}
Transaction == [sys : Writes(Address, SystemRow \cup {Nothing}),
                stn : Writes(Station, StationRowType), brd : Writes(Board, Observation)]
Program == [plan : Seq(Seq(AnyOp)), left : Seq(AnyOp), out : SUBSET Station, stage : Stages,
            addr : Address \cup {Nothing}, attempts : 0..(MaxAttempts - 1)]

Typed ==
  /\ systems \in [Address -> SystemRow \cup {Nothing}]
  /\ stations \in [Station -> StationRowType \cup {Nothing}]
  /\ boards \in [Board -> Observation \cup {Nothing}]
  /\ mine \in [Client -> Transaction]
  /\ locks = [c \in Client |-> locks[c]]
  /\ client \in [Client -> Program]
  /\ unfiled \subseteq Real
  /\ job \in {"running", "complete", "failed"} /\ dropped \in Nat

Disjoint == \A c, d \in Client : c # d => locks[c] \cap locks[d] = {}

\* What each program's operations are drawn from.
Draws == {O \in [Client -> SUBSET AnyOp] : O["feed"] \subseteq FeedOp /\ O["dump"] \subseteq DumpOp}

InBatch(O, c) ==
  LET me == client[c]
  IN  /\ me.plan \in Seq(Seq(O[c])) /\ me.left \in Seq(O[c])
      /\ me.stage \in Resting => mine[c] = Untouched
      /\ me.stage \in Resting \ {"broken"} => me.left = <<>>
      /\ me.stage \notin Resting => Fits(me.left, me.stage) /\ me.plan # <<>>
      /\ me.stage \in {"station", "journal", "cascade"} => me.addr \in Address
      /\ c = "feed" => me.stage \notin {"done", "stars", "complete"}
                       /\ (me.stage # "idle" => me.plan # <<>>)

\* Who looks at a watermark has a station: no station row goes away.  Who has yet to
\* write a cell into the stations of a system has its row.
Standing(c) ==
  /\ Stage(c) \in {"fresh", "write"} => Stations(c)[Op(c).station] # Nothing
  /\ Stage(c) = "push" => \A r \in Real : Brings(Op(c), r) =>
       At(r) \in DOMAIN mine[c].sys /\ mine[c].sys[At(r)] # Nothing

\* What a transaction has written it holds the locks of; only a provisional row
\* is ever moved away.
Locked(c) ==
  /\ \A a \in DOMAIN mine[c].sys :
       SystemKey(a) \in locks[c] /\ (mine[c].sys[a] = Nothing => ~a.real)
  /\ \A s \in DOMAIN mine[c].stn : StationKey(s) \in locks[c]

\* A station row that c sees names a system c sees, but for those of the row that
\* c moves right now; c has the system's row, or found the station there.
Filed(c) ==
  /\ \A s \in Station :
       Stations(c)[s] # Nothing =>
         \/ Stage(c) = "cascade" /\ Stations(c)[s].system = client[c].addr
         \/ Systems(c)[Stations(c)[s].system] # Nothing
  /\ \A s \in DOMAIN mine[c].stn :
       LET a == mine[c].stn[s].system
       IN  a.real \/ SystemKey(a) \in locks[c] \/ (stations[s] # Nothing /\ stations[s].system = a)
  /\ Stage(c) = "station" =>
       /\ client[c].addr \in DOMAIN mine[c].sys /\ mine[c].sys[client[c].addr] # Nothing
       /\ NameKey(Op(c).name) \in locks[c]
  /\ Stage(c) = "cascade" =>
       /\ client[c].addr \in DOMAIN mine[c].sys
       /\ At(Op(c).addr) \in DOMAIN mine[c].sys /\ mine[c].sys[At(Op(c).addr)] # Nothing

TablesFiled == \A s \in Station : stations[s] # Nothing => systems[stations[s].system] # Nothing

\* The dump comes to a station after its system was filed or left out.
Ready(r) == r \in unfiled \/ Systems("dump")[At(r)] # Nothing
Later == IF Stage("dump") \in Resting THEN client["dump"].plan ELSE Tail(client["dump"].plan)
Promised ==
  LET left == client["dump"].left
  IN  Stage("dump") \notin {"broken", "done"} =>
        /\ \A i \in DOMAIN left : left[i].op = "ensure" =>
             Ready(left[i].addr) \/ \E j \in 1..(i - 1) : Brings(left[j], left[i].addr)
        /\ \A k \in DOMAIN Later : \A i \in DOMAIN Later[k] : Later[k][i].op = "ensure" =>
             LET r == Later[k][i].addr
             IN  \/ Ready(r)
                 \/ \E j \in DOMAIN left : Brings(left[j], r)
                 \/ \E j \in 1..(i - 1) : Brings(Later[k][j], r)
                 \/ \E m \in 1..(k - 1) : \E j \in DOMAIN Later[m] : Brings(Later[m][j], r)

\* The part of the invariant that is about one program, and all of it.
Own(O, c) == InBatch(O, c) /\ Standing(c) /\ Locked(c) /\ Filed(c)
Owned(O) == Typed /\ Disjoint /\ TablesFiled /\ \A c \in Client : Own(O, c)
StoreInv(O) == Owned(O) /\ Promised
-----------------------------------------------------------------------------
(* Partial functions.                                                       *)

LEMMA PartialFunction ==
  ASSUME NEW D, NEW R, NEW f
  PROVE  f \in Writes(D, R) <=> \E E \in SUBSET D : f \in [E -> R]
BY DEF Writes

LEMMA PutPartial ==
  ASSUME NEW D, NEW R, NEW f \in Writes(D, R), NEW x \in D, NEW v \in R
  PROVE  /\ Put(f, x, v) \in Writes(D, R)
         /\ DOMAIN Put(f, x, v) = DOMAIN f \cup {x} /\ DOMAIN f \subseteq D
         /\ Put(f, x, v)[x] = v
         /\ \A y \in DOMAIN f : f[y] \in R /\ (y # x => Put(f, x, v)[y] = f[y])
<1>1. PICK E \in SUBSET D : f \in [E -> R]
  BY PartialFunction
<1>2. Put(f, x, v) \in [E \cup {x} -> R] /\ E \cup {x} \in SUBSET D
  BY <1>1 DEF Put
<1>3. Put(f, x, v) \in Writes(D, R)
  BY <1>2, PartialFunction
<1> QED BY <1>1, <1>3 DEF Put

LEMMA OverPartial ==
  ASSUME NEW D, NEW R, NEW f \in Writes(D, R), NEW g \in Writes(D, R)
  PROVE  /\ Over(f, g) \in Writes(D, R)
         /\ DOMAIN Over(f, g) = DOMAIN f \cup DOMAIN g
         /\ DOMAIN f \subseteq D /\ DOMAIN g \subseteq D
         /\ \A y \in DOMAIN f : Over(f, g)[y] = f[y] /\ f[y] \in R
         /\ \A y \in DOMAIN g \ DOMAIN f : Over(f, g)[y] = g[y] /\ g[y] \in R
<1>1. PICK E \in SUBSET D, F \in SUBSET D : f \in [E -> R] /\ g \in [F -> R]
  BY PartialFunction
<1>2. Over(f, g) \in [E \cup F -> R] /\ E \cup F \in SUBSET D
  BY <1>1 DEF Over
<1>3. Over(f, g) \in Writes(D, R)
  BY <1>2, PartialFunction
<1> QED BY <1>1, <1>3 DEF Over

LEMMA NoWrites == ASSUME NEW D, NEW R PROVE <<>> \in Writes(D, R) /\ DOMAIN <<>> = {}
<1>1. DOMAIN <<>> = {} /\ <<>> \in [{} -> R]
  OBVIOUS
<1> QED BY <1>1, PartialFunction

LEMMA UntouchedIsEmpty ==
  /\ Untouched \in Transaction
  /\ DOMAIN Untouched.sys = {} /\ DOMAIN Untouched.stn = {} /\ DOMAIN Untouched.brd = {}
BY NoWrites DEF Untouched, Transaction

LEMMA NothingIsNoRow ==
  /\ Nothing \notin Real /\ Nothing \notin Address
  /\ Nothing \notin SystemRow /\ Nothing \notin StationRowType /\ Nothing \notin Observation
BY GalaxyStoreAssumption DEF GalaxyStoreAssumption

\* What a program sees, by what it wrote.
LEMMA Sees ==
  ASSUME NEW m \in Transaction,
         NEW sys \in [Address -> SystemRow \cup {Nothing}],
         NEW stn \in [Station -> StationRowType \cup {Nothing}]
  PROVE  /\ Over(m.sys, sys) \in [Address -> SystemRow \cup {Nothing}]
         /\ Over(m.stn, stn) \in [Station -> StationRowType \cup {Nothing}]
         /\ DOMAIN m.sys \subseteq Address /\ DOMAIN m.stn \subseteq Station
         /\ \A a \in DOMAIN m.sys :
              Over(m.sys, sys)[a] = m.sys[a] /\ m.sys[a] \in SystemRow \cup {Nothing}
         /\ \A a \in Address \ DOMAIN m.sys : Over(m.sys, sys)[a] = sys[a]
         /\ \A s \in DOMAIN m.stn : Over(m.stn, stn)[s] = m.stn[s] /\ m.stn[s] \in StationRowType
         /\ \A s \in Station \ DOMAIN m.stn : Over(m.stn, stn)[s] = stn[s]
<1>1. /\ m.sys \in Writes(Address, SystemRow \cup {Nothing})
      /\ m.stn \in Writes(Station, StationRowType)
  BY DEF Transaction
<1>2. PICK E \in SUBSET Address : m.sys \in [E -> SystemRow \cup {Nothing}]
  BY <1>1, PartialFunction
<1>3. PICK F \in SUBSET Station : m.stn \in [F -> StationRowType]
  BY <1>1, PartialFunction
<1> QED BY <1>2, <1>3 DEF Over

LEMMA Views ==
  ASSUME Typed, NEW c \in Client
  PROVE  /\ mine[c] \in Transaction
         /\ Systems(c) \in [Address -> SystemRow \cup {Nothing}]
         /\ Stations(c) \in [Station -> StationRowType \cup {Nothing}]
         /\ DOMAIN mine[c].sys \subseteq Address /\ DOMAIN mine[c].stn \subseteq Station
         /\ \A a \in DOMAIN mine[c].sys :
              Systems(c)[a] = mine[c].sys[a] /\ mine[c].sys[a] \in SystemRow \cup {Nothing}
         /\ \A a \in Address \ DOMAIN mine[c].sys : Systems(c)[a] = systems[a]
         /\ \A s \in DOMAIN mine[c].stn :
              Stations(c)[s] = mine[c].stn[s] /\ mine[c].stn[s] \in StationRowType
         /\ \A s \in Station \ DOMAIN mine[c].stn : Stations(c)[s] = stations[s]
<1>1. mine[c] \in Transaction
  BY DEF Typed
<1> QED BY <1>1, Sees DEF Typed, Systems, Stations

LEMMA ViewsNext ==
  ASSUME Typed', NEW c \in Client
  PROVE  /\ mine'[c] \in Transaction
         /\ Systems(c)' \in [Address -> SystemRow \cup {Nothing}]
         /\ Stations(c)' \in [Station -> StationRowType \cup {Nothing}]
         /\ DOMAIN mine'[c].sys \subseteq Address /\ DOMAIN mine'[c].stn \subseteq Station
         /\ \A a \in DOMAIN mine'[c].sys :
              Systems(c)'[a] = mine'[c].sys[a] /\ mine'[c].sys[a] \in SystemRow \cup {Nothing}
         /\ \A a \in Address \ DOMAIN mine'[c].sys : Systems(c)'[a] = systems'[a]
         /\ \A s \in DOMAIN mine'[c].stn :
              Stations(c)'[s] = mine'[c].stn[s] /\ mine'[c].stn[s] \in StationRowType
         /\ \A s \in Station \ DOMAIN mine'[c].stn : Stations(c)'[s] = stations'[s]
<1>1. mine'[c] \in Transaction
  BY DEF Typed
<1> QED BY <1>1, Sees DEF Typed, Systems, Stations
-----------------------------------------------------------------------------
(* Where a program goes.                                                    *)

\* Of the programs, only c changes.
Alone(c) == \A d \in Client : d # c => client'[d] = client[d]

LEMMA GoesTo ==
  ASSUME Typed, NEW c \in Client, NEW stage \in Stages, Goto(c, stage)
  PROVE  /\ client' \in [Client -> Program] /\ Alone(c)
         /\ client'[c].stage = stage /\ client'[c].addr = client[c].addr
         /\ client'[c].plan = client[c].plan /\ client'[c].left = client[c].left
BY DEF Typed, Program, Goto, Alone

LEMMA GoesAt ==
  ASSUME Typed, NEW c \in Client, NEW stage \in Stages, NEW a \in Address, GotoAt(c, stage, a)
  PROVE  /\ client' \in [Client -> Program] /\ Alone(c)
         /\ client'[c].stage = stage /\ client'[c].addr = a
         /\ client'[c].plan = client[c].plan /\ client'[c].left = client[c].left
BY DEF Typed, Program, GotoAt, Alone

FirstStages == {"commit", "out", "system", "held", "migrate", "ensure"}

LEMMA Entering ==
  ASSUME NEW ops \in Seq(AnyOp), NEW out
  PROVE  /\ Enter(ops, out) \in FirstStages /\ Enter(ops, out) \in Stages
         /\ Fits(ops, Enter(ops, out))
<1>1. CASE ops = <<>>
  BY <1>1 DEF Enter, Fits, FirstStages, Stages
<1>2. CASE ops # <<>>
  <2>1. Head(ops) \in AnyOp
    BY <1>2, HeadTailProperties
  <2>2. Head(ops).op \in {"board", "journal", "source", "ensure"}
    BY <2>1 DEF AnyOp, FeedOp, DumpOp, BoardOp, JournalOp, SourceOp, EnsureOp
  <2>3. CASE Head(ops).op = "board"
    BY <1>2, <2>3 DEF Enter, Fits, FirstStages, Stages, BoardStages
  <2>4. CASE Head(ops).op = "journal"
    BY <1>2, <2>4 DEF Enter, Fits, FirstStages, Stages, JournalStages
  <2>5. CASE Head(ops).op = "source"
    BY <1>2, <2>5 DEF Enter, Fits, FirstStages, Stages, SourceStages
  <2>6. CASE Head(ops).op = "ensure"
    BY <1>2, <2>6 DEF Enter, Fits, FirstStages, Stages
  <2> QED BY <2>2, <2>3, <2>4, <2>5, <2>6
<1> QED BY <1>1, <1>2

LEMMA GoesOn ==
  ASSUME Typed, NEW O \in Draws, NEW c \in Client, NEW out \in SUBSET Station,
         InBatch(O, c), Stage(c) \notin Resting \cup {"commit"}, GoOnWithout(c, out)
  PROVE  /\ client' \in [Client -> Program] /\ Alone(c)
         /\ client'[c].plan = client[c].plan /\ client'[c].addr = client[c].addr
         /\ client[c].left # <<>> /\ client'[c].left = Tail(client[c].left)
         /\ client'[c].left \in Seq(O[c])
         /\ client'[c].stage \in FirstStages /\ Fits(client'[c].left, client'[c].stage)
<1>1. client[c].left # <<>> /\ client[c].left \in Seq(O[c])
  BY DEF InBatch, Fits, Stage, BoardStages, JournalStages, SourceStages
<1>2. client[c] \in Program /\ client[c].left \in Seq(AnyOp)
  BY DEF Typed, Program
<1>3. Tail(client[c].left) \in Seq(O[c]) /\ Tail(client[c].left) \in Seq(AnyOp)
  BY <1>1, <1>2, HeadTailProperties
<1> DEFINE first == Enter(Tail(client[c].left), out)
<1>4. first \in FirstStages /\ first \in Stages /\ Fits(Tail(client[c].left), first)
  BY <1>3, Entering
<1> HIDE DEF first
<1>5. client' = [client EXCEPT ![c].left = Tail(@), ![c].out = out, ![c].stage = first]
  BY DEF GoOnWithout, first
<1>6. /\ client' \in [Client -> Program] /\ Alone(c)
      /\ client'[c].plan = client[c].plan /\ client'[c].addr = client[c].addr
      /\ client'[c].left = Tail(client[c].left) /\ client'[c].stage = first
  BY <1>2, <1>3, <1>4, <1>5 DEF Typed, Program, Alone
<1> QED BY <1>1, <1>3, <1>4, <1>6
-----------------------------------------------------------------------------
(* The operation a program is at.                                           *)

LEMMA AtOp ==
  ASSUME Typed, NEW O \in Draws, NEW c \in Client, InBatch(O, c),
         Stage(c) \notin Resting \cup {"commit"}
  PROVE  /\ client[c].left # <<>> /\ client[c].left \in Seq(O[c])
         /\ Op(c) \in O[c] /\ Op(c) \in AnyOp
         /\ Stage(c) \in BoardStages => Op(c) \in BoardOp
         /\ Stage(c) \in JournalStages => Op(c) \in JournalOp
         /\ Stage(c) \in SourceStages => Op(c) \in SourceOp /\ c = "dump"
         /\ Stage(c) = "push" => Op(c) \in JournalOp \cup SourceOp
         /\ Stage(c) = "ensure" => Op(c) \in EnsureOp /\ c = "dump"
<1>1. client[c].left # <<>> /\ client[c].left \in Seq(O[c]) /\ Fits(client[c].left, Stage(c))
  BY DEF InBatch, Fits, Stage
<1>2. Op(c) \in O[c] /\ Op(c) \in AnyOp
  <2>1. Op(c) \in O[c]
    BY <1>1, HeadTailProperties DEF Op
  <2> QED BY <2>1 DEF Draws
<1>3. \/ Op(c) \in BoardOp /\ Op(c).op = "board"
      \/ Op(c) \in JournalOp /\ Op(c).op = "journal"
      \/ Op(c) \in SourceOp /\ Op(c).op = "source"
      \/ Op(c) \in EnsureOp /\ Op(c).op = "ensure"
  BY <1>2 DEF AnyOp, FeedOp, DumpOp, BoardOp, JournalOp, SourceOp, EnsureOp
<1>4. Op(c).op \in {"source", "ensure"} => c = "dump"
  <2>1. O["feed"] \subseteq FeedOp
    BY DEF Draws
  <2>2. \A op \in FeedOp : op.op \in {"board", "journal"}
    BY DEF FeedOp, BoardOp, JournalOp
  <2> QED BY <1>2, <2>1, <2>2 DEF Client
<1>5. /\ Stage(c) \in BoardStages => Op(c).op = "board"
      /\ Stage(c) \in JournalStages => Op(c).op = "journal"
      /\ Stage(c) \in SourceStages => Op(c).op = "source"
      /\ Stage(c) = "push" => Op(c).op \in {"journal", "source"}
      /\ Stage(c) = "ensure" => Op(c).op = "ensure"
  BY <1>1 DEF Fits, Op, BoardStages, JournalStages, SourceStages
<1> QED BY <1>1, <1>2, <1>3, <1>4, <1>5

LEMMA AddressesFound ==
  ASSUME Typed, NEW c \in Client, NEW n \in Name
  PROVE  AddressFor(c, n) \in Address
<1>1. Prov(n) \in Address
  BY DEF Address
<1>2. Holders(c, n) \subseteq Address
  BY DEF Holders, HoldersIn
<1>3. CASE Holders(c, n) = {}
  BY <1>1, <1>3 DEF AddressFor
<1>4. CASE Holders(c, n) # {}
  <2>1. (CHOOSE a \in Holders(c, n) : TRUE) \in Holders(c, n)
    BY <1>4
  <2> QED BY <1>2, <1>4, <2>1 DEF AddressFor
<1> QED BY <1>3, <1>4

LEMMA RealAddress == ASSUME NEW r \in Real PROVE At(r) \in Address /\ At(r).real
BY DEF Address, At
-----------------------------------------------------------------------------
(* What a program writes.                                                   *)

\* Of the transactions, only that of c changes.
Private(c) == \A d \in Client : d # c => mine'[d] = mine[d]

StoresSystem(c, a, row) == mine' = [mine EXCEPT ![c] = WriteSystem(c, a, row)]
StoresStation(c, s, row) == mine' = [mine EXCEPT ![c] = WriteStation(c, s, row)]
MovesSystem(c, p, to, row) == mine' = [mine EXCEPT ![c].sys = Put(Put(@, to, row), p, Nothing)]
StoresBoard(c) == mine' = [mine EXCEPT ![c] = Replace(c)]
MovesStations(c) ==
  mine' = [mine EXCEPT ![c].stn =
             Over([s \in Moved(c) |-> [Stations(c)[s] EXCEPT !.system = At(Op(c).addr)]], @)]

LEMMA WroteSystem ==
  ASSUME Typed, NEW c \in Client, NEW a \in Address, NEW row \in SystemRow \cup {Nothing},
         StoresSystem(c, a, row)
  PROVE  /\ mine' \in [Client -> Transaction] /\ Private(c)
         /\ mine'[c].stn = mine[c].stn /\ mine'[c].brd = mine[c].brd
         /\ DOMAIN mine'[c].sys = DOMAIN mine[c].sys \cup {a} /\ mine'[c].sys[a] = row
         /\ \A x \in DOMAIN mine[c].sys : x # a => mine'[c].sys[x] = mine[c].sys[x]
<1>1. /\ mine[c] \in Transaction /\ mine[c].sys \in Writes(Address, SystemRow \cup {Nothing})
      /\ mine[c].stn \in Writes(Station, StationRowType) /\ mine[c].brd \in Writes(Board, Observation)
  BY DEF Typed, Transaction
<1>2. PICK g : g = Put(mine[c].sys, a, row)
  OBVIOUS
<1>3. /\ g \in Writes(Address, SystemRow \cup {Nothing})
      /\ DOMAIN g = DOMAIN mine[c].sys \cup {a} /\ g[a] = row
      /\ \A x \in DOMAIN mine[c].sys : x # a => g[x] = mine[c].sys[x]
  <2>1. PICK E \in SUBSET Address : mine[c].sys \in [E -> SystemRow \cup {Nothing}]
    BY <1>1, PartialFunction
  <2>2. g \in [E \cup {a} -> SystemRow \cup {Nothing}] /\ E \cup {a} \in SUBSET Address
    BY <1>2, <2>1 DEF Put
  <2>3. g \in Writes(Address, SystemRow \cup {Nothing})
    BY <2>2, PartialFunction
  <2> QED BY <1>2, <2>1, <2>3 DEF Put
<1>4. mine' = [mine EXCEPT ![c] = [sys |-> g, stn |-> mine[c].stn, brd |-> mine[c].brd]]
  <2>1. WriteSystem(c, a, row) = [sys |-> g, stn |-> mine[c].stn, brd |-> mine[c].brd]
    BY <1>1, <1>2 DEF WriteSystem, Transaction
  <2> QED BY <2>1 DEF StoresSystem
<1>5. [sys |-> g, stn |-> mine[c].stn, brd |-> mine[c].brd] \in Transaction
  BY <1>1, <1>3 DEF Transaction
<1>6. mine \in [Client -> Transaction]
  BY DEF Typed
<1>7. /\ mine' \in [Client -> Transaction] /\ Private(c)
      /\ mine'[c] = [sys |-> g, stn |-> mine[c].stn, brd |-> mine[c].brd]
  BY <1>4, <1>5, <1>6 DEF Private
<1> QED BY <1>3, <1>7

LEMMA WroteStation ==
  ASSUME Typed, NEW c \in Client, NEW s \in Station, NEW row \in StationRowType,
         StoresStation(c, s, row)
  PROVE  /\ mine' \in [Client -> Transaction] /\ Private(c)
         /\ mine'[c].sys = mine[c].sys /\ mine'[c].brd = mine[c].brd
         /\ DOMAIN mine'[c].stn = DOMAIN mine[c].stn \cup {s} /\ mine'[c].stn[s] = row
         /\ \A x \in DOMAIN mine[c].stn : x # s => mine'[c].stn[x] = mine[c].stn[x]
<1>1. /\ mine[c] \in Transaction /\ mine[c].sys \in Writes(Address, SystemRow \cup {Nothing})
      /\ mine[c].stn \in Writes(Station, StationRowType) /\ mine[c].brd \in Writes(Board, Observation)
  BY DEF Typed, Transaction
<1>2. PICK g : g = Put(mine[c].stn, s, row)
  OBVIOUS
<1>3. /\ g \in Writes(Station, StationRowType)
      /\ DOMAIN g = DOMAIN mine[c].stn \cup {s} /\ g[s] = row
      /\ \A x \in DOMAIN mine[c].stn : x # s => g[x] = mine[c].stn[x]
  <2>1. PICK E \in SUBSET Station : mine[c].stn \in [E -> StationRowType]
    BY <1>1, PartialFunction
  <2>2. g \in [E \cup {s} -> StationRowType] /\ E \cup {s} \in SUBSET Station
    BY <1>2, <2>1 DEF Put
  <2>3. g \in Writes(Station, StationRowType)
    BY <2>2, PartialFunction
  <2> QED BY <1>2, <2>1, <2>3 DEF Put
<1>4. mine' = [mine EXCEPT ![c] = [sys |-> mine[c].sys, stn |-> g, brd |-> mine[c].brd]]
  <2>1. WriteStation(c, s, row) = [sys |-> mine[c].sys, stn |-> g, brd |-> mine[c].brd]
    BY <1>1, <1>2 DEF WriteStation, Transaction
  <2> QED BY <2>1 DEF StoresStation
<1>5. [sys |-> mine[c].sys, stn |-> g, brd |-> mine[c].brd] \in Transaction
  BY <1>1, <1>3 DEF Transaction
<1>6. mine \in [Client -> Transaction]
  BY DEF Typed
<1>7. /\ mine' \in [Client -> Transaction] /\ Private(c)
      /\ mine'[c] = [sys |-> mine[c].sys, stn |-> g, brd |-> mine[c].brd]
  BY <1>4, <1>5, <1>6 DEF Private
<1> QED BY <1>3, <1>7

\* A row moves to its address; what p held is at to.
LEMMA WroteMove ==
  ASSUME Typed, NEW c \in Client, NEW p \in Address, NEW to \in Address, p # to,
         NEW row \in SystemRow,
         MovesSystem(c, p, to, row)
  PROVE  /\ mine' \in [Client -> Transaction] /\ Private(c)
         /\ mine'[c].stn = mine[c].stn /\ mine'[c].brd = mine[c].brd
         /\ DOMAIN mine'[c].sys = DOMAIN mine[c].sys \cup {p, to}
         /\ mine'[c].sys[p] = Nothing /\ mine'[c].sys[to] = row
         /\ \A x \in DOMAIN mine[c].sys : x \notin {p, to} => mine'[c].sys[x] = mine[c].sys[x]
<1>1. /\ mine[c] \in Transaction /\ mine[c].sys \in Writes(Address, SystemRow \cup {Nothing})
      /\ mine[c].stn \in Writes(Station, StationRowType) /\ mine[c].brd \in Writes(Board, Observation)
  BY DEF Typed, Transaction
<1>2. PICK g : g = Put(Put(mine[c].sys, to, row), p, Nothing)
  OBVIOUS
<1>3. /\ g \in Writes(Address, SystemRow \cup {Nothing})
      /\ DOMAIN g = DOMAIN mine[c].sys \cup {p, to} /\ g[p] = Nothing /\ g[to] = row
      /\ \A x \in DOMAIN mine[c].sys : x \notin {p, to} => g[x] = mine[c].sys[x]
  <2>1. PICK E \in SUBSET Address : mine[c].sys \in [E -> SystemRow \cup {Nothing}]
    BY <1>1, PartialFunction
  <2>2. PICK h : h = Put(mine[c].sys, to, row)
    OBVIOUS
  <2>3. /\ h \in [E \cup {to} -> SystemRow \cup {Nothing}] /\ h[to] = row
        /\ \A x \in E : x # to => h[x] = mine[c].sys[x]
    BY <2>1, <2>2 DEF Put
  <2>4. /\ g \in [E \cup {p, to} -> SystemRow \cup {Nothing}] /\ g[p] = Nothing
        /\ \A x \in E \cup {to} : x # p => g[x] = h[x]
    BY <1>2, <2>2, <2>3 DEF Put
  <2>5. g \in Writes(Address, SystemRow \cup {Nothing})
    BY <2>4, PartialFunction
  <2> QED BY <2>1, <2>3, <2>4, <2>5
<1>4. mine' = [mine EXCEPT ![c] = [sys |-> g, stn |-> mine[c].stn, brd |-> mine[c].brd]]
  <2>1. [mine[c] EXCEPT !.sys = g] = [sys |-> g, stn |-> mine[c].stn, brd |-> mine[c].brd]
    BY <1>1 DEF Transaction
  <2>2. mine' = [mine EXCEPT ![c] = [mine[c] EXCEPT !.sys = g]]
    BY <1>2 DEF MovesSystem
  <2> QED BY <2>1, <2>2
<1>5. [sys |-> g, stn |-> mine[c].stn, brd |-> mine[c].brd] \in Transaction
  BY <1>1, <1>3 DEF Transaction
<1>6. mine \in [Client -> Transaction]
  BY DEF Typed
<1>7. /\ mine' \in [Client -> Transaction] /\ Private(c)
      /\ mine'[c] = [sys |-> g, stn |-> mine[c].stn, brd |-> mine[c].brd]
  BY <1>4, <1>5, <1>6 DEF Private
<1> QED BY <1>3, <1>7

\* The rows of a board, under the watermark that has them.
LEMMA WroteBoard ==
  ASSUME Typed, NEW c \in Client, NEW s \in Station, NEW p \in Product, NEW b, b = <<s, p>>,
         Op(c) \in BoardOp, s = Op(c).station, p = Op(c).product, Stations(c)[s] # Nothing,
         StoresBoard(c)
  PROVE  /\ mine' \in [Client -> Transaction] /\ Private(c)
         /\ mine'[c].sys = mine[c].sys
         /\ DOMAIN mine'[c].stn = DOMAIN mine[c].stn \cup {s}
         /\ \A x \in DOMAIN mine[c].stn : x # s => mine'[c].stn[x] = mine[c].stn[x]
         /\ mine'[c].stn[s].system = Stations(c)[s].system
         /\ mine'[c].stn[s].mark[p] = Op(c).at
         /\ \A q \in Product : q # p => mine'[c].stn[s].mark[q] = Stations(c)[s].mark[q]
         /\ DOMAIN mine'[c].brd = DOMAIN mine[c].brd \cup {b}
         /\ mine'[c].brd[b].at = Op(c).at /\ mine'[c].brd[b].by = c
         /\ \A x \in DOMAIN mine[c].brd : x # b => mine'[c].brd[x] = mine[c].brd[x]
<1>1. /\ mine[c] \in Transaction /\ mine[c].sys \in Writes(Address, SystemRow \cup {Nothing})
      /\ mine[c].stn \in Writes(Station, StationRowType) /\ mine[c].brd \in Writes(Board, Observation)
  BY DEF Typed, Transaction
<1>2. Stations(c)[s] \in StationRowType /\ Op(c).at \in Nat
  BY Views DEF BoardOp
<1>3. PICK row : row = [Stations(c)[s] EXCEPT !.mark[p] = Op(c).at]
  OBVIOUS
<1>4. /\ row \in StationRowType /\ row.system = Stations(c)[s].system
      /\ row.mark[p] = Op(c).at
      /\ \A q \in Product : q # p => row.mark[q] = Stations(c)[s].mark[q]
  BY <1>2, <1>3 DEF StationRowType
<1>5. PICK seen : seen = [at |-> Op(c).at, by |-> c]
  OBVIOUS
<1>6. seen \in Observation /\ b \in Board
  BY <1>5 DEF Observation, Board, BoardOp
<1>7. PICK g, h : g = Put(mine[c].stn, s, row) /\ h = Put(mine[c].brd, b, seen)
  OBVIOUS
<1>8. /\ g \in Writes(Station, StationRowType)
      /\ DOMAIN g = DOMAIN mine[c].stn \cup {s} /\ g[s] = row
      /\ \A x \in DOMAIN mine[c].stn : x # s => g[x] = mine[c].stn[x]
  <2>1. PICK E \in SUBSET Station : mine[c].stn \in [E -> StationRowType]
    BY <1>1, PartialFunction
  <2>2. g \in [E \cup {s} -> StationRowType] /\ E \cup {s} \in SUBSET Station
    BY <1>4, <1>7, <2>1 DEF Put
  <2>3. g \in Writes(Station, StationRowType)
    BY <2>2, PartialFunction
  <2> QED BY <1>7, <2>1, <2>3 DEF Put
<1>9. /\ h \in Writes(Board, Observation)
      /\ DOMAIN h = DOMAIN mine[c].brd \cup {b} /\ h[b] = seen
      /\ \A x \in DOMAIN mine[c].brd : x # b => h[x] = mine[c].brd[x]
  <2>1. PICK E \in SUBSET Board : mine[c].brd \in [E -> Observation]
    BY <1>1, PartialFunction
  <2>2. h \in [E \cup {b} -> Observation] /\ E \cup {b} \in SUBSET Board
    BY <1>6, <1>7, <2>1 DEF Put
  <2>3. h \in Writes(Board, Observation)
    BY <2>2, PartialFunction
  <2> QED BY <1>7, <2>1, <2>3 DEF Put
<1>10. mine' = [mine EXCEPT ![c] = [sys |-> mine[c].sys, stn |-> g, brd |-> h]]
  <2>1. Replace(c) = [WriteStation(c, s, row) EXCEPT !.brd = Put(@, b, seen)]
    BY <1>3, <1>5 DEF Replace
  <2>2. WriteStation(c, s, row) = [sys |-> mine[c].sys, stn |-> g, brd |-> mine[c].brd]
    BY <1>1, <1>7 DEF WriteStation, Transaction
  <2>3. Replace(c) = [sys |-> mine[c].sys, stn |-> g, brd |-> h]
    BY <1>7, <2>1, <2>2
  <2> QED BY <2>3 DEF StoresBoard
<1>11. [sys |-> mine[c].sys, stn |-> g, brd |-> h] \in Transaction
  BY <1>1, <1>8, <1>9 DEF Transaction
<1>12. mine \in [Client -> Transaction]
  BY DEF Typed
<1>13. /\ mine' \in [Client -> Transaction] /\ Private(c)
       /\ mine'[c] = [sys |-> mine[c].sys, stn |-> g, brd |-> h]
  BY <1>10, <1>11, <1>12 DEF Private
<1> QED BY <1>4, <1>5, <1>8, <1>9, <1>13

\* The stations of the row that moved follow it.
LEMMA WroteCascade ==
  ASSUME Typed, NEW c \in Client, NEW to \in Address, to = At(Op(c).addr), MovesStations(c)
  PROVE  /\ mine' \in [Client -> Transaction] /\ Private(c)
         /\ mine'[c].sys = mine[c].sys /\ mine'[c].brd = mine[c].brd
         /\ DOMAIN mine'[c].stn = DOMAIN mine[c].stn \cup Moved(c)
         /\ \A s \in DOMAIN mine[c].stn \ Moved(c) : mine'[c].stn[s] = mine[c].stn[s]
         /\ \A s \in Moved(c) : /\ mine'[c].stn[s].system = to
                                 /\ mine'[c].stn[s].mark = Stations(c)[s].mark
<1>1. /\ mine[c] \in Transaction /\ mine[c].sys \in Writes(Address, SystemRow \cup {Nothing})
      /\ mine[c].stn \in Writes(Station, StationRowType) /\ mine[c].brd \in Writes(Board, Observation)
  BY DEF Typed, Transaction
<1>2. PICK f : f = [s \in Moved(c) |-> [Stations(c)[s] EXCEPT !.system = to]]
  OBVIOUS
<1>3. \A s \in Moved(c) : s \in Station /\ Stations(c)[s] \in StationRowType
  BY Views DEF Moved
<1>4. /\ f \in [Moved(c) -> StationRowType]
      /\ \A s \in Moved(c) : f[s].system = to /\ f[s].mark = Stations(c)[s].mark
  BY <1>2, <1>3 DEF StationRowType
<1>5. PICK g : g = Over(f, mine[c].stn)
  OBVIOUS
<1>6. /\ g \in Writes(Station, StationRowType)
      /\ DOMAIN g = DOMAIN mine[c].stn \cup Moved(c)
      /\ \A s \in Moved(c) : g[s] = f[s]
      /\ \A s \in DOMAIN mine[c].stn \ Moved(c) : g[s] = mine[c].stn[s]
  <2>1. PICK E \in SUBSET Station : mine[c].stn \in [E -> StationRowType]
    BY <1>1, PartialFunction
  <2>2. g \in [E \cup Moved(c) -> StationRowType] /\ E \cup Moved(c) \in SUBSET Station
    BY <1>3, <1>4, <1>5, <2>1 DEF Over
  <2>3. g \in Writes(Station, StationRowType)
    BY <2>2, PartialFunction
  <2> QED BY <1>4, <1>5, <2>1, <2>3 DEF Over
<1>7. mine' = [mine EXCEPT ![c] = [sys |-> mine[c].sys, stn |-> g, brd |-> mine[c].brd]]
  <2>1. [mine[c] EXCEPT !.stn = g] = [sys |-> mine[c].sys, stn |-> g, brd |-> mine[c].brd]
    BY <1>1 DEF Transaction
  <2>2. mine' = [mine EXCEPT ![c] = [mine[c] EXCEPT !.stn = g]]
    BY <1>2, <1>5 DEF MovesStations
  <2> QED BY <2>1, <2>2
<1>8. [sys |-> mine[c].sys, stn |-> g, brd |-> mine[c].brd] \in Transaction
  BY <1>1, <1>6 DEF Transaction
<1>9. mine \in [Client -> Transaction]
  BY DEF Typed
<1>10. /\ mine' \in [Client -> Transaction] /\ Private(c)
       /\ mine'[c] = [sys |-> mine[c].sys, stn |-> g, brd |-> mine[c].brd]
  BY <1>7, <1>8, <1>9 DEF Private
<1>11. mine'[c].sys = mine[c].sys /\ mine'[c].brd = mine[c].brd /\ mine'[c].stn = g
  BY <1>10
<1>12. \A s \in Moved(c) : g[s].system = to /\ g[s].mark = Stations(c)[s].mark
  BY <1>4, <1>6
<1>13. \A s \in Moved(c) : /\ mine'[c].stn[s].system = to
                           /\ mine'[c].stn[s].mark = Stations(c)[s].mark
  BY <1>11, <1>12
<1> QED BY <1>6, <1>10, <1>11, <1>13
-----------------------------------------------------------------------------
(* The steps that publish nothing.                                          *)

LocksGrow(c) ==
  /\ locks' = [d \in Client |-> locks'[d]]
  /\ \A d \in Client : d # c => locks[d] \subseteq locks'[d]

\* A statement that runs holds what it wants, which nobody else does.
LEMMA Statements ==
  ASSUME Typed, Disjoint, NEW c \in Client, NEW stage, Statement(c, stage)
  PROVE  /\ Stage(c) = stage /\ UNCHANGED tables /\ job' = job
         /\ LocksGrow(c) /\ Disjoint'
         /\ locks[c] \subseteq locks'[c] /\ Wants(c) \subseteq locks'[c]
<1>1. PICK W : W = Wants(c)
  OBVIOUS
<1>2. /\ Stage(c) = stage /\ UNCHANGED <<systems, stations, boards, job>>
      /\ locks' = [locks EXCEPT ![c] = @ \cup W]
      /\ \A d \in Client \ {c} : W \cap locks[d] = {}
  BY <1>1 DEF Statement, Blocked, tables
<1>3. locks = [d \in Client |-> locks[d]]
  BY DEF Typed
<1>4. /\ locks' = [d \in Client |-> locks'[d]]
      /\ locks'[c] = locks[c] \cup W /\ \A d \in Client : d # c => locks'[d] = locks[d]
  BY <1>2, <1>3
<1>5. Disjoint'
  BY <1>2, <1>4 DEF Disjoint
<1> QED BY <1>1, <1>2, <1>4, <1>5 DEF LocksGrow, tables

\* What no step of c touches of another program stays true of it.
LEMMA Bystanders ==
  ASSUME NEW O \in Draws, Owned(O), NEW c \in Client, UNCHANGED tables, Alone(c), Private(c),
         LocksGrow(c), Typed', Disjoint', Own(O, c)'
  PROVE  Owned(O)'
<1>1. TablesFiled'
  BY DEF TablesFiled, tables, Owned
<1>2. ASSUME NEW d \in Client, d # c PROVE Own(O, d)'
  <2>1. /\ systems' = systems /\ stations' = stations
        /\ mine'[d] = mine[d] /\ client'[d] = client[d] /\ locks[d] \subseteq locks'[d]
    BY <1>2 DEF tables, Alone, Private, LocksGrow
  <2>2. /\ Systems(d)' = Systems(d) /\ Stations(d)' = Stations(d)
        /\ Stage(d)' = Stage(d) /\ Op(d)' = Op(d)
    BY <2>1 DEF Systems, Stations, Stage, Op
  <2>3. InBatch(O, d)'
    BY <2>1 DEF InBatch, Owned, Own
  <2>4. Standing(d)'
    BY <2>1, <2>2 DEF Standing, Owned, Own
  <2>5. Locked(d)'
    BY <2>1 DEF Locked, Owned, Own
  <2>6. Filed(d)'
    BY <2>1, <2>2 DEF Filed, Owned, Own
  <2> QED BY <2>3, <2>4, <2>5, <2>6 DEF Own
<1> QED BY <1>1, <1>2 DEF Owned

\* A step within an operation, or on to the next.
LEMMA StaysInBatch ==
  ASSUME NEW O \in Draws, NEW c \in Client, InBatch(O, c), Stage(c) \notin Resting,
         client'[c].plan = client[c].plan, client'[c].left \in Seq(O[c]),
         client'[c].stage \notin Resting, Fits(client'[c].left, client'[c].stage),
         client'[c].stage \in {"station", "journal", "cascade"} => client'[c].addr \in Address
  PROVE  InBatch(O, c)'
BY DEF InBatch, Stage, Resting

\* What c sees of systems does not shrink and its stations are what they were.
LEMMA FiledStays ==
  ASSUME Typed, Typed', NEW c \in Client, Filed(c), Stage(c) # "cascade",
         Stage(c)' \notin {"station", "cascade"},
         UNCHANGED tables, mine'[c].stn = mine[c].stn, locks[c] \subseteq locks'[c],
         \A a \in Address : Systems(c)[a] # Nothing => Systems(c)'[a] # Nothing
  PROVE  Filed(c)' /\ Stations(c)' = Stations(c)
<1>1. Stations(c)' = Stations(c) /\ stations' = stations
  BY DEF Stations, tables
<1>2. \A s \in Station : Stations(c)[s] # Nothing => Stations(c)[s].system \in Address
  BY Views DEF StationRowType
<1>3. \A s \in Station : Stations(c)'[s] # Nothing => Systems(c)'[Stations(c)'[s].system] # Nothing
  BY <1>1, <1>2 DEF Filed
<1>4. \A s \in DOMAIN mine'[c].stn :
        LET a == mine'[c].stn[s].system
        IN  a.real \/ SystemKey(a) \in locks'[c] \/ (stations'[s] # Nothing /\ stations'[s].system = a)
  BY <1>1 DEF Filed
<1> QED BY <1>1, <1>3, <1>4 DEF Filed

\* A step of c that writes nothing.
LEMMA WroteNothing ==
  ASSUME NEW O \in Draws, Owned(O), NEW c \in Client, UNCHANGED <<tables, mine>>,
         locks[c] \subseteq locks'[c], Typed'
  PROVE  /\ Private(c) /\ Locked(c)' /\ Stations(c)' = Stations(c)
         /\ Stage(c) # "cascade" /\ Stage(c)' \notin {"station", "cascade"} => Filed(c)'
<1>1. Systems(c)' = Systems(c) /\ Stations(c)' = Stations(c)
  BY DEF Systems, Stations, tables
<1>2. Locked(c)'
  BY DEF Locked, Owned, Own
<1>3. Private(c) /\ mine'[c] = mine[c]
  BY DEF Private
<1>4. Stage(c) # "cascade" /\ Stage(c)' \notin {"station", "cascade"} => Filed(c)'
  BY <1>1, <1>3, FiledStays DEF Owned, Own
<1> QED BY <1>1, <1>2, <1>3, <1>4
-----------------------------------------------------------------------------
(* Each statement.                                                          *)

\* What the promise to the dump's stations needs of a step of c.
Shifts(c) ==
  /\ UNCHANGED tables /\ Alone(c) /\ Private(c)
  /\ Stage(c) \notin Resting /\ Stage(c)' \notin Resting
  /\ client'[c].plan = client[c].plan /\ unfiled \subseteq unfiled'
  /\ \A a \in Address : a.real /\ Systems(c)[a] # Nothing => Systems(c)'[a] # Nothing
  /\ \/ client'[c].left = client[c].left
     \/ /\ client[c].left # <<>> /\ client'[c].left = Tail(client[c].left)
        /\ c = "dump" => \A r \in Real : Brings(Op(c), r) => Ready(r)'

\* The marks of a station c sees; a step of c that files no board carries them.
SeenMarks(c, s) == IF Stations(c)[s] = Nothing THEN NoMarks ELSE Stations(c)[s].mark
Carries(c) ==
  /\ mine'[c].brd = mine[c].brd /\ DOMAIN mine[c].stn \subseteq DOMAIN mine'[c].stn
  /\ \A s \in DOMAIN mine'[c].stn : mine'[c].stn[s].mark = SeenMarks(c, s)

\* A program that comes to look at a watermark, or to write a board.
LooksOn(c) ==
  /\ Stage(c)' = "fresh" =>
       /\ Stage(c) = "station" /\ Op(c)' = Op(c)
       /\ Op(c).byId => StationKey(Op(c).station) \in locks'[c]
  /\ Stage(c)' = "write" =>
       Stage(c) = "fresh" /\ Op(c)' = Op(c) /\ Accepts(c) /\ mine'[c] = mine[c]

\* The transaction of c is gone, or was not there; c rests or begins next.
Gone(c) == mine'[c] = Untouched /\ client'[c].stage \in Resting \cup FirstStages

LEMMA SameMarks ==
  ASSUME Typed, NEW c \in Client, mine'[c].stn = mine[c].stn, mine'[c].brd = mine[c].brd
  PROVE  Carries(c)
BY Views, NothingIsNoRow DEF Carries, SeenMarks

LEMMA LooksElsewhere ==
  ASSUME NEW c \in Client, client'[c].stage \notin {"fresh", "write"} PROVE LooksOn(c)
BY DEF LooksOn, Stage

LEMMA TypedNext ==
  ASSUME Typed, UNCHANGED tables, job' = job, mine' \in [Client -> Transaction],
         locks' = [d \in Client |-> locks'[d]], client' \in [Client -> Program],
         unfiled' \subseteq Real, dropped' \in Nat
  PROVE  Typed'
BY DEF Typed, tables

LEMMA BatchStages ==
  /\ \A x \in BoardStages \cup JournalStages \cup SourceStages
              \cup {"push", "ensure", "commit"} :
       x \in Stages /\ x \notin Resting
  /\ \A x \in FirstStages : x \in Stages /\ x \notin Resting
BY DEF Stages, Resting, FirstStages, BoardStages, JournalStages, SourceStages

LEMMA SystemAddressForKeeps ==
  ASSUME NEW O \in Draws, Owned(O), NEW c \in Client, NEW stage, NEW next,
         \/ stage = "system" /\ next = "station"
         \/ stage = "held" /\ next = "journal",
         SystemAddressFor(c, stage, next)
  PROVE  Owned(O)' /\ Shifts(c) /\ Carries(c) /\ LooksOn(c)
<1>1. PICK n, a : n = Op(c).name /\ a = AddressFor(c, n)
  OBVIOUS
<1>2. PICK row : row = IF Systems(c)[a] = Nothing THEN NewSystem(n) ELSE Systems(c)[a]
  OBVIOUS
<1>3. /\ Statement(c, stage) /\ ByName(c) /\ UNCHANGED <<unfiled, dropped>>
      /\ StoresSystem(c, a, row) /\ GotoAt(c, next, a)
  BY <1>1, <1>2 DEF SystemAddressFor, StoresSystem
<1>4. /\ Typed /\ Disjoint /\ InBatch(O, c) /\ Standing(c) /\ Locked(c) /\ Filed(c)
  BY DEF Owned, Own
<1>5. /\ Stage(c) = stage /\ UNCHANGED tables /\ job' = job /\ LocksGrow(c) /\ Disjoint'
      /\ locks[c] \subseteq locks'[c] /\ Wants(c) \subseteq locks'[c]
  BY <1>3, <1>4, Statements
<1>6. /\ Stage(c) \notin Resting \cup {"commit"} /\ next \notin Resting /\ next \in Stages
      /\ stage = "system" => Stage(c) \in BoardStages
      /\ stage = "held" => Stage(c) \in JournalStages
  BY <1>5 DEF Resting, Stages, BoardStages, JournalStages
<1>7. /\ client[c].left # <<>> /\ client[c].left \in Seq(O[c])
      /\ stage = "system" => Op(c) \in BoardOp
      /\ stage = "held" => Op(c) \in JournalOp
  BY <1>4, <1>6, AtOp
<1>8. n \in Name /\ a \in Address
  <2>1. n \in Name
    BY <1>1, <1>7 DEF BoardOp, JournalOp
  <2> QED BY <1>1, <1>4, <2>1, AddressesFound
<1>9. row \in SystemRow
  <2>1. NewSystem(n) \in SystemRow
    BY <1>8 DEF NewSystem, SystemRow
  <2> QED BY <1>2, <1>4, <1>8, <2>1, Views
<1>10. /\ mine' \in [Client -> Transaction] /\ Private(c)
       /\ mine'[c].stn = mine[c].stn /\ mine'[c].brd = mine[c].brd
       /\ DOMAIN mine'[c].sys = DOMAIN mine[c].sys \cup {a} /\ mine'[c].sys[a] = row
       /\ \A x \in DOMAIN mine[c].sys : x # a => mine'[c].sys[x] = mine[c].sys[x]
  BY <1>3, <1>4, <1>8, <1>9, WroteSystem
<1>11. /\ client' \in [Client -> Program] /\ Alone(c)
       /\ client'[c].stage = next /\ client'[c].addr = a
       /\ client'[c].plan = client[c].plan /\ client'[c].left = client[c].left
  BY <1>3, <1>4, <1>6, <1>8, GoesAt
<1>12. Typed'
  BY <1>3, <1>4, <1>5, <1>10, <1>11, TypedNext DEF LocksGrow, Typed
<1>13. Fits(client'[c].left, client'[c].stage)
  BY <1>5, <1>7, <1>11 DEF Fits, Op, BoardOp, JournalOp, BoardStages, JournalStages
<1>14. InBatch(O, c)'
  BY <1>4, <1>6, <1>7, <1>8, <1>11, <1>13, StaysInBatch
<1>15. Stage(c)' = next /\ Op(c)' = Op(c)
  BY <1>11 DEF Stage, Op
<1>16. Standing(c)'
  BY <1>15 DEF Standing
<1>17. SystemKey(a) \in locks'[c] /\ NameKey(n) \in locks'[c]
  <2>1. Wants(c) = NameKeys(c, n)
    BY <1>1, <1>3 DEF Wants, ByName
  <2> QED BY <1>1, <1>5, <2>1 DEF NameKeys, RowKeys
<1>18. row # Nothing
  BY <1>9, NothingIsNoRow
<1>19. Locked(c)'
  BY <1>4, <1>5, <1>10, <1>17, <1>18 DEF Locked
<1>20. \A x \in Address : Systems(c)[x] # Nothing => Systems(c)'[x] # Nothing
  BY <1>4, <1>5, <1>10, <1>12, <1>18, Views, ViewsNext DEF tables
<1>21. Filed(c)'
  <2>1. CASE stage = "held"
    BY <1>4, <1>5, <1>10, <1>12, <1>15, <1>20, <2>1, FiledStays
  <2>2. CASE stage = "system"
    <3>1. Stations(c)' = Stations(c) /\ stations' = stations
      BY <1>5, <1>10 DEF Stations, tables
    <3>2. \A s \in Station : Stations(c)[s] # Nothing =>
            Stations(c)[s].system \in Address /\ Systems(c)[Stations(c)[s].system] # Nothing
      BY <1>4, <1>5, <2>2, Views DEF StationRowType, Filed
    <3>3. \A s \in Station : Stations(c)'[s] # Nothing => Systems(c)'[Stations(c)'[s].system] # Nothing
      BY <1>20, <3>1, <3>2
    <3>4. \A s \in DOMAIN mine'[c].stn :
            LET x == mine'[c].stn[s].system
            IN  x.real \/ SystemKey(x) \in locks'[c] \/ (stations'[s] # Nothing /\ stations'[s].system = x)
      BY <1>4, <1>5, <1>10, <3>1 DEF Filed
    <3>5. /\ client'[c].addr \in DOMAIN mine'[c].sys /\ mine'[c].sys[client'[c].addr] # Nothing
          /\ NameKey(Op(c)'.name) \in locks'[c]
      BY <1>1, <1>10, <1>11, <1>15, <1>17, <1>18
    <3> QED BY <1>15, <2>2, <3>3, <3>4, <3>5 DEF Filed
  <2> QED BY <2>1, <2>2
<1>22. Own(O, c)'
  BY <1>14, <1>16, <1>19, <1>21 DEF Own
<1>23. Owned(O)'
  BY <1>5, <1>10, <1>11, <1>12, <1>22, Bystanders
<1>24. Shifts(c)
  BY <1>3, <1>5, <1>6, <1>10, <1>11, <1>15, <1>20 DEF Shifts
<1>25. Carries(c)
  BY <1>4, <1>10, SameMarks
<1>26. LooksOn(c)
  BY <1>11, LooksElsewhere
<1> QED BY <1>23, <1>24, <1>25, <1>26

Quiet(c) == UNCHANGED tables /\ job' = job /\ LocksGrow(c) /\ Disjoint' /\ locks[c] \subseteq locks'[c]

\* A statement that writes nothing.
LEMMA ReadingKeeps ==
  ASSUME NEW O \in Draws, Owned(O), NEW c \in Client, Quiet(c), UNCHANGED <<mine, dropped>>,
         Stage(c) \notin Resting \cup {"commit", "cascade"},
         client' \in [Client -> Program], Alone(c), client'[c].plan = client[c].plan,
         client'[c].left \in Seq(O[c]), Fits(client'[c].left, client'[c].stage),
         client'[c].stage \notin Resting \cup {"station", "cascade"},
         client'[c].stage = "journal" => client'[c].addr \in Address,
         Standing(c)', LooksOn(c), unfiled' \subseteq Real, unfiled \subseteq unfiled',
         \/ client'[c].left = client[c].left
         \/ /\ client[c].left # <<>> /\ client'[c].left = Tail(client[c].left)
            /\ c = "dump" => \A r \in Real : Brings(Op(c), r) => Ready(r)'
  PROVE  Owned(O)' /\ Shifts(c) /\ Carries(c) /\ LooksOn(c)
<1>1. /\ Typed /\ Disjoint /\ InBatch(O, c) /\ Standing(c) /\ Locked(c) /\ Filed(c)
  BY DEF Owned, Own
<1>2. /\ UNCHANGED tables /\ job' = job /\ LocksGrow(c) /\ Disjoint' /\ locks[c] \subseteq locks'[c]
  BY DEF Quiet
<1>3. Typed'
  BY <1>1, <1>2, TypedNext DEF LocksGrow, Typed
<1>4. InBatch(O, c)'
  BY <1>1, StaysInBatch
<1>5. Stage(c)' = client'[c].stage
  BY DEF Stage
<1>6. Private(c) /\ Locked(c)' /\ Filed(c)'
  BY <1>2, <1>3, <1>5, WroteNothing
<1>7. Own(O, c)'
  BY <1>4, <1>6 DEF Own
<1>8. Owned(O)'
  BY <1>2, <1>3, <1>6, <1>7, Bystanders
<1>9. Systems(c)' = Systems(c)
  BY <1>2 DEF Systems, tables
<1>10. Shifts(c)
  BY <1>2, <1>5, <1>6, <1>9 DEF Shifts
<1>11. Carries(c)
  BY <1>1, SameMarks
<1> QED BY <1>8, <1>10, <1>11

\* One that writes nothing and is its operation's last.
LEMMA PassingKeeps ==
  ASSUME NEW O \in Draws, Owned(O), NEW c \in Client, Quiet(c), UNCHANGED <<mine, dropped>>,
         Stage(c) \notin Resting \cup {"commit", "cascade"},
         NEW out \in SUBSET Station, GoOnWithout(c, out),
         unfiled' \subseteq Real, unfiled \subseteq unfiled',
         c = "dump" => \A r \in Real : Brings(Op(c), r) => Ready(r)'
  PROVE  Owned(O)' /\ Shifts(c) /\ Carries(c) /\ LooksOn(c)
<1>1. Typed /\ InBatch(O, c)
  BY DEF Owned, Own
<1>2. /\ client' \in [Client -> Program] /\ Alone(c)
      /\ client'[c].plan = client[c].plan
      /\ client[c].left # <<>> /\ client'[c].left = Tail(client[c].left)
      /\ client'[c].left \in Seq(O[c])
      /\ client'[c].stage \in FirstStages /\ Fits(client'[c].left, client'[c].stage)
  BY <1>1, GoesOn
<1>3. /\ client'[c].stage \notin Resting \cup {"station", "cascade", "fresh", "write", "push"}
      /\ client'[c].stage # "journal"
  BY <1>2 DEF FirstStages, Resting
<1>4. Standing(c)'
  BY <1>3 DEF Standing, Stage
<1>5. LooksOn(c)
  BY <1>3, LooksElsewhere
<1> QED BY <1>2, <1>3, <1>4, <1>5, ReadingKeeps

LEMMA QuietStatement ==
  ASSUME NEW O \in Draws, Owned(O), NEW c \in Client, NEW stage, Statement(c, stage)
  PROVE  Quiet(c) /\ Stage(c) = stage /\ Wants(c) \subseteq locks'[c]
BY Statements DEF Owned, Quiet

LEMMA OutIsKnown ==
  ASSUME NEW O, Owned(O), NEW c \in Client
  PROVE  client[c].out \in SUBSET Station /\ unfiled \subseteq Real
BY DEF Owned, Typed, Program

LEMMA HeldKeeps ==
  ASSUME NEW O \in Draws, Owned(O), NEW c \in Client, Held(c)
  PROVE  Owned(O)' /\ Shifts(c) /\ Carries(c) /\ LooksOn(c)
<1>1. /\ Statement(c, "held") /\ Op(c).addr # Nothing /\ UNCHANGED <<mine, unfiled, dropped>>
      /\ IF HeldAddress(c) = Nothing THEN GoOn(c) ELSE GotoAt(c, "journal", HeldAddress(c))
  BY DEF Held
<1>2. /\ Quiet(c) /\ Stage(c) = "held" /\ Typed /\ InBatch(O, c)
      /\ client[c].out \in SUBSET Station /\ unfiled \subseteq Real
  BY <1>1, QuietStatement, OutIsKnown DEF Owned, Own
<1>3. Stage(c) \notin Resting \cup {"commit", "cascade"} /\ Stage(c) \in JournalStages
  BY <1>2 DEF Resting, JournalStages
<1>4. /\ Op(c) \in JournalOp /\ client[c].left # <<>> /\ client[c].left \in Seq(O[c])
  BY <1>2, <1>3, AtOp
<1>5. Op(c).op = "journal" /\ Op(c).addr \in Real /\ At(Op(c).addr) \in Address
  BY <1>1, <1>4, RealAddress DEF JournalOp
<1>6. CASE HeldAddress(c) = Nothing
  <2>1. GoOnWithout(c, client[c].out)
    BY <1>1, <1>6 DEF GoOn
  <2>2. \A r \in Real : ~Brings(Op(c), r)
    BY <1>5 DEF Brings
  <2> QED BY <1>1, <1>2, <1>3, <2>1, <2>2, PassingKeeps
<1>7. CASE HeldAddress(c) # Nothing
  <2>1. PICK a : a = HeldAddress(c)
    OBVIOUS
  <2>2. a \in Address
    <3>1. Holders(c, Op(c).name) \subseteq Address
      BY DEF Holders, HoldersIn
    <3>2. PICK H : H = Holders(c, Op(c).name) \ {At(Op(c).addr)}
      OBVIOUS
    <3>3. a = IF H = {} THEN At(Op(c).addr)
              ELSE IF \E x \in H : ~x.real THEN CHOOSE x \in H : ~x.real ELSE Nothing
      BY <2>1, <3>2 DEF HeldAddress
    <3>4. CASE H = {}
      BY <1>5, <3>3, <3>4
    <3>5. CASE H # {} /\ \E x \in H : ~x.real
      <4>1. a \in H
        BY <3>3, <3>5
      <4> QED BY <3>1, <3>2, <4>1
    <3> QED BY <1>7, <2>1, <3>3, <3>4, <3>5
  <2>3. GotoAt(c, "journal", a) /\ "journal" \in Stages
    BY <1>1, <1>7, <2>1, BatchStages DEF JournalStages
  <2>4. /\ client' \in [Client -> Program] /\ Alone(c)
        /\ client'[c].stage = "journal" /\ client'[c].addr = a
        /\ client'[c].plan = client[c].plan /\ client'[c].left = client[c].left
    BY <1>2, <2>2, <2>3, GoesAt
  <2>5. Fits(client'[c].left, client'[c].stage)
    BY <1>4, <1>5, <2>4 DEF Fits, Op, JournalStages
  <2>6. Standing(c)' /\ client'[c].stage \notin Resting \cup {"station", "cascade"}
    BY <2>4 DEF Standing, Stage, Resting
  <2>7. LooksOn(c)
    BY <2>4, LooksElsewhere
  <2> QED BY <1>1, <1>2, <1>3, <1>4, <2>2, <2>4, <2>5, <2>6, <2>7, ReadingKeeps
<1> QED BY <1>6, <1>7

LEMMA LooksUpKeeps ==
  ASSUME NEW O \in Draws, Owned(O), NEW c \in Client, StationByName(c) \/ Fresh(c)
  PROVE  Owned(O)' /\ Shifts(c) /\ Carries(c) /\ LooksOn(c)
<1>1. PICK stage : /\ Statement(c, stage) /\ UNCHANGED <<mine, unfiled, dropped>>
                   /\ stage = "station" \/ stage = "fresh"
                   /\ stage = "station" => StationByName(c)
                   /\ stage = "fresh" => Fresh(c)
  BY DEF StationByName, Fresh
<1>2. /\ Quiet(c) /\ Stage(c) = stage /\ Typed /\ InBatch(O, c) /\ Standing(c)
      /\ client[c].out \in SUBSET Station /\ unfiled \subseteq Real
  BY <1>1, QuietStatement, OutIsKnown DEF Owned, Own
<1>3. Stage(c) \notin Resting \cup {"commit", "cascade"} /\ Stage(c) \in BoardStages
  BY <1>1, <1>2 DEF Resting, BoardStages
<1>4. /\ Op(c) \in BoardOp /\ client[c].left # <<>> /\ client[c].left \in Seq(O[c])
  BY <1>2, <1>3, AtOp
<1>5. Op(c).op = "board" /\ \A r \in Real : ~Brings(Op(c), r)
  BY <1>4 DEF BoardOp, Brings
<1>6. CASE GoOn(c)
  <2>1. GoOnWithout(c, client[c].out)
    BY <1>6 DEF GoOn
  <2> QED BY <1>1, <1>2, <1>3, <1>5, <2>1, PassingKeeps
<1>7. CASE ~GoOn(c)
  <2>1. PICK next \in {"fresh", "write"} :
          /\ Goto(c, next) /\ Stations(c)[Op(c).station] # Nothing
          /\ next = "fresh" => Stage(c) = "station" /\ ~Op(c).byId
          /\ next = "write" => Stage(c) = "fresh" /\ Accepts(c)
    <3>1. CASE stage = "station"
      BY <1>1, <1>2, <1>7, <3>1 DEF StationByName
    <3>2. CASE stage = "fresh"
      BY <1>1, <1>2, <1>7, <3>2 DEF Fresh, Standing
    <3> QED BY <1>1, <3>1, <3>2
  <2>2. next \in Stages /\ next \in BoardStages /\ next \notin Resting \cup {"station", "cascade", "journal", "push"}
    BY DEF BoardStages, Stages, Resting
  <2>3. /\ client' \in [Client -> Program] /\ Alone(c)
        /\ client'[c].stage = next
        /\ client'[c].plan = client[c].plan /\ client'[c].left = client[c].left
    BY <1>2, <2>1, <2>2, GoesTo
  <2>4. Fits(client'[c].left, client'[c].stage)
    BY <1>4, <1>5, <2>2, <2>3 DEF Fits, Op
  <2>5. Stage(c)' = next /\ Stations(c)' = Stations(c) /\ Op(c)' = Op(c)
    BY <1>1, <1>2, <2>3 DEF Stage, Stations, Op, Quiet, tables
  <2>6. Standing(c)'
    BY <2>1, <2>2, <2>5 DEF Standing
  <2>7. LooksOn(c)
    BY <1>1, <2>1, <2>3, <2>5 DEF LooksOn, Stage
  <2> QED BY <1>1, <1>2, <1>3, <1>4, <2>2, <2>3, <2>4, <2>6, <2>7, ReadingKeeps
<1> QED BY <1>6, <1>7

LEMMA LeaveOutKeeps ==
  ASSUME NEW O \in Draws, Owned(O), NEW c \in Client, LeaveOut(c)
  PROVE  Owned(O)' /\ Shifts(c) /\ Carries(c) /\ LooksOn(c)
<1>1. /\ Stage(c) = "out" /\ GoOn(c)
      /\ UNCHANGED <<systems, stations, boards, mine, locks, unfiled, job, dropped>>
  BY DEF LeaveOut, tables
<1>2. /\ Typed /\ Disjoint /\ InBatch(O, c)
      /\ client[c].out \in SUBSET Station /\ unfiled \subseteq Real
  BY OutIsKnown DEF Owned, Own
<1>3. Quiet(c)
  <2>1. LocksGrow(c)
    BY <1>1, <1>2 DEF LocksGrow, Typed
  <2>2. Disjoint'
    BY <1>1, <1>2 DEF Disjoint
  <2> QED BY <1>1, <2>1, <2>2 DEF Quiet, tables
<1>4. Stage(c) \notin Resting \cup {"commit", "cascade"} /\ Stage(c) \in BoardStages
  BY <1>1 DEF Resting, BoardStages
<1>5. Op(c) \in BoardOp
  BY <1>2, <1>4, AtOp
<1>6. \A r \in Real : ~Brings(Op(c), r)
  BY <1>5 DEF BoardOp, Brings
<1>7. GoOnWithout(c, client[c].out)
  BY <1>1 DEF GoOn
<1> QED BY <1>1, <1>2, <1>3, <1>4, <1>6, <1>7, PassingKeeps

LEMMA WritingKeeps ==
  ASSUME NEW O \in Draws, Owned(O), NEW c \in Client, Quiet(c), Typed', Private(c),
         UNCHANGED unfiled, Stage(c) \notin Resting \cup {"commit"},
         Alone(c), client'[c].plan = client[c].plan,
         client'[c].left \in Seq(O[c]), Fits(client'[c].left, client'[c].stage),
         client'[c].stage \notin Resting,
         client'[c].stage \in {"station", "journal", "cascade"} => client'[c].addr \in Address,
         Standing(c)', Locked(c)', Filed(c)',
         \A a \in Address : a.real /\ Systems(c)[a] # Nothing => Systems(c)'[a] # Nothing,
         \/ client'[c].left = client[c].left
         \/ /\ client[c].left # <<>> /\ client'[c].left = Tail(client[c].left)
            /\ c = "dump" => \A r \in Real : Brings(Op(c), r) => Ready(r)'
  PROVE  Owned(O)' /\ Shifts(c)
<1>1. InBatch(O, c)'
  <2>1. InBatch(O, c)
    BY DEF Owned, Own
  <2> QED BY <2>1, StaysInBatch
<1>2. Own(O, c)'
  BY <1>1 DEF Own
<1>3. Owned(O)'
  BY <1>2, Bystanders DEF Quiet
<1>4. Shifts(c)
  BY DEF Shifts, Stage, Quiet
<1> QED BY <1>3, <1>4

\* A station is written under a system that is there.
LEMMA FiledStation ==
  ASSUME Typed, Typed', NEW c \in Client, Filed(c), Stage(c) # "cascade",
         Stage(c)' \notin {"station", "cascade"}, UNCHANGED tables,
         locks[c] \subseteq locks'[c], mine'[c].sys = mine[c].sys,
         NEW s \in Station, DOMAIN mine'[c].stn = DOMAIN mine[c].stn \cup {s},
         \A x \in DOMAIN mine[c].stn : x # s => mine'[c].stn[x] = mine[c].stn[x],
         NEW a, a = mine'[c].stn[s].system, Systems(c)[a] # Nothing,
         a.real \/ SystemKey(a) \in locks'[c] \/ (stations[s] # Nothing /\ stations[s].system = a)
  PROVE  Filed(c)'
<1>1. Systems(c)' = Systems(c) /\ stations' = stations
  BY DEF Systems, tables
<1>2. \A x \in Station : x # s => Stations(c)'[x] = Stations(c)[x]
  BY <1>1, Views, ViewsNext
<1>3. Stations(c)'[s].system = a
  BY ViewsNext
<1>4. \A x \in Station : Stations(c)'[x] # Nothing => Systems(c)'[Stations(c)'[x].system] # Nothing
  BY <1>1, <1>2, <1>3 DEF Filed
<1>5. \A x \in DOMAIN mine'[c].stn :
        LET y == mine'[c].stn[x].system
        IN  y.real \/ SystemKey(y) \in locks'[c] \/ (stations'[x] # Nothing /\ stations'[x].system = y)
  BY <1>1 DEF Filed
<1> QED BY <1>4, <1>5 DEF Filed

LEMMA StationRows ==
  ASSUME Typed, NEW c \in Client, NEW s \in Station, NEW a \in Address
  PROVE  /\ StationRow(c, s, a) \in StationRowType /\ StationRow(c, s, a).system = a
         /\ StationRow(c, s, a).mark = SeenMarks(c, s)
<1>1. CASE Stations(c)[s] = Nothing
  BY <1>1 DEF StationRow, StationRowType, NoMarks, SeenMarks
<1>2. CASE Stations(c)[s] # Nothing
  <2>1. Stations(c)[s] \in StationRowType
    BY <1>2, Views
  <2>2. StationRow(c, s, a) = [Stations(c)[s] EXCEPT !.system = a]
    BY <1>2 DEF StationRow
  <2> QED BY <1>2, <2>1, <2>2 DEF StationRowType, SeenMarks
<1> QED BY <1>1, <1>2

LEMMA RowCarries ==
  ASSUME Typed, NEW c \in Client, NEW s, mine'[c].brd = mine[c].brd,
         DOMAIN mine'[c].stn = DOMAIN mine[c].stn \cup {s}, mine'[c].stn[s].mark = SeenMarks(c, s),
         \A x \in DOMAIN mine[c].stn : x # s => mine'[c].stn[x] = mine[c].stn[x]
  PROVE  Carries(c)
<1>1. \A x \in DOMAIN mine[c].stn : mine[c].stn[x].mark = SeenMarks(c, x)
  BY Views, NothingIsNoRow DEF SeenMarks
<1> QED BY <1>1 DEF Carries

LEMMA StationByIdKeeps ==
  ASSUME NEW O \in Draws, Owned(O), NEW c \in Client, StationById(c)
  PROVE  Owned(O)' /\ Shifts(c) /\ Carries(c) /\ LooksOn(c)
<1>1. PICK s, a, row : s = Op(c).station /\ a = client[c].addr /\ row = StationRow(c, s, a)
  OBVIOUS
<1>2. /\ Statement(c, "station") /\ Op(c).byId /\ StoresStation(c, s, row) /\ Goto(c, "fresh")
      /\ UNCHANGED <<unfiled, dropped>>
  BY <1>1 DEF StationById, StoresStation
<1>3. /\ Quiet(c) /\ Stage(c) = "station" /\ Wants(c) \subseteq locks'[c]
      /\ Typed /\ InBatch(O, c) /\ Locked(c) /\ Filed(c)
  BY <1>2, QuietStatement DEF Owned, Own
<1>4. /\ Stage(c) \notin Resting \cup {"commit"} /\ Stage(c) \in BoardStages
      /\ "fresh" \in Stages /\ "fresh" \in BoardStages /\ "fresh" \notin Resting
  BY <1>3 DEF Resting, BoardStages, Stages
<1>5. /\ Op(c) \in BoardOp /\ client[c].left # <<>> /\ client[c].left \in Seq(O[c])
  BY <1>3, <1>4, AtOp
<1>6. s \in Station /\ a \in Address /\ Op(c).op = "board"
  BY <1>1, <1>3, <1>5 DEF BoardOp, InBatch, Stage
<1>7. row \in StationRowType /\ row.system = a /\ row.mark = SeenMarks(c, s)
  BY <1>1, <1>3, <1>6, StationRows
<1>8. /\ mine' \in [Client -> Transaction] /\ Private(c) /\ mine'[c].sys = mine[c].sys /\ mine'[c].brd = mine[c].brd
      /\ DOMAIN mine'[c].stn = DOMAIN mine[c].stn \cup {s} /\ mine'[c].stn[s] = row
      /\ \A x \in DOMAIN mine[c].stn : x # s => mine'[c].stn[x] = mine[c].stn[x]
  BY <1>2, <1>3, <1>6, <1>7, WroteStation
<1>9. /\ client' \in [Client -> Program] /\ Alone(c) /\ client'[c].stage = "fresh"
      /\ client'[c].plan = client[c].plan /\ client'[c].left = client[c].left
  BY <1>2, <1>3, <1>4, GoesTo
<1>10. Typed'
  BY <1>2, <1>3, <1>8, <1>9, TypedNext DEF LocksGrow, Typed, Quiet
<1>11. Fits(client'[c].left, client'[c].stage)
  BY <1>4, <1>5, <1>6, <1>9 DEF Fits, Op
<1>12. Stage(c)' = "fresh" /\ Op(c)' = Op(c) /\ Systems(c)' = Systems(c)
  BY <1>3, <1>8, <1>9 DEF Stage, Op, Systems, Quiet, tables
<1>13. Standing(c)'
  <2>1. Stations(c)'[s] \in StationRowType
    BY <1>8, <1>10, ViewsNext
  <2> QED BY <1>1, <1>12, <2>1, NothingIsNoRow DEF Standing
<1>14. StationKey(s) \in locks'[c]
  <2>1. Wants(c) = StationKeys(c, s)
    BY <1>1, <1>2, <1>3 DEF Wants, ByName
  <2> QED BY <1>3, <2>1 DEF StationKeys
<1>15. Locked(c)'
  BY <1>3, <1>8, <1>14 DEF Locked, Quiet
<1>16. Systems(c)[a] # Nothing /\ SystemKey(a) \in locks[c]
  BY <1>1, <1>3, Views DEF Filed, Locked
<1>17. Filed(c)'
  BY <1>3, <1>6, <1>7, <1>8, <1>10, <1>12, <1>16, FiledStation DEF Quiet
<1>18. Carries(c)
  BY <1>3, <1>7, <1>8, RowCarries
<1>19. LooksOn(c)
  BY <1>1, <1>3, <1>12, <1>14 DEF LooksOn
<1>20. Owned(O)' /\ Shifts(c)
  BY <1>2, <1>3, <1>4, <1>5, <1>8, <1>9, <1>10, <1>11, <1>12, <1>13, <1>15, <1>17, WritingKeeps
<1> QED BY <1>18, <1>19, <1>20

\* The rows of a board and its watermark, written at once.
FilesBoard(c) ==
  LET s == Op(c).station
      p == Op(c).product
      b == <<s, p>>
  IN  /\ s \in Station /\ p \in Product /\ Op(c).at \in Nat
      /\ DOMAIN mine'[c].stn = DOMAIN mine[c].stn \cup {s}
      /\ \A x \in DOMAIN mine[c].stn : x # s => mine'[c].stn[x] = mine[c].stn[x]
      /\ mine'[c].stn[s].mark[p] = Op(c).at
      /\ \A q \in Product : q # p => mine'[c].stn[s].mark[q] = Stations(c)[s].mark[q]
      /\ DOMAIN mine'[c].brd = DOMAIN mine[c].brd \cup {b}
      /\ mine'[c].brd[b].at = Op(c).at
      /\ \A x \in DOMAIN mine[c].brd : x # b => mine'[c].brd[x] = mine[c].brd[x]
      /\ locks[c] \subseteq locks'[c] /\ StationKey(s) \in locks'[c]
      /\ Stage(c) = "write" /\ Stage(c)' \notin {"fresh", "write"}

LEMMA WriteKeeps ==
  ASSUME NEW O \in Draws, Owned(O), NEW c \in Client, Write(c)
  PROVE  Owned(O)' /\ Shifts(c) /\ FilesBoard(c)
<1>1. PICK s, p, b : s = Op(c).station /\ p = Op(c).product /\ b = <<s, p>>
  OBVIOUS
<1>2. /\ Statement(c, "write") /\ StoresBoard(c)
      /\ GoOnWithout(c, client[c].out) /\ UNCHANGED <<unfiled, dropped>>
  BY DEF Write, GoOn, StoresBoard
<1>3. /\ Quiet(c) /\ Stage(c) = "write" /\ Wants(c) \subseteq locks'[c]
      /\ Typed /\ InBatch(O, c) /\ Locked(c) /\ Filed(c) /\ Standing(c)
      /\ client[c].out \in SUBSET Station
  BY <1>2, QuietStatement, OutIsKnown DEF Owned, Own
<1>4. Stage(c) \notin Resting \cup {"commit"} /\ Stage(c) \in BoardStages
  BY <1>3 DEF Resting, BoardStages
<1>5. Op(c) \in BoardOp
  BY <1>3, <1>4, AtOp
<1>6. s \in Station /\ p \in Product /\ \A r \in Real : ~Brings(Op(c), r)
  BY <1>1, <1>5 DEF BoardOp, Brings
<1>7. Stations(c)[s] # Nothing
  BY <1>1, <1>3 DEF Standing
<1>8. /\ mine' \in [Client -> Transaction] /\ Private(c) /\ mine'[c].sys = mine[c].sys
      /\ DOMAIN mine'[c].stn = DOMAIN mine[c].stn \cup {s}
      /\ \A x \in DOMAIN mine[c].stn : x # s => mine'[c].stn[x] = mine[c].stn[x]
      /\ mine'[c].stn[s].system = Stations(c)[s].system
      /\ mine'[c].stn[s].mark[p] = Op(c).at
      /\ \A q \in Product : q # p => mine'[c].stn[s].mark[q] = Stations(c)[s].mark[q]
      /\ DOMAIN mine'[c].brd = DOMAIN mine[c].brd \cup {b}
      /\ mine'[c].brd[b].at = Op(c).at
      /\ \A x \in DOMAIN mine[c].brd : x # b => mine'[c].brd[x] = mine[c].brd[x]
  BY <1>1, <1>2, <1>3, <1>5, <1>6, <1>7, WroteBoard
<1>9. /\ client' \in [Client -> Program] /\ Alone(c) /\ client'[c].plan = client[c].plan
      /\ client[c].left # <<>> /\ client'[c].left = Tail(client[c].left)
      /\ client'[c].left \in Seq(O[c])
      /\ client'[c].stage \in FirstStages /\ Fits(client'[c].left, client'[c].stage)
  BY <1>2, <1>3, <1>4, GoesOn
<1>10. Typed'
  BY <1>2, <1>3, <1>8, <1>9, TypedNext DEF LocksGrow, Typed, Quiet
<1>11. client'[c].stage \notin Resting \cup {"station", "cascade", "fresh", "write", "journal", "push"}
  BY <1>9 DEF FirstStages, Resting
<1>12. Standing(c)' /\ Systems(c)' = Systems(c) /\ Stage(c)' \notin {"station", "cascade"}
  BY <1>3, <1>8, <1>11 DEF Standing, Stage, Systems, Quiet, tables
<1>13. StationKey(s) \in locks'[c]
  <2>1. Wants(c) = {StationKey(s)}
    BY <1>1, <1>3 DEF Wants, ByName
  <2> QED BY <1>3, <2>1
<1>14. Locked(c)'
  BY <1>3, <1>8, <1>13 DEF Locked, Quiet
<1>15. PICK a : a = Stations(c)[s].system
  OBVIOUS
<1>16. Systems(c)[a] # Nothing
  BY <1>3, <1>6, <1>7, <1>15 DEF Filed
<1>17. a.real \/ SystemKey(a) \in locks'[c] \/ (stations[s] # Nothing /\ stations[s].system = a)
  <2>1. CASE s \in DOMAIN mine[c].stn
    BY <1>3, <1>15, <2>1, Views DEF Filed, Quiet
  <2>2. CASE s \notin DOMAIN mine[c].stn
    BY <1>3, <1>6, <1>7, <1>15, <2>2, Views
  <2> QED BY <2>1, <2>2
<1>18. Filed(c)'
  BY <1>3, <1>6, <1>8, <1>10, <1>12, <1>15, <1>16, <1>17, FiledStation DEF Quiet
<1>19. FilesBoard(c)
  BY <1>1, <1>3, <1>5, <1>6, <1>8, <1>11, <1>13 DEF FilesBoard, BoardOp, Stage, Quiet
<1>20. Owned(O)' /\ Shifts(c)
  BY <1>2, <1>3, <1>4, <1>6, <1>8, <1>9, <1>10, <1>11, <1>12, <1>14, <1>18, WritingKeeps
<1> QED BY <1>19, <1>20

LEMMA UpsertKeeps ==
  ASSUME NEW O \in Draws, Owned(O), NEW c \in Client, NEW stage, NEW a,
         \/ stage = "journal" /\ a = client[c].addr
         \/ stage = "insert" /\ a = At(Op(c).addr),
         Upsert(c, stage, a)
  PROVE  Owned(O)' /\ Shifts(c) /\ Carries(c) /\ LooksOn(c)
<1>1. /\ Statement(c, stage) /\ mine' = [mine EXCEPT ![c] = Upserts(c, a)]
      /\ UNCHANGED <<unfiled, dropped>>
      /\ IF Recells(c, a) THEN GotoAt(c, "push", a) ELSE GoOnWithout(c, client[c].out)
  BY DEF Upsert, GoOn
<1>2. /\ Quiet(c) /\ Stage(c) = stage /\ Wants(c) \subseteq locks'[c]
      /\ Typed /\ InBatch(O, c) /\ Locked(c) /\ Filed(c)
      /\ client[c].out \in SUBSET Station /\ unfiled \subseteq Real
  BY <1>1, QuietStatement, OutIsKnown DEF Owned, Own
<1>3. /\ Stage(c) \notin Resting \cup {"commit", "cascade"}
      /\ stage = "journal" => Stage(c) \in JournalStages
      /\ stage = "insert" => Stage(c) \in SourceStages
  BY <1>2 DEF Resting, JournalStages, SourceStages
<1>4. /\ stage = "journal" => Op(c) \in JournalOp
      /\ stage = "insert" => Op(c) \in SourceOp /\ c = "dump"
  BY <1>2, <1>3, AtOp
<1>5. a \in Address
  BY <1>2, <1>4, RealAddress DEF InBatch, Stage, SourceOp
<1>6. /\ Op(c).name \in Name /\ Op(c).at \in Nat /\ Op(c).cell \in Cell \cup {Nothing}
      /\ Op(c).op \in {"journal", "source"}
      /\ \A r \in Real : Brings(Op(c), r) => stage = "insert" /\ c = "dump" /\ a = At(r)
  BY <1>2, <1>4 DEF JournalOp, SourceOp, Brings
<1>7. CASE ~Wins(c, a, Op(c))
  <2>1. mine' = mine /\ GoOnWithout(c, client[c].out)
    BY <1>1, <1>2, <1>7 DEF Upserts, Typed, Recells
  <2>2. Systems(c)[a] # Nothing /\ Systems(c)' = Systems(c)
    BY <1>2, <1>7, <2>1 DEF Wins, Systems, Quiet, tables
  <2>3. \A r \in Real : Brings(Op(c), r) => Ready(r)'
    BY <1>6, <2>2 DEF Ready
  <2> QED BY <1>1, <1>2, <1>3, <2>1, <2>3, PassingKeeps
<1>8. CASE Wins(c, a, Op(c))
  <2>1. PICK was : was = IF Systems(c)[a] = Nothing THEN NewSystem(Op(c).name) ELSE Systems(c)[a]
    OBVIOUS
  <2>2. was \in SystemRow
    <3>1. NewSystem(Op(c).name) \in SystemRow
      BY <1>6 DEF NewSystem, SystemRow
    <3> QED BY <1>2, <1>5, <2>1, <3>1, Views
  <2>3. PICK new, row :
          /\ new = [was EXCEPT !.name = Op(c).name, !.cell = CellOf(Op(c), was)]
          /\ row = IF Op(c).op = "source" THEN [new EXCEPT !.source = Op(c).at]
                   ELSE [new EXCEPT !.eddn = Op(c).at]
    OBVIOUS
  <2>4. row \in SystemRow /\ row # Nothing
    <3>1. CellOf(Op(c), was) \in Cell \cup {Nothing}
      BY <1>6, <2>2 DEF CellOf, SystemRow
    <3>2. new \in SystemRow
      BY <1>6, <2>2, <2>3, <3>1 DEF SystemRow
    <3>3. row \in SystemRow
      BY <1>6, <2>3, <3>2 DEF SystemRow
    <3> QED BY <3>3, NothingIsNoRow
  <2>5. StoresSystem(c, a, row)
    BY <1>1, <1>8, <2>1, <2>3 DEF Upserts, StoresSystem
  <2>6. /\ mine' \in [Client -> Transaction] /\ Private(c)
        /\ mine'[c].stn = mine[c].stn /\ mine'[c].brd = mine[c].brd
        /\ DOMAIN mine'[c].sys = DOMAIN mine[c].sys \cup {a} /\ mine'[c].sys[a] = row
        /\ \A x \in DOMAIN mine[c].sys : x # a => mine'[c].sys[x] = mine[c].sys[x]
    BY <1>2, <1>5, <2>4, <2>5, WroteSystem
  <2>7. /\ client' \in [Client -> Program] /\ Alone(c) /\ client'[c].plan = client[c].plan
        /\ client'[c].left \in Seq(O[c]) /\ Fits(client'[c].left, client'[c].stage)
        /\ \/ client'[c].stage = "push" /\ client'[c].left = client[c].left
           \/ /\ client[c].left # <<>> /\ client'[c].left = Tail(client[c].left)
              /\ client'[c].stage \in FirstStages
    <3>1. CASE GoOnWithout(c, client[c].out)
      BY <1>2, <1>3, <3>1, GoesOn
    <3>2. CASE GotoAt(c, "push", a)
      <4>1. /\ client' \in [Client -> Program] /\ Alone(c) /\ client'[c].stage = "push"
            /\ client'[c].plan = client[c].plan /\ client'[c].left = client[c].left
        BY <1>2, <1>5, <3>2, GoesAt, BatchStages
      <4>2. client[c].left \in Seq(O[c]) /\ client[c].left # <<>>
        BY <1>2, <1>3, AtOp
      <4>3. Fits(client'[c].left, client'[c].stage)
        BY <1>6, <4>1, <4>2 DEF Fits, Op
      <4> QED BY <4>1, <4>2, <4>3
    <3> QED BY <1>1, <3>1, <3>2
  <2>8. Typed'
    BY <1>1, <1>2, <2>6, <2>7, TypedNext DEF LocksGrow, Typed, Quiet
  <2>9. client'[c].stage \notin Resting \cup {"station", "cascade", "fresh", "write", "journal"}
    BY <2>7 DEF FirstStages, Resting
  <2>10. Standing(c)' /\ Stage(c)' \notin {"station", "cascade"}
    <3>1. client'[c].stage \in FirstStages => client'[c].stage # "push"
      BY DEF FirstStages
    <3>2. client'[c].stage = "push" => Op(c)' = Op(c)
      BY <2>7, <3>1 DEF Op
    <3>3. \A r \in Real : Brings(Op(c), r) => At(r) \in DOMAIN mine'[c].sys /\ mine'[c].sys[At(r)] # Nothing
      BY <1>6, <2>4, <2>6
    <3> QED BY <2>9, <3>2, <3>3 DEF Standing, Stage
  <2>11. SystemKey(a) \in locks'[c]
    <3>1. Wants(c) = UpsertKeys(c, a, Op(c))
      <4>1. CASE stage = "journal"
        BY <1>2, <4>1 DEF Wants, ByName
      <4>2. CASE stage = "insert"
        BY <1>2, <4>2 DEF Wants, ByName
      <4> QED BY <4>1, <4>2
    <3> QED BY <1>2, <3>1 DEF UpsertKeys, RowKeys
  <2>12. Locked(c)'
    BY <1>2, <2>4, <2>6, <2>11 DEF Locked, Quiet
  <2>13. \A x \in Address : Systems(c)[x] # Nothing => Systems(c)'[x] # Nothing
    BY <1>2, <2>4, <2>6, <2>8, Views, ViewsNext DEF Quiet, tables
  <2>14. Filed(c)'
    BY <1>2, <1>3, <2>6, <2>8, <2>10, <2>13, FiledStays DEF Quiet
  <2>15. Systems(c)'[a] # Nothing
    BY <2>4, <2>6, <2>8, ViewsNext
  <2>16. \A r \in Real : Brings(Op(c), r) => Ready(r)'
    BY <1>6, <2>15 DEF Ready
  <2>17. Carries(c)
    BY <1>2, <2>6, SameMarks
  <2>18. LooksOn(c)
    BY <2>9, LooksElsewhere
  <2>19. Owned(O)' /\ Shifts(c)
    BY <1>1, <1>2, <1>3, <2>6, <2>7, <2>8, <2>9, <2>10, <2>12, <2>13, <2>14, <2>16, WritingKeeps
  <2> QED BY <2>17, <2>18, <2>19
<1> QED BY <1>7, <1>8

\* The trigger locks stations and writes nothing the tables keep here.
LEMMA PushKeeps ==
  ASSUME NEW O \in Draws, Owned(O), NEW c \in Client, Push(c)
  PROVE  Owned(O)' /\ Shifts(c) /\ Carries(c) /\ LooksOn(c)
<1>1. /\ Statement(c, "push") /\ GoOnWithout(c, client[c].out) /\ UNCHANGED <<mine, unfiled, dropped>>
  BY DEF Push, GoOn
<1>2. /\ Quiet(c) /\ Stage(c) = "push" /\ Typed /\ InBatch(O, c) /\ Standing(c)
      /\ client[c].out \in SUBSET Station /\ unfiled \subseteq Real
  BY <1>1, QuietStatement, OutIsKnown DEF Owned, Own
<1>3. Stage(c) \notin Resting \cup {"commit", "cascade"}
  BY <1>2 DEF Resting
<1>5. \A r \in Real : Brings(Op(c), r) => Systems(c)[At(r)] # Nothing
  BY <1>2, Views DEF Standing
<1>6. Systems(c)' = Systems(c)
  BY <1>1, <1>2 DEF Systems, Quiet, tables
<1>7. c = "dump" => \A r \in Real : Brings(Op(c), r) => Ready(r)'
  BY <1>5, <1>6 DEF Ready
<1> QED BY <1>1, <1>2, <1>3, <1>7, PassingKeeps

LEMMA TakenKeeps ==
  ASSUME NEW O \in Draws, Owned(O), NEW c \in Client, Taken(c)
  PROVE  Owned(O)' /\ Shifts(c) /\ Carries(c) /\ LooksOn(c)
<1>1. /\ Statement(c, "taken") /\ UNCHANGED <<mine, dropped>>
      /\ \/ Goto(c, "insert") /\ unfiled' = unfiled
         \/ GoOnWithout(c, client[c].out) /\ unfiled' = unfiled \cup {Op(c).addr}
  BY DEF Taken, GoOn
<1>2. /\ Quiet(c) /\ Stage(c) = "taken" /\ Typed /\ InBatch(O, c)
      /\ client[c].out \in SUBSET Station /\ unfiled \subseteq Real
  BY <1>1, QuietStatement, OutIsKnown DEF Owned, Own
<1>3. /\ Stage(c) \notin Resting \cup {"commit", "cascade"} /\ Stage(c) \in SourceStages
      /\ "insert" \in Stages /\ "insert" \in SourceStages
      /\ "insert" \notin Resting \cup {"station", "cascade", "journal", "fresh", "write"}
  BY <1>2 DEF Resting, SourceStages, Stages
<1>4. /\ Op(c) \in SourceOp /\ client[c].left # <<>> /\ client[c].left \in Seq(O[c])
  BY <1>2, <1>3, AtOp
<1>5. Op(c).op = "source" /\ Op(c).addr \in Real
  BY <1>4 DEF SourceOp
<1>6. CASE Goto(c, "insert") /\ unfiled' = unfiled
  <2>1. /\ client' \in [Client -> Program] /\ Alone(c) /\ client'[c].stage = "insert"
        /\ client'[c].plan = client[c].plan /\ client'[c].left = client[c].left
    BY <1>2, <1>3, <1>6, GoesTo
  <2>2. Fits(client'[c].left, client'[c].stage)
    BY <1>3, <1>4, <1>5, <2>1 DEF Fits, Op
  <2>3. Standing(c)'
    BY <1>3, <2>1 DEF Standing, Stage
  <2>4. LooksOn(c)
    BY <2>1, LooksElsewhere
  <2> QED BY <1>1, <1>2, <1>3, <1>4, <1>6, <2>1, <2>2, <2>3, <2>4, ReadingKeeps
<1>7. CASE GoOnWithout(c, client[c].out) /\ unfiled' = unfiled \cup {Op(c).addr}
  <2>1. unfiled' \subseteq Real /\ unfiled \subseteq unfiled'
    BY <1>2, <1>5, <1>7
  <2>2. \A r \in Real : Brings(Op(c), r) => Ready(r)'
    BY <1>7 DEF Brings, Ready
  <2> QED BY <1>1, <1>2, <1>3, <1>7, <2>1, <2>2, PassingKeeps
<1> QED BY <1>1, <1>6, <1>7

LEMMA MigrateKeeps ==
  ASSUME NEW O \in Draws, Owned(O), NEW c \in Client, Migrate(c)
  PROVE  Owned(O)' /\ Shifts(c) /\ Carries(c) /\ LooksOn(c)
<1>1. PICK from, to : from = Movable(c, Op(c)) /\ to = At(Op(c).addr)
  OBVIOUS
<1>2. /\ Statement(c, "migrate") /\ UNCHANGED <<unfiled, dropped>>
      /\ \/ from = {} /\ Goto(c, "taken") /\ UNCHANGED mine
         \/ \E p \in from : MovesSystem(c, p, to, Systems(c)[p]) /\ GotoAt(c, "cascade", p)
  <2>1. from # {} => (CHOOSE a \in from : TRUE) \in from
    OBVIOUS
  <2> QED BY <1>1, <2>1 DEF Migrate, MovesSystem
<1>3. /\ Quiet(c) /\ Stage(c) = "migrate" /\ Wants(c) \subseteq locks'[c]
      /\ Typed /\ InBatch(O, c) /\ Locked(c) /\ Filed(c) /\ unfiled \subseteq Real
  BY <1>2, QuietStatement, OutIsKnown DEF Owned, Own
<1>4. /\ Stage(c) \notin Resting \cup {"commit", "cascade"} /\ Stage(c) \in SourceStages
      /\ \A x \in {"taken", "cascade"} : x \in Stages /\ x \in SourceStages /\ x \notin Resting
  BY <1>3 DEF Resting, SourceStages, Stages
<1>5. /\ Op(c) \in SourceOp /\ client[c].left # <<>> /\ client[c].left \in Seq(O[c])
  BY <1>3, <1>4, AtOp
<1>6. Op(c).op = "source" /\ to \in Address /\ to.real
  BY <1>1, <1>5, RealAddress DEF SourceOp
<1>7. CASE from = {} /\ Goto(c, "taken") /\ UNCHANGED mine
  <2>1. /\ client' \in [Client -> Program] /\ Alone(c) /\ client'[c].stage = "taken"
        /\ client'[c].plan = client[c].plan /\ client'[c].left = client[c].left
    BY <1>3, <1>4, <1>7, GoesTo
  <2>2. Fits(client'[c].left, client'[c].stage)
    BY <1>4, <1>5, <1>6, <2>1 DEF Fits, Op
  <2>3. Standing(c)' /\ client'[c].stage \notin Resting \cup {"station", "cascade", "journal"}
    BY <1>4, <2>1 DEF Standing, Stage
  <2>4. LooksOn(c)
    BY <2>1, LooksElsewhere
  <2> QED BY <1>2, <1>3, <1>4, <1>5, <1>7, <2>1, <2>2, <2>3, <2>4, ReadingKeeps
<1>8. ASSUME NEW p \in from, MovesSystem(c, p, to, Systems(c)[p]), GotoAt(c, "cascade", p)
      PROVE  Owned(O)' /\ Shifts(c) /\ Carries(c) /\ LooksOn(c)
  <2>1. /\ p \in Address /\ ~p.real /\ p # to /\ Systems(c)[p] # Nothing
    <3>1. p \in Holders(c, Op(c).name) /\ ~p.real
      BY <1>1, <1>8 DEF Movable
    <3> QED BY <1>6, <3>1 DEF Holders, HoldersIn
  <2>2. PICK row : row = Systems(c)[p]
    OBVIOUS
  <2>3. row \in SystemRow /\ row # Nothing
    BY <1>3, <2>1, <2>2, Views
  <2>4. /\ mine' \in [Client -> Transaction] /\ Private(c)
        /\ mine'[c].stn = mine[c].stn /\ mine'[c].brd = mine[c].brd
        /\ DOMAIN mine'[c].sys = DOMAIN mine[c].sys \cup {p, to}
        /\ mine'[c].sys[p] = Nothing /\ mine'[c].sys[to] = row
        /\ \A x \in DOMAIN mine[c].sys : x \notin {p, to} => mine'[c].sys[x] = mine[c].sys[x]
    BY <1>3, <1>6, <1>8, <2>1, <2>2, <2>3, WroteMove
  <2>5. /\ client' \in [Client -> Program] /\ Alone(c)
        /\ client'[c].stage = "cascade" /\ client'[c].addr = p
        /\ client'[c].plan = client[c].plan /\ client'[c].left = client[c].left
    BY <1>3, <1>4, <1>8, <2>1, GoesAt
  <2>6. Typed'
    BY <1>2, <1>3, <2>4, <2>5, TypedNext DEF LocksGrow, Typed, Quiet
  <2>7. Fits(client'[c].left, client'[c].stage)
    BY <1>4, <1>5, <1>6, <2>5 DEF Fits, Op
  <2>8. Stage(c)' = "cascade" /\ Op(c)' = Op(c) /\ Standing(c)'
    BY <2>5 DEF Stage, Op, Standing
  <2>9. SystemKey(p) \in locks'[c] /\ SystemKey(to) \in locks'[c]
    <3>1. Wants(c) = {SystemKey(a) : a \in from} \cup {SystemKey(to), NameKey(Op(c).name)}
      BY <1>1, <1>3, <1>8 DEF Wants, ByName
    <3> QED BY <1>3, <1>8, <3>1
  <2>10. Locked(c)'
    BY <1>3, <2>1, <2>3, <2>4, <2>9 DEF Locked, Quiet
  <2>11. \A x \in Address : x # p /\ Systems(c)[x] # Nothing => Systems(c)'[x] # Nothing
    BY <1>3, <2>3, <2>4, <2>6, Views, ViewsNext DEF Quiet, tables
  <2>12. Filed(c)'
    <3>1. Stations(c)' = Stations(c) /\ stations' = stations
      BY <1>3, <2>4 DEF Stations, Quiet, tables
    <3>2. \A s \in Station : Stations(c)[s] # Nothing =>
            Stations(c)[s].system \in Address /\ Systems(c)[Stations(c)[s].system] # Nothing
      BY <1>3, Views DEF StationRowType, Filed
    <3>3. \A s \in Station : Stations(c)'[s] # Nothing =>
            \/ Stations(c)'[s].system = p
            \/ Systems(c)'[Stations(c)'[s].system] # Nothing
      BY <2>11, <3>1, <3>2
    <3>4. \A s \in DOMAIN mine'[c].stn :
            LET x == mine'[c].stn[s].system
            IN  x.real \/ SystemKey(x) \in locks'[c] \/ (stations'[s] # Nothing /\ stations'[s].system = x)
      BY <1>3, <2>4, <3>1 DEF Filed, Quiet
    <3>5. At(Op(c)'.addr) = to
      BY <1>1, <2>8
    <3>6. client'[c].addr \in DOMAIN mine'[c].sys
          /\ At(Op(c)'.addr) \in DOMAIN mine'[c].sys /\ mine'[c].sys[At(Op(c)'.addr)] # Nothing
      BY <2>3, <2>4, <2>5, <3>5
    <3> QED BY <2>5, <2>8, <3>3, <3>4, <3>6 DEF Filed
  <2>13. \A x \in Address : x.real /\ Systems(c)[x] # Nothing => Systems(c)'[x] # Nothing
    BY <2>1, <2>11
  <2>14. Carries(c)
    BY <1>3, <2>4, SameMarks
  <2>15. LooksOn(c)
    BY <2>5, LooksElsewhere
  <2>16. Owned(O)' /\ Shifts(c)
    BY <1>2, <1>3, <1>4, <1>5, <2>1, <2>4, <2>5, <2>6, <2>7, <2>8, <2>10, <2>12, <2>13, WritingKeeps
  <2> QED BY <2>14, <2>15, <2>16
<1> QED BY <1>2, <1>7, <1>8

LEMMA CascadeKeeps ==
  ASSUME NEW O \in Draws, Owned(O), NEW c \in Client, Cascade(c)
  PROVE  Owned(O)' /\ Shifts(c) /\ Carries(c) /\ LooksOn(c)
<1>1. PICK to, p : to = At(Op(c).addr) /\ p = client[c].addr
  OBVIOUS
<1>2. /\ Statement(c, "cascade") /\ MovesStations(c) /\ Goto(c, "taken")
      /\ UNCHANGED <<unfiled, dropped>>
  BY DEF Cascade, MovesStations
<1>3. /\ Quiet(c) /\ Stage(c) = "cascade" /\ Wants(c) \subseteq locks'[c]
      /\ Typed /\ InBatch(O, c) /\ Locked(c) /\ Filed(c)
  BY <1>2, QuietStatement DEF Owned, Own
<1>4. /\ Stage(c) \notin Resting \cup {"commit"} /\ Stage(c) \in SourceStages
      /\ "taken" \in Stages /\ "taken" \in SourceStages /\ "taken" \notin Resting
  BY <1>3 DEF Resting, SourceStages, Stages
<1>5. /\ Op(c) \in SourceOp /\ client[c].left # <<>> /\ client[c].left \in Seq(O[c])
  BY <1>3, <1>4, AtOp
<1>6. Op(c).op = "source" /\ to \in Address /\ to.real
  BY <1>1, <1>5, RealAddress DEF SourceOp
<1>7. /\ mine' \in [Client -> Transaction] /\ Private(c) /\ mine'[c].sys = mine[c].sys
      /\ mine'[c].brd = mine[c].brd
      /\ DOMAIN mine'[c].stn = DOMAIN mine[c].stn \cup Moved(c)
      /\ \A s \in DOMAIN mine[c].stn \ Moved(c) : mine'[c].stn[s] = mine[c].stn[s]
      /\ \A s \in Moved(c) : mine'[c].stn[s].system = to /\ mine'[c].stn[s].mark = Stations(c)[s].mark
  BY <1>1, <1>2, <1>3, <1>6, WroteCascade
<1>8. /\ client' \in [Client -> Program] /\ Alone(c) /\ client'[c].stage = "taken"
      /\ client'[c].plan = client[c].plan /\ client'[c].left = client[c].left
  BY <1>2, <1>3, <1>4, GoesTo
<1>9. Typed'
  BY <1>2, <1>3, <1>7, <1>8, TypedNext DEF LocksGrow, Typed, Quiet
<1>10. Fits(client'[c].left, client'[c].stage)
  BY <1>4, <1>5, <1>6, <1>8 DEF Fits, Op
<1>11. Stage(c)' = "taken" /\ Systems(c)' = Systems(c) /\ stations' = stations /\ Standing(c)'
  BY <1>3, <1>7, <1>8 DEF Stage, Systems, Standing, Quiet, tables
<1>12. \A s \in Moved(c) : s \in Station /\ StationKey(s) \in locks'[c]
  <2>1. Wants(c) = {StationKey(s) : s \in Moved(c)}
    BY <1>3 DEF Wants, ByName
  <2> QED BY <1>3, <2>1 DEF Moved
<1>13. Locked(c)'
  BY <1>3, <1>7, <1>12 DEF Locked, Quiet
<1>14. Systems(c)[to] # Nothing
  BY <1>1, <1>3, Views DEF Filed
<1>15. \A s \in Station : Stations(c)'[s] # Nothing => Systems(c)'[Stations(c)'[s].system] # Nothing
  <2>1. \A s \in Moved(c) : Stations(c)'[s].system = to
    BY <1>7, <1>9, <1>12, ViewsNext
  <2>2. \A s \in Station \ Moved(c) : Stations(c)'[s] = Stations(c)[s]
    BY <1>3, <1>7, <1>9, <1>11, Views, ViewsNext
  <2>3. \A s \in Station \ Moved(c) :
          Stations(c)[s] # Nothing => Systems(c)[Stations(c)[s].system] # Nothing
    BY <1>3 DEF Filed, Moved
  <2> QED BY <1>11, <1>14, <2>1, <2>2, <2>3
<1>16. \A s \in DOMAIN mine'[c].stn :
         LET x == mine'[c].stn[s].system
         IN  x.real \/ SystemKey(x) \in locks'[c] \/ (stations'[s] # Nothing /\ stations'[s].system = x)
  <2>1. \A s \in DOMAIN mine[c].stn \ Moved(c) :
          LET x == mine'[c].stn[s].system
          IN  x.real \/ SystemKey(x) \in locks'[c] \/ (stations'[s] # Nothing /\ stations'[s].system = x)
    BY <1>3, <1>7, <1>11 DEF Filed, Quiet
  <2> QED BY <1>6, <1>7, <2>1
<1>17. Filed(c)'
  BY <1>11, <1>15, <1>16 DEF Filed
<1>18. Carries(c)
  <2>1. \A s \in Moved(c) : mine'[c].stn[s].mark = SeenMarks(c, s)
    BY <1>7 DEF SeenMarks, Moved
  <2>2. \A s \in DOMAIN mine[c].stn : mine[c].stn[s].mark = SeenMarks(c, s)
    BY <1>3, Views, NothingIsNoRow DEF SeenMarks
  <2> QED BY <1>7, <2>1, <2>2 DEF Carries
<1>19. LooksOn(c)
  BY <1>8, LooksElsewhere
<1>20. Owned(O)' /\ Shifts(c)
  BY <1>2, <1>3, <1>4, <1>5, <1>7, <1>8, <1>9, <1>10, <1>11, <1>13, <1>17, WritingKeeps
<1> QED BY <1>18, <1>19, <1>20

LEMMA EnsureKeeps ==
  ASSUME NEW O \in Draws, Owned(O), Promised, NEW c \in Client, Ensure(c)
  PROVE  Owned(O)' /\ Shifts(c) /\ Carries(c) /\ LooksOn(c)
<1>1. PICK s, a : s = Op(c).station /\ a = At(Op(c).addr)
  OBVIOUS
<1>2. Statement(c, "ensure") /\ UNCHANGED <<unfiled, dropped>>
  BY DEF Ensure
<1>3. /\ Quiet(c) /\ Stage(c) = "ensure" /\ Wants(c) \subseteq locks'[c]
      /\ Typed /\ InBatch(O, c) /\ Locked(c) /\ Filed(c)
      /\ client[c].out \in SUBSET Station /\ unfiled \subseteq Real
  BY <1>2, QuietStatement, OutIsKnown DEF Owned, Own
<1>4. Stage(c) \notin Resting \cup {"commit", "cascade"}
  BY <1>3 DEF Resting
<1>5. /\ Op(c) \in EnsureOp /\ c = "dump" /\ client[c].left # <<>> /\ client[c].left \in Seq(O[c])
  BY <1>3, <1>4, AtOp
<1>6. /\ Op(c).op = "ensure" /\ Op(c).addr \in Real /\ s \in Station /\ a \in Address /\ a.real
      /\ \A r \in Real : ~Brings(Op(c), r)
  BY <1>1, <1>5, RealAddress DEF EnsureOp, Brings
<1>7. CASE Op(c).addr \in unfiled
  <2>1. GoOnWithout(c, client[c].out \cup {s}) /\ UNCHANGED mine
    BY <1>1, <1>7 DEF Ensure
  <2>2. client[c].out \cup {s} \in SUBSET Station
    BY <1>3, <1>6
  <2> QED BY <1>2, <1>3, <1>4, <1>6, <2>1, <2>2, PassingKeeps
<1>8. CASE Op(c).addr \notin unfiled
  <2>1. PICK row : row = StationRow(c, s, a)
    OBVIOUS
  <2>2. GoOnWithout(c, client[c].out) /\ StoresStation(c, s, row)
    BY <1>1, <1>8, <2>1 DEF Ensure, GoOn, StoresStation
  <2>3. row \in StationRowType /\ row.system = a /\ row.mark = SeenMarks(c, s)
    BY <1>3, <1>6, <2>1, StationRows
  <2>4. /\ mine' \in [Client -> Transaction] /\ Private(c) /\ mine'[c].sys = mine[c].sys
        /\ mine'[c].brd = mine[c].brd
        /\ DOMAIN mine'[c].stn = DOMAIN mine[c].stn \cup {s} /\ mine'[c].stn[s] = row
        /\ \A x \in DOMAIN mine[c].stn : x # s => mine'[c].stn[x] = mine[c].stn[x]
    BY <1>3, <1>6, <2>2, <2>3, WroteStation
  <2>5. /\ client' \in [Client -> Program] /\ Alone(c) /\ client'[c].plan = client[c].plan
        /\ client[c].left # <<>> /\ client'[c].left = Tail(client[c].left)
        /\ client'[c].left \in Seq(O[c])
        /\ client'[c].stage \in FirstStages /\ Fits(client'[c].left, client'[c].stage)
    BY <1>3, <1>4, <2>2, GoesOn
  <2>6. Typed'
    BY <1>2, <1>3, <2>4, <2>5, TypedNext DEF LocksGrow, Typed, Quiet
  <2>7. client'[c].stage \notin Resting \cup {"station", "cascade", "fresh", "write", "journal", "push"}
    BY <2>5 DEF FirstStages, Resting
  <2>8. Standing(c)' /\ Systems(c)' = Systems(c) /\ Stage(c)' \notin {"station", "cascade"}
    BY <1>3, <2>4, <2>7 DEF Standing, Stage, Systems, Quiet, tables
  <2>9. StationKey(s) \in locks'[c]
    <3>1. Wants(c) = StationKeys(c, s)
      BY <1>1, <1>3, <1>8 DEF Wants, ByName
    <3> QED BY <1>3, <3>1 DEF StationKeys
  <2>10. Locked(c)'
    BY <1>3, <2>4, <2>9 DEF Locked, Quiet
  <2>11. Systems(c)[a] # Nothing
    <3>1. 1 \in DOMAIN client[c].left /\ client[c].left[1] = Op(c)
      BY <1>5 DEF Op
    <3>2. Stage("dump") \notin {"broken", "done"}
      BY <1>3, <1>5
    <3>3. Ready(Op(c).addr)
      BY <1>5, <1>6, <3>1, <3>2 DEF Promised
    <3> QED BY <1>1, <1>5, <1>8, <3>3 DEF Ready
  <2>12. Filed(c)'
    BY <1>3, <1>4, <1>6, <2>3, <2>4, <2>6, <2>8, <2>11, FiledStation DEF Quiet
  <2>13. Carries(c)
    BY <1>3, <2>3, <2>4, RowCarries
  <2>14. LooksOn(c)
    BY <2>7, LooksElsewhere
  <2>15. Owned(O)' /\ Shifts(c)
    BY <1>2, <1>3, <1>4, <1>6, <2>4, <2>5, <2>6, <2>7, <2>8, <2>10, <2>12, WritingKeeps
  <2> QED BY <2>13, <2>14, <2>15
<1> QED BY <1>7, <1>8
-----------------------------------------------------------------------------
(* How a batch begins and ends.                                             *)

\* A program without a transaction sees the tables.
LEMMA EmptyHanded ==
  ASSUME Typed', TablesFiled', NEW c \in Client, mine'[c] = Untouched, client'[c].stage \in Resting
  PROVE  /\ Standing(c)' /\ Locked(c)' /\ Filed(c)'
         /\ \A a \in Address : Systems(c)'[a] = systems'[a]
<1>1. Stage(c)' \notin {"fresh", "write", "station", "cascade", "push"}
  BY DEF Stage, Resting
<1>2. DOMAIN mine'[c].sys = {} /\ DOMAIN mine'[c].stn = {}
  BY UntouchedIsEmpty
<1>3. /\ \A a \in Address : Systems(c)'[a] = systems'[a]
      /\ \A s \in Station : Stations(c)'[s] = stations'[s]
  BY <1>2, ViewsNext
<1>4. \A s \in Station : stations'[s] # Nothing => stations'[s].system \in Address
  BY DEF Typed, StationRowType
<1>5. \A s \in Station : Stations(c)'[s] # Nothing => Systems(c)'[Stations(c)'[s].system] # Nothing
  BY <1>3, <1>4 DEF TablesFiled
<1>6. Standing(c)'
  BY <1>1 DEF Standing
<1>7. Locked(c)'
  BY <1>2 DEF Locked
<1>8. Filed(c)'
  BY <1>1, <1>2, <1>5 DEF Filed
<1> QED BY <1>3, <1>6, <1>7, <1>8

LEMMA Rests ==
  ASSUME NEW x, x \in {"idle", "done", "broken", "stars", "complete"}
  PROVE  x \in Resting /\ x \in Stages
BY DEF Resting, Stages

\* The operations of the plan a program has.
LEMMA PlanHead ==
  ASSUME NEW S, NEW plan \in Seq(Seq(S)), plan # <<>>
  PROVE  Head(plan) \in Seq(S) /\ Tail(plan) \in Seq(Seq(S)) /\ Len(Head(plan)) \in Nat
<1>1. Head(plan) \in Seq(S) /\ Tail(plan) \in Seq(Seq(S))
  BY HeadTailProperties
<1> QED BY <1>1, LenProperties

LEMMA Rejecting ==
  ASSUME NEW O \in Draws, Typed, NEW c \in Client, InBatch(O, c), Rejected(c),
         Stage(c) \notin Resting \/ Stage(c) = "broken"
  PROVE  /\ client' \in [Client -> Program] /\ Alone(c) /\ dropped' \in Nat
         /\ job' \in {"running", "complete", "failed"}
         /\ client'[c].left = <<>> /\ client'[c].plan \in Seq(Seq(O[c]))
         /\ client'[c].stage = IF c = "feed" THEN "idle" ELSE "done"
<1> DEFINE again == c = "feed" /\ client[c].attempts + 1 < MaxAttempts
<1>1. PICK tries, rest :
        /\ tries = IF again THEN client[c].attempts + 1 ELSE 0
        /\ rest = IF again THEN client[c].plan
                  ELSE IF c = "feed" THEN Tail(client[c].plan) ELSE <<>>
  OBVIOUS
<1>2. PICK new :
        new = [client[c] EXCEPT !.left = <<>>, !.addr = Nothing, !.out = {}, !.attempts = tries,
                 !.plan = rest, !.stage = IF c = "feed" THEN "idle" ELSE "done"]
  OBVIOUS
<1>3. /\ client' = [client EXCEPT ![c] = new]
      /\ dropped' = dropped \/ (c = "feed" /\ dropped' = dropped + Len(Head(client[c].plan)))
      /\ job' = "failed" \/ job' = job
  <2>1. client' = [client EXCEPT ![c] =
          [client[c] EXCEPT !.left = <<>>, !.addr = Nothing, !.out = {},
             !.attempts = IF again THEN client[c].attempts + 1 ELSE 0,
             !.plan = IF again THEN client[c].plan
                      ELSE IF c = "feed" THEN Tail(client[c].plan) ELSE <<>>,
             !.stage = IF c = "feed" THEN "idle" ELSE "done"]]
    BY DEF Rejected
  <2>2. client' = [client EXCEPT ![c] = new]
    <3>1. CASE again
      BY <1>1, <1>2, <2>1, <3>1
    <3>2. CASE ~again
      BY <1>1, <1>2, <2>1, <3>2
    <3> QED BY <3>1, <3>2
  <2>3. dropped' = dropped \/ (c = "feed" /\ dropped' = dropped + Len(Head(client[c].plan)))
    BY DEF Rejected
  <2>4. job' = "failed" \/ job' = job
    BY DEF Rejected
  <2> QED BY <2>2, <2>3, <2>4
<1>4. client[c] \in Program /\ client[c].plan \in Seq(Seq(AnyOp)) /\ client[c].plan \in Seq(Seq(O[c]))
  BY DEF Typed, Program, InBatch
<1>5. c = "feed" => client[c].plan # <<>>
  BY DEF InBatch, Stage, Resting
<1>6. MaxAttempts \in Nat \ {0}
  BY GalaxyStoreAssumption DEF GalaxyStoreAssumption
<1>7. /\ new.left = <<>> /\ new.addr = Nothing /\ new.out = {}
      /\ new.attempts = tries /\ new.plan = rest
      /\ new.stage = IF c = "feed" THEN "idle" ELSE "done"
      /\ new = [plan |-> new.plan, left |-> new.left, out |-> new.out, stage |-> new.stage,
                addr |-> new.addr, attempts |-> new.attempts]
  BY <1>2, <1>4 DEF Program
<1>8. rest \in Seq(Seq(AnyOp)) /\ rest \in Seq(Seq(O[c]))
  <2>1. c = "feed" => Tail(client[c].plan) \in Seq(Seq(AnyOp)) /\ Tail(client[c].plan) \in Seq(Seq(O[c]))
    BY <1>4, <1>5, PlanHead
  <2>2. <<>> \in Seq(Seq(AnyOp)) /\ <<>> \in Seq(Seq(O[c]))
    OBVIOUS
  <2> QED BY <1>1, <1>4, <2>1, <2>2
<1>9. tries \in 0..(MaxAttempts - 1)
  <2>1. client[c].attempts \in 0..(MaxAttempts - 1)
    BY <1>4 DEF Program
  <2> QED BY <1>1, <1>6, <2>1
<1>10. new \in Program
  <2>1. new.stage \in Stages /\ new.left \in Seq(AnyOp) /\ new.out \in SUBSET Station
    BY <1>7, Rests
  <2> QED BY <1>7, <1>8, <1>9, <2>1 DEF Program
<1>11. client' \in [Client -> Program] /\ Alone(c) /\ client'[c] = new
  BY <1>3, <1>10 DEF Typed, Alone
<1>12. dropped' \in Nat
  <2>1. c = "feed" => Len(Head(client[c].plan)) \in Nat
    BY <1>4, <1>5, PlanHead
  <2> QED BY <1>3, <2>1 DEF Typed
<1>13. job' \in {"running", "complete", "failed"}
  BY <1>3 DEF Typed
<1> QED BY <1>7, <1>8, <1>11, <1>12, <1>13

\* A program that gave its batch up has nothing left of it.
LEMMA RejectedRests ==
  ASSUME NEW O \in Draws, NEW c \in Client, mine'[c] = Untouched,
         client'[c].left = <<>>, client'[c].plan \in Seq(Seq(O[c])),
         client'[c].stage = IF c = "feed" THEN "idle" ELSE "done"
  PROVE  InBatch(O, c)' /\ client'[c].stage \in Resting
<1>1. client'[c].stage \in Resting /\ client'[c].stage \notin {"station", "journal", "cascade"}
  BY DEF Resting
<1> QED BY <1>1 DEF InBatch

LEMMA Forgetting ==
  ASSUME Typed, Disjoint, NEW c \in Client, Forget(c)
  PROVE  /\ mine' \in [Client -> Transaction] /\ Private(c) /\ mine'[c] = Untouched
         /\ LocksGrow(c) /\ Disjoint'
<1>1. mine' \in [Client -> Transaction] /\ Private(c) /\ mine'[c] = Untouched
  BY UntouchedIsEmpty DEF Forget, Typed, Private
<1>2. locks' = [locks EXCEPT ![c] = {}] /\ locks = [d \in Client |-> locks[d]]
  BY DEF Forget, Typed
<1>3. /\ locks' = [d \in Client |-> locks'[d]] /\ locks'[c] = {}
      /\ \A d \in Client : d # c => locks'[d] = locks[d]
  BY <1>2
<1> QED BY <1>1, <1>3 DEF LocksGrow, Disjoint

\* A batch is given up: the tables are as they were.
LEMMA GivingUpKeeps ==
  ASSUME NEW O \in Draws, Owned(O), NEW c \in Client, UNCHANGED <<tables, unfiled>>, Rejected(c),
         Stage(c) \notin Resting \/ Stage(c) = "broken",
         mine' \in [Client -> Transaction], Private(c), mine'[c] = Untouched,
         LocksGrow(c), Disjoint'
  PROVE  Owned(O)' /\ Alone(c) /\ Private(c) /\ Gone(c) /\ (c = "dump" => Stage(c)' = "done")
<1>1. Typed /\ InBatch(O, c)
  BY DEF Owned, Own
<1>2. /\ client' \in [Client -> Program] /\ Alone(c) /\ dropped' \in Nat
      /\ job' \in {"running", "complete", "failed"}
      /\ client'[c].left = <<>> /\ client'[c].plan \in Seq(Seq(O[c]))
      /\ client'[c].stage = IF c = "feed" THEN "idle" ELSE "done"
  BY <1>1, Rejecting
<1>3. Typed'
  BY <1>1, <1>2 DEF Typed, tables, LocksGrow
<1>4. TablesFiled'
  BY DEF TablesFiled, tables, Owned
<1>5. InBatch(O, c)' /\ client'[c].stage \in Resting
  BY <1>2, RejectedRests
<1>6. Own(O, c)'
  BY <1>3, <1>4, <1>5, EmptyHanded DEF Own
<1>7. Owned(O)'
  BY <1>2, <1>3, <1>6, Bystanders
<1> QED BY <1>2, <1>5, <1>7 DEF Stage, Gone

LEMMA NothingWanted == ASSUME NEW c \in Client, Stage(c) \in Resting PROVE Wants(c) = {}
<1>1. Stage(c) \notin {"system", "held", "station", "ensure", "write", "journal", "insert",
                       "migrate", "cascade", "push"}
  BY DEF Resting
<1>2. ~ByName(c)
  BY <1>1 DEF ByName
<1> QED BY <1>1, <1>2 DEF Wants

LEMMA AbortsKeep ==
  ASSUME NEW O \in Draws, Owned(O), NEW c \in Client,
         \/ Broken(c) \/ Deadlock(c) \/ ConstraintFails(c)
         \/ JournalRejected(c) \/ InsertRejected(c)
  PROVE  /\ Owned(O)' /\ UNCHANGED <<tables, unfiled>> /\ Alone(c) /\ Private(c)
         /\ Gone(c) /\ LocksGrow(c)
         /\ c = "dump" => Stage(c)' = "done"
<1>1. Typed /\ Disjoint
  BY DEF Owned
<1>2. CASE Broken(c)
  <2>1. Stage(c) = "broken" /\ Forget(c) /\ Rejected(c) /\ UNCHANGED <<tables, unfiled>>
    BY <1>2 DEF Broken, Fails
  <2>2. /\ mine' \in [Client -> Transaction] /\ Private(c) /\ mine'[c] = Untouched
        /\ LocksGrow(c) /\ Disjoint'
    BY <1>1, <2>1, Forgetting
  <2> QED BY <2>1, <2>2, GivingUpKeeps
<1>3. CASE JournalRejected(c) \/ InsertRejected(c) \/ ConstraintFails(c)
  <2>1. /\ Stage(c) \in {"system", "held", "station", "write", "journal", "insert"}
        /\ Forget(c) /\ Rejected(c) /\ UNCHANGED <<tables, unfiled>>
    BY <1>3 DEF JournalRejected, InsertRejected, Rejects, Fails, ConstraintFails, Refused, ByName
  <2>2. Stage(c) \notin Resting
    BY <2>1 DEF Resting
  <2>3. /\ mine' \in [Client -> Transaction] /\ Private(c) /\ mine'[c] = Untouched
        /\ LocksGrow(c) /\ Disjoint'
    BY <1>1, <2>1, Forgetting
  <2> QED BY <2>1, <2>2, <2>3, GivingUpKeeps
<1>4. CASE Deadlock(c)
  <2>1. PICK grown : grown = [d \in Client |-> locks[d] \cup Wants(d)]
    OBVIOUS
  <2>2. /\ Blocked(c) /\ Rejected(c) /\ UNCHANGED <<tables, unfiled>>
        /\ mine' = [mine EXCEPT ![c] = Untouched]
        /\ locks' = [d \in Client |-> IF d = c THEN {} ELSE grown[d]]
    BY <1>4, <2>1 DEF Deadlock
  <2>3. Stage(c) \notin Resting
    BY <2>2, NothingWanted DEF Blocked
  <2>4. mine' \in [Client -> Transaction] /\ Private(c) /\ mine'[c] = Untouched
    BY <1>1, <2>2, UntouchedIsEmpty DEF Typed, Private
  <2>5. LocksGrow(c)
    BY <2>1, <2>2 DEF LocksGrow
  <2>6. Disjoint'
    BY <2>2 DEF Disjoint, Client
  <2> QED BY <2>2, <2>3, <2>4, <2>5, <2>6, GivingUpKeeps
<1> QED BY <1>2, <1>3, <1>4

\* A program that begins a batch, or ends its run, has no transaction.
LEMMA BetweenKeeps ==
  ASSUME NEW O \in Draws, Owned(O), NEW c \in Client, UNCHANGED <<tables, mine, locks>>,
         Typed', Alone(c), InBatch(O, c)', mine[c] = Untouched,
         client'[c].stage \in Resting \cup FirstStages
  PROVE  Owned(O)'
<1>1. Typed /\ Disjoint /\ TablesFiled
  BY DEF Owned
<1>2. Private(c) /\ LocksGrow(c) /\ Disjoint' /\ TablesFiled' /\ mine'[c] = Untouched
  BY <1>1 DEF Private, LocksGrow, Typed, Disjoint, TablesFiled, tables
<1>3. Own(O, c)'
  <2>1. DOMAIN mine'[c].sys = {} /\ DOMAIN mine'[c].stn = {}
    BY <1>2, UntouchedIsEmpty
  <2>2. Stage(c)' \notin {"fresh", "write", "station", "cascade", "push"}
    BY DEF Stage, Resting, FirstStages
  <2>3. Filed(c)'
    <3>1. /\ \A a \in Address : Systems(c)'[a] = systems'[a]
          /\ \A s \in Station : Stations(c)'[s] = stations'[s]
      BY <2>1, ViewsNext
    <3>2. \A s \in Station : stations'[s] # Nothing => stations'[s].system \in Address
      BY DEF Typed, StationRowType
    <3>3. \A s \in Station : Stations(c)'[s] # Nothing => Systems(c)'[Stations(c)'[s].system] # Nothing
      BY <1>2, <3>1, <3>2 DEF TablesFiled
    <3> QED BY <2>1, <2>2, <3>3 DEF Filed
  <2> QED BY <2>1, <2>2, <2>3 DEF Own, Standing, Locked
<1> QED BY <1>2, <1>3, Bystanders

LEMMA BeginKeeps ==
  ASSUME NEW O \in Draws, Owned(O), NEW c \in Client, Begin(c)
  PROVE  /\ Owned(O)' /\ UNCHANGED <<tables, mine, unfiled>> /\ Alone(c) /\ Stage(c) = "idle"
         /\ client[c].plan # <<>> /\ client[c].left = <<>>
         /\ client'[c].plan = client[c].plan /\ client'[c].left = Head(client[c].plan)
         /\ client'[c].stage = "broken" \/ client'[c].stage \notin Resting
         /\ Gone(c) /\ locks' = locks
<1>1. PICK first : first = IF up THEN Enter(Head(client[c].plan), {}) ELSE "broken"
  OBVIOUS
<1>2. /\ Stage(c) = "idle" /\ client[c].plan # <<>>
      /\ client' = [client EXCEPT ![c].left = Head(client[c].plan), ![c].stage = first]
      /\ UNCHANGED <<systems, stations, boards, mine, locks, unfiled, job, dropped>>
  BY <1>1 DEF Begin, tables
<1>3. /\ Typed /\ InBatch(O, c)
  BY DEF Owned, Own
<1>4. client[c].plan \in Seq(Seq(AnyOp)) /\ client[c].plan \in Seq(Seq(O[c])) /\ client[c].left = <<>>
      /\ mine[c] = Untouched /\ client[c] \in Program
  BY <1>2, <1>3 DEF Typed, Program, InBatch, Stage, Resting
<1>5. Head(client[c].plan) \in Seq(AnyOp) /\ Head(client[c].plan) \in Seq(O[c])
  BY <1>2, <1>4, PlanHead
<1>6. /\ first \in Resting \cup FirstStages /\ first \in Stages
      /\ first = "broken" \/ first \notin Resting
      /\ first \notin Resting => Fits(Head(client[c].plan), first)
  <2>1. /\ Enter(Head(client[c].plan), {}) \in FirstStages /\ Enter(Head(client[c].plan), {}) \in Stages
        /\ Fits(Head(client[c].plan), Enter(Head(client[c].plan), {}))
    BY <1>5, Entering
  <2> QED BY <1>1, <2>1, BatchStages, Rests
<1>7. /\ client' \in [Client -> Program] /\ Alone(c)
      /\ client'[c].plan = client[c].plan /\ client'[c].left = Head(client[c].plan)
      /\ client'[c].stage = first
  BY <1>2, <1>3, <1>5, <1>6 DEF Typed, Program, Alone
<1>8. Typed'
  BY <1>2, <1>3, <1>7 DEF Typed
<1>9. InBatch(O, c)'
  <2>1. first \notin {"station", "journal", "cascade", "idle", "done", "stars", "complete"}
    BY <1>6 DEF Resting, FirstStages
  <2>2. first \in Resting => first = "broken"
    BY <1>6
  <2> QED BY <1>2, <1>4, <1>5, <1>6, <1>7, <2>1, <2>2 DEF InBatch, Resting
<1>10. Owned(O)'
  BY <1>2, <1>4, <1>6, <1>7, <1>8, <1>9, BetweenKeeps DEF tables
<1>11. Gone(c)
  BY <1>2, <1>4, <1>6, <1>7 DEF Gone
<1> QED BY <1>2, <1>4, <1>6, <1>7, <1>10, <1>11 DEF tables

LEMMA DumpKeeps ==
  ASSUME NEW O \in Draws, Owned(O), Dump
  PROVE  /\ Owned(O)' /\ UNCHANGED <<tables, mine, unfiled>> /\ Alone("dump")
         /\ Stage("dump") \in {"stars", "complete"} /\ Stage("dump")' \in Resting
         /\ client'["dump"].plan = client["dump"].plan /\ client'["dump"].left = client["dump"].left
         /\ Gone("dump") /\ locks' = locks
<1>1. PICK c : c = "dump"
  OBVIOUS
<1>2. PICK next : /\ next \in {"complete", "idle", "done"} /\ Goto(c, next)
                  /\ Stage(c) \in {"stars", "complete"}
                  /\ UNCHANGED <<systems, stations, boards, mine, locks, unfiled, dropped>>
                  /\ job' = job \/ job' = "complete"
  <2>1. CASE Stars
    BY <1>1, <2>1 DEF Stars, tables
  <2>2. CASE Complete
    BY <1>1, <2>2 DEF Complete, tables
  <2>3. CASE CompleteFails
    BY <1>1, <2>3 DEF CompleteFails, tables
  <2> QED BY <2>1, <2>2, <2>3 DEF Dump
<1>3. c \in Client /\ Typed /\ InBatch(O, c) /\ next \in Stages /\ next \in Resting
  BY <1>1, <1>2, Rests DEF Owned, Own, Client
<1>4. /\ client' \in [Client -> Program] /\ Alone(c) /\ client'[c].stage = next
      /\ client'[c].plan = client[c].plan /\ client'[c].left = client[c].left
  BY <1>2, <1>3, GoesTo
<1>5. Typed'
  BY <1>2, <1>3, <1>4 DEF Typed
<1>6. mine[c] = Untouched /\ client[c].left = <<>>
  BY <1>2, <1>3 DEF InBatch, Stage, Resting
<1>7. InBatch(O, c)'
  BY <1>1, <1>2, <1>3, <1>4, <1>6 DEF InBatch
<1>8. Owned(O)'
  BY <1>2, <1>3, <1>4, <1>5, <1>6, <1>7, BetweenKeeps DEF tables
<1>9. Gone(c)
  BY <1>2, <1>3, <1>4, <1>6 DEF Gone
<1> QED BY <1>1, <1>2, <1>3, <1>4, <1>8, <1>9 DEF tables, Stage

LEMMA GoesDownKeeps ==
  ASSUME NEW O \in Draws, Owned(O), GoesDown
  PROVE  /\ Owned(O)' /\ UNCHANGED <<tables, unfiled>>
         /\ \A c \in Client : /\ client'[c].plan = client[c].plan /\ client'[c].left = client[c].left
                              /\ Gone(c)
                              /\ \/ Stage(c)' = "broken"
                                 \/ Stage(c)' = Stage(c) /\ mine'[c] = mine[c]
<1>1. /\ mine' = [c \in Client |-> Untouched] /\ locks' = [c \in Client |-> {}]
      /\ client' = [c \in Client |-> [client[c] EXCEPT
                      !.stage = IF @ \in {"idle", "complete", "done"} THEN @ ELSE "broken"]]
      /\ UNCHANGED <<systems, stations, boards, unfiled, job, dropped>>
  BY DEF GoesDown, tables
<1>2. Typed /\ TablesFiled /\ \A c \in Client : InBatch(O, c)
  BY DEF Owned, Own
<1>3. ASSUME NEW c \in Client
      PROVE  /\ client'[c].plan = client[c].plan /\ client'[c].left = client[c].left
             /\ client'[c].stage = IF client[c].stage \in {"idle", "complete", "done"} THEN client[c].stage ELSE "broken"
             /\ client'[c] \in Program /\ mine'[c] = Untouched
             /\ InBatch(O, c)' /\ client'[c].stage \in Resting
             /\ \/ Stage(c)' = "broken"
                \/ Stage(c)' = Stage(c) /\ mine'[c] = mine[c]
  <2>1. client[c] \in Program
    BY <1>2 DEF Typed
  <2>2. PICK next : next = IF client[c].stage \in {"idle", "complete", "done"} THEN client[c].stage ELSE "broken"
    OBVIOUS
  <2>3. client'[c] = [client[c] EXCEPT !.stage = next] /\ mine'[c] = Untouched
    BY <1>1, <2>2
  <2>4. next \in {"idle", "complete", "done", "broken"} /\ next \in Resting /\ next \in Stages
    BY <2>2, Rests
  <2>5. /\ client'[c].plan = client[c].plan /\ client'[c].left = client[c].left
        /\ client'[c].stage = next /\ client'[c] \in Program
    BY <2>1, <2>3, <2>4 DEF Program
  <2>6. InBatch(O, c)'
    BY <1>2, <2>2, <2>3, <2>4, <2>5 DEF InBatch, Resting
  <2>7. next # "broken" => mine[c] = Untouched
    BY <1>2, <2>2, <2>4 DEF InBatch
  <2> QED BY <2>2, <2>3, <2>4, <2>5, <2>6, <2>7 DEF Stage
<1>4. Typed'
  <2>1. client' \in [Client -> Program]
    <3>1. client' = [c \in Client |-> client'[c]]
      BY <1>1
    <3> QED BY <1>3, <3>1
  <2>2. mine' \in [Client -> Transaction] /\ locks' = [c \in Client |-> locks'[c]]
    BY <1>1, UntouchedIsEmpty
  <2> QED BY <1>1, <1>2, <2>1, <2>2 DEF Typed
<1>5. TablesFiled' /\ Disjoint'
  BY <1>1, <1>2 DEF TablesFiled, Disjoint
<1>6. \A c \in Client : Own(O, c)'
  BY <1>3, <1>4, <1>5, EmptyHanded DEF Own
<1>7. \A c \in Client : Gone(c)
  BY <1>3 DEF Gone
<1> QED BY <1>1, <1>3, <1>4, <1>5, <1>6, <1>7 DEF Owned, tables
-----------------------------------------------------------------------------
(* A transaction is published.                                              *)

LEMMA PublishedTables ==
  ASSUME Typed, NEW c \in Client, Publish(c)
  PROVE  /\ systems' \in [Address -> SystemRow \cup {Nothing}]
         /\ stations' \in [Station -> StationRowType \cup {Nothing}]
         /\ boards' \in [Board -> Observation \cup {Nothing}]
         /\ systems' = Systems(c) /\ stations' = Stations(c)
         /\ \A b \in DOMAIN mine[c].brd :
              b \in Board /\ boards'[b] = mine[c].brd[b] /\ boards'[b] \in Observation
         /\ \A b \in Board \ DOMAIN mine[c].brd : boards'[b] = boards[b]
<1>1. systems' = Systems(c) /\ stations' = Stations(c) /\ boards' = Over(mine[c].brd, boards)
  BY DEF Publish
<1>2. mine[c].brd \in Writes(Board, Observation)
  BY DEF Typed, Transaction
<1>3. PICK E \in SUBSET Board : mine[c].brd \in [E -> Observation]
  BY <1>2, PartialFunction
<1>4. boards \in [Board -> Observation \cup {Nothing}]
  BY DEF Typed
<1>5. /\ boards' \in [Board -> Observation \cup {Nothing}]
      /\ \A b \in E : boards'[b] = mine[c].brd[b] /\ boards'[b] \in Observation
      /\ \A b \in Board \ E : boards'[b] = boards[b]
  BY <1>1, <1>3, <1>4 DEF Over
<1>6. DOMAIN mine[c].brd = E
  BY <1>3
<1> QED BY <1>1, <1>5, <1>6, Views

\* A row a transaction moved away was provisional, and is locked by it.
LEMMA RealRowsStay ==
  ASSUME Typed, NEW c \in Client, Locked(c), NEW a \in Address,
         systems[a] # Nothing, Systems(c)[a] = Nothing
  PROVE  ~a.real /\ SystemKey(a) \in locks[c]
<1>1. a \in DOMAIN mine[c].sys
  BY Views
<1> QED BY <1>1, Views DEF Locked

\* The stations another transaction sees keep their systems.
LEMMA FiledForOthers ==
  ASSUME Typed, Typed', Disjoint, NEW c \in Client, NEW d \in Client, d # c,
         Stage(c) = "commit", Publish(c),
         Locked(c), Filed(c), Locked(d), Filed(d),
         mine'[d] = mine[d], client'[d] = client[d], locks'[d] = locks[d]
  PROVE  Filed(d)'
<1>1. systems' = Systems(c) /\ stations' = Stations(c)
  BY DEF Publish
<1>2. /\ Stage(d)' = Stage(d) /\ Op(d)' = Op(d)
      /\ \A k \in locks[c] : k \notin locks[d]
  BY DEF Stage, Op, Disjoint
<1>3. /\ DOMAIN mine[d].stn \subseteq Station /\ DOMAIN mine[c].stn \subseteq Station
      /\ DOMAIN mine[d].sys \subseteq Address /\ DOMAIN mine[c].sys \subseteq Address
      /\ \A s \in DOMAIN mine[d].stn : s \notin DOMAIN mine[c].stn
  BY <1>2, Views DEF Locked
<1>4. ASSUME NEW s \in Station, Stations(d)'[s] # Nothing
      PROVE  \/ Stage(d)' = "cascade" /\ Stations(d)'[s].system = client'[d].addr
             \/ Systems(d)'[Stations(d)'[s].system] # Nothing
  <2>1. PICK a : a = Stations(d)'[s].system
    OBVIOUS
  <2>2. a \in Address
    BY <1>4, <2>1, ViewsNext DEF StationRowType
  <2>3. SUFFICES ASSUME Systems(d)'[a] = Nothing, ~(Stage(d) = "cascade" /\ a = client[d].addr)
                 PROVE  FALSE
    BY <1>2, <2>1
  <2>4. CASE s \in DOMAIN mine[d].stn
    <3>1. Stations(d)[s] = mine[d].stn[s] /\ a = mine[d].stn[s].system /\ Stations(d)[s] # Nothing
      BY <2>1, <2>4, Views, ViewsNext, NothingIsNoRow
    <3>2. Systems(d)[a] # Nothing
      BY <2>3, <3>1 DEF Filed
    <3>3. a \notin DOMAIN mine[d].sys
      BY <2>3, <3>2, Views, ViewsNext
    <3>4. systems[a] # Nothing /\ Systems(c)[a] = Nothing
      BY <1>1, <2>2, <2>3, <3>2, <3>3, Views, ViewsNext
    <3>5. ~a.real /\ SystemKey(a) \in locks[c]
      BY <2>2, <3>4, RealRowsStay
    <3>6. stations[s] # Nothing /\ stations[s].system = a
      BY <1>2, <2>4, <3>1, <3>5 DEF Filed
    <3>7. Stations(c)[s] = stations[s]
      BY <1>3, <2>4, Views
    <3> QED BY <3>4, <3>6, <3>7 DEF Filed
  <2>5. CASE s \notin DOMAIN mine[d].stn
    <3>1. Stations(c)[s] # Nothing /\ a = Stations(c)[s].system /\ Stations(d)[s] = stations[s]
      BY <1>1, <1>4, <2>1, <2>5, Views, ViewsNext
    <3>2. Systems(c)[a] # Nothing
      BY <3>1 DEF Filed
    <3>3. a \in DOMAIN mine[d].sys /\ mine[d].sys[a] = Nothing
      BY <1>1, <2>2, <2>3, <3>2, ViewsNext
    <3>4. ~a.real /\ SystemKey(a) \notin locks[c] /\ Systems(d)[a] = Nothing
      BY <1>2, <3>3, Views DEF Locked
    <3>5. stations[s] # Nothing /\ stations[s].system = a
      <4>1. CASE s \in DOMAIN mine[c].stn
        BY <3>1, <3>4, <4>1, Views DEF Filed
      <4>2. CASE s \notin DOMAIN mine[c].stn
        BY <3>1, <4>2, Views
      <4> QED BY <4>1, <4>2
    <3> QED BY <2>3, <3>1, <3>4, <3>5 DEF Filed
  <2> QED BY <2>4, <2>5
<1>5. ASSUME NEW s \in DOMAIN mine'[d].stn
      PROVE  LET a == mine'[d].stn[s].system
             IN  a.real \/ SystemKey(a) \in locks'[d] \/ (stations'[s] # Nothing /\ stations'[s].system = a)
  <2>1. stations'[s] = stations[s]
    BY <1>1, <1>3, Views
  <2> QED BY <2>1 DEF Filed
<1> QED BY <1>2, <1>4, <1>5 DEF Filed

LEMMA StandingForOthers ==
  ASSUME Typed, Typed', NEW c \in Client, NEW d \in Client, Publish(c), Standing(d),
         mine'[d] = mine[d], client'[d] = client[d], Op(d).station \in Station
  PROVE  Standing(d)'
<1>1. stations' = Stations(c) /\ Stage(d)' = Stage(d) /\ Op(d)' = Op(d)
  BY DEF Publish, Stage, Op
<1>2. \A s \in Station : Stations(d)[s] # Nothing => Stations(d)'[s] # Nothing
  BY <1>1, Views, ViewsNext, NothingIsNoRow
<1> QED BY <1>1, <1>2 DEF Standing

LEMMA PublishingKeeps ==
  ASSUME NEW O \in Draws, Owned(O), NEW c \in Client, Stage(c) = "commit", Publish(c), Forget(c),
         Alone(c), client' \in [Client -> Program], client'[c].stage \in Resting, InBatch(O, c)',
         unfiled' = unfiled, job' \in {"running", "complete", "failed"}, dropped' \in Nat
  PROVE  /\ Owned(O)' /\ Private(c) /\ Gone(c) /\ LocksGrow(c)
         /\ \A d \in Client : \A a \in Address :
              a.real /\ Systems(d)[a] # Nothing => Systems(d)'[a] # Nothing
<1>1. /\ Typed /\ Disjoint /\ \A d \in Client : Own(O, d)
  BY DEF Owned
<1>2. /\ mine' \in [Client -> Transaction] /\ Private(c) /\ mine'[c] = Untouched
      /\ LocksGrow(c) /\ Disjoint'
  BY <1>1, Forgetting
<1>3. /\ systems' \in [Address -> SystemRow \cup {Nothing}]
      /\ stations' \in [Station -> StationRowType \cup {Nothing}]
      /\ boards' \in [Board -> Observation \cup {Nothing}]
      /\ systems' = Systems(c) /\ stations' = Stations(c)
  BY <1>1, PublishedTables
<1>4. Typed'
  BY <1>1, <1>2, <1>3 DEF Typed, LocksGrow
<1>5. TablesFiled'
  BY <1>1, <1>3 DEF TablesFiled, Own, Filed
<1>6. Own(O, c)' /\ \A a \in Address : Systems(c)'[a] = systems'[a]
  BY <1>2, <1>4, <1>5, EmptyHanded DEF Own
<1>7. ASSUME NEW d \in Client, d # c PROVE Own(O, d)'
  <2>1. mine'[d] = mine[d] /\ client'[d] = client[d] /\ locks'[d] = locks[d]
    BY <1>2, <1>7 DEF Private, Alone, Forget, Typed
  <2>2. InBatch(O, d)'
    BY <1>1, <2>1 DEF Own, InBatch
  <2>3. Locked(d)'
    BY <1>1, <2>1 DEF Own, Locked
  <2>4. Filed(d)'
    BY <1>1, <1>4, <1>7, <2>1, FiledForOthers DEF Own
  <2>5. Standing(d)'
    <3>1. CASE Stage(d) \in {"fresh", "write"}
      <4>1. Stage(d) \in BoardStages /\ Stage(d) \notin Resting \cup {"commit"}
        BY <3>1 DEF BoardStages, Resting
      <4>2. Op(d) \in BoardOp
        BY <1>1, <4>1, AtOp DEF Own
      <4>3. Op(d).station \in Station
        BY <4>2 DEF BoardOp
      <4> QED BY <1>1, <1>4, <2>1, <4>3, StandingForOthers DEF Own
    <3>2. CASE Stage(d) \notin {"fresh", "write"}
      BY <1>1, <2>1, <3>2 DEF Own, Standing, Stage, Op
    <3> QED BY <3>1, <3>2
  <2> QED BY <2>2, <2>3, <2>4, <2>5 DEF Own
<1>8. ASSUME NEW d \in Client, NEW a \in Address, a.real, Systems(d)[a] # Nothing
      PROVE  Systems(d)'[a] # Nothing
  <2>1. CASE d = c
    BY <1>3, <1>6, <1>8, <2>1
  <2>2. CASE d # c
    <3>1. mine'[d] = mine[d]
      BY <1>2, <2>2 DEF Private
    <3>2. CASE a \in DOMAIN mine[d].sys
      BY <1>1, <1>4, <1>8, <3>1, <3>2, Views, ViewsNext
    <3>3. CASE a \notin DOMAIN mine[d].sys
      <4>1. systems[a] # Nothing
        BY <1>1, <1>8, <3>3, Views
      <4>2. Systems(c)[a] # Nothing
        BY <1>1, <1>8, <4>1, RealRowsStay DEF Own
      <4> QED BY <1>3, <1>4, <3>1, <3>3, <4>2, ViewsNext
    <3> QED BY <3>2, <3>3
  <2> QED BY <2>1, <2>2
<1>9. Gone(c)
  BY <1>2 DEF Gone
<1> QED BY <1>2, <1>4, <1>5, <1>6, <1>7, <1>8, <1>9 DEF Owned

LEMMA CommitKeeps ==
  ASSUME NEW O \in Draws, Owned(O), NEW c \in Client, Commit(c) \/ CommitLost(c)
  PROVE  /\ Owned(O)' /\ Private(c) /\ Alone(c) /\ unfiled' = unfiled
         /\ Gone(c) /\ LocksGrow(c) /\ Publish(c)
         /\ \A d \in Client : \A a \in Address :
              a.real /\ Systems(d)[a] # Nothing => Systems(d)'[a] # Nothing
         /\ c = "dump" => \/ Stage(c)' = "done"
                          \/ /\ Stage(c) = "commit" /\ Stage(c)' = "stars" /\ client[c].left = <<>>
                             /\ client'[c].left = <<>> /\ client'[c].plan = Tail(client[c].plan)
<1>1. Typed /\ Disjoint /\ InBatch(O, c) /\ Stage(c) = "commit" /\ Publish(c) /\ unfiled' = unfiled
  BY DEF Owned, Own, Commit, CommitLost
<1>2. Stage(c) \notin Resting
  BY <1>1 DEF Resting
<1>3. CASE Commit(c)
  <2>1. PICK new : new = [client[c] EXCEPT !.addr = Nothing, !.out = {}, !.attempts = 0,
                            !.plan = Tail(client[c].plan),
                            !.stage = IF c = "feed" THEN "idle" ELSE "stars"]
    OBVIOUS
  <2>2. Forget(c) /\ client' = [client EXCEPT ![c] = new] /\ UNCHANGED <<job, dropped>>
    BY <1>3, <2>1 DEF Commit
  <2>3. client[c] \in Program /\ client[c].plan # <<>> /\ client[c].left = <<>>
    BY <1>1, <1>2 DEF Typed, InBatch, Fits, Stage, BoardStages, JournalStages, SourceStages
  <2>4. Tail(client[c].plan) \in Seq(Seq(AnyOp)) /\ Tail(client[c].plan) \in Seq(Seq(O[c]))
    <3>1. client[c].plan \in Seq(Seq(AnyOp)) /\ client[c].plan \in Seq(Seq(O[c]))
      BY <1>1, <2>3 DEF Program, InBatch
    <3> QED BY <2>3, <3>1, PlanHead
  <2>5. MaxAttempts \in Nat \ {0}
    BY GalaxyStoreAssumption DEF GalaxyStoreAssumption
  <2>6. /\ new \in Program /\ new.left = <<>> /\ new.plan = Tail(client[c].plan)
        /\ new.stage = IF c = "feed" THEN "idle" ELSE "stars"
    <3>1. PICK next : next = IF c = "feed" THEN "idle" ELSE "stars"
      OBVIOUS
    <3>2. new = [client[c] EXCEPT !.addr = Nothing, !.out = {}, !.attempts = 0,
                   !.plan = Tail(client[c].plan), !.stage = next]
      BY <2>1, <3>1
    <3>3. next \in Stages /\ 0 \in 0..(MaxAttempts - 1)
      BY <2>5, <3>1, Rests
    <3> QED BY <2>3, <2>4, <3>1, <3>2, <3>3 DEF Program
  <2>7. client' \in [Client -> Program] /\ Alone(c) /\ client'[c] = new
    BY <1>1, <2>2, <2>6 DEF Typed, Alone
  <2>8. new.stage \in Resting /\ new.stage \notin {"station", "journal", "cascade"}
    BY <2>6, Rests DEF Resting
  <2>9. mine'[c] = Untouched
    BY <1>1, <2>2 DEF Forget, Typed
  <2>10. InBatch(O, c)'
    <3>1. /\ client'[c].left = <<>> /\ client'[c].plan = Tail(client[c].plan)
          /\ client'[c].stage = IF c = "feed" THEN "idle" ELSE "stars"
      BY <2>6, <2>7
    <3>2. client'[c].stage \in Resting /\ client'[c].stage \notin {"station", "journal", "cascade"}
      BY <2>7, <2>8
    <3>3. <<>> \in Seq(O[c])
      OBVIOUS
    <3> QED BY <2>4, <2>9, <3>1, <3>2, <3>3 DEF InBatch
  <2>11. job' \in {"running", "complete", "failed"} /\ dropped' \in Nat
    BY <1>1, <2>2 DEF Typed
  <2>12. /\ Owned(O)' /\ Private(c) /\ Gone(c) /\ LocksGrow(c)
         /\ \A d \in Client : \A a \in Address :
              a.real /\ Systems(d)[a] # Nothing => Systems(d)'[a] # Nothing
    BY <1>1, <2>2, <2>7, <2>8, <2>10, <2>11, PublishingKeeps
  <2> QED BY <1>1, <2>3, <2>6, <2>7, <2>12 DEF Stage
<1>4. CASE CommitLost(c)
  <2>1. Forget(c) /\ Rejected(c)
    BY <1>4 DEF CommitLost, Fails
  <2>2. /\ client' \in [Client -> Program] /\ Alone(c) /\ dropped' \in Nat
        /\ job' \in {"running", "complete", "failed"}
        /\ client'[c].left = <<>> /\ client'[c].plan \in Seq(Seq(O[c]))
        /\ client'[c].stage = IF c = "feed" THEN "idle" ELSE "done"
    BY <1>1, <1>2, <2>1, Rejecting
  <2>3. mine'[c] = Untouched
    BY <1>1, <2>1 DEF Forget, Typed
  <2>4. InBatch(O, c)' /\ client'[c].stage \in Resting
    BY <2>2, <2>3, RejectedRests
  <2>5. /\ Owned(O)' /\ Private(c) /\ Gone(c) /\ LocksGrow(c)
        /\ \A d \in Client : \A a \in Address :
             a.real /\ Systems(d)[a] # Nothing => Systems(d)'[a] # Nothing
    BY <1>1, <2>1, <2>2, <2>4, PublishingKeeps
  <2> QED BY <1>1, <2>2, <2>5 DEF Stage
<1> QED BY <1>3, <1>4
-----------------------------------------------------------------------------
(* The dump comes to a station after its system.                            *)

LEMMA TailAt ==
  ASSUME NEW q, q \in Seq(AnyOp) \/ q \in Seq(Seq(AnyOp)), q # <<>>
  PROVE  /\ \A i \in DOMAIN Tail(q) : i \in Nat \ {0} /\ i + 1 \in DOMAIN q /\ Tail(q)[i] = q[i + 1]
         /\ 1 \in DOMAIN q /\ Head(q) = q[1]
         /\ \A j \in DOMAIN q : j \in Nat \ {0} /\ (j # 1 => j - 1 \in DOMAIN Tail(q) /\ Tail(q)[j - 1] = q[j])
<1>1. CASE q \in Seq(AnyOp)
  BY <1>1
<1>2. CASE q \in Seq(Seq(AnyOp))
  BY <1>2
<1> QED BY <1>1, <1>2

LEMMA EnsureHasReal ==
  ASSUME NEW ops \in Seq(AnyOp), NEW i \in DOMAIN ops, ops[i].op = "ensure"
  PROVE  ops[i].addr \in Real
<1>1. ops[i] \in AnyOp
  OBVIOUS
<1> QED BY <1>1 DEF AnyOp, FeedOp, DumpOp, BoardOp, JournalOp, SourceOp, EnsureOp

LEMMA LaterTyped ==
  ASSUME NEW O \in Draws, Owned(O)
  PROVE  /\ Later \in Seq(Seq(AnyOp)) /\ client["dump"].left \in Seq(AnyOp)
         /\ \A k \in DOMAIN Later : Later[k] \in Seq(AnyOp)
<1>1. /\ client["dump"].plan \in Seq(Seq(AnyOp)) /\ client["dump"].left \in Seq(AnyOp)
      /\ Stage("dump") \notin Resting => client["dump"].plan # <<>>
  BY DEF Owned, Own, Typed, Program, InBatch, Stage, Client
<1>2. Later \in Seq(Seq(AnyOp))
  BY <1>1, PlanHead DEF Later
<1>3. \A k \in DOMAIN Later : Later[k] \in Seq(AnyOp)
  BY <1>2
<1> QED BY <1>1, <1>2, <1>3

\* Nothing changes but what is ready.
LEMMA PromiseUnmoved ==
  ASSUME NEW O \in Draws, Owned(O), Promised, Stage("dump") \notin {"broken", "done"},
         client'["dump"].left = client["dump"].left, Later' = Later,
         \A r \in Real : Ready(r) => Ready(r)'
  PROVE  Promised'
<1>1. PICK L, P : L = client["dump"].left /\ P = Later
  OBVIOUS
<1>2. L \in Seq(AnyOp) /\ \A k \in DOMAIN P : P[k] \in Seq(AnyOp)
  BY <1>1, LaterTyped
<1>3. \A i \in DOMAIN L : L[i].op = "ensure" =>
        Ready(L[i].addr)' \/ \E j \in 1..(i - 1) : Brings(L[j], L[i].addr)
  BY <1>1, <1>2, EnsureHasReal DEF Promised
<1>4. \A k \in DOMAIN P : \A i \in DOMAIN P[k] : P[k][i].op = "ensure" =>
        \/ Ready(P[k][i].addr)'
        \/ \E j \in DOMAIN L : Brings(L[j], P[k][i].addr)
        \/ \E j \in 1..(i - 1) : Brings(P[k][j], P[k][i].addr)
        \/ \E m \in 1..(k - 1) : \E j \in DOMAIN P[m] : Brings(P[m][j], P[k][i].addr)
  BY <1>1, <1>2, EnsureHasReal DEF Promised
<1> QED BY <1>1, <1>3, <1>4 DEF Promised

\* The dump is done with an operation: a system it brings is ready.
LEMMA PromiseShifts ==
  ASSUME NEW O \in Draws, Owned(O), Promised, Stage("dump") \notin {"broken", "done"},
         client["dump"].left # <<>>, client'["dump"].left = Tail(client["dump"].left), Later' = Later,
         \A r \in Real : Ready(r) => Ready(r)',
         \A r \in Real : Brings(Head(client["dump"].left), r) => Ready(r)'
  PROVE  Promised'
<1>1. PICK L, P, T : L = client["dump"].left /\ P = Later /\ T = Tail(L)
  OBVIOUS
<1>2. L \in Seq(AnyOp) /\ T \in Seq(AnyOp) /\ \A k \in DOMAIN P : P[k] \in Seq(AnyOp)
  BY <1>1, LaterTyped, HeadTailProperties
<1>3. /\ \A i \in DOMAIN T : i \in Nat \ {0} /\ i + 1 \in DOMAIN L /\ T[i] = L[i + 1]
      /\ \A j \in DOMAIN L : j \in Nat \ {0} /\ (j # 1 => j - 1 \in DOMAIN T /\ T[j - 1] = L[j])
      /\ Head(L) = L[1]
  <2>1. L # <<>> /\ L \in Seq(AnyOp)
    BY <1>1, <1>2
  <2>2. /\ \A i \in DOMAIN Tail(L) : i \in Nat \ {0} /\ i + 1 \in DOMAIN L /\ Tail(L)[i] = L[i + 1]
        /\ Head(L) = L[1]
        /\ \A j \in DOMAIN L : j \in Nat \ {0} /\ (j # 1 => j - 1 \in DOMAIN Tail(L) /\ Tail(L)[j - 1] = L[j])
    BY <2>1, TailAt
  <2> QED BY <1>1, <2>2
<1>4. \A r \in Real : \A j \in DOMAIN L : Brings(L[j], r) =>
        Ready(r)' \/ (j - 1 \in DOMAIN T /\ Brings(T[j - 1], r))
  BY <1>1, <1>3
<1>5. ASSUME NEW i \in DOMAIN T, T[i].op = "ensure"
      PROVE  Ready(T[i].addr)' \/ \E j \in 1..(i - 1) : Brings(T[j], T[i].addr)
  <2>1. PICK r : r = T[i].addr
    OBVIOUS
  <2>2. r \in Real /\ i \in Nat \ {0} /\ i + 1 \in DOMAIN L /\ L[i + 1].op = "ensure" /\ L[i + 1].addr = r
    BY <1>2, <1>3, <1>5, <2>1, EnsureHasReal
  <2>3. Ready(r) \/ \E j \in 1..(i + 1 - 1) : Brings(L[j], r)
    BY <1>1, <2>2 DEF Promised
  <2>4. ASSUME NEW j \in 1..(i + 1 - 1), Brings(L[j], r)
        PROVE  Ready(r)' \/ \E m \in 1..(i - 1) : Brings(T[m], r)
    <3>1. j \in DOMAIN L
      BY <1>2, <2>2, LenProperties
    <3>2. CASE Ready(r)'
      BY <3>2
    <3>3. CASE j - 1 \in DOMAIN T /\ Brings(T[j - 1], r)
      BY <1>3, <2>2, <3>1, <3>3
    <3> QED BY <1>4, <2>2, <2>4, <3>1, <3>2, <3>3
  <2> QED BY <2>1, <2>2, <2>3, <2>4
<1>6. ASSUME NEW k \in DOMAIN P, NEW i \in DOMAIN P[k], P[k][i].op = "ensure"
      PROVE  \/ Ready(P[k][i].addr)'
             \/ \E j \in DOMAIN T : Brings(T[j], P[k][i].addr)
             \/ \E j \in 1..(i - 1) : Brings(P[k][j], P[k][i].addr)
             \/ \E m \in 1..(k - 1) : \E j \in DOMAIN P[m] : Brings(P[m][j], P[k][i].addr)
  <2>1. PICK r : r = P[k][i].addr
    OBVIOUS
  <2>2. r \in Real
    BY <1>2, <1>6, <2>1, EnsureHasReal
  <2>3. \/ Ready(r)
        \/ \E j \in DOMAIN L : Brings(L[j], r)
        \/ \E j \in 1..(i - 1) : Brings(P[k][j], r)
        \/ \E m \in 1..(k - 1) : \E j \in DOMAIN P[m] : Brings(P[m][j], r)
    BY <1>1, <1>6, <2>1 DEF Promised
  <2> QED BY <1>4, <2>1, <2>2, <2>3
<1> QED BY <1>1, <1>5, <1>6 DEF Promised

\* The dump begins a batch.
LEMMA PromiseBegins ==
  ASSUME NEW O \in Draws, Owned(O), Promised, Stage("dump") = "idle",
         client["dump"].plan # <<>>, client["dump"].left = <<>>,
         client'["dump"].plan = client["dump"].plan,
         client'["dump"].left = Head(client["dump"].plan), client'["dump"].stage \notin Resting,
         \A r \in Real : Ready(r) => Ready(r)'
  PROVE  Promised'
<1>1. PICK P, T, L : P = client["dump"].plan /\ T = Tail(P) /\ L = Head(P)
  OBVIOUS
<1>2. Later = P /\ Later' = T
  BY <1>1 DEF Later, Stage, Resting
<1>3. P \in Seq(Seq(AnyOp)) /\ \A k \in DOMAIN P : P[k] \in Seq(AnyOp)
  BY <1>2, LaterTyped
<1>4. /\ \A k \in DOMAIN T : k \in Nat \ {0} /\ k + 1 \in DOMAIN P /\ T[k] = P[k + 1]
      /\ \A m \in DOMAIN P : m \in Nat \ {0} /\ (m # 1 => m - 1 \in DOMAIN T /\ T[m - 1] = P[m])
      /\ 1 \in DOMAIN P /\ L = P[1]
  BY <1>1, <1>3, TailAt
<1>5. ASSUME NEW k \in DOMAIN P, NEW i \in DOMAIN P[k], P[k][i].op = "ensure"
      PROVE  /\ P[k][i].addr \in Real
             /\ \/ Ready(P[k][i].addr)'
                \/ \E j \in 1..(i - 1) : Brings(P[k][j], P[k][i].addr)
                \/ \E m \in 1..(k - 1) : \E j \in DOMAIN P[m] : Brings(P[m][j], P[k][i].addr)
  <2>1. P[k][i].addr \in Real
    BY <1>3, <1>5, EnsureHasReal
  <2>2. \A j \in DOMAIN client["dump"].left : FALSE
    OBVIOUS
  <2> QED BY <1>2, <1>5, <2>1, <2>2 DEF Promised
<1>6. ASSUME NEW i \in DOMAIN L, L[i].op = "ensure"
      PROVE  Ready(L[i].addr)' \/ \E j \in 1..(i - 1) : Brings(L[j], L[i].addr)
  <2>1. \A m \in 1..(1 - 1) : FALSE
    OBVIOUS
  <2> QED BY <1>4, <1>5, <1>6, <2>1
<1>7. ASSUME NEW k \in DOMAIN T, NEW i \in DOMAIN T[k], T[k][i].op = "ensure"
      PROVE  \/ Ready(T[k][i].addr)'
             \/ \E j \in DOMAIN L : Brings(L[j], T[k][i].addr)
             \/ \E j \in 1..(i - 1) : Brings(T[k][j], T[k][i].addr)
             \/ \E m \in 1..(k - 1) : \E j \in DOMAIN T[m] : Brings(T[m][j], T[k][i].addr)
  <2>1. k \in Nat \ {0} /\ k + 1 \in DOMAIN P /\ T[k] = P[k + 1]
    BY <1>4
  <2>2. PICK r : r = T[k][i].addr
    OBVIOUS
  <2>3. \/ Ready(r)'
        \/ \E j \in 1..(i - 1) : Brings(T[k][j], r)
        \/ \E m \in 1..(k + 1 - 1) : \E j \in DOMAIN P[m] : Brings(P[m][j], r)
    BY <1>5, <1>7, <2>1, <2>2
  <2>4. ASSUME NEW m \in 1..(k + 1 - 1), NEW j \in DOMAIN P[m], Brings(P[m][j], r)
        PROVE  \/ \E x \in DOMAIN L : Brings(L[x], r)
               \/ \E x \in 1..(k - 1) : \E y \in DOMAIN T[x] : Brings(T[x][y], r)
    <3>1. m \in DOMAIN P
      BY <1>3, <2>1, LenProperties
    <3>2. CASE m = 1
      BY <1>4, <2>4, <3>2
    <3>3. CASE m # 1
      <4>1. m - 1 \in 1..(k - 1) /\ T[m - 1] = P[m]
        BY <1>4, <2>1, <3>1, <3>3
      <4> QED BY <2>4, <4>1
    <3> QED BY <3>2, <3>3
  <2> QED BY <2>2, <2>3, <2>4
<1>8. client'["dump"].left = L
  BY <1>1
<1> QED BY <1>2, <1>6, <1>7, <1>8 DEF Promised

\* Steps that the promise does not depend on.
LEMMA PromiseElsewhere ==
  ASSUME NEW O \in Draws, Owned(O), Promised, client'["dump"] = client["dump"],
         \A r \in Real : Ready(r) => Ready(r)'
  PROVE  Promised'
<1>1. Later' = Later /\ Stage("dump")' = Stage("dump")
  BY DEF Later, Stage
<1>2. CASE Stage("dump") \in {"broken", "done"}
  BY <1>1, <1>2 DEF Promised
<1>3. CASE Stage("dump") \notin {"broken", "done"}
  BY <1>1, <1>3, PromiseUnmoved
<1> QED BY <1>2, <1>3

LEMMA PromiseEnds == ASSUME Stage("dump")' \in {"broken", "done"} PROVE Promised'
BY DEF Promised

\* The systems of a program, and what is ready for the dump, stay.
LEMMA ReadyStays ==
  ASSUME unfiled \subseteq unfiled',
         \A a \in Address : a.real /\ Systems("dump")[a] # Nothing => Systems("dump")'[a] # Nothing
  PROVE  \A r \in Real : Ready(r) => Ready(r)'
BY RealAddress DEF Ready

LEMMA ShiftsKeepPromise ==
  ASSUME NEW O \in Draws, Owned(O), Promised, NEW c \in Client, Shifts(c)
  PROVE  Promised'
<1>1. CASE c = "feed"
  <2>1. client'["dump"] = client["dump"] /\ mine'["dump"] = mine["dump"] /\ unfiled \subseteq unfiled'
    BY <1>1 DEF Shifts, Alone, Private, Client
  <2>2. Systems("dump")' = Systems("dump")
    BY <2>1 DEF Shifts, Systems, tables
  <2>3. \A r \in Real : Ready(r) => Ready(r)'
    BY <2>1, <2>2 DEF Ready
  <2> QED BY <2>1, <2>3, PromiseElsewhere
<1>2. CASE c = "dump"
  <2>1. /\ Stage("dump") \notin Resting /\ Stage("dump")' \notin Resting
        /\ client'["dump"].plan = client["dump"].plan
        /\ \A r \in Real : Ready(r) => Ready(r)'
    BY <1>2, ReadyStays DEF Shifts
  <2>2. Later' = Later /\ Stage("dump") \notin {"broken", "done"}
    BY <2>1 DEF Later, Resting
  <2>3. CASE client'["dump"].left = client["dump"].left
    BY <2>1, <2>2, <2>3, PromiseUnmoved
  <2>4. CASE client'["dump"].left # client["dump"].left
    <3>1. /\ client["dump"].left # <<>> /\ client'["dump"].left = Tail(client["dump"].left)
          /\ \A r \in Real : Brings(Op("dump"), r) => Ready(r)'
      BY <1>2, <2>4 DEF Shifts
    <3>2. \A r \in Real : Brings(Head(client["dump"].left), r) => Ready(r)'
      BY <3>1 DEF Op
    <3> QED BY <2>1, <2>2, <3>1, <3>2, PromiseShifts
  <2> QED BY <2>3, <2>4
<1> QED BY <1>1, <1>2 DEF Client
-----------------------------------------------------------------------------
(* Every step.                                                              *)

\* The statements.
Running(c) ==
  \/ BoardSystem(c) \/ StationById(c) \/ StationByName(c) \/ Fresh(c) \/ Write(c)
  \/ HeldByName(c) \/ Held(c) \/ Journal(c) \/ Push(c)
  \/ Migrate(c) \/ Cascade(c) \/ Taken(c) \/ Insert(c) \/ Ensure(c) \/ LeaveOut(c)

LEMMA RunningShifts ==
  ASSUME NEW O \in Draws, StoreInv(O), NEW c \in Client, Running(c)
  PROVE  Owned(O)' /\ Shifts(c) /\ ((Carries(c) /\ LooksOn(c)) \/ FilesBoard(c))
<1>1. Owned(O) /\ Promised
  BY DEF StoreInv
<1>2. Owned(O)' /\ Shifts(c) /\ ((Carries(c) /\ LooksOn(c)) \/ FilesBoard(c))
  <2>1. CASE BoardSystem(c)
    BY <1>1, <2>1, SystemAddressForKeeps DEF BoardSystem
  <2>2. CASE HeldByName(c)
    BY <1>1, <2>2, SystemAddressForKeeps DEF HeldByName
  <2>3. CASE Journal(c)
    BY <1>1, <2>3, UpsertKeeps DEF Journal
  <2>4. CASE Insert(c)
    BY <1>1, <2>4, UpsertKeeps DEF Insert
  <2>5. CASE StationById(c)
    BY <1>1, <2>5, StationByIdKeeps
  <2>6. CASE StationByName(c) \/ Fresh(c)
    BY <1>1, <2>6, LooksUpKeeps
  <2>7. CASE Write(c)
    BY <1>1, <2>7, WriteKeeps
  <2>8. CASE Held(c)
    BY <1>1, <2>8, HeldKeeps
  <2>9. CASE Migrate(c)
    BY <1>1, <2>9, MigrateKeeps
  <2>10. CASE Cascade(c)
    BY <1>1, <2>10, CascadeKeeps
  <2>11. CASE Taken(c)
    BY <1>1, <2>11, TakenKeeps
  <2>12. CASE Ensure(c)
    BY <1>1, <2>12, EnsureKeeps
  <2>13. CASE LeaveOut(c)
    BY <1>1, <2>13, LeaveOutKeeps
  <2>14. CASE Push(c)
    BY <1>1, <2>14, PushKeeps
  <2> QED BY <2>1, <2>2, <2>3, <2>4, <2>5, <2>6, <2>7, <2>8, <2>9, <2>10, <2>11, <2>12, <2>13, <2>14
          DEF Running
<1> QED BY <1>2

LEMMA RunningKeeps ==
  ASSUME NEW O \in Draws, StoreInv(O), NEW c \in Client, Running(c)
  PROVE  StoreInv(O)'
<1>1. Owned(O) /\ Promised
  BY DEF StoreInv
<1>2. Owned(O)' /\ Shifts(c)
  BY RunningShifts
<1>3. Promised'
  BY <1>1, <1>2, ShiftsKeepPromise
<1> QED BY <1>2, <1>3 DEF StoreInv

LEMMA AbortingKeeps ==
  ASSUME NEW O \in Draws, StoreInv(O), NEW c \in Client,
         Broken(c) \/ Deadlock(c) \/ ConstraintFails(c) \/ JournalRejected(c) \/ InsertRejected(c)
  PROVE  StoreInv(O)'
<1>1. Owned(O) /\ Promised
  BY DEF StoreInv
<1>2. /\ Owned(O)' /\ UNCHANGED <<tables, unfiled>> /\ Alone(c) /\ Private(c)
      /\ c = "dump" => Stage(c)' = "done"
  BY <1>1, AbortsKeep
<1>3. CASE c = "dump"
  BY <1>2, <1>3, PromiseEnds DEF StoreInv
<1>4. CASE c # "dump"
  <2>1. client'["dump"] = client["dump"] /\ mine'["dump"] = mine["dump"] /\ unfiled' = unfiled
    BY <1>2, <1>4 DEF Alone, Private, Client
  <2>2. Systems("dump")' = Systems("dump")
    BY <1>2, <2>1 DEF Systems, tables
  <2>3. \A r \in Real : Ready(r) => Ready(r)'
    BY <2>1, <2>2 DEF Ready
  <2> QED BY <1>1, <1>2, <2>1, <2>3, PromiseElsewhere DEF StoreInv
<1> QED BY <1>3, <1>4

LEMMA BeginningKeeps ==
  ASSUME NEW O \in Draws, StoreInv(O), NEW c \in Client, Begin(c)
  PROVE  StoreInv(O)'
<1>1. Owned(O) /\ Promised
  BY DEF StoreInv
<1>2. /\ Owned(O)' /\ UNCHANGED <<tables, mine, unfiled>> /\ Alone(c) /\ Stage(c) = "idle"
      /\ client[c].plan # <<>> /\ client[c].left = <<>>
      /\ client'[c].plan = client[c].plan /\ client'[c].left = Head(client[c].plan)
      /\ client'[c].stage = "broken" \/ client'[c].stage \notin Resting
  BY <1>1, BeginKeeps
<1>3. \A r \in Real : Ready(r) => Ready(r)'
  BY <1>2 DEF Ready, Systems, tables
<1>4. CASE c # "dump"
  <2>1. client'["dump"] = client["dump"]
    BY <1>2, <1>4 DEF Alone, Client
  <2> QED BY <1>1, <1>2, <1>3, <2>1, PromiseElsewhere DEF StoreInv
<1>5. CASE c = "dump" /\ client'[c].stage = "broken"
  <2>1. Stage("dump")' \in {"broken", "done"}
    BY <1>5 DEF Stage
  <2> QED BY <1>2, <2>1, PromiseEnds DEF StoreInv
<1>6. CASE c = "dump" /\ client'[c].stage \notin Resting
  BY <1>1, <1>2, <1>3, <1>6, PromiseBegins DEF StoreInv
<1> QED BY <1>2, <1>4, <1>5, <1>6

LEMMA CommittingKeeps ==
  ASSUME NEW O \in Draws, StoreInv(O), NEW c \in Client, Commit(c) \/ CommitLost(c)
  PROVE  StoreInv(O)'
<1>1. Owned(O) /\ Promised
  BY DEF StoreInv
<1>2. /\ Owned(O)' /\ Private(c) /\ Alone(c) /\ unfiled' = unfiled
      /\ \A d \in Client : \A a \in Address :
           a.real /\ Systems(d)[a] # Nothing => Systems(d)'[a] # Nothing
      /\ c = "dump" => \/ Stage(c)' = "done"
                       \/ /\ Stage(c) = "commit" /\ Stage(c)' = "stars" /\ client[c].left = <<>>
                          /\ client'[c].left = <<>> /\ client'[c].plan = Tail(client[c].plan)
  BY <1>1, CommitKeeps
<1>3. \A r \in Real : Ready(r) => Ready(r)'
  BY <1>2, ReadyStays DEF Client
<1>4. CASE c # "dump"
  <2>1. client'["dump"] = client["dump"]
    BY <1>2, <1>4 DEF Alone, Client
  <2> QED BY <1>1, <1>2, <1>3, <2>1, PromiseElsewhere DEF StoreInv
<1>5. CASE c = "dump" /\ Stage(c)' = "done"
  BY <1>2, <1>5, PromiseEnds DEF StoreInv
<1>6. CASE c = "dump" /\ Stage(c)' # "done"
  <2>1. /\ Later' = Later /\ client'["dump"].left = client["dump"].left
        /\ Stage("dump") \notin {"broken", "done"}
    BY <1>2, <1>6 DEF Later, Resting, Stage
  <2> QED BY <1>1, <1>2, <1>3, <2>1, PromiseUnmoved DEF StoreInv
<1> QED BY <1>4, <1>5, <1>6

LEMMA DumpingKeeps ==
  ASSUME NEW O \in Draws, StoreInv(O), Dump
  PROVE  StoreInv(O)'
<1>1. Owned(O) /\ Promised
  BY DEF StoreInv
<1>2. /\ Owned(O)' /\ UNCHANGED <<tables, mine, unfiled>> /\ Alone("dump")
      /\ Stage("dump") \in {"stars", "complete"} /\ Stage("dump")' \in Resting
      /\ client'["dump"].plan = client["dump"].plan /\ client'["dump"].left = client["dump"].left
  BY <1>1, DumpKeeps
<1>3. \A r \in Real : Ready(r) => Ready(r)'
  BY <1>2 DEF Ready, Systems, tables
<1>4. Later' = Later /\ Stage("dump") \notin {"broken", "done"}
  BY <1>2 DEF Later, Resting
<1> QED BY <1>1, <1>2, <1>3, <1>4, PromiseUnmoved DEF StoreInv

LEMMA FaultKeeps ==
  ASSUME NEW O \in Draws, StoreInv(O), GoesDown \/ ComesBack
  PROVE  StoreInv(O)'
<1>1. Owned(O) /\ Promised
  BY DEF StoreInv
<1>2. CASE GoesDown
  <2>1. /\ Owned(O)' /\ UNCHANGED <<tables, unfiled>>
        /\ client'["dump"].plan = client["dump"].plan /\ client'["dump"].left = client["dump"].left
        /\ \/ Stage("dump")' = "broken"
           \/ Stage("dump")' = Stage("dump") /\ mine'["dump"] = mine["dump"]
    BY <1>1, <1>2, GoesDownKeeps DEF Client
  <2>2. CASE Stage("dump")' \in {"broken", "done"}
    BY <2>1, <2>2, PromiseEnds DEF StoreInv
  <2>3. CASE Stage("dump")' \notin {"broken", "done"}
    <3>1. Stage("dump")' = Stage("dump") /\ mine'["dump"] = mine["dump"]
      BY <2>1, <2>3
    <3>2. Later' = Later
      BY <2>1, <3>1 DEF Later
    <3>3. \A r \in Real : Ready(r) => Ready(r)'
      BY <2>1, <3>1 DEF Ready, Systems, tables
    <3> QED BY <1>1, <2>1, <2>3, <3>1, <3>2, <3>3, PromiseUnmoved DEF StoreInv
  <2> QED BY <2>2, <2>3
<1>3. CASE ComesBack
  <2>1. UNCHANGED <<systems, stations, boards, mine, locks, client, unfiled, job, dropped>>
    BY <1>3 DEF ComesBack, tables
  <2>2. Owned(O)'
    BY <1>1, <2>1 DEF Owned, Typed, Disjoint, TablesFiled, Own, InBatch, Standing, Locked, Filed,
                      Stage, Op, Systems, Stations
  <2>3. \A r \in Real : Ready(r) => Ready(r)'
    BY <2>1 DEF Ready, Systems
  <2>4. Promised'
    BY <1>1, <2>1, <2>3, PromiseElsewhere
  <2> QED BY <2>2, <2>4 DEF StoreInv
<1> QED BY <1>2, <1>3

LEMMA StoreStep ==
  ASSUME NEW O \in Draws, StoreInv(O), Next
  PROVE  StoreInv(O)'
<1>1. CASE \E c \in Client : Step(c)
  <2>1. PICK c \in Client : Step(c)
    BY <1>1
  <2>2. CASE Begin(c)
    BY <2>2, BeginningKeeps
  <2>3. CASE Commit(c)
    BY <2>3, CommittingKeeps
  <2>4. CASE Broken(c) \/ Deadlock(c) \/ ConstraintFails(c) \/ JournalRejected(c) \/ InsertRejected(c)
    BY <2>4, AbortingKeeps
  <2>5. CASE Running(c)
    BY <2>5, RunningKeeps
  <2> QED BY <2>1, <2>2, <2>3, <2>4, <2>5 DEF Step, Running
<1>2. CASE Dump
  BY <1>2, DumpingKeeps
<1>3. CASE Fault
  <2>1. CASE GoesDown \/ ComesBack
    BY <2>1, FaultKeeps
  <2>2. CASE \E c \in Client : CommitLost(c)
    <3>1. PICK c \in Client : CommitLost(c)
      BY <2>2
    <3> QED BY <3>1, CommittingKeeps
  <2> QED BY <1>3, <2>1, <2>2 DEF Fault
<1> QED BY <1>1, <1>2, <1>3 DEF Next

LEMMA StoreStutter ==
  ASSUME NEW O \in Draws, StoreInv(O), UNCHANGED vars
  PROVE  StoreInv(O)'
<1>1. Owned(O) /\ Promised
  BY DEF StoreInv
<1>2. UNCHANGED <<systems, stations, boards, mine, locks, client, unfiled, job, dropped>>
  BY DEF vars, tables
<1>3. Owned(O)'
  BY <1>1, <1>2 DEF Owned, Typed, Disjoint, TablesFiled, Own, InBatch, Standing, Locked, Filed,
                    Stage, Op, Systems, Stations
<1>4. \A r \in Real : Ready(r) => Ready(r)'
  BY <1>2 DEF Ready, Systems
<1>5. Promised'
  BY <1>1, <1>2, <1>4, PromiseElsewhere
<1> QED BY <1>3, <1>5 DEF StoreInv
-----------------------------------------------------------------------------
(* The beginning, and what holds for ever.                                  *)

\* The operations of a plan, and those two programs with these plans draw from.
Ops(plan) == {op \in AnyOp : \E k \in DOMAIN plan : \E i \in DOMAIN plan[k] : op = plan[k][i]}
Drawn(f, d) == [c \in Client |-> IF c = "feed" THEN Ops(f) ELSE Ops(d)]

LEMMA DrawnFromPlan ==
  ASSUME NEW plan, plan \in Seq(Seq(FeedOp)) \/ plan \in Seq(Seq(DumpOp))
  PROVE  plan \in Seq(Seq(AnyOp)) /\ plan \in Seq(Seq(Ops(plan)))
<1>1. PICK n \in Nat : DOMAIN plan = 1..n /\ plan = [k \in 1..n |-> plan[k]]
  OBVIOUS
<1>2. ASSUME NEW k \in 1..n PROVE plan[k] \in Seq(AnyOp) /\ plan[k] \in Seq(Ops(plan))
  <2>1. plan[k] \in Seq(FeedOp) \/ plan[k] \in Seq(DumpOp)
    BY <1>1
  <2>2. PICK m \in Nat : DOMAIN plan[k] = 1..m /\ plan[k] = [i \in 1..m |-> plan[k][i]]
    BY <2>1
  <2>3. \A i \in 1..m : plan[k][i] \in AnyOp
    BY <2>1, <2>2 DEF AnyOp
  <2>4. \A i \in 1..m : plan[k][i] \in Ops(plan)
    BY <1>1, <2>2, <2>3 DEF Ops
  <2>5. plan[k] \in [1..m -> AnyOp] /\ plan[k] \in [1..m -> Ops(plan)]
    BY <2>2, <2>3, <2>4
  <2> QED BY <2>5
<1>3. plan \in [1..n -> Seq(AnyOp)] /\ plan \in [1..n -> Seq(Ops(plan))]
  BY <1>1, <1>2
<1> QED BY <1>3

LEMMA DrawnDraws ==
  ASSUME NEW f \in FeedPlan, NEW d \in DumpPlan
  PROVE  /\ Drawn(f, d) \in Draws /\ SystemsFirst(d)
         /\ f \in Seq(Seq(AnyOp)) /\ f \in Seq(Seq(Drawn(f, d)["feed"]))
         /\ d \in Seq(Seq(AnyOp)) /\ d \in Seq(Seq(Drawn(f, d)["dump"]))
<1>1. f \in Seq(Seq(FeedOp)) /\ d \in Seq(Seq(DumpOp)) /\ SystemsFirst(d)
  BY GalaxyStoreAssumption DEF GalaxyStoreAssumption
<1>2. Drawn(f, d)["feed"] = Ops(f) /\ Drawn(f, d)["dump"] = Ops(d)
  BY DEF Drawn, Client
<1>3. Ops(f) \subseteq FeedOp /\ Ops(d) \subseteq DumpOp
  <2>1. \A k \in DOMAIN f : \A i \in DOMAIN f[k] : f[k][i] \in FeedOp
    BY <1>1
  <2>2. \A k \in DOMAIN d : \A i \in DOMAIN d[k] : d[k][i] \in DumpOp
    BY <1>1
  <2> QED BY <2>1, <2>2 DEF Ops
<1>4. Drawn(f, d) \in Draws
  BY <1>2, <1>3 DEF Draws, Drawn, Client, AnyOp
<1> QED BY <1>1, <1>2, <1>4, DrawnFromPlan

LEMMA StoreStart ==
  ASSUME Init
  PROVE  \E f \in FeedPlan, d \in DumpPlan :
           /\ Drawn(f, d) \in Draws /\ StoreInv(Drawn(f, d))
           /\ client["feed"].plan = f /\ client["dump"].plan = d
<1>1. PICK f \in FeedPlan, d \in DumpPlan :
        client = [c \in Client |->
                    [plan |-> IF c = "feed" THEN f ELSE d, left |-> <<>>, out |-> {},
                     stage |-> "idle", addr |-> Nothing, attempts |-> 0]]
  BY DEF Init
<1>2. PICK O : O = Drawn(f, d)
  OBVIOUS
<1>3. /\ O \in Draws /\ SystemsFirst(d)
      /\ f \in Seq(Seq(AnyOp)) /\ f \in Seq(Seq(O["feed"]))
      /\ d \in Seq(Seq(AnyOp)) /\ d \in Seq(Seq(O["dump"]))
  BY <1>2, DrawnDraws
<1>4. /\ systems = [a \in Address |-> Nothing] /\ stations = [s \in Station |-> Nothing]
      /\ boards = [b \in Board |-> Nothing] /\ mine = [c \in Client |-> Untouched]
      /\ locks = [c \in Client |-> {}] /\ unfiled = {} /\ job = "running" /\ dropped = 0
  BY DEF Init
<1>5. \A c \in Client :
        /\ client[c].plan = IF c = "feed" THEN f ELSE d
        /\ client[c].left = <<>> /\ client[c].stage = "idle" /\ client[c] \in Program
  <2>1. MaxAttempts \in Nat \ {0}
    BY GalaxyStoreAssumption DEF GalaxyStoreAssumption
  <2>2. 0 \in 0..(MaxAttempts - 1) /\ "idle" \in Stages
    BY <2>1, Rests
  <2> QED BY <1>1, <1>3, <2>2 DEF Program
<1>6. Typed
  <2>1. client \in [Client -> Program]
    BY <1>1, <1>5
  <2>2. mine \in [Client -> Transaction]
    BY <1>4, UntouchedIsEmpty
  <2> QED BY <1>4, <2>1, <2>2 DEF Typed
<1>7. ASSUME NEW c \in Client PROVE Own(O, c)
  <2>1. InBatch(O, c)
    <3>1. client[c].plan \in Seq(Seq(O[c])) /\ client[c].left \in Seq(O[c])
      <4>1. <<>> \in Seq(O[c])
        OBVIOUS
      <4>2. CASE c = "feed"
        BY <1>3, <1>5, <4>1, <4>2
      <4>3. CASE c = "dump"
        BY <1>3, <1>5, <4>1, <4>3
      <4> QED BY <4>2, <4>3 DEF Client
    <3> QED BY <1>4, <1>5, <3>1 DEF InBatch, Resting
  <2>2. DOMAIN mine[c].sys = {} /\ DOMAIN mine[c].stn = {} /\ Stage(c) = "idle"
    BY <1>4, <1>5, UntouchedIsEmpty DEF Stage
  <2>3. \A s \in Station : Stations(c)[s] = Nothing
    BY <1>4, <1>6, <2>2, Views
  <2> QED BY <2>1, <2>2, <2>3 DEF Own, Standing, Locked, Filed
<1>8. Promised
  <2>1. client["dump"].left = <<>> /\ Later = d
    BY <1>5 DEF Later, Stage, Resting, Client
  <2>2. \A k \in DOMAIN d : \A i \in DOMAIN d[k] : d[k][i].op = "ensure" =>
          \/ \E j \in 1..(i - 1) : Brings(d[k][j], d[k][i].addr)
          \/ \E m \in 1..(k - 1) : \E j \in DOMAIN d[m] : Brings(d[m][j], d[k][i].addr)
    BY <1>3 DEF SystemsFirst
  <2> QED BY <2>1, <2>2 DEF Promised
<1>9. Disjoint /\ TablesFiled
  BY <1>4 DEF Disjoint, TablesFiled
<1>10. StoreInv(O)
  BY <1>6, <1>7, <1>8, <1>9 DEF StoreInv, Owned
<1>11. client["feed"].plan = f /\ client["dump"].plan = d
  BY <1>5 DEF Client
<1> QED BY <1>2, <1>3, <1>10, <1>11

LEMMA StoreAlways == Spec => [](\E O \in Draws : StoreInv(O))
<1> DEFINE Inv == \E O \in Draws : StoreInv(O)
<1>1. Init => Inv
  BY StoreStart
<1>2. Inv /\ [Next]_vars => Inv'
  BY StoreStep, StoreStutter
<1> QED BY <1>1, <1>2, PTL DEF Spec

\* Whatever the writer's batches, the dump and the faults are, no statement can
\* trip the foreign key of a station, although the dump moves a provisional row
\* away while the feed files stations (ed-store postgres.rs, the upsert by name
\* and the update of system_address with its cascade).
THEOREM StationsAreFiled == Spec => []StationsFiled
<1>1. ASSUME NEW O \in Draws, StoreInv(O) PROVE StationsFiled
  <2>1. /\ Typed /\ TablesFiled
        /\ \A c \in Client : Filed(c)
    BY <1>1 DEF StoreInv, Owned, Own
  <2>2. ASSUME NEW c \in Client, NEW s \in DOMAIN mine[c].stn, Stage(c) # "cascade"
        PROVE  Systems(c)[mine[c].stn[s].system] # Nothing
    BY <2>1, <2>2, Views, NothingIsNoRow DEF Filed
  <2> QED BY <2>1, <2>2 DEF StationsFiled, TablesFiled
<1>2. (\E O \in Draws : StoreInv(O)) => StationsFiled
  BY <1>1
<1> QED BY <1>2, StoreAlways, PTL

\* The tables keep their shapes, the attempts at a batch and the job's states
\* their bounds (ed-store postgres.rs and schema.rs, spansh.rs).
THEOREM TablesAreTyped == Spec => []TypeOK
<1>1. ASSUME NEW O \in Draws, StoreInv(O) PROVE TypeOK
  <2>1. Typed
    BY <1>1 DEF StoreInv, Owned
  <2>2. \A c \in Client : client[c].attempts < MaxAttempts
    BY <2>1, GalaxyStoreAssumption DEF Typed, Program, GalaxyStoreAssumption
  <2> QED BY <2>1, <2>2 DEF Typed, TypeOK
<1>2. (\E O \in Draws : StoreInv(O)) => TypeOK
  BY <1>1
<1> QED BY <1>2, StoreAlways, PTL
-----------------------------------------------------------------------------
(* The boards readers see.                                                  *)

\* One lock stands for a station when all its boards give the market id, or all
\* of them name one system: then two of them cannot be written side by side.
Orders(O, s) == {op \in O["feed"] \cup O["dump"] : op.op = "board" /\ op.station = s}
ById(O, s) == \A op \in Orders(O, s) : op.byId
OneName(O, s, n) == \A op \in Orders(O, s) : op.name = n
Steady(O) == \A s \in Station : ById(O, s) \/ \E n : OneName(O, s, n)
Guard(O, s) == IF ById(O, s) THEN StationKey(s) ELSE NameKey(CHOOSE n : OneName(O, s, n))

\* The board a program is about to write is newer than what it sees; what it
\* wrote of a board is newer than what is published; it leaves other marks alone.
Guarded(O, c) ==
  /\ Stage(c) \in {"fresh", "write"} => Guard(O, Op(c).station) \in locks[c]
  /\ Stage(c) = "write" => Accepts(c)
  /\ \A b \in DOMAIN mine[c].brd : Guard(O, b[1]) \in locks[c] /\ b[1] \in DOMAIN mine[c].stn
  /\ \A s \in DOMAIN mine[c].stn : \A p \in Product :
       /\ <<s, p>> \in DOMAIN mine[c].brd =>
            /\ mine[c].brd[<<s, p>>].at = mine[c].stn[s].mark[p]
            /\ mine[c].stn[s].mark[p] > MarkOf(<<s, p>>)
       /\ <<s, p>> \notin DOMAIN mine[c].brd => mine[c].stn[s].mark[p] = MarkOf(<<s, p>>)

\* A published board is the one of its station's watermark.
Whole == \A b \in Board : MarkOf(b) = IF boards[b] = Nothing THEN 0 ELSE boards[b].at

Kept(O) == Whole /\ \A c \in Client : Guarded(O, c)

LEMMA GuardHeld ==
  ASSUME NEW O \in Draws, Steady(O), NEW c \in Client, NEW op \in O[c], op \in BoardOp,
         NEW K, NameKey(op.name) \in K, op.byId => StationKey(op.station) \in K
  PROVE  Guard(O, op.station) \in K
<1>1. op \in Orders(O, op.station) /\ op.station \in Station
  BY DEF Orders, BoardOp, Client
<1>2. CASE ById(O, op.station)
  BY <1>1, <1>2 DEF Guard, ById
<1>3. CASE ~ById(O, op.station)
  <2>1. \E n : OneName(O, op.station, n)
    BY <1>1, <1>3 DEF Steady
  <2>2. OneName(O, op.station, CHOOSE n : OneName(O, op.station, n))
    BY <2>1
  <2>3. op.name = CHOOSE n : OneName(O, op.station, n)
    BY <1>1, <2>2 DEF OneName
  <2> QED BY <1>3, <2>3 DEF Guard
<1> QED BY <1>2, <1>3

LEMMA MarksAreNumbers ==
  ASSUME Typed, NEW s \in Station, NEW p \in Product
  PROVE  /\ MarkOf(<<s, p>>) \in Nat
         /\ MarkOf(<<s, p>>) = IF stations[s] = Nothing THEN 0 ELSE stations[s].mark[p]
BY DEF MarkOf, Typed, StationRowType

\* The marks c sees of a station it has not written are the published ones.
LEMMA SeenMarkOf ==
  ASSUME Typed, NEW c \in Client, NEW s \in Station, s \notin DOMAIN mine[c].stn, NEW p \in Product
  PROVE  SeenMarks(c, s)[p] = MarkOf(<<s, p>>)
BY Views, MarksAreNumbers DEF SeenMarks, NoMarks

LEMMA SeenMarkMine ==
  ASSUME Typed, NEW c \in Client, NEW s \in DOMAIN mine[c].stn
  PROVE  SeenMarks(c, s) = mine[c].stn[s].mark
BY Views, NothingIsNoRow DEF SeenMarks

\* What c does not touch stays guarded.
LEMMA GuardedElsewhere ==
  ASSUME NEW O, NEW d \in Client, Guarded(O, d), stations' = stations,
         mine'[d] = mine[d], client'[d] = client[d], locks[d] \subseteq locks'[d]
  PROVE  Guarded(O, d)'
<1>1. \A b : MarkOf(b)' = MarkOf(b)
  BY DEF MarkOf
<1>2. Stage(d)' = Stage(d) /\ Op(d)' = Op(d) /\ Stations(d)' = Stations(d) /\ Accepts(d)' = Accepts(d)
  BY DEF Stage, Op, Stations, Accepts
<1> QED BY <1>1, <1>2 DEF Guarded

\* A transaction that is gone guards nothing.
LEMMA GuardedEmpty ==
  ASSUME NEW O, NEW c \in Client, mine'[c] = Untouched, client'[c].stage \notin {"fresh", "write"}
  PROVE  Guarded(O, c)'
<1>1. DOMAIN mine'[c].brd = {} /\ DOMAIN mine'[c].stn = {}
  BY UntouchedIsEmpty
<1> QED BY <1>1 DEF Guarded, Stage

LEMMA CarryingGuards ==
  ASSUME NEW O \in Draws, Steady(O), Owned(O), Owned(O)', NEW c \in Client, Guarded(O, c),
         Shifts(c), Carries(c), LooksOn(c), locks[c] \subseteq locks'[c]
  PROVE  Guarded(O, c)'
<1>1. Typed /\ Typed' /\ stations' = stations
  BY DEF Owned, Shifts, tables
<1>2. \A b : MarkOf(b)' = MarkOf(b)
  BY <1>1 DEF MarkOf
<1>3. mine'[c].brd = mine[c].brd /\ DOMAIN mine[c].stn \subseteq DOMAIN mine'[c].stn
  BY DEF Carries
<1>4. \A b \in DOMAIN mine'[c].brd : Guard(O, b[1]) \in locks'[c] /\ b[1] \in DOMAIN mine'[c].stn
  BY <1>3 DEF Guarded
<1>5. ASSUME NEW s \in DOMAIN mine'[c].stn, NEW p \in Product
      PROVE  /\ <<s, p>> \in DOMAIN mine'[c].brd =>
                  /\ mine'[c].brd[<<s, p>>].at = mine'[c].stn[s].mark[p]
                  /\ mine'[c].stn[s].mark[p] > MarkOf(<<s, p>>)'
             /\ <<s, p>> \notin DOMAIN mine'[c].brd => mine'[c].stn[s].mark[p] = MarkOf(<<s, p>>)'
  <2>1. mine'[c].stn[s].mark = SeenMarks(c, s) /\ s \in Station
    BY <1>1, ViewsNext DEF Carries
  <2>2. CASE s \in DOMAIN mine[c].stn
    <3>1. mine'[c].stn[s].mark = mine[c].stn[s].mark
      BY <1>1, <2>1, <2>2, SeenMarkMine
    <3> QED BY <1>2, <1>3, <2>2, <3>1 DEF Guarded
  <2>3. CASE s \notin DOMAIN mine[c].stn
    <3>1. mine'[c].stn[s].mark[p] = MarkOf(<<s, p>>)
      BY <1>1, <2>1, <2>3, SeenMarkOf
    <3>2. PICK b : b = <<s, p>>
      OBVIOUS
    <3>3. b[1] = s
      BY <3>2
    <3>4. b \notin DOMAIN mine[c].brd
      BY <2>3, <3>3 DEF Guarded
    <3> QED BY <1>2, <1>3, <3>1, <3>2, <3>4
  <2> QED BY <2>2, <2>3
<1>6. Stage(c)' = "fresh" => Guard(O, Op(c)'.station) \in locks'[c]
  <2>1. SUFFICES ASSUME Stage(c)' = "fresh" PROVE Guard(O, Op(c)'.station) \in locks'[c]
    OBVIOUS
  <2>2. /\ Stage(c) = "station" /\ Op(c)' = Op(c)
        /\ Op(c).byId => StationKey(Op(c).station) \in locks'[c]
    BY <2>1 DEF LooksOn
  <2>3. Stage(c) \in BoardStages /\ Stage(c) \notin Resting \cup {"commit"}
    BY <2>2 DEF BoardStages, Resting
  <2>4. InBatch(O, c) /\ Filed(c)
    BY DEF Owned, Own
  <2>5. Op(c) \in O[c] /\ Op(c) \in BoardOp
    BY <1>1, <2>3, <2>4, AtOp
  <2>6. NameKey(Op(c).name) \in locks'[c]
    BY <2>2, <2>4 DEF Filed
  <2> QED BY <2>2, <2>5, <2>6, GuardHeld
<1>7. Stage(c)' = "write" => Guard(O, Op(c)'.station) \in locks'[c] /\ Accepts(c)'
  <2>1. SUFFICES ASSUME Stage(c)' = "write"
                 PROVE  Guard(O, Op(c)'.station) \in locks'[c] /\ Accepts(c)'
    OBVIOUS
  <2>2. Stage(c) = "fresh" /\ Op(c)' = Op(c) /\ Accepts(c) /\ mine'[c] = mine[c]
    BY <2>1 DEF LooksOn
  <2>3. Stations(c)' = Stations(c)
    BY <1>1, <2>2 DEF Stations
  <2> QED BY <2>2, <2>3 DEF Guarded, Accepts
<1> QED BY <1>4, <1>5, <1>6, <1>7 DEF Guarded

LEMMA FilingGuards ==
  ASSUME NEW O \in Draws, Steady(O), Owned(O), Owned(O)', NEW c \in Client, Guarded(O, c),
         Shifts(c), FilesBoard(c)
  PROVE  Guarded(O, c)'
<1>1. PICK s0, p0, b0 : s0 = Op(c).station /\ p0 = Op(c).product /\ b0 = <<s0, p0>>
  OBVIOUS
<1>2. /\ s0 \in Station /\ p0 \in Product /\ Op(c).at \in Nat
      /\ DOMAIN mine'[c].stn = DOMAIN mine[c].stn \cup {s0}
      /\ \A x \in DOMAIN mine[c].stn : x # s0 => mine'[c].stn[x] = mine[c].stn[x]
      /\ mine'[c].stn[s0].mark[p0] = Op(c).at
      /\ \A q \in Product : q # p0 => mine'[c].stn[s0].mark[q] = Stations(c)[s0].mark[q]
      /\ DOMAIN mine'[c].brd = DOMAIN mine[c].brd \cup {b0}
      /\ mine'[c].brd[b0].at = Op(c).at
      /\ \A x \in DOMAIN mine[c].brd : x # b0 => mine'[c].brd[x] = mine[c].brd[x]
      /\ locks[c] \subseteq locks'[c]
      /\ Stage(c) = "write" /\ Stage(c)' \notin {"fresh", "write"}
  BY <1>1 DEF FilesBoard
<1>3. Typed /\ Typed' /\ stations' = stations /\ Standing(c)
  BY DEF Owned, Own, Shifts, tables
<1>4. \A b : MarkOf(b)' = MarkOf(b)
  BY <1>3 DEF MarkOf
<1>5. /\ Stations(c)[s0] # Nothing /\ Stations(c)[s0] \in StationRowType
      /\ Stations(c)[s0].mark = SeenMarks(c, s0)
      /\ Stations(c)[s0].mark[p0] < Op(c).at /\ Guard(O, s0) \in locks[c]
  BY <1>1, <1>2, <1>3, Views DEF Standing, Guarded, Accepts, SeenMarks
<1>6. b0[1] = s0 /\ b0[2] = p0
  BY <1>1
<1>7. \A b \in DOMAIN mine'[c].brd : Guard(O, b[1]) \in locks'[c] /\ b[1] \in DOMAIN mine'[c].stn
  BY <1>2, <1>5, <1>6 DEF Guarded
<1>8. \A p \in Product : Stations(c)[s0].mark[p] \in Nat /\ MarkOf(<<s0, p>>) \in Nat
  BY <1>2, <1>3, <1>5, MarksAreNumbers DEF StationRowType
<1>9. ASSUME NEW p \in Product
      PROVE  /\ <<s0, p>> \in DOMAIN mine[c].brd =>
                  /\ s0 \in DOMAIN mine[c].stn
                  /\ mine[c].brd[<<s0, p>>].at = Stations(c)[s0].mark[p]
                  /\ Stations(c)[s0].mark[p] > MarkOf(<<s0, p>>)
             /\ <<s0, p>> \notin DOMAIN mine[c].brd => Stations(c)[s0].mark[p] = MarkOf(<<s0, p>>)
  <2>1. PICK b : b = <<s0, p>>
    OBVIOUS
  <2>2. b[1] = s0
    BY <2>1
  <2>3. CASE s0 \in DOMAIN mine[c].stn
    <3>1. Stations(c)[s0].mark = mine[c].stn[s0].mark
      BY <1>3, <1>5, <2>3, SeenMarkMine
    <3> QED BY <2>3, <3>1 DEF Guarded
  <2>4. CASE s0 \notin DOMAIN mine[c].stn
    <3>1. b \notin DOMAIN mine[c].brd
      BY <2>2, <2>4 DEF Guarded
    <3>2. Stations(c)[s0].mark[p] = MarkOf(<<s0, p>>)
      BY <1>2, <1>3, <1>5, <2>4, SeenMarkOf
    <3> QED BY <2>1, <3>1, <3>2
  <2> QED BY <2>3, <2>4
<1>10. ASSUME NEW s \in DOMAIN mine'[c].stn, NEW p \in Product
       PROVE  /\ <<s, p>> \in DOMAIN mine'[c].brd =>
                   /\ mine'[c].brd[<<s, p>>].at = mine'[c].stn[s].mark[p]
                   /\ mine'[c].stn[s].mark[p] > MarkOf(<<s, p>>)'
              /\ <<s, p>> \notin DOMAIN mine'[c].brd => mine'[c].stn[s].mark[p] = MarkOf(<<s, p>>)'
  <2>1. PICK b : b = <<s, p>>
    OBVIOUS
  <2>2. b[1] = s /\ b[2] = p
    BY <2>1
  <2>3. CASE s # s0
    <3>1. /\ s \in DOMAIN mine[c].stn /\ mine'[c].stn[s] = mine[c].stn[s] /\ b # b0
          /\ b \in DOMAIN mine'[c].brd <=> b \in DOMAIN mine[c].brd
          /\ b \in DOMAIN mine[c].brd => mine'[c].brd[b] = mine[c].brd[b]
      BY <1>2, <1>6, <2>2, <2>3
    <3> QED BY <1>4, <2>1, <3>1 DEF Guarded
  <2>4. CASE s = s0 /\ p # p0
    <3>1. /\ b # b0 /\ mine'[c].stn[s].mark[p] = Stations(c)[s0].mark[p]
          /\ b \in DOMAIN mine'[c].brd <=> b \in DOMAIN mine[c].brd
          /\ b \in DOMAIN mine[c].brd => mine'[c].brd[b] = mine[c].brd[b]
      BY <1>2, <1>6, <2>2, <2>4
    <3> QED BY <1>4, <1>9, <2>1, <2>4, <3>1
  <2>5. CASE s = s0 /\ p = p0
    <3>1. b = b0 /\ b \in DOMAIN mine'[c].brd /\ mine'[c].brd[b].at = mine'[c].stn[s].mark[p]
      BY <1>1, <1>2, <2>1, <2>5
    <3>2. mine'[c].stn[s].mark[p] = Op(c).at /\ Op(c).at > MarkOf(<<s, p>>)
      BY <1>2, <1>5, <1>8, <1>9, <2>5
    <3> QED BY <1>4, <2>1, <3>1, <3>2
  <2> QED BY <2>3, <2>4, <2>5
<1> QED BY <1>2, <1>7, <1>10 DEF Guarded

\* A statement keeps the locks every transaction has.
LEMMA RunningLocks ==
  ASSUME Typed, Disjoint, NEW c \in Client, Running(c)
  PROVE  \A d \in Client : locks[d] \subseteq locks'[d]
<1>1. CASE LeaveOut(c)
  BY <1>1 DEF LeaveOut
<1>2. CASE ~LeaveOut(c)
  <2>1. \E stage : Statement(c, stage)
    BY <1>2 DEF Running, BoardSystem, HeldByName, SystemAddressFor, StationById, StationByName,
                Fresh, Write, Held, Journal, Insert, Upsert, Migrate, Cascade, Taken, Ensure, Push
  <2> QED BY <2>1, Statements DEF LocksGrow
<1> QED BY <1>1, <1>2

\* A step that publishes nothing, by which every program but those whose
\* transaction is gone is where it was.
LEMMA GoneKeeps ==
  ASSUME NEW O, Kept(O), UNCHANGED tables,
         \A c \in Client : \/ Gone(c)
                           \/ /\ mine'[c] = mine[c] /\ client'[c] = client[c]
                              /\ locks[c] \subseteq locks'[c]
  PROVE  Kept(O)'
<1>1. Whole' /\ stations' = stations
  BY DEF Kept, Whole, MarkOf, tables
<1>2. ASSUME NEW c \in Client PROVE Guarded(O, c)'
  <2>1. CASE Gone(c)
    BY <2>1, GuardedEmpty DEF Gone, Resting, FirstStages
  <2>2. CASE ~Gone(c)
    BY <1>1, <2>2, GuardedElsewhere DEF Kept
  <2> QED BY <2>1, <2>2
<1> QED BY <1>1, <1>2 DEF Kept

LEMMA RunningGuards ==
  ASSUME NEW O \in Draws, Steady(O), StoreInv(O), Kept(O), NEW c \in Client, Running(c)
  PROVE  Kept(O)' /\ UNCHANGED tables
<1>1. Owned(O) /\ Typed /\ Disjoint /\ Guarded(O, c)
  BY DEF StoreInv, Owned, Kept
<1>2. Owned(O)' /\ Shifts(c) /\ ((Carries(c) /\ LooksOn(c)) \/ FilesBoard(c))
  BY RunningShifts
<1>3. \A d \in Client : locks[d] \subseteq locks'[d]
  BY <1>1, RunningLocks
<1>4. Guarded(O, c)'
  BY <1>1, <1>2, <1>3, CarryingGuards, FilingGuards
<1>5. Whole' /\ UNCHANGED tables /\ stations' = stations
  BY <1>2 DEF Kept, Whole, MarkOf, Shifts, tables
<1>6. ASSUME NEW d \in Client, d # c PROVE Guarded(O, d)'
  <2>1. mine'[d] = mine[d] /\ client'[d] = client[d]
    BY <1>2, <1>6 DEF Shifts, Alone, Private
  <2> QED BY <1>3, <1>5, <2>1, GuardedElsewhere DEF Kept
<1> QED BY <1>4, <1>5, <1>6 DEF Kept

\* What a published transaction makes of one board.
LEMMA PublishedBoard ==
  ASSUME NEW O \in Draws, Typed, Typed', NEW c \in Client, Guarded(O, c), Publish(c),
         NEW s \in Station, NEW p \in Product, NEW b, b = <<s, p>>
  PROVE  /\ b \in DOMAIN mine[c].brd =>
              /\ boards'[b] \in Observation /\ boards'[b].at = MarkOf(b)' /\ MarkOf(b)' > MarkOf(b)
         /\ b \notin DOMAIN mine[c].brd => boards'[b] = boards[b] /\ MarkOf(b)' = MarkOf(b)
<1>1. b \in Board /\ b[1] = s /\ b[2] = p
  BY DEF Board
<1>2. /\ stations' = Stations(c)
      /\ b \in DOMAIN mine[c].brd => boards'[b] = mine[c].brd[b] /\ boards'[b] \in Observation
      /\ b \notin DOMAIN mine[c].brd => boards'[b] = boards[b]
  BY <1>1, PublishedTables
<1>3. /\ MarkOf(b) = IF stations[s] = Nothing THEN 0 ELSE stations[s].mark[p]
      /\ MarkOf(b)' = IF stations'[s] = Nothing THEN 0 ELSE stations'[s].mark[p]
  BY <1>1 DEF MarkOf
<1>4. CASE s \in DOMAIN mine[c].stn
  <2>1. Stations(c)[s] = mine[c].stn[s] /\ mine[c].stn[s] # Nothing
    BY <1>4, Views, NothingIsNoRow
  <2>2. MarkOf(b)' = mine[c].stn[s].mark[p]
    BY <1>2, <1>3, <2>1
  <2>3. CASE b \in DOMAIN mine[c].brd
    <3>1. mine[c].brd[b].at = mine[c].stn[s].mark[p] /\ mine[c].stn[s].mark[p] > MarkOf(b)
      BY <1>4, <2>3 DEF Guarded
    <3> QED BY <1>2, <2>2, <2>3, <3>1
  <2>4. CASE b \notin DOMAIN mine[c].brd
    <3>1. mine[c].stn[s].mark[p] = MarkOf(b)
      BY <1>4, <2>4 DEF Guarded
    <3> QED BY <1>2, <2>2, <2>4, <3>1
  <2> QED BY <2>3, <2>4
<1>5. CASE s \notin DOMAIN mine[c].stn
  <2>1. b \notin DOMAIN mine[c].brd
    BY <1>1, <1>5 DEF Guarded
  <2>2. Stations(c)[s] = stations[s]
    BY <1>5, Views
  <2> QED BY <1>2, <1>3, <2>1, <2>2
<1> QED BY <1>4, <1>5

\* The locks keep the two programs off each other's boards.
LEMMA GuardedAcross ==
  ASSUME NEW O \in Draws, Owned(O), Owned(O)', NEW c \in Client, NEW d \in Client, d # c,
         Guarded(O, c), Guarded(O, d), Publish(c),
         mine'[d] = mine[d], client'[d] = client[d], locks[d] \subseteq locks'[d]
  PROVE  Guarded(O, d)'
<1>1. /\ Typed /\ Typed' /\ stations' = Stations(c) /\ Stage(d)' = Stage(d) /\ Op(d)' = Op(d)
      /\ InBatch(O, d) /\ Standing(d) /\ Locked(c) /\ Locked(d)
      /\ \A k \in locks[d] : k \notin locks[c]
  BY DEF Owned, Own, Publish, Stage, Op, Disjoint
<1>2. \A s \in DOMAIN mine[d].stn : s \in Station /\ s \notin DOMAIN mine[c].stn
  BY <1>1, Views DEF Locked
<1>3. ASSUME NEW s \in DOMAIN mine[d].stn, NEW p \in Product
      PROVE  MarkOf(<<s, p>>)' = MarkOf(<<s, p>>)
  <2>1. stations'[s] = stations[s]
    BY <1>1, <1>2, Views
  <2> QED BY <2>1 DEF MarkOf
<1>4. ASSUME Stage(d) = "write" PROVE Accepts(d)'
  <2>1. PICK s, p, b : s = Op(d).station /\ p = Op(d).product /\ b = <<s, p>>
    OBVIOUS
  <2>2. Stage(d) \in BoardStages /\ Stage(d) \notin Resting \cup {"commit"}
    BY <1>4 DEF BoardStages, Resting
  <2>3. Op(d) \in BoardOp
    BY <1>1, <2>2, AtOp
  <2>4. s \in Station /\ p \in Product
    BY <2>1, <2>3 DEF BoardOp
  <2>5. Stations(d)[s] # Nothing /\ Stations(d)[s].mark[p] < Op(d).at /\ Guard(O, s) \in locks[d]
    BY <1>1, <1>4, <2>1 DEF Standing, Guarded, Accepts
  <2>6. CASE s \in DOMAIN mine[d].stn
    <3>1. Stations(d)'[s] = Stations(d)[s]
      BY <1>1, <2>6, Views, ViewsNext
    <3> QED BY <1>1, <2>1, <2>5, <3>1 DEF Accepts
  <2>7. CASE s \notin DOMAIN mine[d].stn
    <3>1. b \notin DOMAIN mine[c].brd
      <4>1. b[1] = s
        BY <2>1
      <4> QED BY <1>1, <2>5, <4>1 DEF Guarded
    <3>2. MarkOf(b)' = MarkOf(b)
      BY <1>1, <2>1, <2>4, <3>1, PublishedBoard
    <3>3. Stations(d)[s] = stations[s] /\ Stations(d)'[s] = stations'[s]
      BY <1>1, <2>4, <2>7, Views, ViewsNext
    <3>4. stations'[s] # Nothing
      BY <1>1, <2>4, <2>5, <3>3, Views, NothingIsNoRow
    <3>5. stations'[s].mark[p] = stations[s].mark[p]
      BY <2>1, <2>5, <3>2, <3>3, <3>4 DEF MarkOf
    <3> QED BY <1>1, <2>1, <2>5, <3>3, <3>5 DEF Accepts
  <2> QED BY <2>6, <2>7
<1>5. /\ Stage(d)' \in {"fresh", "write"} => Guard(O, Op(d)'.station) \in locks'[d]
      /\ \A b \in DOMAIN mine'[d].brd : Guard(O, b[1]) \in locks'[d] /\ b[1] \in DOMAIN mine'[d].stn
  BY <1>1 DEF Guarded
<1>6. ASSUME NEW s \in DOMAIN mine'[d].stn, NEW p \in Product
      PROVE  /\ <<s, p>> \in DOMAIN mine'[d].brd =>
                  /\ mine'[d].brd[<<s, p>>].at = mine'[d].stn[s].mark[p]
                  /\ mine'[d].stn[s].mark[p] > MarkOf(<<s, p>>)'
             /\ <<s, p>> \notin DOMAIN mine'[d].brd => mine'[d].stn[s].mark[p] = MarkOf(<<s, p>>)'
  BY <1>3 DEF Guarded
<1> QED BY <1>1, <1>4, <1>5, <1>6 DEF Guarded

\* A board readers see anew is of a later observation.
Newer(b) == boards'[b] = boards[b]
             \/ (boards'[b] \in Observation /\ (boards[b] = Nothing \/ boards'[b].at > boards[b].at))

LEMMA PublishingGuards ==
  ASSUME NEW O \in Draws, Owned(O), Owned(O)', Kept(O), NEW c \in Client, Publish(c), Gone(c),
         Private(c), Alone(c), LocksGrow(c)
  PROVE  Kept(O)' /\ \A b \in Board : Newer(b)
<1>1. Typed /\ Typed' /\ Whole /\ \A d \in Client : Guarded(O, d)
  BY DEF Owned, Kept
<1>2. ASSUME NEW b \in Board
      PROVE  MarkOf(b)' = (IF boards'[b] = Nothing THEN 0 ELSE boards'[b].at) /\ Newer(b)
  <2>1. PICK s \in Station, p \in Product : b = <<s, p>>
    BY DEF Board
  <2>2. /\ b \in DOMAIN mine[c].brd =>
             /\ boards'[b] \in Observation /\ boards'[b].at = MarkOf(b)' /\ MarkOf(b)' > MarkOf(b)
        /\ b \notin DOMAIN mine[c].brd => boards'[b] = boards[b] /\ MarkOf(b)' = MarkOf(b)
    BY <1>1, <2>1, PublishedBoard
  <2>3. MarkOf(b) = IF boards[b] = Nothing THEN 0 ELSE boards[b].at
    BY <1>1 DEF Whole
  <2>4. Nothing \notin Observation
    BY GalaxyStoreAssumption DEF GalaxyStoreAssumption
  <2> QED BY <2>2, <2>3, <2>4 DEF Newer
<1>3. Whole'
  BY <1>2 DEF Whole
<1>4. ASSUME NEW d \in Client PROVE Guarded(O, d)'
  <2>1. CASE d = c
    BY <2>1, GuardedEmpty DEF Gone, Resting, FirstStages
  <2>2. CASE d # c
    BY <1>1, <2>2, GuardedAcross DEF Private, Alone, LocksGrow
  <2> QED BY <2>1, <2>2
<1> QED BY <1>2, <1>3, <1>4 DEF Kept

\* Every step keeps the boards guarded, and shows readers later boards only.
LEMMA KeptStep ==
  ASSUME NEW O \in Draws, Steady(O), StoreInv(O), Kept(O), Next
  PROVE  Kept(O)' /\ \A b \in Board : Newer(b)
<1>1. Owned(O) /\ Typed /\ Disjoint
  BY DEF StoreInv, Owned
<1>2. SUFFICES ASSUME ~(Kept(O)' /\ UNCHANGED tables)
               PROVE  Kept(O)' /\ \A b \in Board : Newer(b)
  BY DEF tables, Newer
<1>3. CASE \E c \in Client : Commit(c) \/ CommitLost(c)
  <2>1. PICK c \in Client : Commit(c) \/ CommitLost(c)
    BY <1>3
  <2>2. Owned(O)' /\ Private(c) /\ Alone(c) /\ Gone(c) /\ LocksGrow(c) /\ Publish(c)
    BY <1>1, <2>1, CommitKeeps
  <2> QED BY <1>1, <2>2, PublishingGuards
<1>4. CASE \E c \in Client : Running(c)
  BY <1>2, <1>4, RunningGuards
<1>5. CASE \E c \in Client : Broken(c) \/ Deadlock(c) \/ ConstraintFails(c) \/ JournalRejected(c) \/ InsertRejected(c)
  <2>1. PICK c \in Client : Broken(c) \/ Deadlock(c) \/ ConstraintFails(c) \/ JournalRejected(c) \/ InsertRejected(c)
    BY <1>5
  <2>2. UNCHANGED tables /\ Alone(c) /\ Private(c) /\ Gone(c) /\ LocksGrow(c)
    BY <1>1, <2>1, AbortsKeep DEF tables
  <2> QED BY <1>2, <2>2, GoneKeeps DEF Alone, Private, LocksGrow
<1>6. CASE \E c \in Client : Begin(c)
  <2>1. PICK c \in Client : Begin(c)
    BY <1>6
  <2>2. UNCHANGED tables /\ mine' = mine /\ Alone(c) /\ Gone(c) /\ locks' = locks
    BY <1>1, <2>1, BeginKeeps DEF tables
  <2> QED BY <1>2, <2>2, GoneKeeps DEF Alone
<1>7. CASE Dump
  <2>1. UNCHANGED tables /\ mine' = mine /\ Alone("dump") /\ Gone("dump") /\ locks' = locks
    BY <1>1, <1>7, DumpKeeps DEF tables
  <2> QED BY <1>2, <2>1, GoneKeeps DEF Alone
<1>8. CASE GoesDown
  <2>1. UNCHANGED tables /\ \A c \in Client : Gone(c)
    BY <1>1, <1>8, GoesDownKeeps DEF tables
  <2> QED BY <1>2, <2>1, GoneKeeps
<1>9. CASE ComesBack
  <2>1. UNCHANGED tables /\ mine' = mine /\ client' = client /\ locks' = locks
    BY <1>9 DEF ComesBack
  <2> QED BY <1>2, <2>1, GoneKeeps
<1> QED BY <1>3, <1>4, <1>5, <1>6, <1>7, <1>8, <1>9 DEF Next, Step, Fault, Running

LEMMA KeptStutter ==
  ASSUME NEW O \in Draws, Kept(O), UNCHANGED vars
  PROVE  Kept(O)' /\ UNCHANGED boards
<1>1. UNCHANGED tables /\ mine' = mine /\ client' = client /\ locks' = locks
  BY DEF vars, tables
<1> QED BY <1>1, GoneKeeps DEF tables

LEMMA KeptStart ==
  ASSUME Init, NEW O \in Draws
  PROVE  Kept(O)
<1>1. /\ \A b \in Board : boards[b] = Nothing
      /\ \A s \in Station : stations[s] = Nothing
      /\ \A c \in Client : mine[c] = Untouched /\ client[c].stage = "idle"
  BY DEF Init
<1>2. Whole
  BY <1>1 DEF Whole, MarkOf, Board
<1>3. ASSUME NEW c \in Client PROVE Guarded(O, c)
  BY <1>1, UntouchedIsEmpty DEF Guarded, Stage
<1> QED BY <1>2, <1>3 DEF Kept

\* What readers see is the published boards, no more and no less.
LEMMA ShownBoards ==
  ASSUME Typed, Whole
  PROVE  [b \in Board |-> Shown(b)] = boards
<1>1. ASSUME NEW b \in Board PROVE Shown(b) = boards[b]
  BY DEF Shown, Whole
<1> QED BY <1>1 DEF Typed

LEMMA ShownBoardsNext ==
  ASSUME Typed', Whole'
  PROVE  [b \in Board |-> Shown(b)]' = boards'
<1>1. ASSUME NEW b \in Board PROVE Shown(b)' = boards'[b]
  BY DEF Shown, Whole
<1> QED BY <1>1 DEF Typed

\* Whatever the two programs do at the same time, whatever fails, and in whatever
\* order the observations come, readers of a station's market, outfitting or
\* shipyard see whole boards of strictly later and later observations (ed-store
\* postgres.rs, the watermarks of replace_board and the locks of the upserts
\* before it).  The plans are such that all boards of a station name one system,
\* or all of them give its market id: when they do neither, the station is looked
\* up and not locked, and one board can replace a later one.
THEOREM BoardsGoForward ==
  (\A f \in FeedPlan, d \in DumpPlan : Steady(Drawn(f, d))) => (Spec => BoardsForward)
<1> SUFFICES ASSUME \A f \in FeedPlan, d \in DumpPlan : Steady(Drawn(f, d))
             PROVE  Spec => BoardsForward
  OBVIOUS
<1> DEFINE Inv == \E O \in Draws : Steady(O) /\ StoreInv(O) /\ Kept(O)
           shown == [b \in Board |-> Shown(b)]
<1>1. Init => Inv
  BY StoreStart, KeptStart
<1>2. Inv /\ [Next]_vars => Inv'
  BY StoreStep, StoreStutter, KeptStep, KeptStutter DEF Steady
<1>3. Init => Readers!Init
  BY DEF Init, Readers!Init, Shown, MarkOf, Board
<1>4. Inv /\ Inv' /\ [Next]_vars => [Readers!Publish]_shown
  <2>1. SUFFICES ASSUME NEW O \in Draws, Steady(O), StoreInv(O), Kept(O), Inv', [Next]_vars
                 PROVE  [Readers!Publish]_shown
    OBVIOUS
  <2>2. Typed /\ Typed' /\ Whole /\ Whole'
    BY <2>1 DEF StoreInv, Owned, Kept
  <2>3. shown = boards /\ shown' = boards'
    BY <2>2, ShownBoards, ShownBoardsNext
  <2>4. CASE UNCHANGED vars
    BY <2>1, <2>3, <2>4, KeptStutter
  <2>5. CASE Next
    <3>1. \A b \in Board : Newer(b)
      BY <2>1, <2>5, KeptStep
    <3>2. boards' \in [Board -> Observation \cup {Nothing}] /\ Nothing \notin Observation
      BY <2>2, GalaxyStoreAssumption DEF Typed, GalaxyStoreAssumption
    <3>3. Readers!Observation = Observation
      BY DEF Readers!Observation, Observation
    <3> QED BY <2>3, <3>1, <3>2, <3>3 DEF Readers!Publish, Readers!Newer, Newer
  <2> QED BY <2>1, <2>4, <2>5
<1> QED BY <1>1, <1>2, <1>3, <1>4, PTL DEF Spec, BoardsForward, Readers!Spec
-----------------------------------------------------------------------------
(* The names of systems, and the dump's boards in their own systems.        *)

\* The name of an address: the game's, or the one a provisional row is for.
Called(nm, a) == IF a.real THEN nm[a.of] ELSE a.of

\* What an operation says of a system is so, and the dump's stations are at home.
Agrees(nm, op) ==
  /\ op.op = "journal" /\ op.addr # Nothing => op.name = nm[op.addr]
  /\ op.op = "source" => op.name = nm[op.addr]
AgreesAsDump(nm, op) ==
  /\ op.op = "ensure" => op.addr = Home[op.station]
  /\ op.op = "board" => op.byId /\ op.name = nm[Home[op.station]]
Agreeing(nm, O) ==
  /\ \A c \in Client : \A op \in O[c] : Agrees(nm, op)
  /\ \A op \in O["dump"] : AgreesAsDump(nm, op)

\* Every row has the name of its address, and no name has two rows; a program
\* holds the names of the rows it has written.
NamesRight(nm, sys) == \A a \in DOMAIN sys : sys[a] # Nothing => sys[a].name = Called(nm, a)
OneEach(nm, sys) ==
  \A a, b \in Address : sys[a] # Nothing /\ sys[b] # Nothing /\ Called(nm, a) = Called(nm, b) => a = b
OwnNames(nm, c) ==
  /\ NamesRight(nm, mine[c].sys) /\ OneEach(nm, Systems(c))
  /\ \A a \in DOMAIN mine[c].sys : NameKey(Called(nm, a)) \in locks[c]

\* The row a program goes on with is that of the name it looked up.
Aims(nm, c) ==
  /\ Stage(c) \in {"journal", "station"} => Called(nm, client[c].addr) = Op(c).name
  /\ Stage(c) = "cascade" => ~client[c].addr.real

Named(nm) ==
  /\ NamesRight(nm, systems) /\ OneEach(nm, systems)
  /\ \A c \in Client : OwnNames(nm, c) /\ Aims(nm, c)

\* What a statement does to the names: nothing, a row for a name no other row
\* has, or a row that moves to an address of the same name.
FilesName(nm, c, a) ==
  /\ a \in Address /\ DOMAIN mine'[c].sys = DOMAIN mine[c].sys \cup {a}
  /\ mine'[c].sys[a] # Nothing /\ mine'[c].sys[a].name = Called(nm, a)
  /\ \A x \in DOMAIN mine[c].sys : x # a => mine'[c].sys[x] = mine[c].sys[x]
  /\ NameKey(Called(nm, a)) \in locks'[c]
  /\ \A b \in Address : b # a /\ Systems(c)[b] # Nothing => Called(nm, b) # Called(nm, a)
MovesName(nm, c, p, to) ==
  /\ p \in Address /\ to \in Address /\ p # to
  /\ Systems(c)[p] # Nothing /\ Called(nm, p) = Called(nm, to)
  /\ DOMAIN mine'[c].sys = DOMAIN mine[c].sys \cup {p, to}
  /\ mine'[c].sys[p] = Nothing
  /\ mine'[c].sys[to] # Nothing /\ mine'[c].sys[to].name = Called(nm, to)
  /\ \A x \in DOMAIN mine[c].sys : x \notin {p, to} => mine'[c].sys[x] = mine[c].sys[x]
  /\ NameKey(Called(nm, to)) \in locks'[c]
KeepsNames(nm, c) ==
  \/ mine'[c].sys = mine[c].sys
  \/ \E a : FilesName(nm, c, a)
  \/ \E p, to : MovesName(nm, c, p, to)

LEMMA SeenNamed ==
  ASSUME NEW nm, Typed, NEW c \in Client, NamesRight(nm, systems), NamesRight(nm, mine[c].sys)
  PROVE  \A a \in Address : Systems(c)[a] # Nothing => Systems(c)[a].name = Called(nm, a)
<1>1. \A a \in Address : a \in DOMAIN systems
  BY DEF Typed
<1> QED BY <1>1, Views DEF NamesRight

LEMMA NamesKept ==
  ASSUME NEW nm, Typed, Typed', NEW c \in Client, UNCHANGED tables, locks[c] \subseteq locks'[c],
         OwnNames(nm, c), KeepsNames(nm, c)
  PROVE  OwnNames(nm, c)'
<1>1. CASE mine'[c].sys = mine[c].sys
  BY <1>1 DEF OwnNames, Systems, tables
<1>2. ASSUME NEW a, FilesName(nm, c, a) PROVE OwnNames(nm, c)'
  <2>1. NamesRight(nm, mine'[c].sys) /\ \A x \in DOMAIN mine'[c].sys : NameKey(Called(nm, x)) \in locks'[c]
    BY <1>2 DEF FilesName, OwnNames, NamesRight
  <2>2. \A x \in Address : x # a => Systems(c)'[x] = Systems(c)[x]
    BY <1>2, Views, ViewsNext DEF FilesName, tables
  <2>3. OneEach(nm, Systems(c)')
    BY <1>2, <2>2 DEF OneEach, FilesName, OwnNames
  <2> QED BY <2>1, <2>3 DEF OwnNames
<1>3. ASSUME NEW p, NEW to, MovesName(nm, c, p, to) PROVE OwnNames(nm, c)'
  <2>1. NamesRight(nm, mine'[c].sys) /\ \A x \in DOMAIN mine'[c].sys : NameKey(Called(nm, x)) \in locks'[c]
    BY <1>3 DEF MovesName, OwnNames, NamesRight
  <2>2. \A x \in Address : x \notin {p, to} => Systems(c)'[x] = Systems(c)[x]
    BY <1>3, Views, ViewsNext DEF MovesName, tables
  <2>3. Systems(c)'[p] = Nothing
    BY <1>3, Views, ViewsNext DEF MovesName
  <2>4. OneEach(nm, Systems(c)')
    <3>1. ASSUME NEW a \in Address, NEW b \in Address, Systems(c)'[a] # Nothing, Systems(c)'[b] # Nothing,
                 Called(nm, a) = Called(nm, b)
          PROVE  a = b
      <4>1. a # p /\ b # p
        BY <2>3, <3>1
      <4>2. \A x \in Address : x \notin {p, to} /\ Systems(c)'[x] # Nothing => Called(nm, x) # Called(nm, to)
        BY <1>3, <2>2 DEF OneEach, MovesName, OwnNames
      <4>3. CASE a # to /\ b # to
        BY <2>2, <3>1, <4>1, <4>3 DEF OneEach, OwnNames
      <4> QED BY <3>1, <4>1, <4>2, <4>3
    <3> QED BY <3>1 DEF OneEach
  <2> QED BY <2>1, <2>4 DEF OwnNames
<1> QED BY <1>1, <1>2, <1>3 DEF KeepsNames

\* What holds of a program's names before one of its statements.
NamesAt(nm, O, c) ==
  /\ O \in Draws /\ Agreeing(nm, O) /\ Owned(O) /\ c \in Client
  /\ NamesRight(nm, systems) /\ OwnNames(nm, c) /\ Aims(nm, c)

LEMMA NamesAtFacts ==
  ASSUME NEW nm, NEW O, NEW c, NamesAt(nm, O, c)
  PROVE  /\ O \in Draws /\ c \in Client /\ Typed /\ Disjoint /\ InBatch(O, c) /\ Filed(c)
         /\ \A op \in O[c] : Agrees(nm, op)
         /\ \A a \in Address : Systems(c)[a] # Nothing => Systems(c)[a].name = Called(nm, a)
         /\ \A n : \A a \in Address : Systems(c)[a] # Nothing =>
              (a \in Holders(c, n) <=> Called(nm, a) = n)
<1>1. /\ O \in Draws /\ c \in Client /\ Typed /\ Disjoint /\ InBatch(O, c) /\ Filed(c)
      /\ \A op \in O[c] : Agrees(nm, op)
  BY DEF NamesAt, Agreeing, Owned, Own
<1>2. \A a \in Address : Systems(c)[a] # Nothing => Systems(c)[a].name = Called(nm, a)
  BY <1>1, SeenNamed DEF NamesAt, OwnNames
<1>3. \A n : \A a \in Holders(c, n) : a \in Address /\ Systems(c)[a] # Nothing /\ Systems(c)[a].name = n
  BY DEF Holders, HoldersIn
<1>4. \A n : \A a \in Address : Systems(c)[a] # Nothing /\ Systems(c)[a].name = n => a \in Holders(c, n)
  BY DEF Holders, HoldersIn
<1> QED BY <1>1, <1>2, <1>3, <1>4

LEMMA ProvisionalName ==
  ASSUME NEW nm, NEW n
  PROVE  ~Prov(n).real /\ Called(nm, Prov(n)) = n
BY DEF Prov, Called

LEMMA RealName ==
  ASSUME NEW nm, NEW r
  PROVE  At(r).real /\ Called(nm, At(r)) = nm[r]
BY DEF At, Called

LEMMA ByNameNames ==
  ASSUME NEW nm, NEW O, NEW c, NamesAt(nm, O, c), NEW stage, NEW next,
         \/ stage = "system" /\ next = "station"
         \/ stage = "held" /\ next = "journal",
         SystemAddressFor(c, stage, next)
  PROVE  KeepsNames(nm, c) /\ Aims(nm, c)'
<1>1. PICK n, a : n = Op(c).name /\ a = AddressFor(c, n)
  OBVIOUS
<1>2. PICK row : row = IF Systems(c)[a] = Nothing THEN NewSystem(n) ELSE Systems(c)[a]
  OBVIOUS
<1>3. /\ Statement(c, stage) /\ ByName(c) /\ StoresSystem(c, a, row) /\ GotoAt(c, next, a)
  BY <1>1, <1>2 DEF SystemAddressFor, StoresSystem
<1>4. /\ O \in Draws /\ c \in Client /\ Typed /\ Disjoint /\ InBatch(O, c)
      /\ \A x \in Address : Systems(c)[x] # Nothing => Systems(c)[x].name = Called(nm, x)
      /\ \A x \in Address : Systems(c)[x] # Nothing => (x \in Holders(c, n) <=> Called(nm, x) = n)
  BY NamesAtFacts
<1>5. Stage(c) = stage /\ Wants(c) \subseteq locks'[c]
  BY <1>3, <1>4, Statements
<1>6. /\ Stage(c) \notin Resting \cup {"commit"} /\ next \in Stages
      /\ stage = "system" => Stage(c) \in BoardStages
      /\ stage = "held" => Stage(c) \in JournalStages
  BY <1>5 DEF Resting, Stages, BoardStages, JournalStages
<1>7. n \in Name
  <2>1. Op(c) \in BoardOp \/ Op(c) \in JournalOp
    BY <1>4, <1>6, AtOp
  <2> QED BY <1>1, <2>1 DEF BoardOp, JournalOp
<1>8. a \in Address /\ (Holders(c, n) = {} => a = Prov(n)) /\ (Holders(c, n) # {} => a \in Holders(c, n))
  <2>1. Holders(c, n) # {} => (CHOOSE x \in Holders(c, n) : TRUE) \in Holders(c, n)
    OBVIOUS
  <2> QED BY <1>1, <1>4, <1>7, <2>1, AddressesFound DEF AddressFor
<1>9. Called(nm, a) = n /\ row \in SystemRow /\ row.name = n
      /\ \A b \in Address : b # a /\ Systems(c)[b] # Nothing => Called(nm, b) # n
  <2>1. NewSystem(n) \in SystemRow /\ NewSystem(n).name = n
    BY <1>7 DEF NewSystem, SystemRow
  <2>2. CASE Holders(c, n) = {}
    <3>1. Called(nm, a) = n
      BY <1>8, <2>2, ProvisionalName
    <3>2. \A b \in Address : Systems(c)[b] # Nothing => Called(nm, b) # n
      BY <1>4, <2>2
    <3>3. Systems(c)[a] = Nothing
      BY <1>8, <3>1, <3>2
    <3> QED BY <1>2, <2>1, <3>1, <3>2, <3>3
  <2>3. CASE Holders(c, n) # {}
    <3>1. a \in Holders(c, n) /\ Systems(c)[a] # Nothing
      BY <1>8, <2>3 DEF Holders, HoldersIn
    <3>2. Called(nm, a) = n
      BY <1>4, <1>8, <3>1
    <3>3. row = Systems(c)[a] /\ row \in SystemRow /\ row.name = n
      BY <1>2, <1>4, <1>8, <3>1, <3>2, Views
    <3>4. \A b \in Address : b # a /\ Systems(c)[b] # Nothing => Called(nm, b) # n
      BY <1>8, <3>1, <3>2 DEF NamesAt, OwnNames, OneEach
    <3> QED BY <3>2, <3>3, <3>4
  <2> QED BY <2>2, <2>3
<1>10. /\ DOMAIN mine'[c].sys = DOMAIN mine[c].sys \cup {a} /\ mine'[c].sys[a] = row
       /\ \A x \in DOMAIN mine[c].sys : x # a => mine'[c].sys[x] = mine[c].sys[x]
  BY <1>3, <1>4, <1>8, <1>9, WroteSystem
<1>11. NameKey(n) \in locks'[c]
  <2>1. Wants(c) = NameKeys(c, n)
    BY <1>1, <1>3 DEF Wants, ByName
  <2> QED BY <1>5, <2>1 DEF NameKeys
<1>12. FilesName(nm, c, a)
  BY <1>8, <1>9, <1>10, <1>11, NothingIsNoRow DEF FilesName
<1>13. client'[c].stage = next /\ client'[c].addr = a /\ client'[c].left = client[c].left
  BY <1>3, <1>4, <1>6, <1>8, GoesAt
<1>14. Aims(nm, c)'
  <2>1. Stage(c)' # "cascade" /\ client'[c].addr = a /\ Op(c)'.name = n
    BY <1>1, <1>13 DEF Stage, Op
  <2> QED BY <1>9, <2>1 DEF Aims
<1> QED BY <1>12, <1>14 DEF KeepsNames

LEMMA UpsertNames ==
  ASSUME NEW nm, NEW O, NEW c, NamesAt(nm, O, c), NEW stage, NEW a,
         \/ stage = "journal" /\ a = client[c].addr
         \/ stage = "insert" /\ a = At(Op(c).addr),
         Upsert(c, stage, a)
  PROVE  KeepsNames(nm, c) /\ Aims(nm, c)'
<1>1. /\ Statement(c, stage) /\ mine' = [mine EXCEPT ![c] = Upserts(c, a)]
      /\ GotoAt(c, "push", a) \/ GoOnWithout(c, client[c].out)
      /\ ~Duplicate(c, a)
  BY DEF Upsert, GoOn
<1>2. /\ O \in Draws /\ c \in Client /\ Typed /\ Disjoint /\ InBatch(O, c)
      /\ \A op \in O[c] : Agrees(nm, op)
      /\ \A x \in Address : Systems(c)[x] # Nothing => Systems(c)[x].name = Called(nm, x)
      /\ \A n : \A x \in Address : Systems(c)[x] # Nothing => (x \in Holders(c, n) <=> Called(nm, x) = n)
  BY NamesAtFacts
<1>3. Stage(c) = stage /\ Wants(c) \subseteq locks'[c] /\ client[c].out \in SUBSET Station
  <2>1. client[c].out \in SUBSET Station
    BY <1>2 DEF Typed, Program
  <2> QED BY <1>1, <1>2, <2>1, Statements
<1>4. /\ Stage(c) \notin Resting \cup {"commit"}
      /\ stage = "journal" => Stage(c) \in JournalStages
      /\ stage = "insert" => Stage(c) \in SourceStages
  BY <1>3 DEF Resting, JournalStages, SourceStages
<1>5. /\ Op(c) \in O[c]
      /\ stage = "journal" => Op(c) \in JournalOp
      /\ stage = "insert" => Op(c) \in SourceOp
  BY <1>2, <1>4, AtOp
<1>6. a \in Address /\ Op(c).name \in Name /\ Op(c).at \in Nat /\ Called(nm, a) = Op(c).name
  <2>1. CASE stage = "journal"
    <3>1. a \in Address
      BY <1>2, <1>3, <2>1 DEF InBatch, Stage
    <3>2. Called(nm, a) = Op(c).name
      BY <1>3, <2>1 DEF NamesAt, Aims
    <3> QED BY <1>5, <2>1, <3>1, <3>2 DEF JournalOp
  <2>2. CASE stage = "insert"
    <3>1. Op(c).op = "source" /\ Op(c).addr \in Real /\ a = At(Op(c).addr)
      BY <1>5, <2>2 DEF SourceOp
    <3>2. Op(c).name = nm[Op(c).addr]
      BY <1>2, <1>5, <3>1 DEF Agrees
    <3> QED BY <1>5, <2>2, <3>1, <3>2, RealName, RealAddress DEF SourceOp
  <2> QED BY <2>1, <2>2
<1>7. KeepsNames(nm, c)
  <2>1. CASE ~Wins(c, a, Op(c))
    <3>1. mine' = mine
      BY <1>1, <1>2, <2>1 DEF Upserts, Typed
    <3> QED BY <3>1 DEF KeepsNames
  <2>2. CASE Wins(c, a, Op(c))
    <3>1. PICK was : was = IF Systems(c)[a] = Nothing THEN NewSystem(Op(c).name) ELSE Systems(c)[a]
      OBVIOUS
    <3>2. was \in SystemRow
      <4>1. NewSystem(Op(c).name) \in SystemRow
        BY <1>6 DEF NewSystem, SystemRow
      <4> QED BY <1>2, <1>6, <3>1, <4>1, Views
    <3>3. PICK new, row :
            /\ new = [was EXCEPT !.name = Op(c).name, !.cell = CellOf(Op(c), was)]
            /\ row = IF Op(c).op = "source" THEN [new EXCEPT !.source = Op(c).at]
                     ELSE [new EXCEPT !.eddn = Op(c).at]
      OBVIOUS
    <3>4. row \in SystemRow /\ row.name = Op(c).name
      <4>1. CellOf(Op(c), was) \in Cell \cup {Nothing}
        BY <1>5, <3>2 DEF CellOf, SystemRow, JournalOp, SourceOp
      <4>2. new \in SystemRow /\ new.name = Op(c).name
        BY <1>6, <3>2, <3>3, <4>1 DEF SystemRow
      <4> QED BY <1>6, <3>3, <4>2 DEF SystemRow
    <3>5. StoresSystem(c, a, row)
      BY <1>1, <2>2, <3>1, <3>3 DEF Upserts, StoresSystem
    <3>6. /\ DOMAIN mine'[c].sys = DOMAIN mine[c].sys \cup {a} /\ mine'[c].sys[a] = row
          /\ \A x \in DOMAIN mine[c].sys : x # a => mine'[c].sys[x] = mine[c].sys[x]
      BY <1>2, <1>6, <3>4, <3>5, WroteSystem
    <3>7. NameKey(Op(c).name) \in locks'[c]
      <4>1. Wants(c) = UpsertKeys(c, a, Op(c))
        <5>1. CASE stage = "journal"
          BY <1>3, <5>1 DEF Wants, ByName
        <5>2. CASE stage = "insert"
          BY <1>3, <5>2 DEF Wants, ByName
        <5> QED BY <5>1, <5>2
      <4> QED BY <1>3, <2>2, <4>1 DEF UpsertKeys
    <3>8. \A b \in Address : b # a /\ Systems(c)[b] # Nothing => Called(nm, b) # Called(nm, a)
      <4>1. Holders(c, Op(c).name) \ {a} = {}
        BY <1>1, <2>2 DEF Duplicate
      <4> QED BY <1>2, <1>6, <4>1
    <3>9. FilesName(nm, c, a)
      BY <1>6, <3>4, <3>6, <3>7, <3>8, NothingIsNoRow DEF FilesName
    <3> QED BY <3>9 DEF KeepsNames
  <2> QED BY <2>1, <2>2
<1>8. client'[c].stage \in FirstStages \cup {"push"}
  <2>1. CASE GoOnWithout(c, client[c].out)
    BY <1>2, <1>3, <1>4, <2>1, GoesOn
  <2>2. CASE GotoAt(c, "push", a)
    BY <1>2, <1>6, <2>2, GoesAt, BatchStages
  <2> QED BY <1>1, <2>1, <2>2
<1>9. Aims(nm, c)'
  BY <1>8 DEF Aims, FirstStages, Stage
<1> QED BY <1>7, <1>9

LEMMA MigrateNames ==
  ASSUME NEW nm, NEW O, NEW c, NamesAt(nm, O, c), Migrate(c)
  PROVE  KeepsNames(nm, c) /\ Aims(nm, c)'
<1>1. PICK from, to, n : from = Movable(c, Op(c)) /\ to = At(Op(c).addr) /\ n = Op(c).name
  OBVIOUS
<1>2. /\ Statement(c, "migrate")
      /\ \/ from = {} /\ Goto(c, "taken") /\ UNCHANGED mine
         \/ \E p \in from : MovesSystem(c, p, to, Systems(c)[p]) /\ GotoAt(c, "cascade", p)
  <2>1. from # {} => (CHOOSE a \in from : TRUE) \in from
    OBVIOUS
  <2> QED BY <1>1, <2>1 DEF Migrate, MovesSystem
<1>3. /\ O \in Draws /\ c \in Client /\ Typed /\ Disjoint /\ InBatch(O, c)
      /\ \A op \in O[c] : Agrees(nm, op)
      /\ \A x \in Address : Systems(c)[x] # Nothing => Systems(c)[x].name = Called(nm, x)
      /\ \A x \in Address : Systems(c)[x] # Nothing => (x \in Holders(c, n) <=> Called(nm, x) = n)
  BY NamesAtFacts
<1>4. Stage(c) = "migrate" /\ Wants(c) \subseteq locks'[c]
  BY <1>2, <1>3, Statements
<1>5. Stage(c) \notin Resting \cup {"commit"} /\ Stage(c) \in SourceStages
      /\ \A x \in {"taken", "cascade"} : x \in Stages
  BY <1>4 DEF Resting, SourceStages, Stages
<1>6. Op(c) \in O[c] /\ Op(c) \in SourceOp
  BY <1>3, <1>5, AtOp
<1>7. to \in Address /\ to.real /\ Called(nm, to) = n
  <2>1. Op(c).op = "source" /\ Op(c).addr \in Real
    BY <1>6 DEF SourceOp
  <2>2. n = nm[Op(c).addr]
    BY <1>1, <1>3, <1>6, <2>1 DEF Agrees
  <2> QED BY <1>1, <2>1, <2>2, RealAddress, RealName
<1>8. CASE from = {} /\ Goto(c, "taken") /\ UNCHANGED mine
  <2>1. client'[c].stage = "taken"
    BY <1>3, <1>5, <1>8, GoesTo
  <2> QED BY <1>8, <2>1 DEF KeepsNames, Aims, Stage
<1>9. ASSUME NEW p \in from, MovesSystem(c, p, to, Systems(c)[p]), GotoAt(c, "cascade", p)
      PROVE  KeepsNames(nm, c) /\ Aims(nm, c)'
  <2>1. p \in Holders(c, n) /\ ~p.real
    BY <1>1, <1>9 DEF Movable
  <2>2. p \in Address /\ Systems(c)[p] # Nothing /\ p # to
    BY <1>7, <2>1 DEF Holders, HoldersIn
  <2>3. PICK row : row = Systems(c)[p]
    OBVIOUS
  <2>4. row \in SystemRow /\ row.name = n /\ Called(nm, p) = n
    BY <1>3, <2>1, <2>2, <2>3, Views
  <2>5. /\ DOMAIN mine'[c].sys = DOMAIN mine[c].sys \cup {p, to}
        /\ mine'[c].sys[p] = Nothing /\ mine'[c].sys[to] = row
        /\ \A x \in DOMAIN mine[c].sys : x \notin {p, to} => mine'[c].sys[x] = mine[c].sys[x]
    BY <1>3, <1>7, <1>9, <2>2, <2>3, <2>4, WroteMove
  <2>6. NameKey(n) \in locks'[c]
    <3>1. Wants(c) = {SystemKey(a) : a \in from} \cup {SystemKey(to), NameKey(n)}
      BY <1>1, <1>4, <1>9 DEF Wants, ByName
    <3> QED BY <1>4, <3>1
  <2>7. MovesName(nm, c, p, to)
    BY <1>7, <2>2, <2>4, <2>5, <2>6, NothingIsNoRow DEF MovesName
  <2>8. client'[c].stage = "cascade" /\ client'[c].addr = p
    BY <1>3, <1>5, <1>9, <2>2, GoesAt
  <2>9. Aims(nm, c)'
    BY <2>1, <2>8 DEF Aims, Stage
  <2> QED BY <2>7, <2>9 DEF KeepsNames
<1> QED BY <1>2, <1>8, <1>9

\* The other statements leave the systems as they are.
LEMMA OtherNames ==
  ASSUME NEW nm, NEW O, NEW c, NamesAt(nm, O, c),
         \/ StationById(c) \/ StationByName(c) \/ Fresh(c) \/ Write(c) \/ Held(c)
         \/ Cascade(c) \/ Taken(c) \/ Ensure(c) \/ LeaveOut(c) \/ Push(c)
  PROVE  mine'[c].sys = mine[c].sys
<1>1. c \in Client /\ mine[c] = [sys |-> mine[c].sys, stn |-> mine[c].stn, brd |-> mine[c].brd]
  <2>1. c \in Client /\ mine[c] \in Transaction
    BY NamesAtFacts, Views
  <2> QED BY <2>1 DEF Transaction
<1>2. c \in DOMAIN mine
  BY <1>1, NamesAtFacts DEF Typed
<1>3. CASE \E s, row : mine' = [mine EXCEPT ![c] = WriteStation(c, s, row)]
  BY <1>1, <1>2, <1>3 DEF WriteStation
<1>4. CASE mine' = [mine EXCEPT ![c] = Replace(c)]
  BY <1>1, <1>2, <1>4 DEF WriteStation, Replace
<1>5. CASE \E f : mine' = [mine EXCEPT ![c].stn = f]
  BY <1>1, <1>2, <1>5
<1>6. CASE mine' = mine
  BY <1>6
<1>7. CASE Cascade(c)
  BY <1>5, <1>7 DEF Cascade
<1> QED BY <1>3, <1>4, <1>6, <1>7 DEF StationById, StationByName, Fresh, Write, Held, Taken, Ensure, LeaveOut,
                                              Push

\* Where the other statements go.
LEMMA OtherAims ==
  ASSUME NEW nm, NEW O, NEW c, NamesAt(nm, O, c),
         \/ StationById(c) \/ StationByName(c) \/ Fresh(c) \/ Write(c) \/ Held(c)
         \/ Cascade(c) \/ Taken(c) \/ Ensure(c) \/ LeaveOut(c) \/ Push(c)
  PROVE  Aims(nm, c)'
<1>1. /\ O \in Draws /\ c \in Client /\ Typed /\ Disjoint /\ InBatch(O, c)
      /\ \A op \in O[c] : Agrees(nm, op)
      /\ client[c].out \in SUBSET Station
  BY NamesAtFacts DEF Typed, Program
<1>2. /\ Stage(c) \in {"station", "fresh", "write", "held", "cascade", "taken", "ensure", "out", "push"}
      /\ Stage(c) \notin Resting \cup {"commit"}
      /\ \A x \in {"fresh", "write", "taken", "insert", "journal"} : x \in Stages
  <2>1. Stage(c) \in {"station", "fresh", "write", "held", "cascade", "taken", "ensure", "out", "push"}
    BY DEF StationById, StationByName, Fresh, Write, Held, Cascade, Taken, Ensure, LeaveOut, Push,
           Statement
  <2> QED BY <2>1 DEF Stages, BoardStages, JournalStages, SourceStages, Resting
<1>3. CASE \E x \in {"fresh", "write", "taken", "insert"} : Goto(c, x)
  <2>1. PICK x \in {"fresh", "write", "taken", "insert"} : Goto(c, x)
    BY <1>3
  <2>2. client'[c].stage = x
    BY <1>1, <1>2, <2>1, GoesTo
  <2> QED BY <2>1, <2>2 DEF Aims, Stage
<1>4. CASE \E out \in SUBSET Station : GoOnWithout(c, out)
  <2>1. client'[c].stage \in FirstStages
    BY <1>1, <1>2, <1>4, GoesOn
  <2> QED BY <2>1 DEF Aims, FirstStages, Stage
<1>5. CASE Held(c) /\ GotoAt(c, "journal", HeldAddress(c)) /\ HeldAddress(c) # Nothing
  <2>1. PICK n, a, real, other : /\ n = Op(c).name /\ a = HeldAddress(c) /\ real = At(Op(c).addr)
                                 /\ other = Holders(c, n) \ {real}
    OBVIOUS
  <2>2. Stage(c) = "held" /\ Op(c).addr # Nothing
    BY <1>5 DEF Held, Statement
  <2>3. Op(c) \in O[c] /\ Op(c) \in JournalOp
    <3>1. Stage(c) \in JournalStages
      BY <2>2 DEF JournalStages
    <3> QED BY <1>1, <1>2, <3>1, AtOp
  <2>4. Called(nm, real) = n /\ real \in Address
    <3>1. Op(c).op = "journal" /\ Op(c).addr \in Real
      BY <2>2, <2>3 DEF JournalOp
    <3>2. n = nm[Op(c).addr]
      BY <1>1, <2>1, <2>2, <2>3, <3>1 DEF Agrees
    <3> QED BY <2>1, <3>1, <3>2, RealName, RealAddress
  <2>5. \A x \in other : x \in Address /\ Called(nm, x) = n
    <3>1. \A x \in other : x \in Holders(c, n) /\ x \in Address /\ Systems(c)[x] # Nothing
      BY <2>1 DEF Holders, HoldersIn
    <3> QED BY <3>1, NamesAtFacts
  <2>6. a = real \/ a \in other
    <3>1. (\E x \in other : ~x.real) => (CHOOSE x \in other : ~x.real) \in other
      OBVIOUS
    <3> QED BY <1>5, <2>1, <3>1 DEF HeldAddress
  <2>7. a \in Address /\ Called(nm, a) = n
    BY <2>4, <2>5, <2>6
  <2>8. client'[c].stage = "journal" /\ client'[c].addr = a /\ client'[c].left = client[c].left
    BY <1>1, <1>2, <1>5, <2>1, <2>7, GoesAt
  <2>9. Op(c)' = Op(c) /\ Stage(c)' = "journal"
    BY <2>8 DEF Op, Stage
  <2> QED BY <2>1, <2>7, <2>8, <2>9 DEF Aims
<1>6. CASE Ensure(c)
  <2>1. Op(c) \in EnsureOp
    <3>1. Stage(c) = "ensure"
      BY <1>6 DEF Ensure, Statement
    <3> QED BY <1>1, <1>2, <3>1, AtOp
  <2>2. client[c].out \cup {Op(c).station} \in SUBSET Station
    BY <1>1, <2>1 DEF EnsureOp
  <2> QED BY <1>1, <1>4, <1>6, <2>2 DEF Ensure, GoOn
<1>7. CASE Held(c)
  BY <1>1, <1>4, <1>5, <1>7 DEF Held, GoOn
<1>8. CASE StationById(c) \/ Cascade(c)
  BY <1>3, <1>8 DEF StationById, Cascade
<1>9. CASE StationByName(c) \/ Fresh(c) \/ Taken(c)
  BY <1>1, <1>3, <1>4, <1>9 DEF StationByName, Fresh, Taken, GoOn
<1>10. CASE Write(c) \/ LeaveOut(c) \/ Push(c)
  BY <1>1, <1>4, <1>10 DEF Write, LeaveOut, Push, GoOn
<1> QED BY <1>6, <1>7, <1>8, <1>9, <1>10

LEMMA RunningNames ==
  ASSUME NEW nm, NEW O, NEW c, NamesAt(nm, O, c), Running(c)
  PROVE  KeepsNames(nm, c) /\ Aims(nm, c)'
<1>1. CASE BoardSystem(c)
  BY <1>1, ByNameNames DEF BoardSystem
<1>2. CASE HeldByName(c)
  BY <1>2, ByNameNames DEF HeldByName
<1>3. CASE Journal(c)
  BY <1>3, UpsertNames DEF Journal
<1>4. CASE Insert(c)
  BY <1>4, UpsertNames DEF Insert
<1>5. CASE Migrate(c)
  BY <1>5, MigrateNames
<1>6. CASE \/ StationById(c) \/ StationByName(c) \/ Fresh(c) \/ Write(c) \/ Held(c)
           \/ Cascade(c) \/ Taken(c) \/ Ensure(c) \/ LeaveOut(c) \/ Push(c)
  BY <1>6, OtherNames, OtherAims DEF KeepsNames
<1> QED BY <1>1, <1>2, <1>3, <1>4, <1>5, <1>6 DEF Running

\* What no step of c touches of another program's names stays true of them.
LEMMA NamesElsewhere ==
  ASSUME NEW nm, NEW d \in Client, OwnNames(nm, d), Aims(nm, d), systems' = systems,
         mine'[d] = mine[d], client'[d] = client[d], locks[d] \subseteq locks'[d]
  PROVE  OwnNames(nm, d)' /\ Aims(nm, d)'
<1>1. Systems(d)' = Systems(d) /\ Stage(d)' = Stage(d) /\ Op(d)' = Op(d)
  BY DEF Systems, Stage, Op
<1> QED BY <1>1 DEF OwnNames, Aims

\* A program without a transaction sees the tables' names.
LEMMA NamesEmpty ==
  ASSUME NEW nm, Typed', NEW c \in Client, Gone(c), OneEach(nm, systems')
  PROVE  OwnNames(nm, c)' /\ Aims(nm, c)'
<1>1. DOMAIN mine'[c].sys = {}
  BY UntouchedIsEmpty DEF Gone
<1>2. \A a \in Address : Systems(c)'[a] = systems'[a]
  BY <1>1, ViewsNext
<1>3. OneEach(nm, Systems(c)')
  BY <1>2 DEF OneEach
<1>4. Aims(nm, c)'
  BY DEF Gone, Aims, Stage, Resting, FirstStages
<1> QED BY <1>1, <1>3, <1>4 DEF OwnNames, NamesRight

\* The locks of the names keep two transactions from filing one of them twice.
LEMMA NamesAcross ==
  ASSUME NEW nm, Typed, Typed', Disjoint, NEW c \in Client, NEW d \in Client, d # c,
         OwnNames(nm, c), OwnNames(nm, d), Aims(nm, d), Publish(c),
         mine'[d] = mine[d], client'[d] = client[d], locks[d] \subseteq locks'[d]
  PROVE  OwnNames(nm, d)' /\ Aims(nm, d)'
<1>1. systems' = Systems(c)
  BY DEF Publish
<1>2. \A x \in DOMAIN mine[d].sys : x \in Address /\ Systems(d)'[x] = Systems(d)[x]
  BY Views, ViewsNext
<1>3. \A x \in Address \ DOMAIN mine[d].sys : Systems(d)'[x] = Systems(c)[x]
  BY <1>1, ViewsNext
<1>4. \A x \in Address : x \notin DOMAIN mine[d].sys /\ x \notin DOMAIN mine[c].sys =>
        Systems(d)'[x] = Systems(d)[x]
  BY <1>3, Views
<1>5. \A x \in DOMAIN mine[d].sys : \A y \in DOMAIN mine[c].sys : Called(nm, x) # Called(nm, y)
  BY DEF OwnNames, Disjoint
<1>6. OneEach(nm, Systems(d)')
  <2>1. ASSUME NEW a \in Address, NEW b \in Address,
               Systems(d)'[a] # Nothing, Systems(d)'[b] # Nothing, Called(nm, a) = Called(nm, b)
        PROVE  a = b
    <3>1. CASE Systems(d)'[a] = Systems(d)[a] /\ Systems(d)'[b] = Systems(d)[b]
      BY <2>1, <3>1 DEF OwnNames, OneEach
    <3>2. CASE a \notin DOMAIN mine[d].sys /\ b \notin DOMAIN mine[d].sys
      BY <1>3, <2>1, <3>2 DEF OwnNames, OneEach
    <3>3. CASE a \in DOMAIN mine[d].sys /\ b \notin DOMAIN mine[d].sys
      BY <1>2, <1>4, <1>5, <2>1, <3>1, <3>3
    <3>4. CASE a \notin DOMAIN mine[d].sys /\ b \in DOMAIN mine[d].sys
      BY <1>2, <1>4, <1>5, <2>1, <3>1, <3>4
    <3>5. CASE a \in DOMAIN mine[d].sys /\ b \in DOMAIN mine[d].sys
      BY <1>2, <3>1, <3>5
    <3> QED BY <3>2, <3>3, <3>4, <3>5
  <2> QED BY <2>1 DEF OneEach
<1>7. Stage(d)' = Stage(d) /\ Op(d)' = Op(d)
  BY DEF Stage, Op
<1> QED BY <1>6, <1>7 DEF OwnNames, Aims

\* A step that publishes nothing, by which every program but those whose
\* transaction is gone is where it was.
LEMMA GoneNames ==
  ASSUME NEW nm, Typed', Named(nm), systems' = systems,
         \A c \in Client : \/ Gone(c)
                           \/ /\ mine'[c] = mine[c] /\ client'[c] = client[c]
                              /\ locks[c] \subseteq locks'[c]
  PROVE  Named(nm)'
<1>1. NamesRight(nm, systems') /\ OneEach(nm, systems')
  BY DEF Named
<1>2. ASSUME NEW c \in Client PROVE OwnNames(nm, c)' /\ Aims(nm, c)'
  BY <1>1, NamesEmpty, NamesElsewhere DEF Named
<1> QED BY <1>1, <1>2 DEF Named

LEMMA RunningNamed ==
  ASSUME NEW nm, NEW O \in Draws, Agreeing(nm, O), StoreInv(O), Named(nm), NEW c \in Client, Running(c)
  PROVE  Named(nm)'
<1>1. Owned(O) /\ Typed /\ Disjoint
  BY DEF StoreInv, Owned
<1>2. Owned(O)' /\ Shifts(c)
  BY RunningShifts
<1>3. Typed' /\ systems' = systems /\ UNCHANGED tables
  BY <1>2 DEF Owned, Shifts, tables
<1>4. \A d \in Client : locks[d] \subseteq locks'[d]
  BY <1>1, RunningLocks
<1>5. NamesAt(nm, O, c)
  BY <1>1 DEF NamesAt, Named
<1>6. KeepsNames(nm, c) /\ Aims(nm, c)'
  BY <1>5, RunningNames
<1>7. OwnNames(nm, c)'
  BY <1>1, <1>3, <1>4, <1>6, NamesKept DEF Named
<1>8. ASSUME NEW d \in Client, d # c PROVE OwnNames(nm, d)' /\ Aims(nm, d)'
  BY <1>2, <1>3, <1>4, <1>8, NamesElsewhere DEF Named, Shifts, Alone, Private
<1>9. NamesRight(nm, systems') /\ OneEach(nm, systems')
  BY <1>3 DEF Named
<1> QED BY <1>6, <1>7, <1>8, <1>9 DEF Named

LEMMA PublishingNames ==
  ASSUME NEW nm, NEW O \in Draws, Owned(O), Owned(O)', Named(nm), NEW c \in Client,
         Publish(c), Gone(c), Private(c), Alone(c), LocksGrow(c)
  PROVE  Named(nm)'
<1>1. Typed /\ Typed' /\ Disjoint /\ systems' = Systems(c)
  BY DEF Owned, Publish
<1>2. NamesRight(nm, systems')
  <2>1. \A a \in Address : Systems(c)[a] # Nothing => Systems(c)[a].name = Called(nm, a)
    BY <1>1, SeenNamed DEF Named, OwnNames
  <2>2. DOMAIN systems' = Address
    BY <1>1 DEF Typed
  <2> QED BY <1>1, <2>1, <2>2 DEF NamesRight
<1>3. OneEach(nm, systems')
  BY <1>1 DEF Named, OwnNames
<1>4. OwnNames(nm, c)' /\ Aims(nm, c)'
  BY <1>1, <1>3, NamesEmpty
<1>5. ASSUME NEW d \in Client, d # c PROVE OwnNames(nm, d)' /\ Aims(nm, d)'
  BY <1>1, <1>5, NamesAcross DEF Named, Private, Alone, LocksGrow
<1> QED BY <1>2, <1>3, <1>4, <1>5 DEF Named

\* Every step keeps the names.
LEMMA NamedStep ==
  ASSUME NEW nm, NEW O \in Draws, Agreeing(nm, O), StoreInv(O), Named(nm), Next
  PROVE  Named(nm)'
<1>1. Owned(O) /\ Typed'
  <2>1. StoreInv(O)'
    BY StoreStep
  <2> QED BY <2>1 DEF StoreInv, Owned
<1>2. CASE \E c \in Client : Commit(c) \/ CommitLost(c)
  BY <1>1, <1>2, CommitKeeps, PublishingNames
<1>3. CASE \E c \in Client : Running(c)
  BY <1>3, RunningNamed
<1>4. CASE \E c \in Client : Broken(c) \/ Deadlock(c) \/ ConstraintFails(c) \/ JournalRejected(c) \/ InsertRejected(c)
  <2>1. PICK c \in Client : Broken(c) \/ Deadlock(c) \/ ConstraintFails(c) \/ JournalRejected(c) \/ InsertRejected(c)
    BY <1>4
  <2>2. systems' = systems /\ Alone(c) /\ Private(c) /\ Gone(c) /\ LocksGrow(c)
    BY <1>1, <2>1, AbortsKeep DEF tables
  <2> QED BY <1>1, <2>2, GoneNames DEF Alone, Private, LocksGrow
<1>5. CASE \E c \in Client : Begin(c)
  <2>1. PICK c \in Client : Begin(c)
    BY <1>5
  <2>2. systems' = systems /\ mine' = mine /\ Alone(c) /\ Gone(c) /\ locks' = locks
    BY <1>1, <2>1, BeginKeeps DEF tables
  <2> QED BY <1>1, <2>2, GoneNames DEF Alone
<1>6. CASE Dump
  <2>1. systems' = systems /\ mine' = mine /\ Alone("dump") /\ Gone("dump") /\ locks' = locks
    BY <1>1, <1>6, DumpKeeps DEF tables
  <2> QED BY <1>1, <2>1, GoneNames DEF Alone
<1>7. CASE GoesDown
  <2>1. systems' = systems /\ \A c \in Client : Gone(c)
    BY <1>1, <1>7, GoesDownKeeps DEF tables
  <2> QED BY <1>1, <2>1, GoneNames
<1>8. CASE ComesBack
  <2>1. systems' = systems /\ mine' = mine /\ client' = client /\ locks' = locks
    BY <1>8 DEF ComesBack, tables
  <2> QED BY <1>1, <2>1, GoneNames
<1> QED BY <1>2, <1>3, <1>4, <1>5, <1>6, <1>7, <1>8 DEF Next, Step, Fault, Running

LEMMA NamedStutter ==
  ASSUME NEW nm, NEW O, StoreInv(O), O \in Draws, Named(nm), UNCHANGED vars
  PROVE  Named(nm)'
<1>1. Typed'
  BY StoreStutter DEF StoreInv, Owned
<1>2. systems' = systems /\ mine' = mine /\ client' = client /\ locks' = locks
  BY DEF vars, tables
<1> QED BY <1>1, <1>2, GoneNames

LEMMA NamedStart ==
  ASSUME NEW nm, NEW O \in Draws, StoreInv(O), Init
  PROVE  Named(nm)
<1>1. /\ \A a \in Address : systems[a] = Nothing
      /\ DOMAIN systems = Address
      /\ \A c \in Client : mine[c] = Untouched /\ client[c].stage = "idle"
  BY DEF Init
<1>2. Typed
  BY DEF StoreInv, Owned
<1>3. ASSUME NEW c \in Client PROVE OwnNames(nm, c) /\ Aims(nm, c)
  <2>1. DOMAIN mine[c].sys = {}
    BY <1>1, UntouchedIsEmpty
  <2>2. \A a \in Address : Systems(c)[a] = Nothing
    BY <1>1, <1>2, <2>1, Views
  <2> QED BY <1>1, <2>1, <2>2 DEF OwnNames, NamesRight, OneEach, Aims, Stage
<1> QED BY <1>1, <1>3 DEF Named, NamesRight, OneEach
-----------------------------------------------------------------------------
(* The dump's boards.                                                       *)

\* Each board of a batch comes after its station.
Founds(op, s) == op.op = "ensure" /\ op.station = s
Announced(batch) ==
  \A i \in DOMAIN batch : batch[i].op = "board" =>
    \E j \in 1..(i - 1) : Founds(batch[j], batch[i].station)

\* The dump's transaction has the station in its own system, or leaves it out.
Settled(s) == s \in DOMAIN mine["dump"].stn /\ mine["dump"].stn[s].system = At(Home[s])
Sited(s) == s \in client["dump"].out \/ Settled(s)

WriteStages == {"system", "station", "fresh", "write"}

AtHome ==
  LET left == client["dump"].left
      plan == client["dump"].plan
  IN  /\ \A k \in DOMAIN plan : Announced(plan[k])
      /\ Stage("dump") \in Resting \ {"broken"} => client["dump"].out = {}
      /\ Stage("dump") \notin Resting =>
           \A i \in DOMAIN left : left[i].op = "board" =>
             Sited(left[i].station) \/ \E j \in 1..(i - 1) : Founds(left[j], left[i].station)
      /\ Stage("dump") \in WriteStages => Op("dump").station \notin client["dump"].out
      /\ \A b \in DOMAIN mine["dump"].brd : Settled(b[1])

\* A program's boards are its own.
Signed(c) == \A b \in DOMAIN mine[c].brd : mine[c].brd[b].by = c

Homes == AtHome /\ \A c \in Client : Signed(c)

LEMMA SettledIsThere ==
  ASSUME Typed, Filed("dump"), Stage("dump") # "cascade", NEW s, Settled(s)
  PROVE  At(Home[s]) \in Address /\ Systems("dump")[At(Home[s])] # Nothing
<1>1. s \in Station /\ Stations("dump")[s] = mine["dump"].stn[s] /\ mine["dump"].stn[s] \in StationRowType
  BY Views DEF Settled, Client
<1>2. Stations("dump")[s].system = At(Home[s]) /\ At(Home[s]) \in Address
  BY <1>1 DEF Settled, StationRowType
<1>3. Stations("dump")[s] # Nothing
  BY <1>1, NothingIsNoRow
<1> QED BY <1>1, <1>2, <1>3 DEF Filed

\* The statements about systems leave stations and boards as they are.
LEMMA SystemsOnly ==
  ASSUME Typed, NEW c \in Client,
         \/ BoardSystem(c) \/ HeldByName(c) \/ Journal(c) \/ Insert(c) \/ Migrate(c)
         \/ StationByName(c) \/ Fresh(c) \/ Held(c) \/ Taken(c) \/ LeaveOut(c) \/ Push(c)
  PROVE  mine'[c].stn = mine[c].stn /\ mine'[c].brd = mine[c].brd
<1>1. mine[c] = [sys |-> mine[c].sys, stn |-> mine[c].stn, brd |-> mine[c].brd] /\ c \in DOMAIN mine
  <2>1. mine[c] \in Transaction
    BY Views
  <2> QED BY <2>1 DEF Transaction, Typed
<1>2. CASE \E a, row : mine' = [mine EXCEPT ![c] = WriteSystem(c, a, row)]
  BY <1>1, <1>2 DEF WriteSystem
<1>3. CASE \E f : mine' = [mine EXCEPT ![c].sys = f]
  BY <1>1, <1>3
<1>4. CASE mine' = mine
  BY <1>4
<1>5. ASSUME NEW stage, NEW a, Upsert(c, stage, a)
      PROVE  mine'[c].stn = mine[c].stn /\ mine'[c].brd = mine[c].brd
  <2>1. mine' = [mine EXCEPT ![c] = Upserts(c, a)]
    BY <1>5 DEF Upsert
  <2>2. CASE ~Wins(c, a, Op(c))
    BY <1>1, <2>1, <2>2 DEF Upserts
  <2>3. CASE Wins(c, a, Op(c))
    <3>1. \E row : mine' = [mine EXCEPT ![c] = WriteSystem(c, a, row)]
      BY <2>1, <2>3 DEF Upserts
    <3> QED BY <1>2, <3>1
  <2> QED BY <2>2, <2>3
<1>6. CASE Journal(c) \/ Insert(c)
  BY <1>5, <1>6 DEF Journal, Insert
<1>7. CASE Migrate(c)
  BY <1>3, <1>4, <1>7 DEF Migrate
<1>8. CASE BoardSystem(c) \/ HeldByName(c)
  BY <1>2, <1>8 DEF BoardSystem, HeldByName, SystemAddressFor
<1> QED BY <1>4, <1>6, <1>7, <1>8 DEF StationByName, Fresh, Held, Taken, LeaveOut, Push

\* What holds of the dump before one of its statements.
HomeAt(nm, O) ==
  O \in Draws /\ Agreeing(nm, O) /\ Owned(O) /\ Named(nm) /\ AtHome /\ Stage("dump") \notin Resting

\* The station the dump's statement is about.
LEMMA HomeOps ==
  ASSUME NEW nm, NEW O, HomeAt(nm, O), Stage("dump") # "commit"
  PROVE  /\ client["dump"].left # <<>> /\ client["dump"].left \in Seq(AnyOp)
         /\ Op("dump") \in O["dump"] /\ AgreesAsDump(nm, Op("dump"))
         /\ Stage("dump") \in BoardStages =>
              Op("dump") \in BoardOp /\ Op("dump").op = "board" /\ Sited(Op("dump").station)
<1>1. Typed /\ O \in Draws /\ "dump" \in Client /\ InBatch(O, "dump")
  BY DEF HomeAt, Owned, Own, Client
<1>2. /\ client["dump"].left # <<>> /\ client["dump"].left \in Seq(AnyOp)
      /\ Op("dump") \in O["dump"]
      /\ Stage("dump") \in BoardStages => Op("dump") \in BoardOp
  <2>1. client["dump"].left \in Seq(AnyOp)
    BY <1>1 DEF Typed, Program
  <2> QED BY <1>1, <2>1, AtOp DEF HomeAt
<1>3. AgreesAsDump(nm, Op("dump"))
  BY <1>2 DEF HomeAt, Agreeing
<1>4. ASSUME Stage("dump") \in BoardStages
      PROVE  Op("dump") \in BoardOp /\ Op("dump").op = "board" /\ Sited(Op("dump").station)
  <2>1. Op("dump") \in BoardOp /\ Op("dump").op = "board"
    BY <1>2, <1>4 DEF BoardOp
  <2>2. 1 \in DOMAIN client["dump"].left /\ client["dump"].left[1] = Op("dump")
    BY <1>2, TailAt DEF Op
  <2>3. \A j \in 1..(1 - 1) : FALSE
    OBVIOUS
  <2> QED BY <2>1, <2>2, <2>3 DEF HomeAt, AtHome
<1> QED BY <1>2, <1>3, <1>4

\* The dump's statements leave its stations where they are, and write boards
\* only of a station that is in its system.
KeepsHomes ==
  /\ \A s \in Station : Settled(s) => Settled(s)'
  /\ \A b \in DOMAIN mine'["dump"].brd : b \in DOMAIN mine["dump"].brd \/ Settled(b[1])'

LEMMA ByIdHome ==
  ASSUME NEW nm, NEW O, HomeAt(nm, O), StationById("dump")
  PROVE  KeepsHomes
<1>1. PICK s, a, row : s = Op("dump").station /\ a = client["dump"].addr /\ row = StationRow("dump", s, a)
  OBVIOUS
<1>2. /\ Stage("dump") = "station" /\ StoresStation("dump", s, row)
      /\ Stage("dump") \in BoardStages /\ Stage("dump") \in WriteStages /\ Stage("dump") # "commit"
  BY <1>1 DEF StationById, Statement, StoresStation, BoardStages, WriteStages
<1>3. /\ Typed /\ "dump" \in Client /\ InBatch(O, "dump") /\ Filed("dump")
      /\ OwnNames(nm, "dump") /\ Aims(nm, "dump")
  BY DEF HomeAt, Owned, Own, Named, Client
<1>4. /\ Op("dump") \in BoardOp /\ s \in Station /\ Sited(s) /\ s \notin client["dump"].out
      /\ Op("dump").name = nm[Home[s]]
  <2>1. Op("dump") \in BoardOp /\ Op("dump").op = "board" /\ Sited(s) /\ AgreesAsDump(nm, Op("dump"))
    BY <1>1, <1>2, HomeOps
  <2> QED BY <1>1, <1>2, <2>1 DEF BoardOp, AgreesAsDump, HomeAt, AtHome
<1>5. Settled(s)
  BY <1>4 DEF Sited
<1>6. a = At(Home[s])
  <2>1. At(Home[s]) \in Address /\ Systems("dump")[At(Home[s])] # Nothing
    BY <1>2, <1>3, <1>5, SettledIsThere
  <2>2. a \in Address /\ Systems("dump")[a] # Nothing
    BY <1>1, <1>2, <1>3, Views DEF Filed
  <2>3. Called(nm, a) = nm[Home[s]] /\ Called(nm, At(Home[s])) = nm[Home[s]]
    BY <1>1, <1>2, <1>3, <1>4, RealName DEF Aims
  <2> QED BY <1>3, <2>1, <2>2, <2>3 DEF OwnNames, OneEach
<1>7. row \in StationRowType /\ row.system = a
  <2>1. a \in Address
    BY <1>1, <1>2, <1>3 DEF InBatch, Stage
  <2> QED BY <1>1, <1>3, <1>4, <2>1, StationRows
<1>8. /\ mine'["dump"].brd = mine["dump"].brd
      /\ DOMAIN mine'["dump"].stn = DOMAIN mine["dump"].stn \cup {s} /\ mine'["dump"].stn[s] = row
      /\ \A x \in DOMAIN mine["dump"].stn : x # s => mine'["dump"].stn[x] = mine["dump"].stn[x]
  BY <1>2, <1>3, <1>4, <1>7, WroteStation
<1> QED BY <1>6, <1>7, <1>8 DEF KeepsHomes, Settled

LEMMA EnsureHome ==
  ASSUME NEW nm, NEW O, HomeAt(nm, O), Ensure("dump")
  PROVE  KeepsHomes /\ \A s : s = Op("dump").station => Sited(s)'
<1>1. PICK s, a, row : s = Op("dump").station /\ a = At(Op("dump").addr) /\ row = StationRow("dump", s, a)
  OBVIOUS
<1>2. Stage("dump") = "ensure" /\ Stage("dump") # "commit" /\ Stage("dump") \notin Resting
  BY DEF Ensure, Statement, HomeAt
<1>3. Typed /\ "dump" \in Client /\ InBatch(O, "dump") /\ O \in Draws
  BY DEF HomeAt, Owned, Own, Client
<1>4. /\ Op("dump") \in EnsureOp /\ s \in Station /\ a \in Address /\ a = At(Home[s])
  <2>1. Op("dump") \in EnsureOp
    BY <1>2, <1>3, AtOp
  <2>2. Op("dump").op = "ensure" /\ Op("dump").station \in Station /\ Op("dump").addr \in Real
    BY <2>1 DEF EnsureOp
  <2>3. Op("dump").addr = Home[Op("dump").station]
    BY <1>2, <2>2, HomeOps DEF AgreesAsDump
  <2> QED BY <1>1, <2>1, <2>2, <2>3, RealAddress
<1>5. CASE Op("dump").addr \in unfiled
  <2>1. GoOnWithout("dump", client["dump"].out \cup {s}) /\ mine' = mine
    BY <1>1, <1>5 DEF Ensure
  <2>2. client'["dump"].out = client["dump"].out \cup {s}
    BY <1>3, <2>1 DEF GoOnWithout, Typed, Program
  <2> QED BY <1>1, <2>1, <2>2 DEF KeepsHomes, Settled, Sited
<1>6. CASE Op("dump").addr \notin unfiled
  <2>1. StoresStation("dump", s, row)
    BY <1>1, <1>6 DEF Ensure, StoresStation
  <2>2. row \in StationRowType /\ row.system = a
    BY <1>1, <1>3, <1>4, StationRows
  <2>3. /\ mine'["dump"].brd = mine["dump"].brd
        /\ DOMAIN mine'["dump"].stn = DOMAIN mine["dump"].stn \cup {s} /\ mine'["dump"].stn[s] = row
        /\ \A x \in DOMAIN mine["dump"].stn : x # s => mine'["dump"].stn[x] = mine["dump"].stn[x]
    BY <1>3, <1>4, <2>1, <2>2, WroteStation
  <2>4. Settled(s)'
    BY <1>4, <2>2, <2>3 DEF Settled
  <2>5. KeepsHomes
    BY <1>4, <2>2, <2>3 DEF KeepsHomes, Settled
  <2> QED BY <1>1, <2>4, <2>5 DEF Sited
<1> QED BY <1>5, <1>6

LEMMA WriteHome ==
  ASSUME NEW nm, NEW O, HomeAt(nm, O), Write("dump")
  PROVE  KeepsHomes
<1>1. PICK s, p : s = Op("dump").station /\ p = Op("dump").product
  OBVIOUS
<1>2. PICK b : b = <<s, p>>
  OBVIOUS
<1>3. /\ Stage("dump") = "write" /\ StoresBoard("dump")
      /\ Stage("dump") \in BoardStages /\ Stage("dump") \in WriteStages /\ Stage("dump") # "commit"
  BY DEF Write, Statement, StoresBoard, BoardStages, WriteStages
<1>4. Typed /\ "dump" \in Client /\ Standing("dump")
  BY DEF HomeAt, Owned, Own, Client
<1>5. /\ Op("dump") \in BoardOp /\ s \in Station /\ p \in Product /\ Settled(s)
      /\ Stations("dump")[s] # Nothing
  <2>1. Op("dump") \in BoardOp /\ Sited(s)
    BY <1>1, <1>3, HomeOps
  <2>2. s \notin client["dump"].out
    BY <1>1, <1>3 DEF HomeAt, AtHome
  <2> QED BY <1>1, <1>3, <1>4, <2>1, <2>2 DEF BoardOp, Sited, Standing
<1>6. /\ DOMAIN mine'["dump"].stn = DOMAIN mine["dump"].stn \cup {s}
      /\ \A x \in DOMAIN mine["dump"].stn : x # s => mine'["dump"].stn[x] = mine["dump"].stn[x]
      /\ mine'["dump"].stn[s].system = Stations("dump")[s].system
      /\ DOMAIN mine'["dump"].brd = DOMAIN mine["dump"].brd \cup {b}
  BY <1>1, <1>2, <1>3, <1>4, <1>5, WroteBoard
<1>7. Stations("dump")[s].system = At(Home[s])
  BY <1>4, <1>5, Views DEF Settled
<1>8. Settled(s)' /\ \A x \in Station : Settled(x) => Settled(x)'
  BY <1>6, <1>7 DEF Settled
<1>9. b[1] = s
  BY <1>2
<1> QED BY <1>6, <1>8, <1>9 DEF KeepsHomes

LEMMA CascadeHome ==
  ASSUME NEW nm, NEW O, HomeAt(nm, O), Cascade("dump")
  PROVE  KeepsHomes
<1>1. PICK to, p : to = At(Op("dump").addr) /\ p = client["dump"].addr
  OBVIOUS
<1>2. Stage("dump") = "cascade" /\ MovesStations("dump")
  BY DEF Cascade, Statement, MovesStations
<1>3. Typed /\ "dump" \in Client /\ ~p.real /\ O \in Draws /\ InBatch(O, "dump")
  BY <1>1, <1>2 DEF HomeAt, Owned, Own, Named, Aims, Client
<1>4. to \in Address
  <2>1. Stage("dump") \in SourceStages /\ Stage("dump") \notin Resting \cup {"commit"}
    BY <1>2 DEF SourceStages, Resting
  <2>2. Op("dump") \in SourceOp
    BY <1>3, <2>1, AtOp
  <2> QED BY <1>1, <2>2, RealAddress DEF SourceOp
<1>5. /\ mine'["dump"].brd = mine["dump"].brd
      /\ DOMAIN mine'["dump"].stn = DOMAIN mine["dump"].stn \cup Moved("dump")
      /\ \A s \in DOMAIN mine["dump"].stn \ Moved("dump") : mine'["dump"].stn[s] = mine["dump"].stn[s]
  BY <1>1, <1>2, <1>3, <1>4, WroteCascade
<1>6. \A s : Settled(s) => s \notin Moved("dump")
  <2>1. \A s : Settled(s) => Stations("dump")[s].system = At(Home[s])
    BY <1>3, Views DEF Settled
  <2>2. \A s \in Moved("dump") : Stations("dump")[s].system = p
    BY <1>1 DEF Moved
  <2>3. \A s : At(Home[s]).real
    BY DEF At
  <2> QED BY <1>3, <2>1, <2>2, <2>3
<1> QED BY <1>5, <1>6 DEF KeepsHomes, Settled

\* Where a statement takes the dump: it stays at its operation, or goes on with
\* no station less left out.
StaysOn ==
  /\ client'["dump"].left = client["dump"].left /\ client'["dump"].out = client["dump"].out
  /\ Stage("dump")' \in WriteStages => Stage("dump") \in WriteStages
PassesOn(out) ==
  /\ out \in SUBSET Station /\ client["dump"].out \subseteq out /\ GoOnWithout("dump", out)

LEMMA DumpMoves ==
  ASSUME NEW nm, NEW O, HomeAt(nm, O), Running("dump")
  PROVE  StaysOn \/ \E out : PassesOn(out)
<1>1. /\ Typed /\ "dump" \in Client /\ client["dump"].out \in SUBSET Station
      /\ O \in Draws /\ InBatch(O, "dump")
  BY DEF HomeAt, Owned, Own, Typed, Program, Client
<1>2. ASSUME NEW x, Goto("dump", x) \/ \E a : GotoAt("dump", x, a)
      PROVE  /\ client'["dump"].left = client["dump"].left
             /\ client'["dump"].out = client["dump"].out /\ Stage("dump")' = x
  BY <1>1, <1>2 DEF Goto, GotoAt, Stage, Typed, Program
<1>3. ASSUME GoOn("dump") PROVE PassesOn(client["dump"].out)
  BY <1>1, <1>3 DEF GoOn, PassesOn
<1>4. CASE BoardSystem("dump")
  BY <1>2, <1>4 DEF BoardSystem, SystemAddressFor, Statement, StaysOn, WriteStages
<1>5. CASE HeldByName("dump") \/ Held("dump")
  BY <1>2, <1>3, <1>5 DEF HeldByName, Held, SystemAddressFor, StaysOn, WriteStages
<1>6. CASE StationById("dump") \/ StationByName("dump")
  BY <1>2, <1>3, <1>6 DEF StationById, StationByName, Statement, StaysOn, WriteStages
<1>7. CASE Fresh("dump")
  BY <1>2, <1>3, <1>7 DEF Fresh, Statement, StaysOn, WriteStages
<1>8. CASE Write("dump") \/ LeaveOut("dump") \/ Push("dump")
  BY <1>3, <1>8 DEF Write, LeaveOut, Push
<1>12. CASE Journal("dump") \/ Insert("dump")
  <2>1. PICK a : GotoAt("dump", "push", a) \/ GoOn("dump")
    BY <1>12 DEF Journal, Insert, Upsert
  <2> QED BY <1>2, <1>3, <2>1 DEF StaysOn, WriteStages
<1>9. CASE Migrate("dump")
  BY <1>2, <1>9 DEF Migrate, StaysOn, WriteStages
<1>10. CASE Cascade("dump") \/ Taken("dump")
  BY <1>2, <1>3, <1>10 DEF Cascade, Taken, StaysOn, WriteStages
<1>11. CASE Ensure("dump")
  <2>1. Op("dump") \in EnsureOp
    <3>1. Stage("dump") = "ensure" /\ Stage("dump") \notin Resting \cup {"commit"}
      BY <1>11 DEF Ensure, Statement, HomeAt
    <3> QED BY <1>1, <3>1, AtOp
  <2>2. client["dump"].out \cup {Op("dump").station} \in SUBSET Station
    BY <1>1, <2>1 DEF EnsureOp
  <2>3. CASE Op("dump").addr \in unfiled
    <3>1. GoOnWithout("dump", client["dump"].out \cup {Op("dump").station})
      BY <1>11, <2>3 DEF Ensure
    <3>2. PassesOn(client["dump"].out \cup {Op("dump").station})
      BY <2>2, <3>1 DEF PassesOn
    <3> QED BY <3>2
  <2>4. CASE Op("dump").addr \notin unfiled
    BY <1>3, <1>11, <2>4 DEF Ensure
  <2> QED BY <2>3, <2>4
<1> QED BY <1>4, <1>5, <1>6, <1>7, <1>8, <1>9, <1>10, <1>11, <1>12 DEF Running

LEMMA DumpKeepsHomes ==
  ASSUME NEW nm, NEW O, HomeAt(nm, O), Running("dump")
  PROVE  KeepsHomes /\ \A s : Founds(Op("dump"), s) => Sited(s)' \/ StaysOn
<1>1. ASSUME \/ BoardSystem("dump") \/ HeldByName("dump") \/ Journal("dump") \/ Insert("dump")
             \/ Migrate("dump") \/ StationByName("dump") \/ Fresh("dump") \/ Held("dump")
             \/ Taken("dump") \/ LeaveOut("dump") \/ Push("dump")
      PROVE  KeepsHomes
  <2>1. Typed /\ "dump" \in Client
    BY DEF HomeAt, Owned, Client
  <2>2. mine'["dump"].stn = mine["dump"].stn /\ mine'["dump"].brd = mine["dump"].brd
    BY <1>1, <2>1, SystemsOnly
  <2>3. \A s : Settled(s) => Settled(s)'
    BY <2>2 DEF Settled
  <2>4. DOMAIN mine'["dump"].brd = DOMAIN mine["dump"].brd
    BY <2>2
  <2> QED BY <2>3, <2>4 DEF KeepsHomes
<1>2. KeepsHomes
  BY <1>1, ByIdHome, EnsureHome, WriteHome, CascadeHome DEF Running
<1>3. CASE Ensure("dump")
  BY <1>2, <1>3, EnsureHome DEF Founds
<1>4. CASE ~Ensure("dump")
  <2>1. /\ Stage("dump") \notin Resting \cup {"commit"}
        /\ Stage("dump") \in BoardStages \cup JournalStages \cup SourceStages \cup {"push"}
    BY <1>4 DEF Running, BoardSystem, HeldByName, SystemAddressFor, StationById, StationByName, Fresh,
                Write, Held, Journal, Insert, Upsert, Migrate, Cascade, Taken, LeaveOut, Push,
                Statement,
                Resting, BoardStages, JournalStages, SourceStages
  <2>2. Typed /\ "dump" \in Client /\ O \in Draws /\ InBatch(O, "dump")
    BY DEF HomeAt, Owned, Own, Client
  <2>3. Op("dump") \in BoardOp \cup JournalOp \cup SourceOp
    BY <2>1, <2>2, AtOp
  <2>4. Op("dump").op # "ensure"
    BY <2>3 DEF BoardOp, JournalOp, SourceOp
  <2> QED BY <1>2, <2>4 DEF Founds
<1> QED BY <1>3, <1>4

LEMMA RunningHome ==
  ASSUME NEW nm, NEW O, HomeAt(nm, O), Running("dump"), Shifts("dump"), Owned(O)'
  PROVE  AtHome'
<1>1. PICK L, T, out : L = client["dump"].left /\ T = Tail(L) /\ out = client["dump"].out
  OBVIOUS
<1>2. /\ KeepsHomes /\ \A s : Founds(Op("dump"), s) => Sited(s)' \/ StaysOn
      /\ StaysOn \/ \E o : PassesOn(o)
  BY DumpKeepsHomes, DumpMoves
<1>3. /\ Typed /\ "dump" \in Client /\ O \in Draws /\ client'["dump"].plan = client["dump"].plan
      /\ Stage("dump") \notin Resting /\ Stage("dump")' \notin Resting
      /\ L \in Seq(AnyOp)
  BY <1>1 DEF HomeAt, Owned, Shifts, Client, Typed, Program
<1>4. \A b \in DOMAIN mine'["dump"].brd : Settled(b[1])'
  <2>1. ASSUME NEW b \in DOMAIN mine["dump"].brd PROVE Settled(b[1])'
    <3>1. Settled(b[1])
      BY DEF HomeAt, AtHome
    <3>2. b[1] \in Station
      BY <1>3, <3>1, Views DEF Settled
    <3> QED BY <1>2, <3>1, <3>2 DEF KeepsHomes
  <2> QED BY <1>2, <2>1 DEF KeepsHomes
<1>5. \A i \in DOMAIN L : L[i].op = "board" => L[i].station \in Station
  BY <1>3 DEF AnyOp, FeedOp, DumpOp, BoardOp, JournalOp, SourceOp, EnsureOp
<1>6. CASE StaysOn
  <2>1. client'["dump"].left = L /\ client'["dump"].out = out /\ Op("dump")' = Op("dump")
    BY <1>1, <1>6 DEF StaysOn, Op
  <2>2. \A s \in Station : Sited(s) => Sited(s)'
    BY <1>1, <1>2, <2>1 DEF Sited, KeepsHomes
  <2>3. \A i \in DOMAIN L : L[i].op = "board" =>
          Sited(L[i].station)' \/ \E j \in 1..(i - 1) : Founds(L[j], L[i].station)
    BY <1>1, <1>3, <1>5, <2>2 DEF HomeAt, AtHome
  <2>4. Stage("dump")' \in WriteStages => Op("dump")'.station \notin client'["dump"].out
    BY <1>1, <1>6, <2>1 DEF HomeAt, AtHome, StaysOn
  <2>5. \A k \in DOMAIN client'["dump"].plan : Announced(client'["dump"].plan[k])
    BY <1>3 DEF HomeAt, AtHome
  <2> QED BY <1>3, <1>4, <2>1, <2>3, <2>4, <2>5 DEF AtHome
<1>7. ASSUME NEW o, PassesOn(o), ~StaysOn PROVE AtHome'
  <2>1. Stage("dump") # "commit"
    BY DEF Running, BoardSystem, HeldByName, SystemAddressFor, StationById, StationByName, Fresh,
           Write, Held, Journal, Insert, Upsert, Migrate, Cascade, Taken, Ensure, LeaveOut, Push,
           Statement
  <2>2. L # <<>> /\ Op("dump") = L[1]
    BY <1>1, <1>3, <2>1, HomeOps, TailAt DEF Op
  <2>3. T \in Seq(AnyOp) /\ T \in Seq(O["dump"])
    <3>1. InBatch(O, "dump") /\ L \in Seq(O["dump"])
      BY <1>1, <1>3 DEF HomeAt, Owned, Own, InBatch
    <3> QED BY <1>1, <1>3, <2>2, <3>1, HeadTailProperties
  <2>4. client'["dump"].left = T /\ client'["dump"].out = o /\ client'["dump"].stage = Enter(T, o)
    BY <1>1, <1>3, <1>7 DEF PassesOn, GoOnWithout, Typed, Program
  <2>5. \A s \in Station : Sited(s) => Sited(s)'
    BY <1>2, <1>7, <2>4 DEF Sited, KeepsHomes, PassesOn
  <2>6. \A i \in DOMAIN T : i \in Nat \ {0} /\ i + 1 \in DOMAIN L /\ T[i] = L[i + 1]
    <3>1. \A i \in DOMAIN Tail(L) : i \in Nat \ {0} /\ i + 1 \in DOMAIN L /\ Tail(L)[i] = L[i + 1]
      BY <1>3, <2>2, TailAt
    <3> QED BY <1>1, <3>1
  <2>7. ASSUME NEW i \in DOMAIN T, T[i].op = "board"
        PROVE  Sited(T[i].station)' \/ \E j \in 1..(i - 1) : Founds(T[j], T[i].station)
    <3>1. PICK s : s = T[i].station
      OBVIOUS
    <3>2. i \in Nat \ {0} /\ i + 1 \in DOMAIN L /\ L[i + 1].op = "board" /\ L[i + 1].station = s
      BY <2>6, <2>7, <3>1
    <3>3. s \in Station /\ (Sited(s) \/ \E j \in 1..(i + 1 - 1) : Founds(L[j], s))
      BY <1>1, <1>3, <1>5, <3>2 DEF HomeAt, AtHome
    <3>4. ASSUME NEW j \in 1..(i + 1 - 1), Founds(L[j], s)
          PROVE  Sited(s)' \/ \E m \in 1..(i - 1) : Founds(T[m], s)
      <4>1. CASE j = 1
        BY <1>2, <1>7, <2>2, <3>4, <4>1
      <4>2. CASE j # 1
        <5>1. j - 1 \in 1..(i - 1) /\ j - 1 \in DOMAIN T
          BY <2>3, <3>2, <4>2, LenProperties
        <5>2. T[j - 1] = L[j]
          BY <2>6, <3>2, <5>1
        <5> QED BY <3>4, <5>1, <5>2
      <4> QED BY <4>1, <4>2
    <3> QED BY <2>5, <3>1, <3>3, <3>4
  <2>8. Stage("dump")' \in WriteStages => Op("dump")'.station \notin o
    <3>1. SUFFICES ASSUME Stage("dump")' \in WriteStages PROVE Head(T).station \notin o
      BY <2>4 DEF Op
    <3>2. Enter(T, o) \in WriteStages /\ T # <<>>
      BY <2>4, <3>1 DEF Stage, Enter, WriteStages
    <3>3. Head(T) \in O["dump"] /\ Head(T) \in AnyOp
      BY <2>3, <3>2, HeadTailProperties
    <3>4. Head(T).op \in {"board", "journal", "source", "ensure"}
      BY <3>3 DEF AnyOp, FeedOp, DumpOp, BoardOp, JournalOp, SourceOp, EnsureOp
    <3>5. Head(T).op = "board" /\ ~(Head(T).byId /\ Head(T).station \in o)
      BY <3>2, <3>4 DEF Enter, WriteStages
    <3>6. Head(T).byId
      BY <3>3, <3>5 DEF HomeAt, Agreeing, AgreesAsDump
    <3> QED BY <3>5, <3>6
  <2>9. \A k \in DOMAIN client'["dump"].plan : Announced(client'["dump"].plan[k])
    BY <1>3 DEF HomeAt, AtHome
  <2> QED BY <1>3, <1>4, <2>4, <2>7, <2>8, <2>9 DEF AtHome
<1> QED BY <1>2, <1>6, <1>7

\* A dump that rests, or was never touched by the step, is at home as before.
LEMMA HomeElsewhere ==
  ASSUME AtHome, client'["dump"] = client["dump"], mine'["dump"] = mine["dump"]
  PROVE  AtHome'
BY DEF AtHome, Sited, Settled, Stage, Op

LEMMA HomeAtRest ==
  ASSUME mine'["dump"] = Untouched, Stage("dump")' \in Resting,
         \A k \in DOMAIN client'["dump"].plan : Announced(client'["dump"].plan[k]),
         Stage("dump")' # "broken" => client'["dump"].out = {}
  PROVE  AtHome'
<1>1. DOMAIN mine'["dump"].brd = {}
  BY UntouchedIsEmpty
<1>2. Stage("dump")' \notin WriteStages
  BY DEF Resting, WriteStages
<1> QED BY <1>1, <1>2 DEF AtHome

LEMMA HomeRejected ==
  ASSUME Typed, Rejected("dump"), mine'["dump"] = Untouched
  PROVE  AtHome'
<1>1. client["dump"] \in Program /\ "dump" \in DOMAIN client
  BY DEF Typed, Client
<1>2. client'["dump"].out = {} /\ client'["dump"].plan = <<>> /\ Stage("dump")' = "done"
  BY <1>1 DEF Rejected, Program, Stage
<1>3. \A k \in DOMAIN client'["dump"].plan : FALSE
  BY <1>2
<1> QED BY <1>2, <1>3, HomeAtRest, Rests

LEMMA HomeBegins ==
  ASSUME NEW O \in Draws, Owned(O), AtHome, Begin("dump"), Owned(O)', mine' = mine,
         Gone("dump"), Stage("dump") = "idle"
  PROVE  AtHome'
<1>1. PICK P, L : P = client["dump"].plan /\ L = Head(P)
  OBVIOUS
<1>2. /\ P \in Seq(Seq(AnyOp)) /\ P # <<>> /\ "dump" \in DOMAIN client
      /\ client["dump"] \in Program
      /\ \A k \in DOMAIN P : Announced(P[k])
      /\ client["dump"].out = {}
  BY <1>1, Rests DEF Owned, Typed, Program, Client, Begin, AtHome
<1>3. L \in Seq(AnyOp) /\ Announced(L)
  BY <1>1, <1>2, PlanHead, TailAt
<1>4. /\ client'["dump"].plan = P /\ client'["dump"].left = L /\ client'["dump"].out = {}
      /\ client'["dump"].stage = IF up THEN Enter(L, {}) ELSE "broken"
  BY <1>1, <1>2 DEF Begin, Program
<1>5. CASE ~up
  <2>1. Stage("dump")' = "broken"
    BY <1>4, <1>5 DEF Stage
  <2> QED BY <1>2, <1>4, <2>1, HomeAtRest, Rests DEF Gone
<1>6. CASE up
  <2>1. Stage("dump")' = Enter(L, {}) /\ Stage("dump")' \notin Resting
    <3>1. Stage("dump")' = Enter(L, {})
      BY <1>4, <1>6 DEF Stage
    <3>2. Enter(L, {}) \in FirstStages
      BY <1>3, Entering
    <3> QED BY <3>1, <3>2, BatchStages
  <2>2. DOMAIN mine'["dump"].brd = {}
    BY UntouchedIsEmpty DEF Gone
  <2> QED BY <1>2, <1>3, <1>4, <2>1, <2>2 DEF AtHome, Announced
<1> QED BY <1>5, <1>6

\* What a program signed stays its own.
LEMMA RunningSigned ==
  ASSUME NEW O \in Draws, StoreInv(O), NEW c \in Client, Signed(c), Running(c)
  PROVE  Signed(c)'
<1>1. Owned(O) /\ Typed /\ InBatch(O, c) /\ Standing(c)
  BY DEF StoreInv, Owned, Own
<1>2. (Carries(c) /\ LooksOn(c)) \/ FilesBoard(c)
  BY RunningShifts
<1>3. CASE Carries(c)
  BY <1>3 DEF Carries, Signed
<1>4. CASE FilesBoard(c)
  <2>1. Stage(c) = "write"
    BY <1>4 DEF FilesBoard
  <2>2. Stage(c) \in BoardStages /\ Stage(c) \notin Resting \cup {"commit"}
    BY <2>1 DEF BoardStages, Resting
  <2>3. Op(c) \in BoardOp
    BY <1>1, <2>2, AtOp
  <2>4. StoresBoard(c)
    BY <2>1 DEF Running, BoardSystem, HeldByName, SystemAddressFor, StationById, StationByName, Fresh,
                Write, Held, Journal, Insert, Upsert, Migrate, Cascade, Taken, Ensure, LeaveOut, Push,
                Statement, StoresBoard
  <2>5. PICK s, p : s = Op(c).station /\ p = Op(c).product
    OBVIOUS
  <2>6. PICK b : b = <<s, p>>
    OBVIOUS
  <2>7. s \in Station /\ p \in Product /\ Stations(c)[s] # Nothing
    BY <1>1, <2>1, <2>3, <2>5 DEF BoardOp, Standing
  <2>8. /\ DOMAIN mine'[c].brd = DOMAIN mine[c].brd \cup {b} /\ mine'[c].brd[b].by = c
        /\ \A x \in DOMAIN mine[c].brd : x # b => mine'[c].brd[x] = mine[c].brd[x]
    BY <1>1, <2>3, <2>4, <2>5, <2>6, <2>7, WroteBoard
  <2> QED BY <2>8 DEF Signed
<1> QED BY <1>2, <1>3, <1>4

LEMMA SignedEmpty == ASSUME NEW c, mine'[c] = Untouched PROVE Signed(c)'
BY UntouchedIsEmpty DEF Signed

LEMMA SignedElsewhere == ASSUME NEW c, mine'[c] = mine[c], Signed(c) PROVE Signed(c)'
BY DEF Signed

\* A step by which every transaction but those that are gone is what it was.
LEMMA GoneSigned ==
  ASSUME \A c \in Client : Signed(c), \A c \in Client : Gone(c) \/ mine'[c] = mine[c]
  PROVE  \A c \in Client : Signed(c)'
BY SignedEmpty, SignedElsewhere DEF Gone

\* Where a board of the dump is published.
PublishedHome ==
  \A b \in Board : (boards'[b] # boards[b] /\ boards'[b].by = "dump") =>
    LET where == stations'[b[1]].system
    IN  where.real => where.of = Home[b[1]]

LEMMA PublishingHome ==
  ASSUME Typed, NEW c \in Client, Homes, Publish(c)
  PROVE  PublishedHome
<1> SUFFICES ASSUME NEW b \in Board, boards'[b] # boards[b], boards'[b].by = "dump"
             PROVE  stations'[b[1]].system.of = Home[b[1]]
  BY DEF PublishedHome
<1>1. b \in DOMAIN mine[c].brd /\ boards'[b] = mine[c].brd[b] /\ stations' = Stations(c)
  BY PublishedTables
<1>2. c = "dump"
  BY <1>1 DEF Homes, Signed
<1>3. Settled(b[1])
  BY <1>1, <1>2 DEF Homes, AtHome
<1>4. Stations(c)[b[1]] = mine[c].stn[b[1]]
  BY <1>2, <1>3, Views DEF Settled
<1>5. stations'[b[1]].system = At(Home[b[1]])
  BY <1>1, <1>2, <1>3, <1>4 DEF Settled
<1> QED BY <1>5 DEF At

\* Every step keeps the dump's stations at home, and its boards are published there.
LEMMA HomesStep ==
  ASSUME NEW nm, NEW O \in Draws, Agreeing(nm, O), StoreInv(O), Named(nm), Homes, Next
  PROVE  Homes' /\ PublishedHome
<1>1. /\ Owned(O) /\ Typed /\ AtHome /\ \A c \in Client : Signed(c)
      /\ Owned(O)' /\ "dump" \in Client
  <2>1. StoreInv(O)'
    BY StoreStep
  <2> QED BY <2>1 DEF StoreInv, Owned, Homes, Client
<1>2. ASSUME UNCHANGED boards PROVE PublishedHome
  BY <1>2 DEF PublishedHome
<1>3. ASSUME NEW c \in Client, Commit(c) \/ CommitLost(c) PROVE Homes' /\ PublishedHome
  <2>1. Private(c) /\ Alone(c) /\ Gone(c) /\ Publish(c)
    BY <1>1, <1>3, CommitKeeps
  <2>2. PublishedHome
    BY <1>1, <2>1, PublishingHome
  <2>3. \A d \in Client : Signed(d)'
    BY <1>1, <2>1, GoneSigned DEF Private
  <2>4. CASE c # "dump"
    BY <1>1, <2>1, <2>2, <2>3, <2>4, HomeElsewhere DEF Alone, Private, Homes
  <2>5. CASE c = "dump" /\ CommitLost(c)
    <3>1. Rejected("dump")
      BY <2>5 DEF CommitLost, Fails
    <3> QED BY <1>1, <2>1, <2>2, <2>3, <2>5, <3>1, HomeRejected DEF Gone, Homes
  <2>6. CASE c = "dump" /\ Commit(c)
    <3>1. PICK P : P = client["dump"].plan
      OBVIOUS
    <3>2. /\ P \in Seq(Seq(AnyOp)) /\ P # <<>> /\ client["dump"] \in Program /\ "dump" \in DOMAIN client
          /\ \A k \in DOMAIN P : Announced(P[k])
      <4>1. InBatch(O, "dump") /\ Stage("dump") = "commit"
        BY <1>1, <2>6 DEF Owned, Own, Commit
      <4>2. P # <<>>
        BY <3>1, <4>1 DEF InBatch, Stage, Resting
      <4> QED BY <1>1, <3>1, <4>2 DEF Typed, Program, Client, AtHome
    <3>3. client'["dump"].plan = Tail(P) /\ client'["dump"].out = {} /\ client'["dump"].stage = "stars"
      BY <2>6, <3>1, <3>2 DEF Commit, Program
    <3>4. \A k \in DOMAIN Tail(P) : Announced(Tail(P)[k])
      BY <3>2, TailAt
    <3>5. mine'["dump"] = Untouched /\ Stage("dump")' = "stars"
      BY <2>1, <2>6, <3>3 DEF Gone, Stage
    <3>6. AtHome'
      BY <3>3, <3>4, <3>5, HomeAtRest, Rests
    <3> QED BY <2>2, <2>3, <3>6 DEF Homes
  <2> QED BY <1>3, <2>4, <2>5, <2>6
<1>4. ASSUME NEW c \in Client, Running(c) PROVE Homes' /\ PublishedHome
  <2>1. Shifts(c)
    BY <1>4, RunningShifts
  <2>2. PublishedHome
    BY <1>2, <2>1 DEF Shifts, tables
  <2>3. \A d \in Client : Signed(d)'
    BY <1>1, <1>4, <2>1, RunningSigned, SignedElsewhere DEF Shifts, Private
  <2>4. CASE c # "dump"
    BY <1>1, <2>1, <2>2, <2>3, <2>4, HomeElsewhere DEF Shifts, Alone, Private, Homes
  <2>5. CASE c = "dump"
    <3>1. HomeAt(nm, O)
      BY <1>1, <2>1, <2>5 DEF HomeAt, Shifts
    <3>2. AtHome'
      BY <1>1, <1>4, <2>1, <2>5, <3>1, RunningHome
    <3> QED BY <2>2, <2>3, <3>2 DEF Homes
  <2> QED BY <2>4, <2>5
<1>5. ASSUME NEW c \in Client, Broken(c) \/ Deadlock(c) \/ ConstraintFails(c) \/ JournalRejected(c) \/ InsertRejected(c)
      PROVE  Homes' /\ PublishedHome
  <2>1. UNCHANGED tables /\ Alone(c) /\ Private(c) /\ Gone(c)
    BY <1>1, <1>5, AbortsKeep
  <2>2. PublishedHome /\ \A d \in Client : Signed(d)'
    BY <1>1, <1>2, <2>1, GoneSigned DEF tables, Private
  <2>3. CASE c # "dump"
    BY <1>1, <2>1, <2>2, <2>3, HomeElsewhere DEF Alone, Private, Homes
  <2>4. CASE c = "dump"
    <3>1. Rejected("dump")
      BY <1>5, <2>4 DEF Broken, Deadlock, ConstraintFails, JournalRejected, InsertRejected, Rejects, Fails
    <3> QED BY <1>1, <2>1, <2>2, <2>4, <3>1, HomeRejected DEF Gone, Homes
  <2> QED BY <2>3, <2>4
<1>6. ASSUME NEW c \in Client, Begin(c) PROVE Homes' /\ PublishedHome
  <2>1. UNCHANGED tables /\ mine' = mine /\ Alone(c) /\ Gone(c) /\ Stage(c) = "idle"
    BY <1>1, <1>6, BeginKeeps
  <2>2. PublishedHome /\ \A d \in Client : Signed(d)'
    BY <1>1, <1>2, <2>1, GoneSigned DEF tables
  <2>3. CASE c # "dump"
    BY <1>1, <2>1, <2>2, <2>3, HomeElsewhere DEF Alone, Homes
  <2>4. CASE c = "dump"
    BY <1>1, <1>6, <2>1, <2>2, <2>4, HomeBegins DEF Homes
  <2> QED BY <2>3, <2>4
<1>7. CASE Dump
  <2>1. /\ UNCHANGED <<tables, mine>> /\ Gone("dump") /\ Stage("dump") \in {"stars", "complete"}
        /\ Stage("dump")' \in Resting /\ client'["dump"].plan = client["dump"].plan
    BY <1>1, <1>7, DumpKeeps
  <2>2. PublishedHome /\ \A d \in Client : Signed(d)'
    BY <1>1, <1>2, <2>1, GoneSigned DEF tables
  <2>3. client'["dump"].out = client["dump"].out /\ client["dump"].out = {}
    <3>1. client["dump"] \in Program /\ "dump" \in DOMAIN client
      BY <1>1 DEF Typed
    <3>2. client'["dump"].out = client["dump"].out
      BY <1>7, <3>1 DEF Dump, Stars, Complete, CompleteFails, Goto, Program
    <3> QED BY <1>1, <2>1, <3>2, Rests DEF AtHome
  <2>4. AtHome'
    BY <1>1, <2>1, <2>3, HomeAtRest DEF AtHome, Gone
  <2> QED BY <2>2, <2>4 DEF Homes
<1>8. CASE GoesDown
  <2>1. /\ UNCHANGED tables /\ \A c \in Client : Gone(c)
        /\ client'["dump"].plan = client["dump"].plan
    BY <1>1, <1>8, GoesDownKeeps
  <2>2. PublishedHome /\ \A d \in Client : Signed(d)'
    BY <1>1, <1>2, <2>1, GoneSigned DEF tables
  <2>3. /\ Stage("dump")' \in {"idle", "complete", "done", "broken"}
        /\ Stage("dump")' # "broken" => Stage("dump") \in {"idle", "complete", "done"}
        /\ client'["dump"].out = client["dump"].out
    <3>1. client["dump"] \in Program
      BY <1>1 DEF Typed
    <3> QED BY <1>1, <1>8, <3>1 DEF GoesDown, Stage, Program
  <2>4. AtHome'
    BY <1>1, <2>1, <2>3, HomeAtRest, Rests DEF AtHome, Gone
  <2> QED BY <2>2, <2>4 DEF Homes
<1>9. CASE ComesBack
  <2>1. UNCHANGED tables /\ mine' = mine /\ client' = client
    BY <1>9 DEF ComesBack
  <2> QED BY <1>1, <1>2, <2>1, HomeElsewhere, SignedElsewhere DEF tables, Homes
<1> QED BY <1>3, <1>4, <1>5, <1>6, <1>7, <1>8, <1>9 DEF Next, Step, Fault, Running

LEMMA HomesStutter ==
  ASSUME Homes, UNCHANGED vars
  PROVE  Homes' /\ PublishedHome
<1>1. UNCHANGED boards /\ mine' = mine /\ client' = client
  BY DEF vars, tables
<1> QED BY <1>1, HomeElsewhere, SignedElsewhere DEF Homes, PublishedHome

\* The plans agree on the name of each system, the feed's and the dump's, a
\* station of the dump is at home, and its boards come with it and name its
\* system.  Two systems may have one name.
Consistent ==
  \E nm \in [Real -> Name] :
    /\ \A c \in Client : \A k \in DOMAIN client[c].plan : \A i \in DOMAIN client[c].plan[k] :
         LET op == client[c].plan[k][i]
         IN  Agrees(nm, op) /\ (c = "dump" => AgreesAsDump(nm, op))
    /\ \A k \in DOMAIN client["dump"].plan : Announced(client["dump"].plan[k])

HomeInv(nm, O) == Agreeing(nm, O) /\ StoreInv(O) /\ Named(nm) /\ Homes

LEMMA HomesStart ==
  ASSUME Init, Consistent
  PROVE  \E nm \in [Real -> Name] : \E O \in Draws : HomeInv(nm, O)
<1>1. PICK f \in FeedPlan, d \in DumpPlan :
        /\ Drawn(f, d) \in Draws /\ StoreInv(Drawn(f, d))
        /\ client["feed"].plan = f /\ client["dump"].plan = d
  BY StoreStart
<1>2. PICK nm \in [Real -> Name] :
        /\ \A c \in Client : \A k \in DOMAIN client[c].plan : \A i \in DOMAIN client[c].plan[k] :
             /\ Agrees(nm, client[c].plan[k][i])
             /\ c = "dump" => AgreesAsDump(nm, client[c].plan[k][i])
        /\ \A k \in DOMAIN client["dump"].plan : Announced(client["dump"].plan[k])
  BY DEF Consistent
<1>3. PICK O : O = Drawn(f, d)
  OBVIOUS
<1>4. Agreeing(nm, O)
  <2>1. O["feed"] = Ops(f) /\ O["dump"] = Ops(d)
    BY <1>3 DEF Drawn, Client
  <2>2. \A op \in Ops(f) : Agrees(nm, op)
    BY <1>1, <1>2 DEF Ops, Client
  <2>3. \A op \in Ops(d) : Agrees(nm, op) /\ AgreesAsDump(nm, op)
    BY <1>1, <1>2 DEF Ops, Client
  <2> QED BY <2>1, <2>2, <2>3 DEF Agreeing, Client
<1>5. Named(nm)
  BY <1>1, NamedStart
<1>6. Homes
  <2>1. \A c \in Client : mine[c] = Untouched /\ client[c].stage = "idle" /\ client[c].out = {}
    BY DEF Init
  <2>2. \A c \in Client : DOMAIN mine[c].brd = {}
    BY <2>1, UntouchedIsEmpty
  <2>3. Stage("dump") = "idle" /\ client["dump"].out = {} /\ DOMAIN mine["dump"].brd = {}
    BY <2>1, <2>2 DEF Stage, Client
  <2>4. AtHome
    BY <1>2, <2>3, Rests DEF AtHome, WriteStages
  <2> QED BY <2>2, <2>4 DEF Homes, Signed
<1> QED BY <1>1, <1>3, <1>4, <1>5, <1>6 DEF HomeInv

LEMMA HomeInvStep ==
  ASSUME NEW nm, NEW O \in Draws, HomeInv(nm, O), [Next]_vars
  PROVE  HomeInv(nm, O)' /\ PublishedHome
<1>1. Agreeing(nm, O)'
  BY DEF HomeInv, Agreeing
<1>2. CASE Next
  <2>1. StoreInv(O)' /\ Named(nm)' /\ Homes' /\ PublishedHome
    BY <1>2, StoreStep, NamedStep, HomesStep DEF HomeInv
  <2> QED BY <1>1, <2>1 DEF HomeInv
<1>3. CASE UNCHANGED vars
  <2>1. StoreInv(O)' /\ Named(nm)' /\ Homes' /\ PublishedHome
    BY <1>3, StoreStutter, NamedStutter, HomesStutter DEF HomeInv
  <2> QED BY <1>1, <2>1 DEF HomeInv
<1> QED BY <1>2, <1>3

\* Whatever the two programs do at the same time and whatever fails, a board of
\* the dump is published under a station that stands in its own system, or in one
\* known by name only, and never under a system of the same name, also when the
\* dump brings two (ed-store postgres.rs, the upsert by name of a board; spansh.rs,
\* the systems left out because their name is taken).  The plans are consistent:
\* when the feed gives a system another name than the dump does, a later system
\* of the old name could be taken for it.
THEOREM BoardsAreAtHome == Spec /\ Consistent => OwnSystem
<1> DEFINE Inv == \E nm \in [Real -> Name] : \E O \in Draws : HomeInv(nm, O)
<1>1. Init /\ Consistent => Inv
  BY HomesStart
<1>2. Inv /\ [Next]_vars => Inv' /\ PublishedHome
  <2>1. ASSUME NEW nm \in [Real -> Name], NEW O \in Draws, HomeInv(nm, O), [Next]_vars
        PROVE  Inv' /\ PublishedHome
    BY <2>1, HomeInvStep
  <2> QED BY <2>1
<1>3. PublishedHome => [PublishedHome]_vars
  OBVIOUS
<1>4. [][PublishedHome]_vars => OwnSystem
  BY DEF OwnSystem, PublishedHome
<1> QED BY <1>1, <1>2, <1>3, <1>4, PTL DEF Spec
-----------------------------------------------------------------------------
(* The writer with no dump beside it.                                       *)

\* No two rows have one name, neither those that are committed nor those the writer
\* sees; the row it upserts is the only one that may hold the name, and what it is
\* at comes from its batch.
OneHolder == \A n : \A a, b \in Holders("feed", n) : a = b
OneCommitted == \A n : \A a, b \in HoldersIn(systems, n) : a = b
AimsAtHolder ==
  Stage("feed") = "journal" => Holders("feed", Op("feed").name) \subseteq {client["feed"].addr}
FromBatch(me) ==
  me.stage # "idle" =>
    \A i \in DOMAIN me.left : \E k \in DOMAIN Head(me.plan) : me.left[i] = Head(me.plan)[k]
Untroubled ==
  /\ up /\ Stage("feed") # "broken" /\ FromBatch(client["feed"])
  /\ OneHolder /\ OneCommitted /\ AimsAtHolder
Undisturbed == faults \in Nat /\ (NoDump /\ faults = 0 => Untroubled)

\* No attempt of the writer's ends in a failure.
FailsNot == client'["feed"].attempts <= client["feed"].attempts /\ dropped' = dropped

\* Where a statement leaves its program.
Moves(c) ==
  \/ \E stage : Goto(c, stage)
  \/ \E stage, a : GotoAt(c, stage, a)
  \/ \E out : GoOnWithout(c, out)

LEMMA RunningIsNoFailure ==
  ASSUME Typed, NEW c \in Client, Running(c)
  PROVE  Moves(c) /\ client'[c].attempts = client[c].attempts /\ UNCHANGED <<dropped, up, faults>>
<1>1. Moves(c) /\ UNCHANGED <<dropped, up, faults>>
  <2>1. CASE BoardSystem(c) \/ HeldByName(c)
    BY <2>1 DEF BoardSystem, HeldByName, SystemAddressFor, Statement, Moves
  <2>2. CASE StationById(c) \/ StationByName(c)
    BY <2>2 DEF StationById, StationByName, Statement, GoOn, Moves
  <2>3. CASE Fresh(c) \/ Write(c)
    BY <2>3 DEF Fresh, Write, Statement, GoOn, Moves
  <2>4. CASE Held(c)
    BY <2>4 DEF Held, Statement, GoOn, Moves
  <2>5. CASE Journal(c) \/ Insert(c)
    BY <2>5 DEF Journal, Insert, Upsert, Statement, GoOn, Moves
  <2>6. CASE Migrate(c) \/ Cascade(c)
    BY <2>6 DEF Migrate, Cascade, Statement, Moves
  <2>7. CASE Taken(c)
    BY <2>7 DEF Taken, Statement, GoOn, Moves
  <2>8. CASE Ensure(c)
    BY <2>8 DEF Ensure, Statement, GoOn, Moves
  <2>9. CASE LeaveOut(c) \/ Push(c)
    BY <2>9 DEF LeaveOut, Push, Statement, GoOn, Moves
  <2> QED BY <2>1, <2>2, <2>3, <2>4, <2>5, <2>6, <2>7, <2>8, <2>9 DEF Running
<1>2. client \in [Client -> Program]
  BY DEF Typed
<1>3. ASSUME NEW stage, Goto(c, stage) PROVE client'[c].attempts = client[c].attempts
  BY <1>2, <1>3 DEF Goto, Program
<1>4. ASSUME NEW stage, NEW a, GotoAt(c, stage, a) PROVE client'[c].attempts = client[c].attempts
  BY <1>2, <1>4 DEF GotoAt, Program
<1>5. ASSUME NEW out, GoOnWithout(c, out) PROVE client'[c].attempts = client[c].attempts
  <2>1. PICK first : first = Enter(Tail(client[c].left), out)
    OBVIOUS
  <2>2. client' = [client EXCEPT ![c].left = Tail(@), ![c].out = out, ![c].stage = first]
    BY <1>5, <2>1 DEF GoOnWithout
  <2> QED BY <1>2, <2>2 DEF Program
<1> QED BY <1>1, <1>3, <1>4, <1>5 DEF Moves

LEMMA HoldersAre ==
  ASSUME NEW c, NEW n, NEW a
  PROVE  /\ a \in Holders(c, n) <=> a \in Address /\ Systems(c)[a] # Nothing /\ Systems(c)[a].name = n
         /\ a \in Holders(c, n)' <=> a \in Address /\ Systems(c)'[a] # Nothing /\ Systems(c)'[a].name = n
BY DEF Holders, HoldersIn

\* One row is written, whose name no other row holds.
LEMMA OneRow ==
  ASSUME OneHolder, NEW a \in Address, NEW row, Systems("feed")'[a] = row,
         \A x \in Address : x # a => Systems("feed")'[x] = Systems("feed")[x],
         \A x \in Holders("feed", row.name) : x = a
  PROVE  OneHolder'
<1>1. ASSUME NEW n, NEW x, NEW y, x \in Holders("feed", n)', y \in Holders("feed", n)', x # a
      PROVE  x = y
  <2>1. x \in Holders("feed", n)
    BY <1>1, HoldersAre
  <2>2. CASE y = a
    BY <1>1, <2>1, <2>2, HoldersAre
  <2>3. CASE y # a
    <3>1. y \in Holders("feed", n)
      BY <1>1, <2>3, HoldersAre
    <3> QED BY <2>1, <3>1 DEF OneHolder
  <2> QED BY <2>2, <2>3
<1>2. ASSUME NEW n, NEW x \in Holders("feed", n)', NEW y \in Holders("feed", n)' PROVE x = y
  BY <1>1, <1>2
<1> QED BY <1>2 DEF OneHolder

LEMMA SameHolders ==
  ASSUME OneHolder, \A a \in Address : Systems("feed")'[a] = Systems("feed")[a]
  PROVE  OneHolder' /\ \A n : \A a : a \in Holders("feed", n)' <=> a \in Holders("feed", n)
<1>1. \A n : \A a : a \in Holders("feed", n)' <=> a \in Holders("feed", n)
  BY HoldersAre
<1> QED BY <1>1 DEF OneHolder

LEMMA ByNameAims ==
  ASSUME NEW O \in Draws, StoreInv(O), StoreInv(O)', OneHolder, NEW stage, NEW next,
         \/ stage = "system" /\ next = "station"
         \/ stage = "held" /\ next = "journal",
         SystemAddressFor("feed", stage, next)
  PROVE  OneHolder' /\ AimsAtHolder' /\ Stage("feed")' # "broken"
<1> DEFINE c == "feed"
<1>1. PICK n, a : n = Op(c).name /\ a = AddressFor(c, n)
  OBVIOUS
<1>2. PICK row : row = IF Systems(c)[a] = Nothing THEN NewSystem(n) ELSE Systems(c)[a]
  OBVIOUS
<1>3. /\ Statement(c, stage) /\ ByName(c) /\ StoresSystem(c, a, row) /\ GotoAt(c, next, a)
  BY <1>1, <1>2 DEF SystemAddressFor, StoresSystem
<1>4. c \in Client /\ Typed /\ Typed' /\ Disjoint /\ InBatch(O, c)
  BY DEF StoreInv, Owned, Own, Client
<1>5. Stage(c) = stage /\ UNCHANGED tables
  BY <1>3, <1>4, Statements
<1>6. /\ Stage(c) \notin Resting \cup {"commit"} /\ next \in Stages
      /\ stage = "system" => Stage(c) \in BoardStages
      /\ stage = "held" => Stage(c) \in JournalStages
  BY <1>5 DEF Resting, Stages, BoardStages, JournalStages
<1>7. n \in Name
  <2>1. Op(c) \in BoardOp \/ Op(c) \in JournalOp
    BY <1>4, <1>6, AtOp
  <2> QED BY <1>1, <2>1 DEF BoardOp, JournalOp
<1>8. a \in Address /\ (Holders(c, n) # {} => a \in Holders(c, n))
  <2>1. Holders(c, n) # {} => (CHOOSE x \in Holders(c, n) : TRUE) \in Holders(c, n)
    OBVIOUS
  <2> QED BY <1>1, <1>4, <1>7, <2>1, AddressesFound DEF AddressFor
<1>9. row \in SystemRow /\ \A x \in Holders(c, row.name) : x = a
  <2>1. CASE Systems(c)[a] = Nothing
    <3>1. row \in SystemRow /\ row.name = n
      BY <1>2, <1>7, <2>1 DEF NewSystem, SystemRow
    <3>2. Holders(c, n) = {}
      BY <1>8, <2>1, HoldersAre
    <3> QED BY <3>1, <3>2
  <2>2. CASE Systems(c)[a] # Nothing
    <3>1. row = Systems(c)[a] /\ row \in SystemRow
      BY <1>2, <1>4, <1>8, <2>2, Views
    <3>2. a \in Holders(c, row.name)
      BY <1>8, <2>2, <3>1, HoldersAre
    <3> QED BY <3>1, <3>2 DEF OneHolder
  <2> QED BY <2>1, <2>2
<1>10. /\ DOMAIN mine'[c].sys = DOMAIN mine[c].sys \cup {a} /\ mine'[c].sys[a] = row
       /\ \A x \in DOMAIN mine[c].sys : x # a => mine'[c].sys[x] = mine[c].sys[x]
  BY <1>3, <1>4, <1>8, <1>9, WroteSystem
<1>11. Systems(c)'[a] = row /\ \A x \in Address : x # a => Systems(c)'[x] = Systems(c)[x]
  BY <1>4, <1>5, <1>8, <1>10, Views, ViewsNext DEF tables
<1>12. OneHolder'
  BY <1>8, <1>9, <1>11, OneRow
<1>13. client'[c].stage = next /\ client'[c].addr = a /\ client'[c].left = client[c].left
  BY <1>3, <1>4, <1>6, <1>8, GoesAt
<1>14. Holders(c, n)' \subseteq {a}
  <2>1. ASSUME NEW x \in Holders(c, n)', x # a PROVE FALSE
    <3>1. x \in Holders(c, n)
      BY <1>11, <2>1, HoldersAre
    <3> QED BY <1>8, <2>1, <3>1 DEF OneHolder
  <2> QED BY <2>1
<1>15. Op(c)'.name = n /\ Stage(c)' = next
  BY <1>1, <1>13 DEF Op, Stage
<1> QED BY <1>12, <1>13, <1>14, <1>15 DEF AimsAtHolder

LEMMA HeldAims ==
  ASSUME NEW O \in Draws, StoreInv(O), OneHolder, Held("feed")
  PROVE  OneHolder' /\ AimsAtHolder' /\ Stage("feed")' # "broken"
<1> DEFINE c == "feed"
<1>1. PICK n, real : n = Op(c).name /\ real = At(Op(c).addr)
  OBVIOUS
<1>2. /\ Statement(c, "held") /\ mine' = mine
      /\ IF HeldAddress(c) = Nothing THEN GoOnWithout(c, client[c].out)
         ELSE GotoAt(c, "journal", HeldAddress(c))
  BY DEF Held, GoOn
<1>3. c \in Client /\ Owned(O) /\ Typed /\ Disjoint /\ InBatch(O, c) /\ client[c].out \in SUBSET Station
  BY OutIsKnown DEF StoreInv, Owned, Own, Client
<1>4. Stage(c) = "held" /\ UNCHANGED tables
  BY <1>2, <1>3, Statements
<1>5. Systems(c)' = Systems(c)
  BY <1>2, <1>4 DEF Systems, tables
<1>6. OneHolder' /\ \A a : a \in Holders(c, n)' <=> a \in Holders(c, n)
  BY <1>5, SameHolders
<1>7. CASE HeldAddress(c) = Nothing
  <2>1. Stage(c) \notin Resting \cup {"commit"}
    BY <1>4 DEF Resting
  <2>2. client'[c].stage \in FirstStages
    BY <1>2, <1>3, <1>7, <2>1, GoesOn
  <2> QED BY <1>6, <2>2 DEF AimsAtHolder, Stage, FirstStages
<1>8. CASE HeldAddress(c) # Nothing
  <2>1. PICK H, a : H = Holders(c, n) \ {real} /\ a = HeldAddress(c)
    OBVIOUS
  <2>2. a = IF H = {} THEN real
            ELSE IF \E x \in H : ~x.real THEN CHOOSE x \in H : ~x.real ELSE Nothing
    BY <1>1, <2>1 DEF HeldAddress
  <2>3. Holders(c, n) \subseteq {a}
    <3>1. CASE H = {}
      BY <2>1, <2>2, <3>1
    <3>2. CASE H # {}
      <4>1. \E x \in H : ~x.real
        BY <1>8, <2>1, <2>2, <3>2
      <4>2. a \in H
        BY <2>2, <3>2, <4>1
      <4> QED BY <2>1, <4>2 DEF OneHolder
    <3> QED BY <3>1, <3>2
  <2>4. client'[c].stage = "journal" /\ client'[c].addr = a /\ client'[c].left = client[c].left
    <3>1. GotoAt(c, "journal", a) /\ client[c] \in Program /\ c \in DOMAIN client
      BY <1>2, <1>3, <1>8, <2>1 DEF Typed
    <3> QED BY <3>1 DEF GotoAt, Program
  <2>5. Stage(c)' = "journal" /\ Op(c)'.name = n
    BY <1>1, <2>4 DEF Stage, Op
  <2> QED BY <1>6, <2>3, <2>4, <2>5 DEF AimsAtHolder
<1> QED BY <1>7, <1>8

LEMMA JournalAims ==
  ASSUME NEW O \in Draws, StoreInv(O), StoreInv(O)', OneHolder, Journal("feed")
  PROVE  OneHolder' /\ AimsAtHolder' /\ Stage("feed")' # "broken"
<1> DEFINE c == "feed"
<1>1. PICK a : a = client[c].addr
  OBVIOUS
<1>2. /\ Statement(c, "journal") /\ mine' = [mine EXCEPT ![c] = Upserts(c, a)]
      /\ GotoAt(c, "push", a) \/ GoOnWithout(c, client[c].out)
      /\ ~Duplicate(c, a)
  BY <1>1 DEF Journal, Upsert, GoOn
<1>3. /\ c \in Client /\ Owned(O) /\ Typed /\ Typed' /\ Disjoint /\ InBatch(O, c)
      /\ client[c].out \in SUBSET Station
  BY OutIsKnown DEF StoreInv, Owned, Own, Client
<1>4. Stage(c) = "journal" /\ UNCHANGED tables
  BY <1>2, <1>3, Statements
<1>5. Stage(c) \notin Resting \cup {"commit"} /\ Stage(c) \in JournalStages
  BY <1>4 DEF Resting, JournalStages
<1>6. Op(c) \in JournalOp /\ a \in Address
  BY <1>1, <1>3, <1>4, <1>5, AtOp DEF InBatch, Stage
<1>7. AimsAtHolder' /\ Stage(c)' # "broken"
  <2>1. client'[c].stage \in FirstStages \cup {"push"}
    <3>1. CASE GoOnWithout(c, client[c].out)
      BY <1>3, <1>5, <3>1, GoesOn
    <3>2. CASE GotoAt(c, "push", a)
      BY <1>3, <1>6, <3>2, GoesAt, BatchStages
    <3> QED BY <1>2, <3>1, <3>2
  <2> QED BY <2>1 DEF AimsAtHolder, Stage, FirstStages
<1>8. OneHolder'
  <2>1. CASE ~Wins(c, a, Op(c))
    <3>1. mine' = mine
      BY <1>2, <1>3, <2>1 DEF Upserts, Typed
    <3>2. Systems(c)' = Systems(c)
      BY <1>4, <3>1 DEF Systems, tables
    <3> QED BY <3>2, SameHolders
  <2>2. CASE Wins(c, a, Op(c))
    <3>1. PICK was : was = IF Systems(c)[a] = Nothing THEN NewSystem(Op(c).name) ELSE Systems(c)[a]
      OBVIOUS
    <3>2. was \in SystemRow
      <4>1. NewSystem(Op(c).name) \in SystemRow
        BY <1>6 DEF NewSystem, SystemRow, JournalOp
      <4> QED BY <1>3, <1>6, <3>1, <4>1, Views
    <3>3. PICK new, row :
            /\ new = [was EXCEPT !.name = Op(c).name, !.cell = CellOf(Op(c), was)]
            /\ row = [new EXCEPT !.eddn = Op(c).at]
      OBVIOUS
    <3>4. row \in SystemRow /\ row.name = Op(c).name
      <4>1. CellOf(Op(c), was) \in Cell \cup {Nothing}
        BY <1>6, <3>2 DEF CellOf, SystemRow, JournalOp
      <4>2. new \in SystemRow /\ new.name = Op(c).name
        BY <1>6, <3>2, <3>3, <4>1 DEF SystemRow, JournalOp
      <4> QED BY <1>6, <3>3, <4>2 DEF SystemRow, JournalOp
    <3>5. StoresSystem(c, a, row)
      BY <1>2, <1>6, <2>2, <3>1, <3>3 DEF Upserts, StoresSystem, JournalOp
    <3>6. /\ DOMAIN mine'[c].sys = DOMAIN mine[c].sys \cup {a} /\ mine'[c].sys[a] = row
          /\ \A x \in DOMAIN mine[c].sys : x # a => mine'[c].sys[x] = mine[c].sys[x]
      BY <1>3, <1>6, <3>4, <3>5, WroteSystem
    <3>7. Systems(c)'[a] = row /\ \A x \in Address : x # a => Systems(c)'[x] = Systems(c)[x]
      BY <1>3, <1>4, <1>6, <3>6, Views, ViewsNext DEF tables
    <3>8. \A x \in Holders(c, row.name) : x = a
      BY <1>2, <2>2, <3>4 DEF Duplicate
    <3> QED BY <1>6, <3>7, <3>8, OneRow
  <2> QED BY <2>1, <2>2
<1> QED BY <1>7, <1>8

\* Writing a station or a board leaves the systems written so far.
LEMMA SystemsApart ==
  ASSUME NEW A, NEW B, NEW C, NEW r \in [sys : A, stn : B, brd : C], NEW x, NEW y
  PROVE  [[r EXCEPT !.stn = x] EXCEPT !.brd = y].sys = r.sys
OBVIOUS

\* The other statements of the writer file no system.
LEMMA StationsOnly ==
  ASSUME NEW O \in Draws, StoreInv(O), StoreInv(O)', OneHolder,
         \/ StationById("feed") \/ StationByName("feed") \/ Fresh("feed") \/ Write("feed")
         \/ LeaveOut("feed") \/ Push("feed")
  PROVE  OneHolder' /\ AimsAtHolder' /\ Stage("feed")' # "broken"
<1> DEFINE c == "feed"
<1>1. c \in Client /\ Owned(O) /\ Typed /\ InBatch(O, c) /\ client[c].out \in SUBSET Station
  BY OutIsKnown DEF StoreInv, Owned, Own, Client
<1>2. /\ Running(c) /\ Stage(c) \in {"station", "fresh", "write", "out", "push"}
      /\ \/ GoOnWithout(c, client[c].out)
         \/ \E stage \in {"fresh", "write"} : Goto(c, stage)
  BY DEF Running, StationById, StationByName, Fresh, Write, LeaveOut, Push, Statement, GoOn
<1>3. UNCHANGED tables
  BY <1>1, <1>2, RunningShifts DEF Shifts
<1>4. mine'[c].sys = mine[c].sys
  <2>1. CASE StationById(c)
    <3>1. mine' = [mine EXCEPT ![c] = WriteStation(c, Op(c).station, StationRow(c, Op(c).station, client[c].addr))]
      BY <2>1 DEF StationById
    <3> QED BY <1>1, <3>1 DEF WriteStation, Typed, Transaction
  <2>2. CASE Write(c)
    <3>1. PICK s, b, row : Replace(c) = [WriteStation(c, s, row) EXCEPT !.brd = b]
      <4>1. PICK s, p, row, o :
              /\ s = Op(c).station /\ p = Op(c).product
              /\ row = [Stations(c)[s] EXCEPT !.mark[p] = Op(c).at]
              /\ o = [at |-> Op(c).at, by |-> c]
        OBVIOUS
      <4>2. Replace(c) = [WriteStation(c, s, row) EXCEPT !.brd = Put(@, <<s, p>>, o)]
        BY <4>1 DEF Replace
      <4>3. Replace(c) = [WriteStation(c, s, row) EXCEPT !.brd = Put(WriteStation(c, s, row).brd, <<s, p>>, o)]
        BY <4>2
      <4> QED BY <4>3
    <3>2. mine' = [mine EXCEPT ![c] = Replace(c)]
      BY <2>2 DEF Write
    <3>3. Replace(c).sys = mine[c].sys
      <4>1. mine[c] \in [sys : Writes(Address, SystemRow \cup {Nothing}),
                         stn : Writes(Station, StationRowType),
                         brd : Writes(Board, Observation)]
        BY <1>1 DEF Typed, Transaction
      <4>2. Replace(c) = [[mine[c] EXCEPT !.stn = Put(mine[c].stn, s, row)] EXCEPT !.brd = b]
        BY <3>1 DEF WriteStation
      <4> HIDE DEF c
      <4> QED BY <4>1, <4>2, SystemsApart
    <3>4. mine'[c] = Replace(c)
      BY <1>1, <3>2 DEF Typed
    <3> QED BY <3>3, <3>4
  <2>3. CASE StationByName(c) \/ Fresh(c) \/ LeaveOut(c) \/ Push(c)
    BY <2>3 DEF StationByName, Fresh, LeaveOut, Push
  <2> QED BY <2>1, <2>2, <2>3
<1>5. Systems(c)' = Systems(c)
  BY <1>3, <1>4 DEF Systems, tables
<1>6. client'[c].stage \in FirstStages \cup {"fresh", "write"}
  <2>1. Stage(c) \notin Resting \cup {"commit"}
    BY <1>2 DEF Resting
  <2>2. CASE GoOnWithout(c, client[c].out)
    BY <1>1, <2>1, <2>2, GoesOn
  <2>3. CASE \E stage \in {"fresh", "write"} : Goto(c, stage)
    <3>1. PICK stage \in {"fresh", "write"} : Goto(c, stage)
      BY <2>3
    <3> QED BY <1>1, <3>1, GoesTo, BatchStages DEF BoardStages
  <2> QED BY <1>2, <2>2, <2>3
<1>7. Stage(c)' \notin {"journal", "broken"}
  BY <1>6 DEF Stage, FirstStages
<1>8. OneHolder'
  BY <1>5, SameHolders
<1> QED BY <1>7, <1>8 DEF AimsAtHolder

\* What the writer is at comes from its batch, wherever a statement leaves it.
LEMMA RunningFromBatch ==
  ASSUME NEW O \in Draws, Typed, InBatch(O, "feed"), Stage("feed") \notin Resting \cup {"commit"},
         Running("feed"), FromBatch(client["feed"])
  PROVE  FromBatch(client'["feed"])
<1> DEFINE c == "feed"
<1>1. PICK L, P : L = client[c].left /\ P = client[c].plan
  OBVIOUS
<1>2. /\ c \in Client /\ client[c] \in Program /\ c \in DOMAIN client
      /\ L # <<>> /\ L \in Seq(AnyOp)
      /\ \A i \in DOMAIN L : \E k \in DOMAIN Head(P) : L[i] = Head(P)[k]
  <2>1. c \in Client
    BY DEF Client
  <2>2. L # <<>> /\ L \in Seq(AnyOp)
    BY <1>1, <2>1, AtOp DEF Typed, Program
  <2>3. client[c].stage # "idle"
    BY DEF Stage, Resting
  <2> QED BY <1>1, <2>1, <2>2, <2>3 DEF Typed, FromBatch
<1>3. Moves(c)
  BY <1>2, RunningIsNoFailure
<1>4. client'[c].plan = P /\ (client'[c].left = L \/ client'[c].left = Tail(L))
  <2>1. ASSUME NEW stage, Goto(c, stage) PROVE client'[c].plan = P /\ client'[c].left = L
    BY <1>1, <1>2, <2>1 DEF Goto, Program
  <2>2. ASSUME NEW stage, NEW a, GotoAt(c, stage, a) PROVE client'[c].plan = P /\ client'[c].left = L
    BY <1>1, <1>2, <2>2 DEF GotoAt, Program
  <2>3. ASSUME NEW out, GoOnWithout(c, out) PROVE client'[c].plan = P /\ client'[c].left = Tail(L)
    <3>1. PICK first : first = Enter(Tail(client[c].left), out)
      OBVIOUS
    <3>2. client' = [client EXCEPT ![c].left = Tail(@), ![c].out = out, ![c].stage = first]
      BY <2>3, <3>1 DEF GoOnWithout
    <3> QED BY <1>1, <1>2, <3>2 DEF Program
  <2> QED BY <1>3, <2>1, <2>2, <2>3 DEF Moves
<1>5. \A i \in DOMAIN Tail(L) : i + 1 \in DOMAIN L /\ Tail(L)[i] = L[i + 1]
  BY <1>2, TailAt
<1> QED BY <1>2, <1>4, <1>5 DEF FromBatch

\* A batch that is given up leaves what is committed, and the batch was to blame.
LEMMA ConstraintAims ==
  ASSUME NEW O \in Draws, StoreInv(O), StoreInv(O)', Untroubled, ConstraintFails("feed")
  PROVE  Untroubled' /\ faults' = faults /\ Poisoned(Head(client["feed"].plan))
<1> DEFINE c == "feed"
<1>1. /\ c \in Client /\ Owned(O) /\ Typed /\ Typed' /\ InBatch(O, c)
      /\ up /\ FromBatch(client[c]) /\ OneCommitted /\ faults' = faults /\ up' = up
  BY DEF StoreInv, Owned, Own, Client, Untroubled, ConstraintFails
<1>2. /\ UNCHANGED tables /\ mine'[c] = Untouched /\ client'[c].stage = "idle"
  <2>1. UNCHANGED tables /\ Gone(c) /\ Rejected(c)
    BY <1>1, AbortsKeep DEF ConstraintFails, Fails
  <2>2. client'[c].stage = "idle"
    <3>1. PICK new : client' = [client EXCEPT ![c] = new] /\ new.stage = "idle"
      <4>1. PICK tries, rest :
              client' = [client EXCEPT ![c] = [client[c] EXCEPT !.left = <<>>, !.addr = Nothing, !.out = {},
                           !.attempts = tries, !.plan = rest, !.stage = "idle"]]
        BY <2>1 DEF Rejected
      <4>2. [client[c] EXCEPT !.left = <<>>, !.addr = Nothing, !.out = {},
                           !.attempts = tries, !.plan = rest, !.stage = "idle"].stage = "idle"
        BY <1>1 DEF Typed, Program
      <4> QED BY <4>1, <4>2
    <3> QED BY <1>1, <3>1 DEF Typed
  <2> QED BY <2>1, <2>2 DEF Gone
<1>3. Stage(c)' = "idle" /\ FromBatch(client'[c])
  BY <1>2 DEF Stage, FromBatch
<1>4. OneCommitted' /\ OneHolder' /\ AimsAtHolder'
  <2>1. \A a \in Address : Systems(c)'[a] = systems'[a]
    <3>1. DOMAIN mine'[c].sys = {}
      BY <1>2, UntouchedIsEmpty
    <3> QED BY <1>1, <3>1, ViewsNext
  <2>2. systems' = systems /\ OneCommitted'
    BY <1>1, <1>2 DEF OneCommitted, tables
  <2>3. \A n : \A a : a \in Holders(c, n)' => a \in HoldersIn(systems, n)
    BY <2>1, <2>2, HoldersAre DEF HoldersIn
  <2> QED BY <1>1, <1>3, <2>2, <2>3 DEF OneHolder, OneCommitted, AimsAtHolder
<1>5. Stage(c) \in {"system", "held", "station", "journal", "insert", "write"}
  BY DEF ConstraintFails, Refused, ByName
<1>6. /\ client[c].left # <<>> /\ client[c].left \in Seq(AnyOp)
      /\ Op(c) \in BoardOp \cup JournalOp
  <2>1. Stage(c) \notin Resting \cup {"commit"} /\ Stage(c) \in BoardStages \cup JournalStages \cup SourceStages
    BY <1>5 DEF Resting, BoardStages, JournalStages, SourceStages
  <2> QED BY <1>1, <2>1, AtOp DEF Typed, Program
<1>7. Poison(Op(c))
  BY <1>6 DEF Poison, ConstraintFails, Refused, BoardOp, JournalOp
<1>8. \E k \in DOMAIN Head(client[c].plan) : Op(c) = Head(client[c].plan)[k]
  <2>1. 1 \in DOMAIN client[c].left /\ client[c].left[1] = Op(c)
    BY <1>6, TailAt DEF Op
  <2> QED BY <1>1, <1>5, <2>1 DEF FromBatch, Stage
<1> QED BY <1>1, <1>3, <1>4, <1>7, <1>8 DEF Untroubled, Poisoned

\* A step of the writer, which finds nobody in its way.
LEMMA WriterStep ==
  ASSUME NEW O \in Draws, StoreInv(O), StoreInv(O)', NoDump, Untroubled,
         Step("feed")
  PROVE  Untroubled' /\ faults' = faults /\ (FailsNot \/ Poisoned(Head(client["feed"].plan)))
<1> DEFINE c == "feed"
<1>1. /\ c \in Client /\ Owned(O) /\ Typed /\ Typed' /\ InBatch(O, c)
      /\ up /\ Stage(c) # "broken" /\ FromBatch(client[c])
      /\ OneHolder /\ OneCommitted /\ AimsAtHolder /\ client \in [Client -> Program]
  BY DEF StoreInv, Owned, Own, Client, Untroubled, Typed
<1>2. ~Deadlock(c) /\ ~Broken(c)
  <2>1. "dump" \in Client /\ Stage("dump") \in Resting
    BY Rests DEF NoDump, Client
  <2>2. ~Blocked("dump")
    BY <2>1, NothingWanted DEF Blocked
  <2> QED BY <1>1, <2>1, <2>2 DEF Deadlock, Broken
<1>3. ~JournalRejected(c)
  BY <1>1 DEF JournalRejected, Rejects, Duplicate, AimsAtHolder
<1>4. ~Migrate(c) /\ ~Cascade(c) /\ ~Taken(c) /\ ~Insert(c) /\ ~InsertRejected(c) /\ ~Ensure(c)
  <2>1. Stage(c) \in SourceStages \cup {"ensure"} => Stage(c) \notin Resting \cup {"commit"}
    BY DEF SourceStages, Resting
  <2>2. Stage(c) \notin SourceStages \cup {"ensure"}
    BY <1>1, <2>1, AtOp
  <2> QED BY <2>2 DEF Migrate, Cascade, Taken, Insert, Upsert, InsertRejected, Rejects, Ensure,
                     Statement, SourceStages
<1>5. CASE Begin(c)
  <2>1. UNCHANGED <<tables, mine>> /\ client'[c].stage \in FirstStages \cup {"broken"}
    BY <1>1, <1>5, BeginKeeps, Rests DEF Gone, Resting
  <2>2. Systems(c)' = Systems(c)
    BY <2>1 DEF Systems, tables
  <2>3. client'[c].stage # "broken"
    <3>1. PICK first : first = Enter(Head(client[c].plan), {})
      OBVIOUS
    <3>2. client' = [client EXCEPT ![c].left = Head(client[c].plan), ![c].stage = first]
      BY <1>1, <1>5, <3>1 DEF Begin
    <3>3. first \in FirstStages
      <4>1. client[c].plan \in Seq(Seq(AnyOp)) /\ client[c].plan # <<>>
        BY <1>1, <1>5 DEF Program, Begin
      <4>2. Head(client[c].plan) \in Seq(AnyOp)
        BY <4>1, PlanHead
      <4> QED BY <3>1, <4>2, Entering
    <3>4. client'[c].stage = first
      BY <1>1, <3>2 DEF Program
    <3> QED BY <3>3, <3>4 DEF FirstStages
  <2>4. OneHolder' /\ AimsAtHolder'
    BY <1>1, <2>1, <2>2, SameHolders DEF AimsAtHolder, Stage, FirstStages
  <2>5. /\ client'[c].attempts = client[c].attempts /\ client'[c].plan = client[c].plan
        /\ client'[c].left = Head(client[c].plan) /\ UNCHANGED <<up, dropped, faults>>
    <3>1. PICK first, ops : /\ client' = [client EXCEPT ![c].left = ops, ![c].stage = first]
                            /\ ops = Head(client[c].plan)
      BY <1>5 DEF Begin
    <3> QED BY <1>1, <1>5, <3>1 DEF Begin, Program
  <2>6. OneCommitted' /\ FromBatch(client'[c])
    BY <1>1, <2>1, <2>5 DEF OneCommitted, FromBatch, tables
  <2>7. FailsNot
    BY <1>1, <2>5 DEF FailsNot, Program
  <2> QED BY <1>1, <2>3, <2>4, <2>5, <2>6, <2>7 DEF Untroubled, Stage
<1>6. CASE Commit(c)
  <2>1. /\ systems' = Systems(c) /\ mine'[c] = Untouched
        /\ client'[c].stage = "idle" /\ client'[c].attempts = 0 /\ UNCHANGED <<up, dropped, faults>>
        /\ client[c].attempts >= 0
    BY <1>1, <1>6 DEF Commit, Publish, Forget, Typed, Program
  <2>2. \A a \in Address : Systems(c)'[a] = Systems(c)[a]
    <3>1. DOMAIN mine'[c].sys = {}
      BY <2>1, UntouchedIsEmpty
    <3> QED BY <1>1, <2>1, <3>1, ViewsNext
  <2>3. OneHolder' /\ AimsAtHolder'
    BY <1>1, <2>1, <2>2, SameHolders DEF AimsAtHolder, Stage
  <2>4. OneCommitted' /\ FromBatch(client'[c]) /\ FailsNot
    BY <1>1, <2>1 DEF OneCommitted, OneHolder, Holders, FromBatch, FailsNot, Program
  <2> QED BY <1>1, <2>1, <2>3, <2>4 DEF Untroubled, Stage
<1>7. CASE Running(c)
  <2>1. OneHolder' /\ AimsAtHolder' /\ Stage(c)' # "broken"
    <3>1. CASE BoardSystem(c)
      BY <1>1, <3>1, ByNameAims DEF BoardSystem
    <3>2. CASE HeldByName(c)
      BY <1>1, <3>2, ByNameAims DEF HeldByName
    <3>3. CASE Held(c)
      BY <1>1, <3>3, HeldAims
    <3>4. CASE Journal(c)
      BY <1>1, <3>4, JournalAims
    <3>5. CASE StationById(c) \/ StationByName(c) \/ Fresh(c) \/ Write(c) \/ LeaveOut(c) \/ Push(c)
      BY <1>1, <3>5, StationsOnly
    <3> QED BY <1>4, <1>7, <3>1, <3>2, <3>3, <3>4, <3>5 DEF Running
  <2>2. /\ client'[c].attempts = client[c].attempts /\ UNCHANGED <<dropped, up, faults>>
        /\ UNCHANGED tables /\ Stage(c) \notin Resting
    BY <1>1, <1>7, RunningIsNoFailure, RunningShifts DEF Shifts
  <2>3. Stage(c) # "commit"
    BY <1>7 DEF Running, BoardSystem, HeldByName, SystemAddressFor, StationById, StationByName, Fresh,
                Write, Held, Journal, Insert, Upsert, Migrate, Cascade, Taken, Ensure, LeaveOut, Push,
                Statement
  <2>4. FromBatch(client'[c])
    BY <1>1, <1>7, <2>2, <2>3, RunningFromBatch
  <2>5. OneCommitted' /\ FailsNot
    BY <1>1, <2>2 DEF OneCommitted, FailsNot, tables, Program
  <2> QED BY <1>1, <2>1, <2>2, <2>4, <2>5 DEF Untroubled
<1>8. CASE ConstraintFails(c)
  BY <1>8, ConstraintAims
<1> QED BY <1>2, <1>3, <1>4, <1>5, <1>6, <1>7, <1>8 DEF Step, Running

\* A dump that is there does not go away: it ends as done.
LEMMA NoDumpBefore ==
  ASSUME NEW O \in Draws, StoreInv(O), Next, faults \in Nat, faults' = 0, NoDump'
  PROVE  NoDump /\ (Step("feed") \/ ComesBack)
<1> DEFINE d == "dump"
<1>1. d \in Client /\ "feed" \in Client /\ Owned(O) /\ client \in [Client -> Program]
  BY DEF StoreInv, Owned, Client, Typed
<1>2. client'[d].plan = <<>> /\ client'[d].stage = "idle"
  BY DEF NoDump, Stage
<1>3. ~GoesDown /\ \A c \in Client : ~CommitLost(c)
  BY DEF GoesDown, CommitLost
<1>4. ~Dump
  <2>1. ASSUME Stars PROVE FALSE
    <3>1. PICK stage : /\ stage = IF client[d].plan = <<>> THEN "complete" ELSE "idle"
                       /\ Goto(d, stage)
      BY <2>1 DEF Stars
    <3>2. client'[d].stage = stage /\ client'[d].plan = client[d].plan
      BY <1>1, <3>1 DEF Goto, Program
    <3> QED BY <1>2, <3>1, <3>2
  <2>2. ASSUME Complete PROVE FALSE
    BY <1>1, <1>2, <2>2 DEF Complete, Goto, Program
  <2>3. ASSUME CompleteFails PROVE FALSE
    BY <1>1, <1>2, <2>3 DEF CompleteFails, Goto, Program
  <2> QED BY <2>1, <2>2, <2>3 DEF Dump
<1>5. ~Step(d)
  <2>1. ~Begin(d)
    BY <1>1, <1>2, BeginKeeps
  <2>2. ~Commit(d)
    BY <1>1, <1>2, CommitKeeps DEF Stage
  <2>3. ~Broken(d) /\ ~Deadlock(d) /\ ~ConstraintFails(d) /\ ~JournalRejected(d) /\ ~InsertRejected(d)
    BY <1>1, <1>2, AbortsKeep DEF Stage
  <2>4. ~Running(d)
    BY <1>1, <1>2, RunningShifts, Rests DEF Shifts, Stage
  <2> QED BY <2>1, <2>2, <2>3, <2>4 DEF Step, Running
<1>6. CASE Step("feed")
  <2>1. Alone("feed")
    BY <1>1, <1>6, BeginKeeps, CommitKeeps, AbortsKeep, RunningShifts DEF Step, Running, Shifts
  <2> QED BY <1>1, <1>2, <1>6, <2>1 DEF Alone, NoDump, Stage
<1>7. CASE ComesBack
  BY <1>2, <1>7 DEF ComesBack, NoDump, Stage
<1> QED BY <1>1, <1>3, <1>4, <1>5, <1>6, <1>7 DEF Next, Fault, Client

LEMMA FaultsCount ==
  ASSUME NEW O \in Draws, StoreInv(O), Next, faults \in Nat
  PROVE  faults' \in Nat /\ (faults' = 0 => faults = 0)
<1>1. CASE \E c \in Client : Running(c)
  BY <1>1, RunningIsNoFailure DEF StoreInv, Owned
<1>2. CASE \E c \in Client : \/ Begin(c) \/ Commit(c) \/ Broken(c) \/ Deadlock(c)
                            \/ ConstraintFails(c) \/ JournalRejected(c) \/ InsertRejected(c)
  BY <1>2 DEF Begin, Commit, Broken, Deadlock, ConstraintFails, JournalRejected, InsertRejected, Rejects
<1>3. CASE Dump
  BY <1>3 DEF Dump, Stars, Complete, CompleteFails
<1>4. CASE Fault
  BY <1>4 DEF Fault, GoesDown, ComesBack, CommitLost
<1> QED BY <1>1, <1>2, <1>3, <1>4 DEF Next, Step, Running

\* What is no step of the writer's fails no attempt of it, but for an outage.
LEMMA OthersFailNot ==
  ASSUME NEW O \in Draws, StoreInv(O), Next, faults \in Nat, faults' = 0, ~Step("feed")
  PROVE  FailsNot
<1> DEFINE d == "dump"
<1>1. /\ d \in Client /\ d # "feed" /\ "feed" \in Client /\ Owned(O) /\ client \in [Client -> Program]
  BY DEF StoreInv, Owned, Client, Typed
<1>2. ~GoesDown /\ \A c \in Client : ~CommitLost(c)
  BY DEF GoesDown, CommitLost
<1>3. ASSUME client'["feed"] = client["feed"], dropped' = dropped PROVE FailsNot
  <2>1. client["feed"].attempts <= client["feed"].attempts
    BY <1>1 DEF Program
  <2> QED BY <1>3, <2>1 DEF FailsNot
<1>4. CASE Step(d)
  <2>1. Alone(d)
    BY <1>1, <1>4, BeginKeeps, CommitKeeps, AbortsKeep, RunningShifts DEF Step, Running, Shifts
  <2>2. client'["feed"] = client["feed"]
    BY <1>1, <2>1 DEF Alone
  <2>3. dropped' = dropped
    <3>1. CASE Running(d)
      BY <1>1, <3>1, RunningIsNoFailure DEF Owned
    <3>2. CASE \/ Broken(d) \/ Deadlock(d) \/ ConstraintFails(d) \/ JournalRejected(d) \/ InsertRejected(d)
      <4>1. Rejected(d)
        BY <3>2 DEF Broken, Deadlock, ConstraintFails, JournalRejected, InsertRejected, Rejects, Fails
      <4> QED BY <1>1, <4>1 DEF Rejected
    <3>3. CASE Begin(d) \/ Commit(d)
      BY <3>3 DEF Begin, Commit
    <3> QED BY <1>4, <3>1, <3>2, <3>3 DEF Step, Running
  <2> QED BY <1>3, <2>2, <2>3
<1>5. CASE Dump
  <2>1. dropped' = dropped /\ \E stage : Goto(d, stage)
    BY <1>5 DEF Dump, Stars, Complete, CompleteFails
  <2>2. client'["feed"] = client["feed"]
    BY <1>1, <2>1 DEF Goto
  <2> QED BY <1>3, <2>1, <2>2
<1>6. CASE ComesBack
  BY <1>3, <1>6 DEF ComesBack
<1> QED BY <1>2, <1>4, <1>5, <1>6 DEF Next, Fault, Client

LEMMA UndisturbedStep ==
  ASSUME NEW O \in Draws, StoreInv(O), Undisturbed, [Next]_vars
  PROVE  /\ StoreInv(O)' /\ Undisturbed'
         /\ (NoDump /\ faults' = 0 => FailsNot \/ Poisoned(Head(client["feed"].plan)))
<1>1. CASE Next
  <2>1. StoreInv(O)' /\ faults' \in Nat /\ (faults' = 0 => faults = 0)
    BY <1>1, StoreStep, FaultsCount DEF Undisturbed
  <2>2. ASSUME NoDump', faults' = 0 PROVE Untroubled'
    <3>1. NoDump /\ Untroubled /\ (Step("feed") \/ ComesBack)
      BY <1>1, <2>1, <2>2, NoDumpBefore DEF Undisturbed
    <3>2. Step("feed")
      BY <3>1 DEF Untroubled, ComesBack
    <3> QED BY <2>1, <3>1, <3>2, WriterStep
  <2>3. ASSUME NoDump, faults' = 0 PROVE FailsNot \/ Poisoned(Head(client["feed"].plan))
    <3>1. Untroubled
      BY <2>1, <2>3 DEF Undisturbed
    <3>2. CASE Step("feed")
      BY <2>1, <2>3, <3>1, <3>2, WriterStep
    <3>3. CASE ~Step("feed")
      BY <1>1, <2>3, <3>3, OthersFailNot DEF Undisturbed
    <3> QED BY <3>2, <3>3
  <2> QED BY <2>1, <2>2, <2>3 DEF Undisturbed
<1>2. CASE UNCHANGED vars
  <2>1. UNCHANGED <<systems, mine, client, up, faults, dropped>>
    BY <1>2 DEF vars, tables
  <2>2. /\ NoDump' <=> NoDump
        /\ Untroubled => Untroubled'
    BY <2>1 DEF NoDump, Untroubled, Stage, Op, OneHolder, OneCommitted, AimsAtHolder, Holders,
                HoldersIn, Systems, FromBatch
  <2>3. FailsNot
    <3>1. client["feed"] \in Program
      BY DEF StoreInv, Owned, Typed, Client
    <3> QED BY <2>1, <3>1 DEF FailsNot, Program
  <2> QED BY <1>2, <2>1, <2>2, <2>3, StoreStutter DEF Undisturbed
<1> QED BY <1>1, <1>2

LEMMA UndisturbedStart ==
  ASSUME Init
  PROVE  \E O \in Draws : StoreInv(O) /\ Undisturbed
<1>1. PICK O \in Draws : StoreInv(O)
  BY StoreStart
<1>2. /\ Stage("feed") = "idle" /\ client["feed"].stage = "idle"
      /\ mine["feed"] = Untouched /\ up /\ faults = 0
      /\ systems = [a \in Address |-> Nothing]
  BY DEF Init, Stage, Client
<1>3. \A a \in Address : Systems("feed")[a] = Nothing
  <2>1. DOMAIN mine["feed"].sys = {}
    BY <1>2, UntouchedIsEmpty
  <2> QED BY <1>1, <1>2, <2>1, Views DEF StoreInv, Owned, Client
<1>4. OneHolder /\ OneCommitted /\ AimsAtHolder /\ FromBatch(client["feed"])
  BY <1>2, <1>3, HoldersAre DEF OneHolder, OneCommitted, HoldersIn, AimsAtHolder, FromBatch
<1> QED BY <1>1, <1>2, <1>4 DEF Undisturbed, Untroubled

\* The writer never fails by what its messages make of the tables: with no dump beside
\* it and the database up, an attempt at a batch fails, or a batch is given up, only if
\* an operation of that batch is one the database refuses whatever is stored (ed-store
\* postgres.rs, run_writer and the addresses of apply_journal; the constraints of the
\* migrations).
THEOREM WriterNeverFailsAlone == Spec => NeverPoisonsItself
<1> DEFINE Inv == \E O \in Draws : StoreInv(O) /\ Undisturbed
           Only == (NoDump /\ faults' = 0 /\ (client'["feed"].attempts > client["feed"].attempts
                                             \/ dropped' > dropped))
                     => Poisoned(Head(client["feed"].plan))
<1>1. Init => Inv
  BY UndisturbedStart
<1>2. Inv /\ [Next]_vars => Inv'
  BY UndisturbedStep
<1>3. Inv /\ [Next]_vars => [Only]_vars
  <2> SUFFICES ASSUME Inv, [Next]_vars PROVE [Only]_vars
    OBVIOUS
  <2>1. PICK O \in Draws : StoreInv(O) /\ Undisturbed
    OBVIOUS
  <2>2. NoDump /\ faults' = 0 => FailsNot \/ Poisoned(Head(client["feed"].plan))
    BY <2>1, UndisturbedStep
  <2>3. client["feed"].attempts \in Int /\ client'["feed"].attempts \in Int /\ dropped \in Int
    <3>1. Typed /\ Typed'
      BY <2>1, UndisturbedStep DEF StoreInv, Owned
    <3> QED BY <3>1, GalaxyStoreAssumption DEF Typed, Program, Client, GalaxyStoreAssumption
  <2> QED BY <2>2, <2>3 DEF FailsNot
<1> QED BY <1>1, <1>2, <1>3, PTL DEF Spec, NeverPoisonsItself
=============================================================================

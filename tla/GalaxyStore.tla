---------------------------- MODULE GalaxyStore ----------------------------
(***************************************************************************)
(* The service's galaxy tables in PostgreSQL and the two programs that     *)
(* write them at the same time: the EDDN writer, which applies a batch of  *)
(* operations per transaction and tries a failed batch again, and the      *)
(* hydration from a dump, one transaction per batch, which stops at the    *)
(* first failure.                                                          *)
(*                                                                         *)
(* A step is one statement.  The isolation is READ COMMITTED: a statement  *)
(* sees what was committed when it runs and what its own transaction       *)
(* wrote; a row that is written, and a key of a unique index that is       *)
(* written, stays locked to the end of the transaction.  Statements that   *)
(* only touch what the same transaction has locked before are one step.    *)
(***************************************************************************)
EXTENDS Naturals, Sequences, FiniteSets

CONSTANTS
    Name,         \* system names
    NoName,       \* those the database refuses, as the empty one
    Cell,         \* cubes of 100 light years
    Real,         \* system addresses the game knows
    Station,      \* market ids
    Product,      \* market, outfitting, shipyard
    Nothing,      \* NULL, or no row
    FeedPlan,     \* the batches the writer may collect, a set of sequences
    DumpPlan,     \* the batches a dump may hold, a set of sequences
    Home,         \* the address of each station's system
    MaxAttempts,  \* attempts at one batch of the feed
    MaxFaults     \* outages and lost commit answers (a bound)

Client == {"feed", "dump"}

\* A system the adapter knows by name only lives under a negative address.
\* The sequence gives every such row a number of its own; here it is the name.
At(r) == [real |-> TRUE, of |-> r]
Prov(n) == [real |-> FALSE, of |-> n]
Address == {At(r) : r \in Real} \cup {Prov(n) : n \in Name}

Board == Station \X Product
Observation == [at : Nat \ {0}, by : Client]
SystemRow == [name : Name, cell : Cell \cup {Nothing}, eddn : Nat, source : Nat]
StationRowType == [system : Address, mark : [Product -> Nat]]

\* What a batch is made of: a board, a system from either source, and a station
\* of the dump.  What does not fit is a value a constraint or a column refuses: a
\* negative population, a position out of all cells, a text with a null character.
BoardOp == [op : {"board"}, station : Station, name : Name, product : Product,
            at : Nat \ {0}, byId : BOOLEAN, fits : BOOLEAN]
JournalOp == [op : {"journal"}, name : Name, addr : Real \cup {Nothing},
              cell : Cell \cup {Nothing}, at : Nat \ {0}, fits : BOOLEAN]
SourceOp == [op : {"source"}, name : Name, addr : Real,
             cell : Cell \cup {Nothing}, at : Nat \ {0}, fits : BOOLEAN]
EnsureOp == [op : {"ensure"}, station : Station, addr : Real]

FeedOp == BoardOp \cup JournalOp
DumpOp == SourceOp \cup EnsureOp \cup BoardOp

Brings(op, r) == op.op = "source" /\ op.addr = r

\* A dump names a system before the stations in it; they may straddle batches.
SystemsFirst(batches) ==
    \A k \in DOMAIN batches : \A i \in DOMAIN batches[k] :
      batches[k][i].op = "ensure" =>
        \/ \E j \in 1..(i - 1) : Brings(batches[k][j], batches[k][i].addr)
        \/ \E m \in 1..(k - 1) : \E j \in DOMAIN batches[m] :
             Brings(batches[m][j], batches[k][i].addr)

ASSUME GalaxyStoreAssumption ==
    /\ MaxAttempts \in Nat \ {0}
    /\ MaxFaults \in Nat
    /\ NoName \subseteq Name
    /\ Nothing \notin Real \cup Cell \cup Address \cup SystemRow \cup StationRowType \cup Observation
    /\ FeedPlan \subseteq Seq(Seq(FeedOp))
    /\ DumpPlan \subseteq {d \in Seq(Seq(DumpOp)) : SystemsFirst(d)}

VARIABLES
    systems,   \* committed: the row of each address, or Nothing
    stations,  \* committed: the row of each market id, or Nothing
    boards,    \* committed: the observation whose rows a board consists of
    mine,      \* what each open transaction has written
    locks,     \* what each open transaction has locked
    client,    \* where each program is; out: stations of its batch left out
    unfiled,   \* dump: the systems whose name another address holds
    job,       \* dump: its row of service_hydrations
    up,        \* the database answers
    faults,
    dropped    \* eddn_ingestion.errors

tables == <<systems, stations, boards>>
vars == <<systems, stations, boards, mine, locks, client, unfiled, job, up,
          faults, dropped>>

Untouched == [sys |-> <<>>, stn |-> <<>>, brd |-> <<>>]

Over(f, g) == [x \in DOMAIN f \cup DOMAIN g |-> IF x \in DOMAIN f THEN f[x] ELSE g[x]]
Put(f, x, row) == [y \in DOMAIN f \cup {x} |-> IF y = x THEN row ELSE f[y]]

\* What a statement of c sees.
Systems(c) == Over(mine[c].sys, systems)
Stations(c) == Over(mine[c].stn, stations)

HoldersIn(sys, n) == {a \in Address : sys[a] # Nothing /\ sys[a].name = n}
Holders(c, n) == HoldersIn(Systems(c), n)

Op(c) == Head(client[c].left)
Stage(c) == client[c].stage

\* The first statement of what is left of a batch, of which the boards that give
\* the market id of a station in out are left out.
Enter(ops, out) ==
    IF ops = <<>> THEN "commit"
    ELSE CASE Head(ops).op = "board" ->
                IF Head(ops).byId /\ Head(ops).station \in out THEN "out" ELSE "system"
           [] Head(ops).op = "journal" -> "held"
           [] Head(ops).op = "source" -> "migrate"
           [] Head(ops).op = "ensure" -> "ensure"

Goto(c, stage) == client' = [client EXCEPT ![c].stage = stage]
GotoAt(c, stage, a) ==
    client' = [client EXCEPT ![c].stage = stage, ![c].addr = a]
GoOnWithout(c, out) ==
    client' = [client EXCEPT ![c].left = Tail(@), ![c].out = out,
                             ![c].stage = Enter(Tail(client[c].left), out)]
GoOn(c) == GoOnWithout(c, client[c].out)

WriteSystem(c, a, row) == [mine[c] EXCEPT !.sys = Put(@, a, row)]
WriteStation(c, s, row) == [mine[c] EXCEPT !.stn = Put(@, s, row)]
----------------------------------------------------------------------------
(* Locks.                                                                  *)

NameKey(n) == <<"name", n>>
SystemKey(a) == <<"system", a>>
StationKey(s) == <<"station", s>>
RowKeys(c, a) ==
    {SystemKey(a)} \cup
    (IF Systems(c)[a] = Nothing THEN {} ELSE {NameKey(Systems(c)[a].name)})

\* The upsert by name returns the holder's address, or a new negative one.
AddressFor(c, n) ==
    IF Holders(c, n) = {} THEN Prov(n) ELSE CHOOSE a \in Holders(c, n) : TRUE

\* The provisional row the dump's first statement moves to the real address.
Movable(c, op) ==
    IF Systems(c)[At(op.addr)] # Nothing THEN {}
    ELSE {a \in Holders(c, op.name) : ~a.real}

\* An upsert of the row a writes it unless what is stored is as new.
Wins(c, a, op) ==
    LET row == Systems(c)[a]
    IN  row # Nothing =>
          /\ row.eddn < op.at
          /\ op.op = "source" => row.source < op.at

UpsertKeys(c, a, op) ==
    IF Wins(c, a, op) THEN RowKeys(c, a) \cup {NameKey(op.name)} ELSE {SystemKey(a)}

Moved(c) == {s \in Station : /\ Stations(c)[s] # Nothing
                             /\ Stations(c)[s].system = client[c].addr}

\* The statement c is at is the upsert by name.
ByName(c) == \/ Stage(c) = "system"
             \/ Stage(c) = "held" /\ Op(c).addr = Nothing

\* The upsert by name rewrites the row that holds the name.
NameKeys(c, n) == RowKeys(c, AddressFor(c, n)) \cup {NameKey(n)}

\* Mutant: the station is inserted when it is missing, and only looked up else.
StationKeys_Unlocked(c, s) == IF Stations(c)[s] = Nothing THEN {StationKey(s)} ELSE {}

\* The upsert by market id rewrites the station's row, whatever is stored.
StationKeys(c, s) == {StationKey(s)}

\* What the statement c is at has to lock.
Wants(c) ==
    CASE ByName(c) -> NameKeys(c, Op(c).name)
      [] Stage(c) = "station" /\ Op(c).byId -> StationKeys(c, Op(c).station)
      [] Stage(c) = "ensure" /\ Op(c).addr \notin unfiled -> StationKeys(c, Op(c).station)
      [] Stage(c) = "write" -> {StationKey(Op(c).station)}
      [] Stage(c) = "journal" -> UpsertKeys(c, client[c].addr, Op(c))
      [] Stage(c) = "insert" -> UpsertKeys(c, At(Op(c).addr), Op(c))
      [] Stage(c) = "migrate" /\ Movable(c, Op(c)) # {} ->
           {SystemKey(a) : a \in Movable(c, Op(c))} \cup
           {SystemKey(At(Op(c).addr)), NameKey(Op(c).name)}
      [] Stage(c) \in {"cascade", "push"} -> {StationKey(s) : s \in Moved(c)}
      [] OTHER -> {}

\* The row the statement c is at proposes is checked before it meets another:
\* a name that is refused, or values that do not fit.
Refused(c) ==
    \/ /\ ByName(c) \/ Stage(c) \in {"journal", "insert"}
       /\ Op(c).name \in NoName
    \/ (Stage(c) \in {"journal", "insert", "write"} /\ ~Op(c).fits)

Blocked(c) == ~Refused(c) /\ \E d \in Client \ {c} : Wants(c) \cap locks[d] # {}

\* A statement of c that runs: it waited for its locks and holds them now.
Statement(c, stage) ==
    /\ Stage(c) = stage
    /\ up
    /\ ~Refused(c)
    /\ ~Blocked(c)
    /\ locks' = [locks EXCEPT ![c] = @ \cup Wants(c)]
    /\ UNCHANGED <<tables, job, up, faults>>
----------------------------------------------------------------------------
(* How a batch begins and ends.                                            *)

\* Mutant: the names found taken are kept for one batch only.
Begin_ForgetsUnfiled(c) ==
    /\ Stage(c) = "idle"
    /\ client[c].plan # <<>>
    /\ client' =
         [client EXCEPT
            ![c].left = Head(client[c].plan),
            ![c].stage = IF up THEN Enter(Head(client[c].plan), {}) ELSE "broken"]
    /\ unfiled' = IF c = "dump" THEN {} ELSE unfiled
    /\ UNCHANGED <<tables, mine, locks, job, up, faults, dropped>>

Begin(c) ==
    /\ Stage(c) = "idle"
    /\ client[c].plan # <<>>
    /\ client' =
         [client EXCEPT
            ![c].left = Head(client[c].plan),
            ![c].stage = IF up THEN Enter(Head(client[c].plan), {}) ELSE "broken"]
    /\ UNCHANGED <<tables, mine, locks, unfiled, job, up, faults, dropped>>

Forget(c) ==
    /\ mine' = [mine EXCEPT ![c] = Untouched]
    /\ locks' = [locks EXCEPT ![c] = {}]

\* Mutant: the batch is tried until it goes through.
Rejected_Never(c) ==
    /\ client' = [client EXCEPT ![c].left = <<>>, ![c].addr = Nothing, ![c].out = {},
                                ![c].plan = IF c = "feed" THEN @ ELSE <<>>,
                                ![c].stage = IF c = "feed" THEN "idle" ELSE "done"]
    /\ UNCHANGED <<dropped, job>>

\* The feed gives a batch up after its last attempt; the dump, at once.
Rejected(c) ==
    LET me == client[c]
        again == c = "feed" /\ me.attempts + 1 < MaxAttempts
    IN  /\ client' =
             [client EXCEPT ![c] =
                [me EXCEPT !.left = <<>>, !.addr = Nothing, !.out = {},
                           !.attempts = IF again THEN me.attempts + 1 ELSE 0,
                           !.plan = IF again THEN me.plan
                                    ELSE IF c = "feed" THEN Tail(me.plan) ELSE <<>>,
                           !.stage = IF c = "feed" THEN "idle" ELSE "done"]]
        /\ dropped' =
             IF c = "feed" /\ ~again /\ up
             THEN dropped + Len(Head(me.plan)) ELSE dropped
        /\ job' = IF c = "dump" /\ up THEN "failed" ELSE job

\* An error a statement ran into: the transaction is gone.
Fails(c) ==
    /\ Forget(c)
    /\ Rejected(c)

Publish(c) ==
    /\ systems' = Systems(c)
    /\ stations' = Stations(c)
    /\ boards' = Over(mine[c].brd, boards)

Commit(c) ==
    /\ Stage(c) = "commit"
    /\ up
    /\ Publish(c)
    /\ Forget(c)
    /\ client' =
         [client EXCEPT ![c] =
            [client[c] EXCEPT !.addr = Nothing, !.out = {}, !.attempts = 0,
                              !.plan = Tail(client[c].plan),
                              !.stage = IF c = "feed" THEN "idle" ELSE "stars"]]
    /\ UNCHANGED <<unfiled, job, up, faults, dropped>>

\* The commit went through and its answer did not.
CommitLost(c) ==
    /\ Stage(c) = "commit"
    /\ up
    /\ faults < MaxFaults
    /\ faults' = faults + 1
    /\ Publish(c)
    /\ Fails(c)
    /\ UNCHANGED <<unfiled, up>>

\* The dump's stars follow the commit in statements of their own.
Stars ==
    /\ Stage("dump") = "stars"
    /\ up
    /\ Goto("dump", IF client["dump"].plan = <<>> THEN "complete" ELSE "idle")
    /\ UNCHANGED <<tables, mine, locks, unfiled, job, up, faults, dropped>>

Complete ==
    /\ Stage("dump") = "complete"
    /\ up
    /\ job' = "complete"
    /\ Goto("dump", "done")
    /\ UNCHANGED <<tables, mine, locks, unfiled, up, faults, dropped>>

\* No transaction is open yet, and the job's row stays as it is.
CompleteFails ==
    /\ Stage("dump") = "complete"
    /\ ~up
    /\ Goto("dump", "done")
    /\ UNCHANGED <<tables, mine, locks, unfiled, job, up, faults, dropped>>

\* Every open transaction is rolled back; its program learns of it from the
\* next statement.
GoesDown ==
    /\ up
    /\ faults < MaxFaults
    /\ up' = FALSE
    /\ faults' = faults + 1
    /\ mine' = [c \in Client |-> Untouched]
    /\ locks' = [c \in Client |-> {}]
    /\ client' =
         [c \in Client |->
            [client[c] EXCEPT
               !.stage = IF @ \in {"idle", "complete", "done"} THEN @ ELSE "broken"]]
    /\ UNCHANGED <<tables, unfiled, job, dropped>>

ComesBack ==
    /\ ~up
    /\ up' = TRUE
    /\ UNCHANGED <<tables, mine, locks, client, unfiled, job, faults, dropped>>

Broken(c) ==
    /\ Stage(c) = "broken"
    /\ Fails(c)
    /\ UNCHANGED <<tables, unfiled, up, faults>>

\* Two transactions wait for each other: the database cancels one of them, and
\* the statement that waited gets its locks before the other is tried again.
Deadlock(c) ==
    /\ up
    /\ \A d \in Client : Blocked(d)
    /\ mine' = [mine EXCEPT ![c] = Untouched]
    /\ locks' = [d \in Client |-> IF d = c THEN {} ELSE locks[d] \cup Wants(d)]
    /\ Rejected(c)
    /\ UNCHANGED <<tables, unfiled, up, faults>>
----------------------------------------------------------------------------
(* A board: the upsert by name, the station, the watermark, the rows.      *)

NewSystem(n) == [name |-> n, cell |-> Nothing, eddn |-> 0, source |-> 0]

\* Mutant: a name that is there is looked up, its row neither written nor locked.
SystemAddressFor_Select(c, stage, next) ==
    LET n == Op(c).name
    IN  /\ Stage(c) = stage
        /\ up
        /\ ~Refused(c)
        /\ ByName(c)
        /\ IF Holders(c, n) = {}
           THEN /\ ~Blocked(c)
                /\ locks' = [locks EXCEPT ![c] = @ \cup Wants(c)]
                /\ mine' = [mine EXCEPT ![c] = WriteSystem(c, Prov(n), NewSystem(n))]
           ELSE UNCHANGED <<locks, mine>>
        /\ GotoAt(c, next, AddressFor(c, n))
        /\ UNCHANGED <<tables, job, up, faults, unfiled, dropped>>

\* The upsert by name rewrites the holder's name, which locks its row.
SystemAddressFor(c, stage, next) ==
    LET n == Op(c).name
        a == AddressFor(c, n)
    IN  /\ Statement(c, stage)
        /\ ByName(c)
        /\ mine' = [mine EXCEPT ![c] =
              WriteSystem(c, a, IF Systems(c)[a] = Nothing THEN NewSystem(n) ELSE Systems(c)[a])]
        /\ GotoAt(c, next, a)
        /\ UNCHANGED <<unfiled, dropped>>

BoardSystem(c) == SystemAddressFor(c, "system", "station")

NoMarks == [p \in Product |-> 0]

StationRow(c, s, a) ==
    IF Stations(c)[s] = Nothing THEN [system |-> a, mark |-> NoMarks]
    ELSE [Stations(c)[s] EXCEPT !.system = a]

StationById(c) ==
    LET s == Op(c).station
    IN  /\ Statement(c, "station")
        /\ Op(c).byId
        /\ mine' = [mine EXCEPT ![c] =
                      WriteStation(c, s, StationRow(c, s, client[c].addr))]
        /\ Goto(c, "fresh")
        /\ UNCHANGED <<unfiled, dropped>>

\* Without a market id the station is looked up, and not locked.
StationByName(c) ==
    LET row == Stations(c)[Op(c).station]
    IN  /\ Statement(c, "station")
        /\ ~Op(c).byId
        /\ IF row # Nothing /\ row.system = client[c].addr
           THEN Goto(c, "fresh") ELSE GoOn(c)
        /\ UNCHANGED <<mine, unfiled, dropped>>

Accepts(c) == Stations(c)[Op(c).station].mark[Op(c).product] < Op(c).at

Fresh(c) ==
    /\ Statement(c, "fresh")
    /\ IF Accepts(c) THEN Goto(c, "write") ELSE GoOn(c)
    /\ UNCHANGED <<mine, unfiled, dropped>>

\* The rows, the watermark and the prohibited goods.
Replace(c) ==
    LET op == Op(c)
        s == op.station
        row == [Stations(c)[s] EXCEPT !.mark[op.product] = op.at]
    IN  [WriteStation(c, s, row) EXCEPT
           !.brd = Put(@, <<s, op.product>>, [at |-> op.at, by |-> c])]

Write(c) ==
    /\ Statement(c, "write")
    /\ mine' = [mine EXCEPT ![c] = Replace(c)]
    /\ GoOn(c)
    /\ UNCHANGED <<unfiled, dropped>>
----------------------------------------------------------------------------
(* A system from the feed, with or without its address.                    *)

\* Mutant: the address of the message, whoever holds the name.
HeldAddress_Unchecked(c) == At(Op(c).addr)

HeldAddress(c) ==
    LET n == Op(c).name
        real == At(Op(c).addr)
        other == Holders(c, n) \ {real}
    IN  IF other = {} THEN real
        ELSE IF \E a \in other : ~a.real THEN CHOOSE a \in other : ~a.real
        ELSE Nothing

HeldByName(c) == SystemAddressFor(c, "held", "journal")

\* The name is looked up and not locked; a real address that holds it wins.
Held(c) ==
    /\ Statement(c, "held")
    /\ Op(c).addr # Nothing
    /\ IF HeldAddress(c) = Nothing THEN GoOn(c) ELSE GotoAt(c, "journal", HeldAddress(c))
    /\ UNCHANGED <<mine, unfiled, dropped>>

\* A position moves the row to its cell.
CellOf(op, was) == IF op.cell = Nothing THEN was.cell ELSE op.cell

\* The upsert of the row a, from either source: nothing when what is stored is
\* as new, an error when another row holds the name.
Upserts(c, a) ==
    LET op == Op(c)
        row == Systems(c)[a]
        was == IF row = Nothing THEN NewSystem(op.name) ELSE row
        new == [was EXCEPT !.name = op.name, !.cell = CellOf(op, was)]
    IN  IF ~Wins(c, a, op) THEN mine[c]
        ELSE WriteSystem(c, a, IF op.op = "source" THEN [new EXCEPT !.source = op.at]
                               ELSE [new EXCEPT !.eddn = op.at])

\* A row that was there, with stations it may be, gets another cell.
Recells(c, a) ==
    LET row == Systems(c)[a]
    IN  Wins(c, a, Op(c)) /\ row # Nothing /\ CellOf(Op(c), row) # row.cell

Duplicate(c, a) == Wins(c, a, Op(c)) /\ Holders(c, Op(c).name) \ {a} # {}

Upsert(c, stage, a) ==
    /\ Stage(c) = stage
    /\ ~Duplicate(c, a)
    /\ Statement(c, stage)
    /\ mine' = [mine EXCEPT ![c] = Upserts(c, a)]
    /\ IF Recells(c, a) THEN GotoAt(c, "push", a) ELSE GoOn(c)
    /\ UNCHANGED <<unfiled, dropped>>

\* The trigger of a row whose cell changed writes the cell into its stations.
Push(c) ==
    /\ Statement(c, "push")
    /\ GoOn(c)
    /\ UNCHANGED <<mine, unfiled, dropped>>

\* A statement that is refused; a board also by the name of its station.
ConstraintFails(c) ==
    /\ up
    /\ Refused(c) \/ (Stage(c) = "station" /\ ~Op(c).fits)
    /\ Fails(c)
    /\ UNCHANGED <<tables, unfiled, up, faults>>

Rejects(c, stage, a) ==
    /\ Stage(c) = stage
    /\ Duplicate(c, a)
    /\ up
    /\ ~Blocked(c)
    /\ Fails(c)
    /\ UNCHANGED <<tables, unfiled, up, faults>>

Journal(c) == Upsert(c, "journal", client[c].addr)
JournalRejected(c) == Rejects(c, "journal", client[c].addr)
----------------------------------------------------------------------------
(* A system from the dump: move a provisional row, look the name up,       *)
(* upsert by address.                                                      *)

Migrate(c) ==
    LET from == Movable(c, Op(c))
        to == At(Op(c).addr)
    IN  /\ Statement(c, "migrate")
        /\ IF from = {}
           THEN Goto(c, "taken") /\ UNCHANGED mine
           ELSE LET p == CHOOSE a \in from : TRUE
                IN  /\ mine' = [mine EXCEPT ![c].sys = Put(Put(@, to, Systems(c)[p]), p, Nothing)]
                    /\ GotoAt(c, "cascade", p)
        /\ UNCHANGED <<unfiled, dropped>>

\* ON UPDATE CASCADE: the stations of the row that moved.
Cascade(c) ==
    /\ Statement(c, "cascade")
    /\ mine' = [mine EXCEPT ![c].stn =
                  Over([s \in Moved(c) |-> [Stations(c)[s] EXCEPT !.system = At(Op(c).addr)]], @)]
    /\ Goto(c, "taken")
    /\ UNCHANGED <<unfiled, dropped>>

Taken(c) ==
    /\ Statement(c, "taken")
    /\ IF Holders(c, Op(c).name) \ {At(Op(c).addr)} = {}
       THEN Goto(c, "insert") /\ UNCHANGED unfiled
       ELSE GoOn(c) /\ unfiled' = unfiled \cup {Op(c).addr}
    /\ UNCHANGED <<mine, dropped>>

Insert(c) == Upsert(c, "insert", At(Op(c).addr))
InsertRejected(c) == Rejects(c, "insert", At(Op(c).addr))

\* A station of a system that could not be filed is left out, and its boards.
Ensure(c) ==
    LET op == Op(c)
    IN  /\ Statement(c, "ensure")
        /\ IF op.addr \in unfiled
           THEN GoOnWithout(c, client[c].out \cup {op.station}) /\ UNCHANGED mine
           ELSE /\ GoOn(c)
                /\ mine' = [mine EXCEPT ![c] =
                      WriteStation(c, op.station, StationRow(c, op.station, At(op.addr)))]
        /\ UNCHANGED <<unfiled, dropped>>

LeaveOut(c) ==
    /\ Stage(c) = "out"
    /\ GoOn(c)
    /\ UNCHANGED <<tables, mine, locks, unfiled, job, up, faults, dropped>>
----------------------------------------------------------------------------
(* The abstract store: see Boards.                                         *)

MarkOf(b) == IF stations[b[1]] = Nothing THEN 0 ELSE stations[b[1]].mark[b[2]]

\* A board is shown when its rows are those of its station's watermark.
Shown(b) ==
    IF boards[b] = Nothing /\ MarkOf(b) = 0 THEN Nothing
    ELSE IF boards[b] # Nothing /\ MarkOf(b) = boards[b].at THEN boards[b]
    ELSE [at |-> 0, by |-> "feed"]

Readers == INSTANCE Boards
             WITH shown <- [b \in Board |-> Shown(b)], Unseen <- Nothing, Sender <- Client

----------------------------------------------------------------------------
Init ==
    /\ systems = [a \in Address |-> Nothing]
    /\ stations = [s \in Station |-> Nothing]
    /\ boards = [b \in Board |-> Nothing]
    /\ mine = [c \in Client |-> Untouched]
    /\ locks = [c \in Client |-> {}]
    /\ \E f \in FeedPlan, d \in DumpPlan :
         client = [c \in Client |->
                     [plan |-> IF c = "feed" THEN f ELSE d, left |-> <<>>, out |-> {},
                      stage |-> "idle", addr |-> Nothing, attempts |-> 0]]
    /\ unfiled = {}
    /\ job = "running"
    /\ up = TRUE
    /\ faults = 0
    /\ dropped = 0

Step(c) ==
    \/ Begin(c) \/ Commit(c) \/ Broken(c) \/ Deadlock(c) \/ ConstraintFails(c)
    \/ BoardSystem(c) \/ StationById(c) \/ StationByName(c) \/ Fresh(c) \/ Write(c)
    \/ HeldByName(c) \/ Held(c) \/ Journal(c) \/ JournalRejected(c) \/ Push(c)
    \/ Migrate(c) \/ Cascade(c) \/ Taken(c) \/ Insert(c) \/ InsertRejected(c)
    \/ Ensure(c) \/ LeaveOut(c)

Dump == Stars \/ Complete \/ CompleteFails

Fault == GoesDown \/ ComesBack \/ \E c \in Client : CommitLost(c)

Next == (\E c \in Client : Step(c)) \/ Dump \/ Fault

Spec == Init /\ [][Next]_vars

\* The database ends every wait, by the commit of the other or by cancelling
\* one of two that wait for each other; it need not come back.
LiveSpec == Spec /\ WF_vars(Step("feed")) /\ WF_vars(Step("dump") \/ Dump)
----------------------------------------------------------------------------
\* The tables keep their shapes, and the dump's job its three states.
TypeOK ==
    /\ systems \in [Address -> SystemRow \cup {Nothing}]
    /\ stations \in [Station -> StationRowType \cup {Nothing}]
    /\ boards \in [Board -> Observation \cup {Nothing}]
    /\ \A c \in Client : client[c].attempts < MaxAttempts
    /\ unfiled \subseteq Real
    /\ job \in {"running", "complete", "failed"}
    /\ dropped \in Nat

\* Whatever the two programs do at the same time, a reader of a board sees
\* whole boards of strictly later and later observations.
BoardsForward == Readers!Spec

\* No statement can trip the foreign key: a station row, committed or written
\* by an open transaction, names a system that is there for its writer.
StationsFiled ==
    /\ \A s \in Station :
         stations[s] # Nothing => systems[stations[s].system] # Nothing
    /\ \A c \in Client : \A s \in DOMAIN mine[c].stn :
         Stage(c) # "cascade" => Systems(c)[mine[c].stn[s].system] # Nothing

\* No dump is run.
NoDump == client["dump"].plan = <<>> /\ Stage("dump") = "idle"

\* An operation the database refuses whatever is stored.
Poison(op) ==
    op.op # "ensure" /\ (op.name \in NoName \/ ~op.fits)
Poisoned(batch) == \E i \in DOMAIN batch : Poison(batch[i])

\* The writer never fails by what its messages make of the tables: whatever they say
\* of systems, names and stations, in any order and in any batches, an attempt at a
\* batch fails, while nobody else writes and the database answers, only if an
\* operation of that very batch is refused whatever is stored.  (postgres.rs, run_writer)
NeverPoisonsItself ==
    [][(NoDump /\ faults' = 0 /\ (client'["feed"].attempts > client["feed"].attempts
                                  \/ dropped' > dropped))
         => Poisoned(Head(client["feed"].plan))]_vars

\* "A transient fault (DB restart, lock) clears within a few retries; one that
\* survives five is a poison batch": no batch is given up while the database
\* answers.  (postgres.rs, run_writer)
NothingPoisons == faults = 0 => dropped = 0

\* A board of the dump never lands on a namesake: the station it is shown under
\* stands in its own system, or in one known by name only, however the dump's
\* systems and stations are spread over batches.
OwnSystem ==
    [][\A b \in Board :
         (boards'[b] # boards[b] /\ boards'[b].by = "dump") =>
           LET where == stations'[b[1]].system
           IN  where.real => where.of = Home[b[1]]]_vars

\* Whatever fails, the writer comes to the end of its batches and the dump to
\* its end, also when the database never comes back.
BothEnd == <>[](/\ client["feed"].plan = <<>> /\ Stage("feed") = "idle"
                /\ (Stage("dump") = "done" \/ NoDump))

\* The upsert by address never runs into the name index: the statements before
\* it moved the provisional row, or found the name taken.
SourceNotRejected == [][\A c \in Client : ~InsertRejected(c)]_vars
=============================================================================

----------------------------- MODULE Companions -----------------------------
(***************************************************************************)
(* Whose companion file is this?  The games of all commanders overwrite one *)
(* Status.json, one Cargo.json and so on, with no name inside.  A sync       *)
(* takes in each commander's journal, then reads a file that changed,        *)
(* compares it with what every store's journal last said, and gives it to    *)
(* the stores it fits.                                                       *)
(*                                                                         *)
(* The files do not meet, so one of them is followed: name.  What a rule     *)
(* compares (balance, tonnage, market, system, modules) is a number; what    *)
(* else is in the file is the number of its writing.                         *)
(***************************************************************************)
EXTENDS Integers, FiniteSets

CONSTANTS
    Fid,            \* commanders, numbered from 1 in the order of their FIDs
    Name,           \* the companion file is one of these
    Value,          \* what there is to compare
    Unnamed,        \* what lines that name nobody may say of it
    Nothing,        \* no value: no journal line yet, or none in the file
    Caller,         \* callers of sync_all: the watcher, the Sync now button
    OncePerSecond,  \* the games write the file once a second at most
    WritesFail,     \* a snapshot may fail to be written
    MaxPlays,       \* changes of what commanders have (a bound)
    MaxWrites,      \* writings of the file (a bound)
    MaxSeconds,     \* the clock (a bound)
    MaxFaults       \* failed syncs and restarts (a bound)

\* The files the code has a rule for, by the kind of rule.
Balances == {"Status.json"}
Holds == {"Cargo.json", "ShipLocker.json", "Backpack.json"}
Facts == {"Market.json", "Outfitting.json", "Shipyard.json", "NavRoute.json",
          "ModulesInfo.json"}

\* The key of the store without a commander sorts before every FID.
Placeholder == 0
Key == Fid \cup {Placeholder}

ASSUME CompanionsAssumption ==
    /\ Fid \subseteq Nat \ {Placeholder} /\ IsFiniteSet(Fid)
    /\ Name # {} /\ Name \subseteq Balances \cup Holds \cup Facts
    /\ Value \subseteq Nat /\ Unnamed \subseteq Value /\ Nothing \notin Nat
    /\ {OncePerSecond, WritesFail} \subseteq BOOLEAN
    /\ {MaxPlays, MaxWrites, MaxSeconds, MaxFaults} \subseteq Nat

VARIABLES
    name,    \* the file that is followed
    second,  \* the clock, in the unit of a modification time
    has,     \* what each commander's game knows
    said,    \* what its journal last said
    file,    \* the file in the journal folder
    plays, writes, faults,
    stores,  \* Registry: the stores that are open, the placeholder's among them
    holds,   \* the placeholder's store holds events
    known,   \* per store: what its events say
    copy,    \* per store: its row of snapshots
    seen,    \* Registry: companion_mtimes
    sync     \* the calls of sync_all

game == <<has, said, file, plays, writes, second>>
registry == <<stores, holds, known, copy, seen, sync>>
vars == <<name, second, has, said, file, plays, writes, faults, stores, holds, known,
          copy, seen, sync>>

NoFile == [by |-> Nothing, value |-> Nothing, writing |-> 0, at |-> Nothing]
Content == [by : Fid, value : Value \cup {Nothing}, writing : 1 .. MaxWrites,
            at : 0 .. MaxSeconds]

\* A row of snapshots: none; UNKNOWN_SNAPSHOT, which has no time; or a text with
\* the time of its file.  For the record: the journal of its writer was behind
\* the text (late), the journal of its receiver says the same (fits).
NoRow == [is |-> "none", text |-> NoFile, mtime |-> Nothing, late |-> FALSE,
          fits |-> FALSE]
Unknown == [NoRow EXCEPT !.is = "unknown"]
Copy == [is : {"copy"}, text : Content, mtime : 0 .. MaxSeconds, late : BOOLEAN,
         fits : BOOLEAN]
Shows(f) == copy[f].is = "copy"

Unscored == [fit |-> "unknown", far |-> 0]
Idle == [at |-> "idle", list |-> {}, todo |-> {}, saw |-> Nothing, mtime |-> Nothing,
         text |-> NoFile, scores |-> [f \in Key |-> Unscored], chosen |-> {}]

-----------------------------------------------------------------------------
(* Scores.                                                                 *)

Apart(a, b) == IF a < b THEN b - a ELSE a - b

\* What a store whose journal said k makes of a file that says v.
Score(k, v) ==
    IF Nothing \in {k, v} THEN Unscored
    ELSE IF name \in Balances THEN [fit |-> "distance", far |-> Apart(k, v)]
    ELSE [fit |-> IF k = v THEN "exact" ELSE "mismatch", far |-> 0]

Matches(score) == score.fit \in {"exact", "distance"} /\ score.far = 0

\* The stores with an exact score; failing that, the one whose balance is clearly
\* nearest, the order of the FIDs deciding between equal distances.
Choose(list, scores) ==
    LET exact == {f \in list : scores[f].fit = "exact"}
        near == {f \in list : scores[f].fit = "distance"}
        First(f, g) == \/ scores[f].far < scores[g].far
                       \/ scores[f].far = scores[g].far /\ f < g
    IN  IF Cardinality(list) = 1 THEN list
        ELSE IF exact # {} THEN exact
        ELSE {f \in near : \A g \in near \ {f} :
                  First(f, g) /\ scores[g].far >= 2 * scores[f].far}

ResolveTie_Shared(text, chosen) == chosen

\* Equal tonnage is not an equal hold: nobody gets it, unless it is empty.
ResolveTie(text, chosen) ==
    IF Cardinality(chosen) >= 2 /\ name \in Holds /\ text.value \notin {0, Nothing}
    THEN {} ELSE chosen

-----------------------------------------------------------------------------
(* The games.                                                              *)

Init ==
    /\ name \in Name /\ second = 0 /\ file = NoFile
    /\ plays = 0 /\ writes = 0 /\ faults = 0
    /\ has = [f \in Fid |-> Nothing] /\ said = has
    /\ stores = {Placeholder} /\ holds = FALSE
    /\ known = [f \in Key |-> Nothing] /\ copy = [f \in Key |-> NoRow]
    /\ seen = Nothing /\ sync = [c \in Caller |-> Idle]

\* A login, a payment, goods taken in, a docking, a jump.
Play(f, v) ==
    /\ plays < MaxPlays /\ has[f] # v
    /\ has' = [has EXCEPT ![f] = v] /\ plays' = plays + 1
    /\ UNCHANGED <<name, said, file, writes, second, faults, registry>>

\* The journal says so, before the file is written or after.
Says(f) ==
    /\ said[f] # has[f]
    /\ said' = [said EXCEPT ![f] = has[f]]
    /\ UNCHANGED <<name, has, file, plays, writes, second, faults, registry>>

\* The file is overwritten; on foot and with no route it has nothing to compare.
Rewrite(f, v) ==
    /\ has[f] # Nothing /\ writes < MaxWrites
    /\ OncePerSecond => file.at # second
    /\ file' = [by |-> f, value |-> v, writing |-> writes + 1, at |-> second]
    /\ writes' = writes + 1
    /\ UNCHANGED <<name, has, said, plays, second, faults, registry>>

Tick ==
    /\ second < MaxSeconds /\ second' = second + 1
    /\ UNCHANGED <<name, has, said, file, plays, writes, faults, registry>>

GameStep ==
    \/ \E f \in Fid, v \in Value : Play(f, v)
    \/ \E f \in Fid : Says(f) \/ \E v \in {has[f], Nothing} : Rewrite(f, v)
    \/ Tick

-----------------------------------------------------------------------------
(* sync_all, from the ingest to the companions.                            *)

\* Call c goes on as p.
Goes(c, p) == sync' = [sync EXCEPT ![c] = p]

\* Whoever's journal names him has a store from now on.
Named == {f \in Fid : said[f] # Nothing}

\* The placeholder retires for good when there are others and it holds nothing; one
\* that holds events stays, is scored and is dealt to, until a restart opens the
\* commanders' stores only.
Begin(c) ==
    /\ sync[c].at = "idle" /\ stores \cup Named # {Placeholder}
    /\ stores' = IF holds THEN stores \cup Named ELSE (stores \cup Named) \ {Placeholder}
    /\ copy' = [copy EXCEPT ![Placeholder] = IF Placeholder \in stores' THEN @ ELSE NoRow]
    /\ Goes(c, [Idle EXCEPT !.at = "ingest", !.list = stores', !.todo = stores'])
    /\ UNCHANGED <<name, game, faults, holds, known, seen>>

\* Before anybody is named the placeholder is synced by itself: the lines there are,
\* which may say something to compare, and the file if its row is of another time.
BeginAlone(c) ==
    /\ sync[c].at = "idle" /\ stores \cup Named = {Placeholder}
    /\ \/ UNCHANGED <<holds, known>>
       \/ /\ holds' = TRUE
          /\ \E v \in {known[Placeholder]} \cup Unnamed :
               known' = [known EXCEPT ![Placeholder] = v]
    /\ Goes(c, [Idle EXCEPT !.at = "stat", !.list = stores, !.saw = copy[Placeholder].mtime])
    /\ UNCHANGED <<name, game, faults, stores, copy, seen>>

\* No journal file is the placeholder's once the commanders have theirs.
Ingest(c, f) ==
    /\ sync[c].at = "ingest" /\ f \in sync[c].todo
    /\ known' = [known EXCEPT ![f] = IF f \in Fid THEN said[f] ELSE @]
    /\ Goes(c, [sync[c] EXCEPT !.todo = @ \ {f}])
    /\ UNCHANGED <<name, game, faults, stores, holds, copy, seen>>

\* What was seen is copied once, before the first file.
LookBack(c) ==
    /\ sync[c].at = "ingest" /\ sync[c].todo = {}
    /\ Goes(c, [sync[c] EXCEPT !.at = "stat", !.saw = seen])
    /\ UNCHANGED <<name, game, faults, stores, holds, known, copy, seen>>

\* A file that has not changed since is not read.
Stat(c) ==
    /\ sync[c].at = "stat"
    /\ Goes(c, IF file = NoFile \/ file.at = sync[c].saw THEN Idle
               ELSE [sync[c] EXCEPT !.at = "read", !.mtime = file.at])
    /\ UNCHANGED <<name, game, faults, stores, holds, known, copy, seen>>

Read(c) ==
    /\ sync[c].at = "read"
    /\ \/ Goes(c, [sync[c] EXCEPT !.at = "score", !.text = file, !.todo = sync[c].list])
       \/ Goes(c, Idle)      \* caught half-written: passed over
    /\ UNCHANGED <<name, game, faults, stores, holds, known, copy, seen>>

\* The placeholder by itself takes what was read.
Keep(c) ==
    /\ sync[c].at = "score" /\ sync[c].list = {Placeholder}
    /\ copy' = [copy EXCEPT ![Placeholder] =
                  [is |-> "copy", text |-> sync[c].text, mtime |-> sync[c].mtime,
                   late |-> TRUE, fits |-> FALSE]]
    /\ Goes(c, Idle)
    /\ UNCHANGED <<name, game, faults, stores, holds, known, seen>>

ScoreStore(c, f) ==
    /\ sync[c].at = "score" /\ f \in sync[c].todo /\ sync[c].list # {Placeholder}
    /\ LET score == IF sync[c].list = {f} THEN Unscored
                    ELSE Score(known[f], sync[c].text.value)
       IN  Goes(c, [sync[c] EXCEPT !.scores[f] = score, !.todo = @ \ {f}])
    /\ UNCHANGED <<name, game, faults, stores, holds, known, copy, seen>>

Decide_TimeNow(c) ==
    /\ sync[c].at = "score" /\ sync[c].todo = {} /\ sync[c].list # {Placeholder}
    /\ seen' = file.at
    /\ Goes(c, [sync[c] EXCEPT
                  !.at = "deal", !.todo = sync[c].list, !.mtime = file.at,
                  !.chosen = ResolveTie(sync[c].text, Choose(sync[c].list, sync[c].scores))])
    /\ UNCHANGED <<name, game, faults, stores, holds, known, copy>>

\* The file counts as dispatched before the first store has it.
Decide(c) ==
    /\ sync[c].at = "score" /\ sync[c].todo = {} /\ sync[c].list # {Placeholder}
    /\ seen' = sync[c].mtime
    /\ Goes(c, [sync[c] EXCEPT
                  !.at = "deal", !.todo = sync[c].list,
                  !.chosen = ResolveTie(sync[c].text, Choose(sync[c].list, sync[c].scores))])
    /\ UNCHANGED <<name, game, faults, stores, holds, known, copy>>

\* A chosen store takes the text, unless its row is of that time; when nobody is
\* chosen each row becomes unknown; else the others keep their own last text.
Dealt(p, f) ==
    LET w == p.text.by
    IN  IF f \in p.chosen
        THEN IF copy[f].mtime = p.mtime THEN copy[f]
             ELSE [is |-> "copy", text |-> p.text, mtime |-> p.mtime,
                   late |-> w \notin p.list \/ ~Matches(p.scores[w]),
                   fits |-> Matches(p.scores[f])]
        ELSE IF p.chosen = {} THEN Unknown
        ELSE copy[f]

Deal(c, f) ==
    /\ sync[c].at = "deal" /\ f \in sync[c].todo
    /\ copy' = [copy EXCEPT ![f] = Dealt(sync[c], f)]
    /\ Goes(c, IF sync[c].todo = {f} THEN Idle ELSE [sync[c] EXCEPT !.todo = @ \ {f}])
    /\ UNCHANGED <<name, game, faults, stores, holds, known, seen>>

\* A step of the sync fails and the rest of it is left.
Fails(c) ==
    /\ faults < MaxFaults /\ faults' = faults + 1
    /\ sync[c].at \in {"ingest", "score"} \cup (IF WritesFail THEN {"deal"} ELSE {})
    /\ Goes(c, Idle)
    /\ UNCHANGED <<name, game, stores, holds, known, copy, seen>>

\* The application is closed and started: the stores are on the disk, what was seen
\* is not.  The placeholder is opened only where no commander has a store.
Restart ==
    /\ faults < MaxFaults /\ faults' = faults + 1
    /\ stores' = IF stores = {Placeholder} THEN stores ELSE stores \ {Placeholder}
    /\ copy' = [copy EXCEPT ![Placeholder] = IF Placeholder \in stores' THEN @ ELSE NoRow]
    /\ seen' = Nothing /\ sync' = [c \in Caller |-> Idle]
    /\ UNCHANGED <<name, game, holds, known>>

SyncStep(c) ==
    \/ Begin(c) \/ BeginAlone(c) \/ LookBack(c) \/ Stat(c) \/ Read(c) \/ Keep(c)
    \/ Decide(c) \/ Fails(c)
    \/ \E f \in Key : Ingest(c, f) \/ ScoreStore(c, f) \/ Deal(c, f)

Next == GameStep \/ (\E c \in Caller : SyncStep(c)) \/ Restart

Spec == Init /\ [][Next]_vars

-----------------------------------------------------------------------------
(* Properties.                                                             *)

Maybe == Value \cup {Nothing}
Times == (0 .. MaxSeconds) \cup {Nothing}
Scores == [fit : {"unknown", "exact", "mismatch", "distance"}, far : Nat]
Calls == [at : {"idle", "ingest", "stat", "read", "score", "deal"}, list : SUBSET Key,
          todo : SUBSET Key, saw : Times, mtime : Times, text : Content \cup {NoFile},
          scores : [Key -> Scores], chosen : SUBSET Key]

\* Every variable keeps its shape.
TypeOK ==
    /\ name \in Name /\ second \in 0 .. MaxSeconds
    /\ {has, said} \subseteq [Fid -> Maybe] /\ known \in [Key -> Maybe]
    /\ file \in Content \cup {NoFile}
    /\ plays \in 0 .. MaxPlays /\ writes \in 0 .. MaxWrites /\ faults \in 0 .. MaxFaults
    /\ stores \subseteq Key /\ holds \in BOOLEAN
    /\ copy \in [Key -> Copy \cup {NoRow, Unknown}]
    /\ seen \in Times /\ sync \in [Caller -> Calls]

\* A store shows another commander's text only if that commander's journal was
\* behind when the file was scored, or if the receiver's journal said the same; and
\* a hold that only weighs the same goes to nobody.  The rules of companions.rs are
\* to keep a gauge from showing another's values (resolve_tie: "the unknown state,
\* never a wrong panel").
OwnPanel ==
    \A f \in Key :
        Shows(f) /\ copy[f].text.by # f =>
            \/ copy[f].late
            \/ copy[f].fits /\ (name \in Holds => copy[f].text.value = 0)

\* When no sync is under way, a file that will not be looked at again is what some
\* store shows, or no store shows anything: no writing of the file is passed over,
\* though it may change between its time and its reading, and restarts forget what
\* was seen (sync_all: "an unchanged file is not read").  The placeholder counts.
NothingMissed ==
    (\A c \in Caller : sync[c].at = "idle") /\ file # NoFile /\ seen = file.at =>
        \/ \E f \in Key : copy[f].text = file
        \/ \A f \in Key : ~Shows(f)

\* What resolve_tie says without a condition: where stores were compared, a hold
\* that is not empty is shown by its own commander only.
NeverAWrongPanel ==
    \A f \in Fid :
        Shows(f) /\ copy[f].text.by # f /\ copy[f].fits =>
            name \notin Holds \/ copy[f].text.value = 0

\* The same of the gauges: where every journal was in time, a status is shown by its
\* own commander only.
NeverAWrongGauge ==
    \A f \in Fid :
        Shows(f) /\ copy[f].text.by # f => copy[f].late \/ name \notin Balances

\* Once the journals have said what there is, the file that was read is its writer's
\* or, where another's journal says the same, nobody's.
WriterHasIt ==
    LET w == file.by
    IN  /\ file # NoFile /\ seen = file.at /\ \A c \in Caller : sync[c].at = "idle"
        /\ (\A f \in Fid : known[f] = has[f]) /\ file.value = has[w]
        /\ \A f \in Fid \ {w} : known[f] # known[w]
        => Shows(w) /\ copy[w].text = file
=============================================================================

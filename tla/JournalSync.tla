----------------------------- MODULE JournalSync -----------------------------
(***************************************************************************)
(* The journal folder and the stores fed from it: the game writes journal  *)
(* files, one per launch, for one or more commanders; Registry::sync_all   *)
(* decides who owns each file, lets each commander's store ingest its own  *)
(* from the byte it stopped at, and derives the current state from the new *)
(* rows.                                                                   *)
(*                                                                         *)
(* A journal line is its number in the order of writing, which is also its *)
(* timestamp.  Two units of file size make a line: a half-written line is  *)
(* one unit and has no newline yet.                                        *)
(***************************************************************************)
EXTENDS Naturals, Sequences, FiniteSets, FiniteSetsExt

CONSTANTS
    Fid,           \* commanders
    Placeholder,   \* the store of an install that knows no commander yet
    NoKey,
    ChangesHands,  \* a file may pass from one commander to another
    HalfLines,     \* a flush may end in the middle of a line
    MaxFiles,      \* journal files ever opened (a bound)
    MaxLines,      \* lines ever written (a bound)
    MaxReuses,     \* files truncated and written again (a bound)
    MaxFaults      \* restarts, failed syncs and owners not read (a bound)

ASSUME JournalSyncAssumption ==
    /\ Placeholder \notin Fid
    /\ {"unread", "pending", "menu"} \cap (Fid \cup {Placeholder}) = {}
    /\ NoKey \notin Seq(Nat) \X BOOLEAN
    /\ {ChangesHands, HalfLines} \subseteq BOOLEAN
    /\ {MaxFiles, MaxLines, MaxReuses, MaxFaults} \subseteq Nat

VARIABLES
    written,     \* history: for each line, who wrote it and what it is
    file,        \* the journal folder
    game,        \* the file each commander's running game writes to
    reuses, faults,
    owner,       \* Registry: whose file it is, as far as this process knows
    stale,       \* Registry: what an abandoned file looked like when given up
    stores,      \* Registry: the stores that are open
    rows,        \* events, per store
    checkpoint,  \* journal_files.offset, per store and file
    mark,        \* the derivation's watermark, per store
    derived,     \* the lines the derivation has applied, per store
    sync,        \* the sync in progress
    misread      \* history: files whose owner a sync could not read

folder == <<written, file, game, reuses>>
registry == <<owner, stale, stores>>
db == <<rows, checkpoint, mark, derived>>
vars == <<written, file, game, reuses, faults, owner, stale, stores, rows,
          checkpoint, mark, derived, sync, misread>>

\* Journal files in the order of their names, which is that of their launches.
File == 1 .. MaxFiles
NoFile == 0

Key == Fid \cup {Placeholder}
Stamp == 1 .. MaxLines
Kind == {"menu", "login", "play", "shutdown"}

Absent == [there |-> FALSE, lines |-> <<>>, half |-> FALSE, aged |-> FALSE,
           reused |-> FALSE, last |-> NoKey]
NoSync == [at |-> "idle", todo |-> [k \in Key |-> {}], key |-> Placeholder,
           file |-> NoFile, start |-> 0, replaced |-> FALSE]

Size(f) == 2 * Len(file[f].lines) + (IF file[f].half THEN 1 ELSE 0)
FileKey(f) == <<file[f].lines, file[f].half>>
IsLogin(t) == written[t].kind = "login"
LoggedIn(f) == \E i \in DOMAIN file[f].lines : IsLogin(file[f].lines[i])

------------------------------------------------------------------------------
(* The game.                                                               *)

\* A launch opens a new file; the commander's last game has ended, by itself
\* or killed without a Shutdown line ...
Launch(c, f) ==
    /\ ~file[f].there /\ \A g \in 1 .. f - 1 : file[g].there
    /\ file' = [file EXCEPT ![f] = [Absent EXCEPT !.there = TRUE, !.last = c]]
    /\ game' = [game EXCEPT ![c] = f]
    /\ UNCHANGED <<written, reuses, faults, registry, db, sync, misread>>

\* ... or truncates the newest one of the commander, as a relaunch after a
\* patch did.
Relaunch(c, f) ==
    /\ file[f].there /\ f \notin {game[d] : d \in Fid \ {c}}
    /\ ChangesHands \/ file[f].last = c
    /\ \A g \in f + 1 .. MaxFiles : file[g].last # c
    /\ reuses < MaxReuses
    /\ reuses' = reuses + 1
    /\ file' = [file EXCEPT ![f] = [Absent EXCEPT !.there = TRUE,
                                                 !.last = c,
                                                 !.reused = TRUE]]
    /\ game' = [game EXCEPT ![c] = f]
    /\ UNCHANGED <<written, faults, registry, db, sync, misread>>

\* A whole line, or the rest of a half-written one.
Append1(c, f, kind) ==
    /\ Len(written) < MaxLines
    /\ written' = Append(written, [who |-> c, kind |-> kind])
    /\ file' = [file EXCEPT ![f].lines = Append(@, Len(written) + 1),
                            ![f].half = FALSE,
                            ![f].aged = FALSE,
                            ![f].last = c]

Write(c, kind) ==
    /\ game[c] # NoFile
    /\ kind \in (IF LoggedIn(game[c]) THEN {"play"} ELSE {"menu", "login"})
    /\ Append1(c, game[c], kind)
    /\ UNCHANGED <<game, reuses, faults, registry, db, sync, misread>>

\* A flush can end in the middle of a line.
WriteHalf(c) ==
    /\ HalfLines /\ game[c] # NoFile /\ ~file[game[c]].half
    /\ file' = [file EXCEPT ![game[c]].half = TRUE, ![game[c]].aged = FALSE]
    /\ UNCHANGED <<written, game, reuses, faults, registry, db, sync, misread>>

\* The game ends with a Shutdown line.
Quit(c) ==
    /\ game[c] # NoFile
    /\ Append1(c, game[c], "shutdown")
    /\ game' = [game EXCEPT ![c] = NoFile]
    /\ UNCHANGED <<reuses, faults, registry, db, sync, misread>>

\* The game goes on in the same file under another commander.
SwitchAccount(c, d) ==
    /\ ChangesHands /\ game[c] # NoFile /\ game[d] = NoFile
    /\ Append1(d, game[c], "login")
    /\ game' = [game EXCEPT ![c] = NoFile, ![d] = game[c]]
    /\ UNCHANGED <<reuses, faults, registry, db, sync, misread>>

------------------------------------------------------------------------------
(* Whose file.                                                             *)

\* The first line that names a commander decides; without one, a file that
\* ended is a visit to the menu and any other may still be loading.
OwnerOf(f) ==
    LET lines == file[f].lines
        named == {i \in DOMAIN lines : IsLogin(lines[i])}
    IN  IF named # {} THEN written[lines[Min(named)]].who
        ELSE IF lines # <<>> /\ written[lines[Len(lines)]].kind = "shutdown"
             THEN "menu"
             ELSE "pending"

\* An hour passes without a write to a file (nobody asks the age of one whose
\* commander is remembered).
Age(f) ==
    /\ file[f].there /\ ~file[f].aged /\ owner[f] \notin Fid
    /\ file' = [file EXCEPT ![f].aged = TRUE]
    /\ UNCHANGED <<written, game, reuses, faults, registry, db, sync, misread>>

Remembered_Menu(f) == owner[f] \in Fid \cup {"menu"}

\* A commander is remembered for the life of the process, and so is a visit
\* to the menu, unless it was given up for its age and has moved since.
Remembered(f) ==
    \/ owner[f] \in Fid
    \/ owner[f] = "menu" /\ (stale[f] = NoKey \/ stale[f] = FileKey(f))

\* Of a file that cannot be read nothing is known, as of one still loading.
Found(f, bad) == IF f \in bad THEN "pending" ELSE OwnerOf(f)

Abandoned(f, bad) == Found(f, bad) = "pending" /\ file[f].aged

Classified(f, bad) ==
    IF ~file[f].there \/ Remembered(f) THEN owner[f]
    ELSE IF Abandoned(f, bad) THEN "menu"
    ELSE Found(f, bad)

GivenUp(f, bad) ==
    IF ~file[f].there \/ Remembered(f) THEN stale[f]
    ELSE IF Abandoned(f, bad) THEN FileKey(f)
    ELSE NoKey

\* A store is opened for each commander met; the placeholder goes once a
\* commander is known and it holds nothing.
OpenStores(bad) ==
    LET known == (stores \cup {Classified(f, bad) : f \in File}) \cap Fid
    IN  IF known # {} /\ rows[Placeholder] = {}
        THEN known
        ELSE known \cup (stores \cap {Placeholder})

\* Each store's files.  A visit to the menu is the only commander's; with
\* no commander at all the placeholder takes everything.
Share(k, bad) ==
    LET mine == {f \in File : Classified(f, bad) = k}
        menus == {f \in File : file[f].there /\ Classified(f, bad) = "menu"}
        known == OpenStores(bad) \cap Fid
    IN  IF known = {}
        THEN IF k = Placeholder THEN {f \in File : file[f].there} ELSE {}
        ELSE IF known = {k} THEN mine \cup menus
        ELSE mine

\* The files that are not remembered are read for their owner, but for the bad
\* ones: opening or reading them fails.
SyncStartWithout(bad) ==
    /\ sync.at = "idle"
    /\ \A f \in bad : file[f].there /\ ~Remembered(f)
    /\ faults + Cardinality(bad) <= MaxFaults
    /\ faults' = faults + Cardinality(bad)
    /\ misread' = misread \cup bad
    /\ owner' = [f \in File |-> Classified(f, bad)]
    /\ stale' = [f \in File |-> GivenUp(f, bad)]
    /\ stores' = OpenStores(bad)
    /\ sync' = [NoSync EXCEPT !.at = "ingest", !.todo = [k \in Key |-> Share(k, bad)]]
    /\ UNCHANGED <<folder, db>>

SyncStart == \E bad \in SUBSET File : SyncStartWithout(bad)

------------------------------------------------------------------------------
(* Ingest of one file into one store.                                      *)

Next1(k, f) == [sync EXCEPT !.at = "ingest", !.todo[k] = @ \ {f}]

Replaced_OrSame(k, f) == Size(f) <= checkpoint[k][f] /\ Size(f) > 0

\* The file's size is compared with the checkpoint: smaller means another
\* content, to be read from byte zero; equal means nothing new.
Replaced(k, f) == Size(f) < checkpoint[k][f]

Stat(k, f) ==
    /\ sync.at = "ingest"
    /\ f \in sync.todo[k] /\ \A g \in sync.todo[k] : f <= g
    /\ LET start == IF Replaced(k, f) THEN 0 ELSE checkpoint[k][f]
       IN  sync' = IF Size(f) = start
                   THEN Next1(k, f)
                   ELSE [sync EXCEPT !.at = "open", !.key = k, !.file = f,
                                     !.start = start,
                                     !.replaced = Replaced(k, f)]
    /\ UNCHANGED <<folder, faults, registry, db, misread>>

\* The whole lines from start to the end of the file as it is now, which
\* may be another end than the one the size was taken of.
Fresh == {i \in DOMAIN file[sync.file].lines : 2 * (i - 1) >= sync.start}

\* A line that names another commander than the store's ends the reading.
Refused(k, i) ==
    LET t == file[sync.file].lines[i]
    IN  k \in Fid /\ IsLogin(t) /\ written[t].who # k

Accepted(k) ==
    {i \in Fresh : ~\E j \in Fresh : j <= i /\ Refused(k, j)}

LiveRow(r, f) == r.file = f /\ r.gen = 0

Archived_Deletes(rs, f) == {r \in rs : ~LiveRow(r, f)}
Archived_Copies(rs, f) ==
    rs \cup {[r EXCEPT !.gen = 1] : r \in {x \in rs : LiveRow(x, f)}}
Archived_SameLetter(rs, f) ==
    {IF LiveRow(r, f) THEN [r EXCEPT !.gen = 1] ELSE r : r \in rs}

\* A replaced file's rows are archived, under the first letter still free,
\* to a name that sorts before the file's own.
Archived(rs, f) ==
    LET gen == Max({r.gen : r \in {x \in rs : x.file = f}} \cup {0}) + 1
    IN  {IF LiveRow(r, f) THEN [r EXCEPT !.gen = gen] ELSE r : r \in rs}

\* Insert or ignore: (file, offset) is the key.
Inserted(rs, f, is) ==
    rs \cup {[file |-> f, gen |-> 0, at |-> i, line |-> file[f].lines[i]] :
                i \in {j \in is : ~\E r \in rs : LiveRow(r, f) /\ r.at = j}}

Consumed_ToTheEnd(f) == Size(f)

\* Up to the last newline.
Consumed(f) == 2 * Len(file[f].lines)

\* One transaction: archive, insert, move the checkpoint.  Without a newline
\* nothing is written.
Read ==
    /\ sync.at = "open"
    /\ LET k == sync.key
           f == sync.file
           base == IF sync.replaced THEN Archived(rows[k], f) ELSE rows[k]
       IN  /\ IF Fresh = {}
              THEN UNCHANGED <<rows, checkpoint>>
              ELSE /\ rows' = [rows EXCEPT ![k] = Inserted(base, f, Accepted(k))]
                   /\ checkpoint' =
                        [checkpoint EXCEPT ![k][f] = Consumed(f)]
           /\ sync' = Next1(k, f)
    /\ UNCHANGED <<folder, faults, registry, mark, derived, misread>>

------------------------------------------------------------------------------
(* Derivation.  The tables come from events of play; what a menu visit     *)
(* writes is not among them.                                               *)

Derivable(k) ==
    {t \in {r.line : r \in rows[k]} : written[t].kind = "play"}
After(k) == {t \in Derivable(k) : t > mark[k]}

NewMark_Now(k) == Len(written)

\* The watermark is the last event applied, not the time of applying it.
NewMark(k) == Max(After(k) \cup {mark[k]})

Derive ==
    /\ sync.at = "ingest" /\ \A k \in Key : sync.todo[k] = {}
    /\ derived' =
         [k \in Key |-> IF k \in stores THEN derived[k] \cup After(k) ELSE derived[k]]
    /\ mark' =
         [k \in Key |-> IF k \in stores THEN NewMark(k) ELSE mark[k]]
    /\ sync' = NoSync
    /\ UNCHANGED <<folder, faults, registry, rows, checkpoint, misread>>

------------------------------------------------------------------------------
\* A sync fails (the database busy, a file gone): the transactions so far
\* stand, the rest waits for the next sync.
SyncFails ==
    /\ sync.at # "idle" /\ faults < MaxFaults
    /\ faults' = faults + 1
    /\ sync' = NoSync
    /\ UNCHANGED <<folder, registry, db, misread>>

(***************************************************************************)
(* The application restarts.  What it knew of the files is gone; the       *)
(* stores on the disk are opened.  With the placeholder alone on the disk  *)
(* it is a legacy store: renamed to its commander if it has met one, set   *)
(* aside for fresh stores if it has met several.                           *)
(***************************************************************************)
Met == {written[r.line].who : r \in {x \in rows[Placeholder] : IsLogin(x.line)}}

Legacy == stores = {Placeholder}
Handed_ToEach(store, empty) ==
    IF Legacy
    THEN [k \in Key |-> IF k \in Met THEN store[Placeholder] ELSE empty]
    ELSE store

Handed(store, empty) ==
    IF Legacy /\ Met # {}
    THEN [k \in Key |-> IF Met = {k} THEN store[Placeholder] ELSE empty]
    ELSE store

Restart ==
    /\ faults < MaxFaults
    /\ faults' = faults + 1
    /\ owner' = [f \in File |-> "unread"]
    /\ stale' = [f \in File |-> NoKey]
    /\ sync' = NoSync
    /\ stores' = IF ~Legacy THEN stores \cap Fid
                 ELSE IF Met = {} THEN stores ELSE Met
    /\ rows' = Handed(rows, {})
    /\ checkpoint' = Handed(checkpoint, [f \in File |-> 0])
    /\ mark' = Handed(mark, 0)
    /\ derived' = Handed(derived, {})
    /\ UNCHANGED <<folder, misread>>

------------------------------------------------------------------------------
Init ==
    /\ written = <<>> /\ reuses = 0 /\ faults = 0
    /\ file = [f \in File |-> Absent]
    /\ game = [c \in Fid |-> NoFile]
    /\ owner = [f \in File |-> "unread"]
    /\ stale = [f \in File |-> NoKey]
    /\ stores = {Placeholder}
    /\ rows = [k \in Key |-> {}]
    /\ checkpoint = [k \in Key |-> [f \in File |-> 0]]
    /\ mark = [k \in Key |-> 0]
    /\ derived = [k \in Key |-> {}]
    /\ sync = NoSync /\ misread = {}

GameStep ==
    \/ \E c \in Fid, f \in File : Launch(c, f) \/ Relaunch(c, f)
    \/ \E c \in Fid, kind \in Kind : Write(c, kind)
    \/ \E c \in Fid : WriteHalf(c) \/ Quit(c)
    \/ \E c, d \in Fid : SwitchAccount(c, d)
    \/ \E f \in File : Age(f)

SyncStep ==
    \/ SyncStart
    \/ \E k \in Key, f \in File : Stat(k, f)
    \/ Read
    \/ Derive

Next == GameStep \/ SyncStep \/ SyncFails \/ Restart

Spec == Init /\ [][Next]_vars

\* The watcher syncs on every change and on a timer; the game owes nothing.
LiveSpec == Spec /\ WF_vars(SyncStep)

------------------------------------------------------------------------------
(* Correctness.                                                            *)

Row == [file : File, gen : 0 .. MaxReuses, at : Stamp, line : Stamp]

\* Every variable keeps its shape; in particular no file is archived more
\* often than it was reused.
TypeOK ==
    /\ written \in Seq([who : Fid, kind : Kind]) /\ Len(written) <= MaxLines
    /\ \A f \in File : /\ file[f].lines \in Seq(Stamp)
                       /\ file[f].last \in Fid \cup {NoKey}
    /\ game \in [Fid -> File \cup {NoFile}]
    /\ owner \in [File -> Fid \cup {"unread", "pending", "menu"}]
    /\ stores \in (SUBSET Key) \ {{}}
    /\ rows \in [Key -> SUBSET Row]
    /\ checkpoint \in [Key -> [File -> 0 .. 2 * MaxLines]]
    /\ mark \in [Key -> 0 .. MaxLines]
    /\ derived \in [Key -> SUBSET Stamp]
    /\ sync.at \in {"idle", "ingest", "open"}
    /\ misread \subseteq File

Lines(k) == {r.line : r \in rows[k]}

\* What a commander's store has once recorded stays recorded, whatever the
\* game does to the file it came from.
HistoryKept == [][\A k \in Fid : Lines(k) \subseteq Lines(k)']_vars

\* No line is recorded twice in a store, through every re-read, archive,
\* restart and half-written line.
OncePerLine ==
    \A k \in Key : \A r, s \in rows[k] : r.line = s.line => r = s

\* Replay order is writing order: an archive sorts before the file that
\* replaced it, an older archive before a younger one, offsets within.
Before(r, s) ==
    \/ r.gen = s.gen /\ r.at < s.at
    \/ r.gen # 0 /\ (s.gen = 0 \/ r.gen < s.gen)
ReplayIsChronological ==
    \A k \in Key : \A r, s \in rows[k] :
        r.file = s.file /\ Before(r, s) => r.line < s.line

\* Logins and play in a commander's store that are not his.
Foreign(k) ==
    {r \in rows[k] : written[r.line].kind \in {"login", "play"} /\ written[r.line].who # k}

\* Nothing slips in behind the watermark: every recorded event up to it has
\* been applied, so resuming there gives what a full rebuild gives.  Only the
\* file whose owner could not be read is taken later than a newer one; and a
\* store with another commander's events has his times in its mark.
NothingBehindTheMark ==
    \A k \in Fid : Foreign(k) = {} =>
        \A r \in rows[k] :
            written[r.line].kind = "play" /\ r.line <= mark[k] =>
                r.line \in derived[k] \/ r.file \in misread

\* The owner's checkpoint never passes a line of the file without recording
\* it, as long as the file kept its commander and its name was not reused.
NothingSkipped ==
    \A k \in Fid, f \in File :
        /\ LoggedIn(f) /\ ~file[f].reused
        /\ \A i \in DOMAIN file[f].lines : written[file[f].lines[i]].who = k
        => \A i \in DOMAIN file[f].lines :
               2 * i <= checkpoint[k][f] => file[f].lines[i] \in Lines(k)

\* A commander's store never holds another commander's session, unless it is of
\* a file whose owner could not be read: given up as a menu visit, it is the only
\* known commander's.
NoBlend == \A k \in Fid : \A r \in Foreign(k) : r.file \in misread

\* The owner could not be read of a file an hour old, with a session in it: a
\* visit to the menu until it moves or the application restarts.
Forgotten(f) == f \in misread /\ owner[f] = "menu" /\ stale[f] = FileKey(f)

\* Every line of a session ends up in its commander's store, unless its file was
\* truncated or is forgotten.
EveryLineArrives ==
    <>[](\A f \in File :
            LoggedIn(f) /\ ~file[f].reused /\ ~Forgotten(f) =>
                \A i \in DOMAIN file[f].lines :
                    file[f].lines[i] \in Lines(OwnerOf(f)))
==============================================================================

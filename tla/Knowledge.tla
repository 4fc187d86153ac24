----------------------------- MODULE Knowledge -----------------------------
(***************************************************************************)
(* The service's EDSM proxy: requests about a cell, a system or a system's *)
(* bodies are answered from the service's own tables, and what the tables  *)
(* do not hold is fetched from EDSM by one of the requests that ask for it *)
(* (SingleFlight), one call at a time and spaced (Pacer).  Beside them the *)
(* background job that drains the queue of stars clients asked about, with *)
(* calls of its own.                                                       *)
(*                                                                         *)
(* A request is a future: its client may go away while it waits for a      *)
(* statement, a lock, a call or another request, and then what it holds is *)
(* dropped, the permit first and the guard after it.                       *)
(***************************************************************************)
EXTENDS Naturals, Sequences, FiniteSets, SequencesExt

CONSTANTS
    Request,   \* the requests of a behaviour
    Key,       \* what a flight is about: a cell, a system or its bodies
    KindOf,    \* the kind of a key
    Asks,      \* what is asked, keys by requests and stars, and the stale bodies
    EdsmKnows, \* the systems EDSM knows
    Star,      \* addresses clients ask the main star of
    EdsmStars, \* the ones EDSM has a main star for
    Nothing,   \* no key
    Teaches,   \* the addresses an answer of EDSM about a key teaches
    MaxFaults  \* clients that leave, failed calls and failed statements (a bound)

Kind == {"cell", "system", "bodies"}

ASSUME KnowledgeAssumption ==
    /\ KindOf \in [Key -> Kind]
    /\ \A a \in Asks : a.keys \in [Request -> Key \cup {Nothing}] /\ a.stars \subseteq Star
                       /\ \A k \in a.stale : k \in Key /\ KindOf[k] = "bodies"
    /\ Nothing \notin Key
    /\ EdsmKnows \subseteq Key
    /\ EdsmStars \subseteq Star
    /\ Teaches \in [Key -> SUBSET Star]
    /\ MaxFaults \in Nat

MaxTries == 3

VARIABLES
    ask,       \* the key each request asks for
    wanted,    \* the stars clients ask about
    pc,        \* where each request is
    answer,    \* what each request will be, or was, answered
    rows,      \* what the tables hold of a key: nothing, a stale row, a fresh one
    inflight,  \* SingleFlight.inflight
    woken,     \* the requests whose Notified has been notified
    pacer,     \* the requests that hold Pacer.last or wait for it, in order
    rested,    \* the spacing since the last completion has passed
    stars,     \* the addresses the stars table knows
    lookups,   \* star_lookups in the order of requested_at
    asking,    \* answer_stars between its two statements
    job,       \* run_edsm_lookups
    faults,
    bare,      \* history: keys a guard was dropped on with nothing learned
    late       \* history: the waiters whose budget ran out

asked == <<ask, wanted>>
flight == <<inflight, woken>>
permits == <<pacer, rested>>
queue == <<stars, lookups, asking, job>>
history == <<bare, late>>
vars == <<asked, pc, answer, rows, inflight, woken, pacer, rested, stars, lookups,
          asking, job, faults, bare, late>>

\* A request that fetches: what it passes through, and in what order it writes.
Writing == {"row", "stars", "clear", "sweep"}
WithPermit == {"calling"} \cup Writing
WithGuard == {"queue", "leave"} \cup WithPermit
Waiting == {"arm", "check", "asleep"}
Stages == {"look", "begin", "reread", "notify", "done"} \cup Waiting \cup WithGuard
Answers == {"none", "served", "local", "fetched", "coalesced", "notfound", "error", "gone"}

\* What a request does after a write: a system's row comes before its star, a
\* cell's stars before the mark that the cell was swept.
AfterWrite(kind, stage) ==
    CASE stage = "row" -> IF kind = "system" THEN "stars" ELSE "leave"
      [] stage = "stars" -> "clear"
      [] stage = "clear" -> IF kind = "cell" THEN "sweep" ELSE "leave"
      [] stage = "sweep" -> "leave"

FirstWrite(kind) == IF kind = "cell" THEN "stars" ELSE "row"

\* What a write that fails leaves the client with.
OnWriteFailure(kind) ==
    CASE kind = "cell" -> "served" [] kind = "system" -> "fetched" [] OTHER -> "error"

MyKind(r) == KindOf[ask[r]]
Goto(r, stage) == pc' = [pc EXCEPT ![r] = stage]
Reply(r, a) == answer' = [answer EXCEPT ![r] = a]

TypeOK ==
    /\ ask \in [Request -> Key \cup {Nothing}] /\ wanted \subseteq Star /\ pc \in [Request -> Stages]
    /\ answer \in [Request -> Answers]
    /\ rows \in [Key -> {"none", "stale", "fresh"}]
    /\ inflight \subseteq Key /\ woken \subseteq Request
    /\ bare \subseteq Key /\ late \subseteq Request
    /\ IsInjective(pacer) /\ Range(pacer) \subseteq Request /\ rested \in BOOLEAN
    /\ stars \subseteq Star /\ asking \subseteq Star
    /\ \A i, j \in DOMAIN lookups :
         /\ lookups[i].star \in Star /\ lookups[i].tries \in 0..MaxTries
         /\ lookups[i].star = lookups[j].star => i = j
    /\ job.at \in {"pick", "calling", "upsert", "clear"} /\ job.star \subseteq Star
    /\ faults \in 0..MaxFaults

Init ==
    /\ \E a \in Asks :
         /\ ask = a.keys /\ wanted = a.stars
         /\ rows = [k \in Key |-> IF k \in a.stale THEN "stale" ELSE "none"]
    /\ pc = [r \in Request |-> IF ask[r] = Nothing THEN "done" ELSE "look"]
    /\ answer = [r \in Request |-> "none"]
    /\ inflight = {} /\ woken = {} /\ pacer = <<>> /\ rested = TRUE
    /\ stars = {} /\ lookups = <<>> /\ asking = {}
    /\ job = [at |-> "pick", star |-> {}]
    /\ faults = 0 /\ bare = {} /\ late = {}

Fault == faults < MaxFaults /\ faults' = faults + 1
----------------------------------------------------------------------------
(* A request.                                                              *)

\* What the tables hold is looked up before the flight is.
Look(r) ==
    /\ pc[r] = "look"
    /\ IF rows[ask[r]] = "fresh"
       THEN Goto(r, "done") /\ Reply(r, IF MyKind(r) = "cell" THEN "served" ELSE "local")
       ELSE Goto(r, "begin") /\ UNCHANGED answer
    /\ UNCHANGED <<asked, rows, flight, permits, queue, faults, history>>

\* SingleFlight::begin, and the place in the queue for the permit with it: there
\* is no await between them.
Begin(r) ==
    /\ pc[r] = "begin"
    /\ IF ask[r] \in inflight
       THEN Goto(r, "arm") /\ UNCHANGED <<inflight, pacer>>
       ELSE /\ Goto(r, "queue")
            /\ inflight' = inflight \cup {ask[r]}
            /\ pacer' = Append(pacer, r)
    /\ UNCHANGED <<asked, answer, rows, woken, rested, queue, faults, history>>

\* SingleFlight::wait: the Notified is made before the set is looked at.
Arm(r) ==
    /\ pc[r] = "arm"
    /\ Goto(r, "check")
    /\ woken' = woken \ {r}
    /\ UNCHANGED <<asked, answer, rows, inflight, permits, queue, faults, history>>

Check(r) ==
    /\ pc[r] = "check"
    /\ Goto(r, IF ask[r] \in inflight THEN "asleep" ELSE "reread")
    /\ UNCHANGED <<asked, answer, rows, flight, permits, queue, faults, history>>

Wake(r) ==
    /\ pc[r] = "asleep" /\ r \in woken
    /\ Goto(r, "arm")
    /\ UNCHANGED <<asked, answer, rows, flight, permits, queue, faults, history>>

\* The waiter's budget is shorter than the queue for the permit may be, and than
\* a call and slow statements may take; a leader that is first in the queue only
\* has the spacing to sleep out.
Budget(r) ==
    /\ pc[r] = "asleep" /\ r \notin woken
    /\ \A l \in Request : ask[l] = ask[r] /\ pc[l] = "queue" => Head(pacer) # l
    /\ Goto(r, "reread")
    /\ late' = late \cup {r}
    /\ UNCHANGED <<asked, answer, rows, flight, permits, queue, faults, bare>>

\* A waiter reads the tables again, and never becomes a leader: a name that is
\* still not there is answered like a name nobody knows.
Reread(r) ==
    /\ pc[r] = "reread"
    /\ Goto(r, "done")
    /\ Reply(r, CASE MyKind(r) = "cell" -> "served"
                  [] rows[ask[r]] = "none" -> "notfound"
                  [] OTHER -> "coalesced")
    /\ UNCHANGED <<asked, rows, flight, permits, queue, faults, history>>

\* The spacing is a property of the lock, not of who holds it.
Rest ==
    /\ ~rested
    /\ rested' = TRUE
    /\ UNCHANGED <<asked, pc, answer, rows, flight, pacer, queue, faults, history>>

\* Mutant: the permit is bound to _ and dropped where it was taken.
Permit_Unbound(r) ==
    /\ pc[r] = "queue" /\ Head(pacer) = r /\ rested
    /\ Goto(r, "calling")
    /\ pacer' = Tail(pacer) /\ rested' = FALSE
    /\ UNCHANGED <<asked, answer, rows, flight, queue, faults, history>>

\* Pacer::permit: first in the queue, and the spacing slept out.
Permit(r) ==
    /\ pc[r] = "queue" /\ Head(pacer) = r /\ rested
    /\ Goto(r, "calling")
    /\ UNCHANGED <<asked, answer, rows, flight, permits, queue, faults, history>>

\* The permit is dropped where the leader's scope ends, just before its guard.
DropPermit(r) == pacer' = RemoveFirst(pacer, r) /\ rested' = FALSE

\* The leader's scope ends: the permit goes, the guard is next.
LeaveWith(r, a) == Goto(r, "leave") /\ Reply(r, a) /\ DropPermit(r)

\* Mutant: the guard lives as long as the call.
Answered_Released(r) ==
    /\ pc[r] = "calling"
    /\ IF MyKind(r) = "system" /\ ask[r] \notin EdsmKnows
       THEN LeaveWith(r, "notfound")
       ELSE Goto(r, FirstWrite(MyKind(r))) /\ UNCHANGED <<answer, permits>>
    /\ inflight' = inflight \ {ask[r]}
    /\ UNCHANGED <<asked, rows, woken, queue, faults, history>>

\* EDSM answers.  Of an unknown system it says {}: nothing to learn for a
\* system, but a document like any other for the bodies.
Answered(r) ==
    /\ pc[r] = "calling"
    /\ IF MyKind(r) = "system" /\ ask[r] \notin EdsmKnows
       THEN LeaveWith(r, "notfound")
       ELSE Goto(r, FirstWrite(MyKind(r))) /\ UNCHANGED <<answer, permits>>
    /\ UNCHANGED <<asked, rows, flight, queue, faults, history>>

\* The call fails, times out or brings something that cannot be read.
CallFails(r) ==
    /\ pc[r] = "calling" /\ Fault
    /\ LeaveWith(r, IF MyKind(r) = "cell" THEN "served" ELSE "error")
    /\ UNCHANGED <<asked, rows, flight, queue, history>>

\* One statement of what the leader learns.
Write(r) ==
    /\ pc[r] \in Writing
    /\ LET k == ask[r]
           next == AfterWrite(MyKind(r), pc[r])
       IN  /\ rows' = IF pc[r] \in {"row", "sweep"} THEN [rows EXCEPT ![k] = "fresh"] ELSE rows
           /\ stars' = IF pc[r] = "stars" THEN stars \cup Teaches[k] ELSE stars
           /\ lookups' = IF pc[r] = "clear"
                         THEN SelectSeq(lookups, LAMBDA l : l.star \notin Teaches[k])
                         ELSE lookups
           /\ IF next = "leave"
              THEN LeaveWith(r, IF MyKind(r) = "cell" THEN "served" ELSE "fetched")
              ELSE Goto(r, next) /\ UNCHANGED <<answer, permits>>
    /\ UNCHANGED <<asked, flight, asking, job, faults, history>>

\* A statement fails: a system EDSM gave no address for, or whose name another
\* row holds, is answered all the same.
WriteFails(r) ==
    /\ pc[r] \in Writing /\ Fault
    /\ LeaveWith(r, OnWriteFailure(MyKind(r)))
    /\ UNCHANGED <<asked, rows, flight, queue, history>>

\* FlightGuard's drop, first half: the key leaves the set.
Leave(r) ==
    /\ pc[r] = "leave"
    /\ Goto(r, "notify")
    /\ inflight' = inflight \ {ask[r]}
    /\ bare' = IF rows[ask[r]] = "fresh" THEN bare ELSE bare \cup {ask[r]}
    /\ UNCHANGED <<asked, answer, rows, woken, permits, queue, faults, late>>

\* Mutant: notify_one.
Notify_One(r) ==
    /\ pc[r] = "notify"
    /\ Goto(r, "done")
    /\ LET sleepers == {q \in Request : pc[q] \in {"check", "asleep"}}
       IN  IF sleepers = {} THEN UNCHANGED woken
           ELSE \E q \in sleepers : woken' = woken \cup {q}
    /\ UNCHANGED <<asked, answer, rows, inflight, permits, queue, faults, history>>

\* FlightGuard's drop, second half: the waiters of every key are notified.
Notify(r) ==
    /\ pc[r] = "notify"
    /\ Goto(r, "done")
    /\ woken' = woken \cup {q \in Request : pc[q] \in {"check", "asleep"}}
    /\ UNCHANGED <<asked, answer, rows, inflight, permits, queue, faults, history>>

\* Mutant: the marker is only cleared where the leader succeeds.
Disconnect_Unguarded(r) ==
    /\ pc[r] \in {"look", "asleep", "reread", "queue"} \cup WithPermit /\ Fault
    /\ Reply(r, "gone")
    /\ Goto(r, "done")
    /\ IF pc[r] \in {"queue"} \cup WithPermit
       THEN /\ pacer' = RemoveFirst(pacer, r)
            /\ rested' = (rested /\ pc[r] = "queue")
       ELSE UNCHANGED permits
    /\ UNCHANGED <<asked, rows, flight, queue, history>>

\* The client goes away while its request awaits something.
Disconnect(r) ==
    /\ pc[r] \in {"look", "asleep", "reread", "queue"} \cup WithPermit /\ Fault
    /\ Reply(r, "gone")
    /\ IF pc[r] \in {"queue"} \cup WithPermit
       THEN /\ Goto(r, "leave")
            /\ pacer' = RemoveFirst(pacer, r)
            /\ rested' = (rested /\ pc[r] = "queue")
       ELSE Goto(r, "done") /\ UNCHANGED permits
    /\ UNCHANGED <<asked, rows, flight, queue, history>>

\* A read of the tables fails.
ReadFails(r) ==
    /\ pc[r] \in {"look", "reread"} /\ Fault
    /\ Goto(r, "done") /\ Reply(r, "error")
    /\ UNCHANGED <<asked, rows, flight, permits, queue, history>>
----------------------------------------------------------------------------
(* The stars clients ask about, and the job that looks them up.            *)

Queued(s) == \E i \in DOMAIN lookups : lookups[i].star = s
Pending == SelectSeq(lookups, LAMBDA l : l.tries < MaxTries)
SetTries(s, n) ==
    lookups' = [i \in DOMAIN lookups |->
                  IF lookups[i].star = s THEN [lookups[i] EXCEPT !.tries = n] ELSE lookups[i]]
Tries(s) == IF Queued(s) THEN lookups[CHOOSE i \in DOMAIN lookups : lookups[i].star = s].tries
            ELSE MaxTries

\* answer_stars, first statement: what is known is answered.
AskStar(s) ==
    /\ s \in wanted \ (asking \cup stars)
    /\ asking' = asking \cup {s}
    /\ UNCHANGED <<asked, pc, answer, rows, flight, permits, stars, lookups, job, faults, history>>

\* Second statement: the rest is queued, unless a row is there, whatever it holds.
QueueStar(s) ==
    /\ s \in asking
    /\ asking' = asking \ {s}
    /\ lookups' = IF Queued(s) THEN lookups ELSE Append(lookups, [star |-> s, tries |-> 0])
    /\ UNCHANGED <<asked, pc, answer, rows, flight, permits, stars, job, faults, history>>

JobGoto(at, about) == job' = [at |-> at, star |-> about]

\* The oldest row with attempts left.
JobPick ==
    /\ job.at = "pick" /\ Pending # <<>>
    /\ JobGoto("calling", {Head(Pending).star})
    /\ UNCHANGED <<asked, pc, answer, rows, flight, permits, stars, lookups, asking, faults, history>>

\* Mutant: EDSM has no primary star, and the row is left as it is.
JobAnswered_Kept ==
    /\ job.at = "calling"
    /\ IF job.star \subseteq EdsmStars
       THEN JobGoto("upsert", job.star) ELSE JobGoto("pick", {})
    /\ UNCHANGED <<asked, pc, answer, rows, flight, permits, stars, lookups, asking, faults, history>>

\* One call, which asks the pacer for nothing.  A star EDSM does not have has no
\* attempts left after it.
JobAnswered ==
    /\ job.at = "calling"
    /\ IF job.star \subseteq EdsmStars
       THEN JobGoto("upsert", job.star) /\ UNCHANGED lookups
       ELSE /\ JobGoto("pick", {})
            /\ \E s \in job.star : SetTries(s, MaxTries)
    /\ UNCHANGED <<asked, pc, answer, rows, flight, permits, stars, asking, faults, history>>

JobCallFails ==
    /\ job.at = "calling" /\ Fault
    /\ \E s \in job.star : SetTries(s, Tries(s) + 1)
    /\ JobGoto("pick", {})
    /\ UNCHANGED <<asked, pc, answer, rows, flight, permits, stars, asking, history>>

\* apply_stars: the star, and then its row in the queue.
JobUpsert ==
    /\ job.at = "upsert"
    /\ stars' = stars \cup job.star
    /\ JobGoto("clear", job.star)
    /\ UNCHANGED <<asked, pc, answer, rows, flight, permits, lookups, asking, faults, history>>

JobClear ==
    /\ job.at = "clear"
    /\ lookups' = SelectSeq(lookups, LAMBDA l : l.star \notin job.star)
    /\ JobGoto("pick", {})
    /\ UNCHANGED <<asked, pc, answer, rows, flight, permits, stars, asking, faults, history>>

\* A statement of apply_stars fails: the row stays at the head of the queue.
JobWriteFails ==
    /\ job.at \in {"upsert", "clear"} /\ Fault
    /\ JobGoto("pick", {})
    /\ UNCHANGED <<asked, pc, answer, rows, flight, permits, stars, lookups, asking, history>>
----------------------------------------------------------------------------
Progress(r) ==
    \/ Look(r) \/ Begin(r) \/ Arm(r) \/ Check(r) \/ Wake(r) \/ Reread(r)
    \/ Permit(r) \/ Answered(r) \/ Write(r) \/ Leave(r) \/ Notify(r)

Misfortune(r) ==
    \/ Budget(r) \/ CallFails(r) \/ WriteFails(r) \/ Disconnect(r) \/ ReadFails(r)

Job == JobPick \/ JobAnswered \/ JobUpsert \/ JobClear
JobFails == JobCallFails \/ JobWriteFails

\* Every request was answered and nothing is to be looked up.
Settled ==
    /\ \A r \in Request : pc[r] = "done"
    /\ wanted \subseteq stars \cup {lookups[i].star : i \in DOMAIN lookups} /\ asking = {}
    /\ Pending = <<>> /\ job.at = "pick"
    /\ UNCHANGED vars

Next ==
    \/ \E r \in Request : Progress(r) \/ Misfortune(r)
    \/ Rest
    \/ \E s \in Star : AskStar(s) \/ QueueStar(s)
    \/ Job \/ JobFails
    \/ Settled

Spec == Init /\ [][Next]_vars

\* A call ends, with its timeout at the latest; a statement ends; the job goes on
\* for ever.  Nothing is owed to the budget of a waiter, and no client must ask.
LiveSpec ==
    /\ Spec
    /\ \A r \in Request : WF_vars(Progress(r))
    /\ WF_vars(Rest)
    /\ WF_vars(Job)
    /\ \A s \in Star : WF_vars(QueueStar(s))
----------------------------------------------------------------------------
\* A waiter that sleeps un-notified has someone to wake it: its key is in
\* flight, or a guard's drop is between its two halves.  The waiters of other
\* keys share the one Notify.  (knowledge.rs, SingleFlight)
NoSleeper ==
    \A r \in Request :
      pc[r] = "asleep" /\ r \notin woken =>
        \/ ask[r] \in inflight
        \/ \E q \in Request : pc[q] = "notify"

\* A key is in flight exactly while one request, which asks for it, holds its
\* guard, whatever became of that request's client.  (knowledge.rs, FlightGuard)
FlightHasLeader ==
    \A k \in Key :
      LET leaders == {r \in Request : ask[r] = k /\ pc[r] \in WithGuard}
      IN  Cardinality(leaders) = (IF k \in inflight THEN 1 ELSE 0)

\* Between them the requests make one call at a time, and no call while another
\* leader still writes what its own taught it.  (knowledge.rs, Pacer)
OneByOne ==
    \A r, q \in Request :
      pc[r] \in WithPermit /\ pc[q] \in WithPermit => r = q

\* A waiter that kept waiting to the end is only told that a name is unknown
\* when a guard of that name was dropped with nothing learned: what a leader
\* learns is there before its waiters look.  (knowledge.rs, system_document)
MissIsExplained ==
    \A r \in Request :
      answer[r] = "notfound" /\ r \notin late /\ ask[r] \in EdsmKnows => ask[r] \in bare

\* Every request is answered without the help of a waiter's budget, and no
\* queued star is looked up for ever: the stars EDSM has are stored, the others
\* run out of attempts.  (knowledge.rs; stars.rs, run_edsm_lookups)
Settles ==
    /\ \A r \in Request : <>(pc[r] = "done")
    /\ \A s \in Star :
         (Queued(s) /\ Tries(s) < MaxTries) ~> (s \in stars \/ Tries(s) = MaxTries)

\* "A name nobody knows is a 404, not an error: the Galaxy tab says 'not in the
\* galaxy database' and means it."  (http.rs, knowledge_system)
NotFoundIsMeant ==
    \A r \in Request : answer[r] = "notfound" => ask[r] \notin EdsmKnows

\* "Serializes and spaces every outbound EDSM call the process makes."
\* (knowledge.rs, Pacer)
OneCallOfTheProcess ==
    ~(job.at = "calling" /\ \E r \in Request : pc[r] = "calling")
============================================================================

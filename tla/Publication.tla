----------------------------- MODULE Publication -----------------------------
(***************************************************************************)
(* The artifact directory of ed-api: the publishing commands (adopt or     *)
(* build a routing index, the nightly reconcile, the weekly star           *)
(* catalogue) replace current.json in it, and the serving process opens    *)
(* what current.json names.  They are separate processes and share nothing *)
(* but the directory: routing/<v>, .highway/<v>, .highway/.staging-<v> and *)
(* current.json.                                                           *)
(*                                                                         *)
(* A routing version stands for its number in artifact_publications, whose *)
(* rows the database numbers upward.  Job is the set of publishing         *)
(* commands that may run at one time; nothing in the code limits it to     *)
(* one, the timers and the operator do.                                    *)
(***************************************************************************)
EXTENDS Naturals, Sequences, FiniteSets

CONSTANTS
    Job,        \* publishing commands that may run at the same time
    Request,    \* plots the serving process handles at the same time
    Builder,    \* lazy highway builds at the same time (a bound)
    MaxVersion, \* routing versions ever allocated (a bound)
    MaxStars,   \* star catalogues ever allocated (a bound)
    MaxFaults   \* crashes, I/O errors and restarts in all (a bound)

ASSUME PublicationAssumption ==
    /\ Job # {} /\ Request # {} /\ Builder # {}
    /\ MaxVersion \in Nat \ {0} /\ MaxStars \in Nat /\ MaxFaults \in Nat

VARIABLES
    manifest,   \* current.json: the two products and routing's overlay chain
    onDisk,     \* the directories routing/<v>
    highway,    \* the directories .highway/<v>
    staging,    \* the directories .highway/.staging-<v>
    allocated,  \* last routing version numbered
    learned,    \* last star catalogue numbered
    job,        \* the publishing commands
    loaded,     \* GalaxyService::state of the serving process
    request,    \* the version a plot read before asking for the lock
    builder,    \* the serving process's background highway builds
    faults,     \* faults spent
    published   \* history: the routing versions current.json has named

disk == <<manifest, onDisk, highway, staging>>
server == <<loaded, request, builder>>
vars == <<manifest, onDisk, highway, staging, allocated, learned, job, loaded,
          request, builder, faults, published>>

NoVersion == 0
Version == 1 .. MaxVersion
StarsVersion == 1 .. MaxStars
Link == [from : Version, to : Version]
Manifest ==
    [routing : Version \cup {NoVersion}, stars : StarsVersion \cup {NoVersion},
     chain : Seq(Link)]

Empty == [routing |-> NoVersion, stars |-> NoVersion, chain |-> <<>>]
Idle ==
    [kind |-> "none", at |-> "idle", version |-> NoVersion, seen |-> Empty,
     built |-> FALSE, todo |-> {}]
NotLoaded == [version |-> NoVersion, highway |-> FALSE, building |-> FALSE]
Resting == [at |-> "idle", version |-> NoVersion]

\* A reconcile works on the directory of the published routing version.  No
\* manifest, no routing product and no directory all end it alike.
BaseOpens_Unchecked(v) == TRUE
BaseOpens(v) == v \in onDisk

(***************************************************************************)
(* The current.json a finished job writes: its own product into the        *)
(* manifest it read, every other product carried forward.  A rebase starts *)
(* a fresh chain; an overlay links from the version it was applied to.     *)
(***************************************************************************)
NextManifest_KeepsChain(p) ==
    IF p.kind = "stars"
    THEN [p.seen EXCEPT !.stars = p.version]
    ELSE [p.seen EXCEPT
            !.routing = p.version,
            !.chain = IF p.kind = "overlay"
                      THEN Append(@, [from |-> p.seen.routing, to |-> p.version])
                      ELSE @]

NextManifest(p) ==
    CASE p.kind = "adopt" ->
           [p.seen EXCEPT !.routing = p.version, !.chain = <<>>]
      [] p.kind = "overlay" ->
           [p.seen EXCEPT
              !.routing = p.version,
              !.chain = Append(@, [from |-> p.seen.routing, to |-> p.version])]
      [] p.kind = "stars" -> [p.seen EXCEPT !.stars = p.version]

\* The versions a prune spares: the one just published and, as a grace
\* copy, the one the job found current.
Spared_NoGrace(p) == {p.version}
Spared(p) == {p.version, p.seen.routing}

\* An artifact of routing/<v> is served when the manifest lists it and the
\* file is there.
Served(v) == v = manifest.routing /\ v \in onDisk

\* A highway build renames its staging directory into place: the directory
\* must still be there and its place still free.
Renames(v) == v \in staging /\ v \notin highway

------------------------------------------------------------------------------
(* The publishing commands.                                                *)

Move(j, p) == job' = [job EXCEPT ![j] = p]
Goto(j, place) == Move(j, [job[j] EXCEPT !.at = place])
At(j, place) == job[j].at = place
Fail(j) == Move(j, Idle)

\* build-routing or adopt-routing: a numbered version, built and chunked in
\* a staging directory of its own.
StartAdopt(j) ==
    /\ At(j, "idle") /\ allocated < MaxVersion
    /\ allocated' = allocated + 1
    /\ Move(j, [Idle EXCEPT !.kind = "adopt", !.at = "staged",
                            !.version = allocated + 1])
    /\ UNCHANGED <<disk, server, learned, faults, published>>

\* reconcile-routing: the database compared with the published index; a
\* version is numbered once something changed (a quiet day changes nothing).
StartReconcile(j) ==
    /\ At(j, "idle") /\ allocated < MaxVersion
    /\ BaseOpens(manifest.routing)
    /\ allocated' = allocated + 1
    /\ Move(j, [Idle EXCEPT !.kind = "overlay", !.at = "diffed",
                            !.version = allocated + 1])
    /\ UNCHANGED <<disk, server, learned, faults, published>>

\* publish_overlay reads current.json again; this copy is the one its
\* manifest is made from, however long the apply and the highway take.
OverlayRead(j) ==
    /\ At(j, "diffed")
    /\ IF BaseOpens(manifest.routing)
       THEN Move(j, [job[j] EXCEPT !.at = "applying", !.seen = manifest])
       ELSE Fail(j)
    /\ UNCHANGED <<disk, server, allocated, learned, faults, published>>

\* The overlay is streamed through the base it names.
Apply(j) ==
    /\ At(j, "applying")
    /\ IF BaseOpens(job[j].seen.routing) THEN Goto(j, "staged") ELSE Fail(j)
    /\ UNCHANGED <<disk, server, allocated, learned, faults, published>>

\* The highway comes first: staged beside the finished ones ...
HighwayStart(j) ==
    /\ At(j, "staged")
    /\ staging' = staging \cup {job[j].version}
    /\ Goto(j, "highway")
    /\ UNCHANGED <<manifest, onDisk, highway, server, allocated, learned,
                   faults, published>>

\* ... and renamed into place.  A build that fails is only logged.
HighwayEnd(j) ==
    /\ At(j, "highway")
    /\ LET v == job[j].version
           ok == Renames(v)
       IN  /\ highway' = IF ok THEN highway \cup {v} ELSE highway
           /\ staging' = staging \ {v}
           /\ Move(j, [job[j] EXCEPT !.at = "built", !.built = ok])
    /\ UNCHANGED <<manifest, onDisk, server, allocated, learned, faults,
                   published>>

HighwayFails(j) ==
    /\ At(j, "highway") /\ faults < MaxFaults
    /\ staging' = staging \ {job[j].version}
    /\ Goto(j, "built")
    /\ faults' = faults + 1
    /\ UNCHANGED <<manifest, onDisk, highway, server, allocated, learned,
                   published>>

\* The index is renamed into place; an overlay keeps the manifest it read.
Rename(j) ==
    /\ At(j, "built")
    /\ onDisk' = onDisk \cup {job[j].version}
    /\ Goto(j, IF job[j].kind = "overlay" THEN "read" ELSE "renamed")
    /\ UNCHANGED <<manifest, highway, staging, server, allocated, learned,
                   faults, published>>

\* publish-stars up to the rename of its own directory, which no one else
\* touches.
StartStars(j) ==
    /\ At(j, "idle") /\ learned < MaxStars
    /\ learned' = learned + 1
    /\ Move(j, [Idle EXCEPT !.kind = "stars", !.at = "renamed",
                            !.version = learned + 1])
    /\ UNCHANGED <<disk, server, allocated, faults, published>>

\* A rebase and a star catalogue read current.json just before they write.
ReadManifest(j) ==
    /\ At(j, "renamed")
    /\ Move(j, [job[j] EXCEPT !.at = "read", !.seen = manifest])
    /\ UNCHANGED <<disk, server, allocated, learned, faults, published>>

WriteManifest(j) ==
    /\ At(j, "read")
    /\ manifest' = NextManifest(job[j])
    /\ IF job[j].kind = "stars"
       THEN Move(j, Idle) /\ UNCHANGED published
       ELSE /\ Goto(j, "written")
            /\ published' = Append(published, job[j].version)
    /\ UNCHANGED <<onDisk, highway, staging, server, allocated, learned,
                   faults>>

ListVersions(j) ==
    /\ At(j, "written")
    /\ Move(j, [job[j] EXCEPT !.at = "pruning",
                              !.todo = onDisk \ Spared(job[j])])
    /\ UNCHANGED <<disk, server, allocated, learned, faults, published>>

\* One directory; one that is already gone ends the job with an error.
Prune(j, v) ==
    /\ At(j, "pruning") /\ v \in job[j].todo
    /\ IF v \in onDisk
       THEN Move(j, [job[j] EXCEPT !.todo = @ \ {v}])
       ELSE Fail(j)
    /\ onDisk' = onDisk \ {v}
    /\ UNCHANGED <<manifest, highway, staging, server, allocated, learned,
                   faults, published>>

Done(j) ==
    /\ At(j, "pruning") /\ job[j].todo = {}
    /\ Move(j, Idle)
    /\ UNCHANGED <<disk, server, allocated, learned, faults, published>>

\* A crash or an I/O error at any point: what is on the disk stays there.
Stop(j) ==
    /\ ~At(j, "idle") /\ faults < MaxFaults
    /\ Fail(j)
    /\ faults' = faults + 1
    /\ UNCHANGED <<disk, server, allocated, learned, published>>

JobStep(j) ==
    \/ StartAdopt(j) \/ StartReconcile(j) \/ OverlayRead(j) \/ Apply(j)
    \/ HighwayStart(j) \/ HighwayEnd(j) \/ HighwayFails(j) \/ Rename(j)
    \/ StartStars(j) \/ ReadManifest(j) \/ WriteManifest(j)
    \/ ListVersions(j) \/ Done(j) \/ Stop(j)
    \/ \E v \in Version : Prune(j, v)

------------------------------------------------------------------------------
(* The serving process.                                                    *)

publisher == <<manifest, onDisk, allocated, learned, job, published>>

\* GalaxyService::current reads current.json before it takes the lock.
Ask(r) ==
    /\ request[r] = NoVersion /\ manifest.routing # NoVersion
    /\ request' = [request EXCEPT ![r] = manifest.routing]
    /\ UNCHANGED <<publisher, highway, staging, loaded, builder, faults>>

\* Under the lock: another version than the one loaded is opened afresh,
\* with no highway and no build on record.
Opened_KeepsFlags(v) == [loaded EXCEPT !.version = v]
Opened(v) ==
    IF loaded.version = v THEN loaded ELSE [NotLoaded EXCEPT !.version = v]
Openable(v) == loaded.version = v \/ v \in onDisk
WantsHighway(l) == ~l.highway /\ ~l.building

Leave(r) == request' = [request EXCEPT ![r] = NoVersion]
Inside(r) == request[r] # NoVersion

\* The directory it read of is gone: an error for the plot.
EnterGone(r) ==
    /\ Inside(r) /\ ~Openable(request[r])
    /\ Leave(r)
    /\ UNCHANGED <<publisher, highway, staging, loaded, builder, faults>>

EnterReady(r) ==
    /\ Inside(r) /\ Openable(request[r])
    /\ ~WantsHighway(Opened(request[r]))
    /\ Leave(r)
    /\ loaded' = Opened(request[r])
    /\ UNCHANGED <<publisher, highway, staging, builder, faults>>

EnterOpens(r) ==
    /\ Inside(r) /\ Openable(request[r])
    /\ WantsHighway(Opened(request[r])) /\ request[r] \in highway
    /\ Leave(r)
    /\ loaded' = [Opened(request[r]) EXCEPT !.highway = TRUE]
    /\ UNCHANGED <<publisher, highway, staging, builder, faults>>

\* No highway and no build on record: start one in the background.
EnterBuilds(r, b) ==
    /\ Inside(r) /\ Openable(request[r])
    /\ WantsHighway(Opened(request[r])) /\ request[r] \notin highway
    /\ builder[b] = Resting
    /\ Leave(r)
    /\ loaded' = [Opened(request[r]) EXCEPT !.building = TRUE]
    /\ builder' = [builder EXCEPT ![b] = [at |-> "queued", version |-> request[r]]]
    /\ UNCHANGED <<publisher, highway, staging, faults>>

\* The highway's directory cannot be opened: it is deleted, an error of that
\* ignored, and built anew.
EnterRebuilds(r, b) ==
    /\ Inside(r) /\ Openable(request[r])
    /\ WantsHighway(Opened(request[r])) /\ request[r] \in highway
    /\ builder[b] = Resting /\ faults < MaxFaults
    /\ Leave(r)
    /\ highway' \in {highway, highway \ {request[r]}}
    /\ loaded' = [Opened(request[r]) EXCEPT !.building = TRUE]
    /\ builder' = [builder EXCEPT ![b] = [at |-> "queued", version |-> request[r]]]
    /\ faults' = faults + 1
    /\ UNCHANGED <<publisher, staging>>

\* A highway that is already there is the build's answer; a staging
\* directory that is already there is deleted and begun again.
BuilderStart(b) ==
    /\ builder[b].at = "queued"
    /\ LET v == builder[b].version
       IN  IF v \in highway
           THEN /\ builder' = [builder EXCEPT ![b].at = "ok"]
                /\ UNCHANGED staging
           ELSE /\ builder' = [builder EXCEPT ![b].at = "building"]
                /\ staging' = staging \cup {v}
    /\ UNCHANGED <<publisher, highway, loaded, request, faults>>

BuilderFinish(b) ==
    /\ builder[b].at = "building"
    /\ LET v == builder[b].version
       IN  IF Renames(v)
           THEN /\ highway' = highway \cup {v}
                /\ staging' = staging \ {v}
                /\ builder' = [builder EXCEPT ![b].at = "ok"]
           ELSE /\ builder' = [builder EXCEPT ![b].at = "failed"]
                /\ UNCHANGED <<highway, staging>>
    /\ UNCHANGED <<publisher, loaded, request, faults>>

BuilderFails(b) ==
    /\ builder[b].at = "building" /\ faults < MaxFaults
    /\ staging' = staging \ {builder[b].version}
    /\ builder' = [builder EXCEPT ![b].at = "failed"]
    /\ faults' = faults + 1
    /\ UNCHANGED <<publisher, highway, loaded, request>>

\* The build went well, and what it left cannot be opened.
BuilderUnreadable(b) ==
    /\ builder[b].at = "ok" /\ faults < MaxFaults
    /\ builder' = [builder EXCEPT ![b].at = "failed"]
    /\ faults' = faults + 1
    /\ UNCHANGED <<publisher, highway, staging, loaded, request>>

(***************************************************************************)
(* Under the lock again: when its version is still the one loaded the      *)
(* build is over, and its highway opened if there is one; then every other *)
(* entry of .highway is deleted, whoever put it there.                     *)
(***************************************************************************)
Ended_OnSuccessOnly(l, v, ok) ==
    IF l.version = v /\ ok /\ v \in highway
    THEN [l EXCEPT !.building = FALSE, !.highway = TRUE]
    ELSE l

Ended(l, v, ok) ==
    IF l.version = v
    THEN [l EXCEPT !.building = FALSE, !.highway = @ \/ (ok /\ v \in highway)]
    ELSE l

BuilderEnds(b) ==
    /\ builder[b].at \in {"ok", "failed"}
    /\ loaded' = Ended(loaded, builder[b].version, builder[b].at = "ok")
    /\ highway' = highway \cap {builder[b].version}
    /\ staging' = {}
    /\ builder' = [builder EXCEPT ![b] = Resting]
    /\ UNCHANGED <<publisher, request, faults>>

\* The serving process restarts: its memory goes, the directory stays.
Restart ==
    /\ faults < MaxFaults
    /\ loaded' = NotLoaded
    /\ request' = [r \in Request |-> NoVersion]
    /\ builder' = [b \in Builder |-> Resting]
    /\ faults' = faults + 1
    /\ UNCHANGED <<publisher, highway, staging>>

Enter(r) ==
    \/ EnterGone(r) \/ EnterReady(r) \/ EnterOpens(r)
    \/ \E b \in Builder : EnterBuilds(r, b)

BuilderStep(b) == BuilderStart(b) \/ BuilderFinish(b) \/ BuilderEnds(b)
BuilderError(b) == BuilderFails(b) \/ BuilderUnreadable(b)

------------------------------------------------------------------------------
Init ==
    /\ manifest = Empty
    /\ onDisk = {} /\ highway = {} /\ staging = {}
    /\ allocated = 0 /\ learned = 0 /\ faults = 0
    /\ job = [j \in Job |-> Idle]
    /\ loaded = NotLoaded
    /\ request = [r \in Request |-> NoVersion]
    /\ builder = [b \in Builder |-> Resting]
    /\ published = <<>>

Next ==
    \/ \E j \in Job : JobStep(j)
    \/ \E r \in Request : Ask(r) \/ Enter(r)
    \/ \E b \in Builder :
          BuilderStep(b) \/ BuilderError(b) \/ \E r \in Request : EnterRebuilds(r, b)
    \/ Restart

Spec == Init /\ [][Next]_vars

\* Plots keep coming, and the runtime runs what it has started.  The
\* publishing commands owe nothing: they may never run again.
LiveSpec ==
    /\ Spec
    /\ \A r \in Request : WF_vars(Ask(r)) /\ WF_vars(Enter(r))
    /\ \A b \in Builder : WF_vars(BuilderStep(b))

------------------------------------------------------------------------------
(* Correctness.                                                            *)

Place == {"idle", "diffed", "applying", "staged", "highway", "built",
          "renamed", "read", "written", "pruning"}

\* Every variable keeps its shape; in particular every overlay link names
\* two real versions.
TypeOK ==
    /\ manifest \in Manifest
    /\ onDisk \subseteq Version /\ highway \subseteq Version
    /\ staging \subseteq Version
    /\ allocated \in 0 .. MaxVersion /\ learned \in 0 .. MaxStars
    /\ faults \in 0 .. MaxFaults
    /\ job \in [Job -> [kind : {"none", "adopt", "overlay", "stars"},
                        at : Place, version : Nat, seen : Manifest,
                        built : BOOLEAN, todo : SUBSET Version]]
    /\ loaded \in [version : Version \cup {NoVersion}, highway : BOOLEAN,
                   building : BOOLEAN]
    /\ request \in [Request -> Version \cup {NoVersion}]
    /\ builder \in
         [Builder -> [at : {"idle", "queued", "building", "ok", "failed"},
                      version : Version \cup {NoVersion}]]
    /\ published \in Seq(Version)

LastTwo ==
    {published[i] : i \in {k \in DOMAIN published : k + 1 >= Len(published)}}

\* The version current.json names and the one it named before are both on
\* the disk, whatever the jobs in between pruned and wherever they stopped:
\* a server or a client that read the manifest a moment ago still finds it.
KeepsCurrentAndGrace ==
    /\ LastTwo \subseteq onDisk
    /\ manifest.routing \in LastTwo \cup {NoVersion}

\* The build flag of the loaded version always has a build behind it.  A
\* flag left standing would keep the highway from ever being built again.
FlagHasBuilder ==
    loaded.building =>
        \E b \in Builder :
            builder[b].at # "idle" /\ builder[b].version = loaded.version

\* What a command carries over from a manifest it read.
Carried(p, m) ==
    CASE p.kind = "adopt" -> m.stars
      [] p.kind = "overlay" -> m
      [] p.kind = "stars" -> <<m.routing, m.chain>>

\* A command about to write, although since it read the manifest another one
\* changed what it carries over, or since it was numbered a newer version of its
\* own product became current.
Overtaken(j) ==
    LET p == job[j]
        current == IF p.kind = "stars" THEN manifest.stars ELSE manifest.routing
    IN  Carried(p, p.seen) # Carried(p, manifest) \/ p.version <= current

\* The writes that undo what another command published.  A lone command has none.
LateWrite == \E j \in Job : WriteManifest(j) /\ Overtaken(j)

\* With all its steps, crashes and prunes, publication is the catalogue:
\* each write of current.json is a rebase, an overlay on what is current,
\* or a new star catalogue.
Cat == INSTANCE Catalogue
CatalogueSpec == Cat!Spec

\* Once publications and faults are over, the serving process comes to hold
\* the published version together with its highway, and stays there.
HighwayArrives ==
    <>[](manifest.routing # NoVersion =>
            loaded.version = manifest.routing /\ loaded.highway)

\* A version is never pointed at before its highway exists, unless the build
\* failed: from the end of a successful build until current.json names the
\* version, its highway is in place.
HighwayBeforePointer ==
    \A j \in Job :
        job[j].at \in {"built", "renamed", "read"} /\ job[j].built
            => job[j].version \in highway

\* The grace copy serves the client that fetched the manifest just before a
\* publication: its files are still served.
GraceIsServed == \A v \in LastTwo : Served(v)
==============================================================================

--------------------------- MODULE PublicationProofs ---------------------------
(***************************************************************************)
(* Proofs about publication, for any commands, requests, builders, numbers  *)
(* of versions and faults.                                                  *)
(*                                                                         *)
(* First what holds whatever the commands do to each other: the types and   *)
(* the flag of a background build.  Then what one command at a time earns:  *)
(* the copy of the manifest it works from is still the manifest when it     *)
(* writes, so publication implements the catalogue and the prune spares     *)
(* the two versions last published.                                         *)
(***************************************************************************)
EXTENDS Publication, TLAPS

JobState ==
  [kind : {"none", "adopt", "overlay", "stars"}, at : Place, version : Nat,
   seen : Manifest, built : BOOLEAN, todo : SUBSET Version]
ServerState ==
  [version : Version \cup {NoVersion}, highway : BOOLEAN, building : BOOLEAN]
BuildState ==
  [at : {"idle", "queued", "building", "ok", "failed"},
   version : Version \cup {NoVersion}]

\* Which command stands where, and that its version is one of its product, of
\* which a are numbered of routing and l of stars.
Course(p, a, l) ==
  /\ p.at \in {"diffed", "applying"} => p.kind = "overlay"
  /\ p.at \in {"staged", "highway", "built", "written", "pruning"} =>
       p.kind \in {"adopt", "overlay"}
  /\ p.at = "renamed" => p.kind \in {"adopt", "stars"}
  /\ p.at = "read" => p.kind \in {"adopt", "overlay", "stars"}
  /\ p.kind \in {"adopt", "overlay"} => p.version \in 1 .. a
  /\ p.kind = "stars" => p.version \in 1 .. l
  /\ p.kind = "overlay" /\ p.at # "diffed" => p.seen.routing \in Version

Courses == \A j \in Job : Course(job[j], allocated, learned)
Builds == \A b \in Builder : builder[b].at # "idle" => builder[b].version \in Version
TypeInv == TypeOK /\ Courses /\ Builds
-----------------------------------------------------------------------------
(* Types.                                                                   *)

LEMMA Starts ==
  /\ Empty \in Manifest /\ Idle \in JobState
  /\ NotLoaded \in ServerState /\ Resting \in BuildState
<1>1. <<>> \in Seq(Link)
  OBVIOUS
<1>2. Empty \in Manifest
  BY <1>1 DEF Empty, Manifest
<1> QED
  BY <1>2 DEF Idle, JobState, Place, NotLoaded, ServerState, Resting, BuildState,
              NoVersion

LEMMA TypeInit == Init => TypeInv
<1> SUFFICES ASSUME Init PROVE TypeInv
  OBVIOUS
<1>1. TypeOK
  <2>1. published \in Seq(Version) /\ manifest \in Manifest
    BY Starts DEF Init
  <2>2. job \in [Job -> JobState]
    BY Starts DEF Init
  <2>3. /\ loaded \in ServerState /\ builder \in [Builder -> BuildState]
        /\ request \in [Request -> Version \cup {NoVersion}]
    BY Starts DEF Init
  <2>4. /\ onDisk \subseteq Version /\ highway \subseteq Version
        /\ staging \subseteq Version /\ allocated \in 0 .. MaxVersion
        /\ learned \in 0 .. MaxStars /\ faults \in 0 .. MaxFaults
    BY PublicationAssumption DEF Init
  <2> QED
    BY <2>1, <2>2, <2>3, <2>4 DEF TypeOK, JobState, ServerState, BuildState
<1>2. Courses
  BY DEF Init, Courses, Course, Idle
<1>3. Builds
  BY DEF Init, Builds, Resting
<1> QED BY <1>1, <1>2, <1>3 DEF TypeInv

\* What a command writes is a manifest.
LEMMA Written ==
  ASSUME TypeInv, NEW j \in Job, job[j].at = "read"
  PROVE  NextManifest(job[j]) \in Manifest
<1> DEFINE p == job[j]
<1>1. p \in JobState /\ Course(p, allocated, learned)
  BY DEF TypeInv, TypeOK, Courses, JobState
<1>2. p.seen \in Manifest /\ p.kind \in {"adopt", "overlay", "stars"}
  BY <1>1 DEF JobState, Course
<1>3. p.kind = "stars" => p.version \in StarsVersion
  BY <1>1, PublicationAssumption
  DEF Course, TypeInv, TypeOK, StarsVersion
<1>4. p.kind # "stars" => p.version \in Version
  BY <1>1, <1>2, PublicationAssumption DEF Course, TypeInv, TypeOK, Version
<1>5. CASE p.kind = "adopt"
  <2>1. NextManifest(p) = [p.seen EXCEPT !.routing = p.version, !.chain = <<>>]
    BY <1>5 DEF NextManifest
  <2>2. <<>> \in Seq(Link)
    OBVIOUS
  <2> QED BY <2>1, <2>2, <1>2, <1>4, <1>5 DEF Manifest
<1>6. CASE p.kind = "overlay"
  <2> DEFINE link == [from |-> p.seen.routing, to |-> p.version]
             chain == Append(p.seen.chain, link)
  <2>1. link \in Link
    BY <1>1, <1>4, <1>6 DEF Link, Course
  <2>2. p.seen.chain \in Seq(Link)
    BY <1>2 DEF Manifest
  <2>3. chain \in Seq(Link)
    BY <2>1, <2>2
  <2>4. NextManifest(p) = [p.seen EXCEPT !.routing = p.version, !.chain = chain]
    BY <1>2, <1>6 DEF NextManifest, Manifest
  <2> HIDE DEF chain
  <2> QED BY <2>3, <2>4, <1>2, <1>4, <1>6 DEF Manifest
<1>7. CASE p.kind = "stars"
  <2>1. NextManifest(p) = [p.seen EXCEPT !.stars = p.version]
    BY <1>7 DEF NextManifest
  <2> QED BY <2>1, <1>2, <1>3, <1>7 DEF Manifest
<1> QED BY <1>2, <1>5, <1>6, <1>7

\* A step of one command that leaves the counters alone, or raises them.
LEMMA OneMoves ==
  ASSUME TypeInv, NEW j \in Job, NEW p \in JobState, Move(j, p),
         allocated' \in allocated .. MaxVersion, learned' \in learned .. MaxStars,
         Course(p, allocated', learned')
  PROVE  job' \in [Job -> JobState] /\ Courses'
<1>1. job \in [Job -> JobState]
  BY DEF TypeInv, TypeOK, JobState
<1>2. job' = [job EXCEPT ![j] = p]
  BY DEF Move
<1>3. job' \in [Job -> JobState]
  BY <1>1, <1>2
<1>4. ASSUME NEW k \in Job PROVE Course(job[k], allocated, learned)'
  <2>1. CASE k = j
    BY <2>1, <1>1, <1>2
  <2>2. CASE k # j
    <3>1. job'[k] = job[k] /\ Course(job[k], allocated, learned) /\ job[k] \in JobState
      BY <2>2, <1>1, <1>2 DEF TypeInv, Courses
    <3>2. job[k].version \in Nat /\ allocated \in Nat /\ learned \in Nat
      BY <3>1 DEF JobState, TypeInv, TypeOK
    <3>3. /\ job[k].version \in 1 .. allocated =>
               job[k].version \in 1 .. allocated'
          /\ job[k].version \in 1 .. learned => job[k].version \in 1 .. learned'
      BY <3>2, PublicationAssumption
    <3> QED BY <3>1, <3>3 DEF Course
  <2> QED BY <2>1, <2>2
<1> QED BY <1>3, <1>4 DEF Courses

\* A command under way, and what it becomes.
LEMMA JobTypes ==
  ASSUME TypeInv, NEW j \in Job
  PROVE  /\ job[j] \in JobState /\ Course(job[j], allocated, learned)
         /\ allocated \in 0 .. MaxVersion /\ learned \in 0 .. MaxStars
         /\ allocated \in allocated .. MaxVersion
         /\ learned \in learned .. MaxStars
BY PublicationAssumption DEF TypeInv, TypeOK, Courses, JobState

\* The variables of the commands, the serving process aside.
JobVars ==
  /\ manifest \in Manifest /\ onDisk \subseteq Version
  /\ highway \subseteq Version /\ staging \subseteq Version
  /\ allocated \in 0 .. MaxVersion /\ learned \in 0 .. MaxStars
  /\ faults \in 0 .. MaxFaults /\ published \in Seq(Version)
ServerVars ==
  /\ loaded \in ServerState /\ request \in [Request -> Version \cup {NoVersion}]
  /\ builder \in [Builder -> BuildState]

LEMMA TypeParts ==
  /\ TypeOK <=> JobVars /\ job \in [Job -> JobState] /\ ServerVars
  /\ TypeOK' <=> JobVars' /\ job' \in [Job -> JobState] /\ ServerVars'
BY DEF TypeOK, JobVars, ServerVars, JobState, ServerState, BuildState

LEMMA Begun ==
  ASSUME NEW k \in {"adopt", "overlay", "stars"}, NEW a \in {"staged", "diffed", "renamed"},
         NEW v \in Nat
  PROVE  [Idle EXCEPT !.kind = k, !.at = a, !.version = v] \in JobState
<1>1. PICK i \in JobState : i = Idle
  BY Starts
<1>2. [i EXCEPT !.kind = k, !.at = a, !.version = v] \in JobState
  BY DEF JobState, Place
<1> QED BY <1>1, <1>2

LEMMA CommandStarts ==
  ASSUME TypeInv, NEW j \in Job,
         StartAdopt(j) \/ StartReconcile(j) \/ StartStars(j)
  PROVE  JobVars' /\ job' \in [Job -> JobState] /\ Courses'
<1>1. \E p \in JobState : Move(j, p) /\ Course(p, allocated', learned')
  <2>1. CASE StartAdopt(j)
    <3> DEFINE p == [Idle EXCEPT !.kind = "adopt", !.at = "staged",
                                 !.version = allocated + 1]
    <3>1. /\ allocated \in Nat /\ learned \in Nat
          /\ allocated' = allocated + 1 /\ learned' = learned
          /\ allocated + 1 \in Nat
      BY <2>1, JobTypes, PublicationAssumption DEF StartAdopt
    <3>2. p \in JobState
      BY <3>1, Begun
    <3>3. Course(p, allocated', learned')
      BY <3>1 DEF Course, Idle
    <3> QED BY <3>2, <3>3, <2>1 DEF StartAdopt
  <2>2. CASE StartReconcile(j)
    <3> DEFINE p == [Idle EXCEPT !.kind = "overlay", !.at = "diffed",
                                 !.version = allocated + 1]
    <3>1. /\ allocated \in Nat /\ learned \in Nat
          /\ allocated' = allocated + 1 /\ learned' = learned
          /\ allocated + 1 \in Nat
      BY <2>2, JobTypes, PublicationAssumption DEF StartReconcile
    <3>2. p \in JobState
      BY <3>1, Begun
    <3>3. Course(p, allocated', learned')
      BY <3>1 DEF Course, Idle
    <3> QED BY <3>2, <3>3, <2>2 DEF StartReconcile
  <2>3. CASE StartStars(j)
    <3> DEFINE p == [Idle EXCEPT !.kind = "stars", !.at = "renamed",
                                 !.version = learned + 1]
    <3>1. /\ allocated \in Nat /\ learned \in Nat
          /\ learned' = learned + 1 /\ allocated' = allocated
          /\ learned + 1 \in Nat
      BY <2>3, JobTypes, PublicationAssumption DEF StartStars
    <3>2. p \in JobState
      BY <3>1, Begun
    <3>3. Course(p, allocated', learned')
      BY <3>1 DEF Course, Idle
    <3> QED BY <3>2, <3>3, <2>3 DEF StartStars
  <2> QED BY <2>1, <2>2, <2>3
<1>2. JobVars' /\ allocated' \in allocated .. MaxVersion
      /\ learned' \in learned .. MaxStars
  BY JobTypes, TypeParts, PublicationAssumption
  DEF TypeInv, JobVars, StartAdopt, StartReconcile, StartStars, disk
<1> QED BY <1>1, <1>2, OneMoves

LEMMA CommandGoes ==
  ASSUME TypeInv, NEW j \in Job, NEW v \in Version,
         \/ OverlayRead(j) \/ Apply(j) \/ HighwayStart(j) \/ HighwayEnd(j)
         \/ HighwayFails(j) \/ Rename(j) \/ ReadManifest(j) \/ WriteManifest(j)
         \/ ListVersions(j) \/ Done(j) \/ Stop(j) \/ Prune(j, v)
  PROVE  JobVars' /\ job' \in [Job -> JobState] /\ Courses'
<1> DEFINE Fine(p) == p \in JobState /\ Course(p, allocated, learned)
<1> DEFINE q == job[j]
<1>1. Fine(Idle) /\ Fine(q) /\ onDisk \subseteq Version /\ manifest \in Manifest
  BY JobTypes, Starts DEF Course, Idle, TypeInv, TypeOK
<1>2. manifest.routing \in onDisk => manifest.routing \in Version
  BY <1>1
<1>3. q.seen.routing \in onDisk => q.seen.routing \in Version
  BY <1>1
<1>4. /\ allocated' = allocated /\ learned' = learned
      /\ \E p \in JobState : Move(j, p) /\ Course(p, allocated, learned)
  <2>1. CASE Done(j) \/ Stop(j)
    BY <2>1, <1>1 DEF Done, Stop, Fail
  <2>2. CASE OverlayRead(j)
    <3> DEFINE p == [q EXCEPT !.at = "applying", !.seen = manifest]
    <3>1. CASE BaseOpens(manifest.routing)
      <4>1. Fine(p)
        BY <3>1, <2>2, <1>1 DEF OverlayRead, At, BaseOpens, JobState, Place, Course
      <4> QED BY <4>1, <3>1, <2>2 DEF OverlayRead
    <3>2. CASE ~BaseOpens(manifest.routing)
      BY <3>2, <2>2, <1>1 DEF OverlayRead, Fail
    <3> QED BY <3>1, <3>2
  <2>3. CASE Apply(j)
    <3> DEFINE p == [q EXCEPT !.at = "staged"]
    <3>1. CASE BaseOpens(q.seen.routing)
      <4>1. Fine(p)
        BY <3>1, <2>3, <1>1 DEF Apply, At, BaseOpens, JobState, Place, Course
      <4> QED BY <4>1, <3>1, <2>3 DEF Apply, Goto
    <3>2. CASE ~BaseOpens(q.seen.routing)
      BY <3>2, <2>3, <1>1 DEF Apply, Fail
    <3> QED BY <3>1, <3>2
  <2>4. CASE HighwayStart(j)
    <3> DEFINE p == [q EXCEPT !.at = "highway"]
    <3>1. Fine(p)
      BY <2>4, <1>1 DEF HighwayStart, At, JobState, Place, Course
    <3> QED BY <3>1, <2>4 DEF HighwayStart, Goto
  <2>5. CASE HighwayEnd(j)
    <3> DEFINE p == [q EXCEPT !.at = "built", !.built = Renames(q.version)]
    <3>1. Fine(p)
      BY <2>5, <1>1 DEF HighwayEnd, At, JobState, Place, Course, Renames
    <3> QED BY <3>1, <2>5 DEF HighwayEnd
  <2>6. CASE HighwayFails(j)
    <3> DEFINE p == [q EXCEPT !.at = "built"]
    <3>1. Fine(p)
      BY <2>6, <1>1 DEF HighwayFails, At, JobState, Place, Course
    <3> QED BY <3>1, <2>6 DEF HighwayFails, Goto
  <2>7. CASE Rename(j)
    <3> DEFINE p == [q EXCEPT !.at = IF q.kind = "overlay" THEN "read"
                                     ELSE "renamed"]
    <3>1. Fine(p)
      BY <2>7, <1>1 DEF Rename, At, JobState, Place, Course
    <3> QED BY <3>1, <2>7 DEF Rename, Goto
  <2>8. CASE ReadManifest(j)
    <3> DEFINE p == [q EXCEPT !.at = "read", !.seen = manifest]
    <3>1. Fine(p)
      BY <2>8, <1>1 DEF ReadManifest, At, JobState, Place, Course
    <3> QED BY <3>1, <2>8 DEF ReadManifest
  <2>9. CASE WriteManifest(j)
    <3> DEFINE p == [q EXCEPT !.at = "written"]
    <3>1. q.kind # "stars" => Fine(p)
      BY <2>9, <1>1 DEF WriteManifest, At, JobState, Place, Course
    <3> QED BY <3>1, <2>9, <1>1 DEF WriteManifest, Goto
  <2>10. CASE ListVersions(j)
    <3> DEFINE p == [q EXCEPT !.at = "pruning", !.todo = onDisk \ Spared(q)]
    <3>1. Fine(p)
      BY <2>10, <1>1 DEF ListVersions, At, JobState, Place, Course
    <3> QED BY <3>1, <2>10 DEF ListVersions
  <2>11. CASE Prune(j, v)
    <3> DEFINE p == [q EXCEPT !.todo = @ \ {v}]
    <3>1. Fine(p)
      BY <2>11, <1>1 DEF Prune, At, JobState, Place, Course
    <3> QED BY <3>1, <2>11, <1>1 DEF Prune, Fail
  <2> QED BY <2>1, <2>2, <2>3, <2>4, <2>5, <2>6, <2>7, <2>8, <2>9, <2>10, <2>11
<1>5. job' \in [Job -> JobState] /\ Courses'
  BY <1>4, JobTypes, OneMoves
<1>6. q.at # "idle" /\ q.kind # "stars" /\ q.kind # "none" => q.version \in Version
  BY <1>1, JobTypes, PublicationAssumption DEF Course, Version, JobState
<1>7. JobVars'
  <2>1. CASE WriteManifest(j)
    <3>1. manifest' \in Manifest
      BY <2>1, Written DEF WriteManifest, At
    <3>2. published' \in Seq(Version)
      <4>1. published \in Seq(Version)
        BY DEF TypeInv, TypeOK
      <4>2. q.kind # "stars" => q.version \in Version
        BY <1>1, <1>6, <2>1 DEF WriteManifest, At, Course
      <4> QED BY <4>1, <4>2, <2>1 DEF WriteManifest
    <3> QED BY <3>1, <3>2, <2>1, TypeParts DEF WriteManifest, TypeInv, JobVars
  <2>2. CASE \/ HighwayStart(j) \/ HighwayEnd(j) \/ HighwayFails(j) \/ Rename(j)
    <3>1. q.version \in Version
      BY <2>2, <1>1, <1>6
      DEF HighwayStart, HighwayEnd, HighwayFails, Rename, At, Course
    <3> QED
      BY <3>1, <2>2, TypeParts, PublicationAssumption
      DEF HighwayStart, HighwayEnd, HighwayFails, Rename, TypeInv, JobVars
  <2>3. CASE \/ OverlayRead(j) \/ Apply(j) \/ ReadManifest(j) \/ ListVersions(j)
             \/ Done(j) \/ Stop(j) \/ Prune(j, v)
    BY <2>3, TypeParts, PublicationAssumption
    DEF OverlayRead, Apply, ReadManifest, ListVersions, Done, Stop, Prune, disk,
        TypeInv, JobVars
  <2> QED BY <2>1, <2>2, <2>3
<1> QED BY <1>5, <1>7

\* The steps of a command leave the serving process alone, and the others the
\* commands.
LEMMA CommandsApart ==
  ASSUME NEW j \in Job, JobStep(j)
  PROVE  UNCHANGED server
BY DEF JobStep, StartAdopt, StartReconcile, OverlayRead, Apply, HighwayStart,
       HighwayEnd, HighwayFails, Rename, StartStars, ReadManifest, WriteManifest,
       ListVersions, Done, Stop, Prune

ServerStep ==
  \/ \E r \in Request : Ask(r) \/ Enter(r)
  \/ \E b \in Builder : BuilderStep(b) \/ BuilderError(b)
  \/ \E r \in Request, b \in Builder : EnterRebuilds(r, b)
  \/ Restart

LEMMA ServerApart ==
  ASSUME ServerStep
  PROVE  UNCHANGED publisher
BY DEF ServerStep, Ask, Enter, EnterGone, EnterReady, EnterOpens, EnterBuilds,
       EnterRebuilds, BuilderStep, BuilderStart, BuilderFinish, BuilderEnds,
       BuilderError, BuilderFails, BuilderUnreadable, Restart

LEMMA Opening ==
  ASSUME loaded \in ServerState, NEW v \in Version
  PROVE  /\ Opened(v) \in ServerState /\ Opened(v).version = v
         /\ [Opened(v) EXCEPT !.highway = TRUE] \in ServerState
         /\ [Opened(v) EXCEPT !.building = TRUE] \in ServerState
         /\ [Opened(v) EXCEPT !.highway = TRUE].version = v
         /\ [Opened(v) EXCEPT !.highway = TRUE].building = Opened(v).building
         /\ [Opened(v) EXCEPT !.building = TRUE].version = v
         /\ Opened(v).building => Opened(v) = loaded
<1>1. PICK n \in ServerState : n = NotLoaded
  BY Starts
<1>2. ~n.building
  BY <1>1 DEF NotLoaded
<1>3. Opened(v) = IF loaded.version = v THEN loaded ELSE [n EXCEPT !.version = v]
  BY <1>1 DEF Opened
<1>4. Opened(v) \in ServerState /\ Opened(v).version = v
  BY <1>1, <1>3 DEF ServerState
<1>5. Opened(v).building => Opened(v) = loaded
  BY <1>2, <1>3 DEF ServerState
<1>6. PICK o \in ServerState : o = Opened(v)
  BY <1>4
<1>7. /\ [o EXCEPT !.highway = TRUE] \in ServerState
      /\ [o EXCEPT !.building = TRUE] \in ServerState
      /\ [o EXCEPT !.highway = TRUE].version = o.version
      /\ [o EXCEPT !.highway = TRUE].building = o.building
      /\ [o EXCEPT !.building = TRUE].version = o.version
  BY DEF ServerState
<1> QED BY <1>4, <1>5, <1>6, <1>7

LEMMA Ending ==
  ASSUME loaded \in ServerState, NEW v \in Version \cup {NoVersion},
         NEW ok \in BOOLEAN
  PROVE  /\ Ended(loaded, v, ok) \in ServerState
         /\ Ended(loaded, v, ok).building =>
              Ended(loaded, v, ok) = loaded /\ loaded.version # v
BY DEF Ended, ServerState

LEMMA ServerTypes ==
  ASSUME TypeInv, ServerStep
  PROVE  TypeInv'
<1>1. /\ loaded \in ServerState /\ request \in [Request -> Version \cup {NoVersion}]
      /\ builder \in [Builder -> BuildState] /\ highway \subseteq Version
      /\ staging \subseteq Version /\ faults \in 0 .. MaxFaults
      /\ manifest.routing \in Version \cup {NoVersion}
      /\ \A b \in Builder : builder[b].at # "idle" => builder[b].version \in Version
  BY TypeParts DEF TypeInv, JobVars, ServerVars, Manifest, Builds
<1>2. /\ ServerVars' /\ highway' \subseteq Version /\ staging' \subseteq Version
      /\ faults' \in 0 .. MaxFaults /\ Builds'
  <2>1. CASE \E r \in Request : Ask(r) \/ EnterGone(r)
    <3>1. PICK r \in Request : Ask(r) \/ EnterGone(r)
      BY <2>1
    <3> QED BY <3>1, <1>1 DEF Ask, EnterGone, Leave, ServerVars, publisher, Builds
  <2>2. CASE \E r \in Request : Enter(r) /\ ~EnterGone(r)
    <3>1. PICK r \in Request : Enter(r) /\ ~EnterGone(r)
      BY <2>2
    <3>2. request[r] \in Version /\ Leave(r)
      BY <3>1, <1>1
      DEF Enter, EnterReady, EnterOpens, EnterBuilds, Inside
    <3>3. request' \in [Request -> Version \cup {NoVersion}]
      BY <3>2, <1>1 DEF Leave
    <3>4. loaded' \in ServerState
      BY <3>1, <3>2, <1>1, Opening DEF Enter, EnterReady, EnterOpens, EnterBuilds
    <3>5. builder' \in [Builder -> BuildState] /\ Builds'
      <4>1. CASE UNCHANGED builder
        BY <4>1, <1>1 DEF Builds
      <4>2. CASE \E b \in Builder : EnterBuilds(r, b)
        <5>1. PICK b \in Builder : EnterBuilds(r, b)
          BY <4>2
        <5>2. [at |-> "queued", version |-> request[r]] \in BuildState
          BY <3>2 DEF BuildState
        <5> QED BY <5>1, <5>2, <3>2, <1>1 DEF EnterBuilds, Builds
      <4> QED BY <4>1, <4>2, <3>1 DEF Enter, EnterReady, EnterOpens
    <3>6. UNCHANGED <<highway, staging, faults>>
      BY <3>1 DEF Enter, EnterReady, EnterOpens, EnterBuilds
    <3> QED BY <3>3, <3>4, <3>5, <3>6, <1>1 DEF ServerVars
  <2>3. CASE \E b \in Builder : BuilderStep(b) \/ BuilderError(b)
    <3>1. PICK b \in Builder : BuilderStep(b) \/ BuilderError(b)
      BY <2>3
    <3>2. builder[b] \in BuildState
      BY <1>1
    <3>3. builder[b].version \in Version
      BY <3>1, <1>1
      DEF BuilderStep, BuilderStart, BuilderFinish, BuilderEnds, BuilderError,
          BuilderFails, BuilderUnreadable
    <3>4. builder' \in [Builder -> BuildState] /\ Builds'
      <4>1. \A a \in {"building", "ok", "failed"} :
              /\ [builder[b] EXCEPT !.at = a] \in BuildState
              /\ [builder[b] EXCEPT !.at = a].version = builder[b].version
        BY <3>2 DEF BuildState
      <4>2. \E x \in BuildState :
              /\ builder' = [builder EXCEPT ![b] = x]
              /\ x.version = builder[b].version \/ x = Resting
        BY <4>1, <3>1, Starts
        DEF BuilderStep, BuilderStart, BuilderFinish, BuilderEnds, BuilderError,
          BuilderFails, BuilderUnreadable
      <4> QED BY <4>2, <3>3, <1>1 DEF Builds, Resting
    <3>5. loaded' \in ServerState
      <4>1. CASE BuilderEnds(b)
        <5>1. builder[b].version \in Version \cup {NoVersion}
          BY <3>2 DEF BuildState
        <5> QED BY <5>1, <4>1, <1>1, Ending DEF BuilderEnds
      <4> QED
        BY <4>1, <3>1, <1>1
        DEF BuilderStep, BuilderStart, BuilderFinish, BuilderError, BuilderFails,
            BuilderUnreadable
    <3>6. /\ highway' \subseteq Version /\ staging' \subseteq Version
          /\ faults' \in 0 .. MaxFaults /\ UNCHANGED request
      BY <3>1, <3>3, <1>1, PublicationAssumption
      DEF BuilderStep, BuilderStart, BuilderFinish, BuilderEnds, BuilderError,
          BuilderFails, BuilderUnreadable
    <3> QED BY <3>4, <3>5, <3>6, <1>1 DEF ServerVars
  <2>5. CASE \E r \in Request, b \in Builder : EnterRebuilds(r, b)
    <3>1. PICK r \in Request, b \in Builder : EnterRebuilds(r, b)
      BY <2>5
    <3>2. request[r] \in Version /\ Leave(r)
      BY <3>1, <1>1 DEF EnterRebuilds, Inside
    <3>3. request' \in [Request -> Version \cup {NoVersion}]
      BY <3>2, <1>1 DEF Leave
    <3>4. loaded' \in ServerState
      BY <3>1, <3>2, <1>1, Opening DEF EnterRebuilds
    <3>5. [at |-> "queued", version |-> request[r]] \in BuildState
      BY <3>2 DEF BuildState
    <3>6. builder' \in [Builder -> BuildState] /\ Builds'
      BY <3>1, <3>2, <3>5, <1>1 DEF EnterRebuilds, Builds
    <3>7. /\ highway' \subseteq Version /\ staging' = staging
          /\ faults' \in 0 .. MaxFaults
      BY <3>1, <1>1, PublicationAssumption DEF EnterRebuilds
    <3> QED BY <3>3, <3>4, <3>6, <3>7, <1>1 DEF ServerVars
  <2>4. CASE Restart
    BY <2>4, <1>1, Starts, PublicationAssumption DEF Restart, ServerVars, Builds, Resting
  <2> QED BY <2>1, <2>2, <2>3, <2>4, <2>5 DEF ServerStep
<1>3. UNCHANGED publisher
  BY ServerApart
<1>4. Courses'
  BY <1>3 DEF TypeInv, Courses, publisher
<1> QED
  BY <1>2, <1>3, <1>4, TypeParts DEF TypeInv, JobVars, publisher

LEMMA CommandTypes ==
  ASSUME TypeInv, NEW j \in Job, JobStep(j)
  PROVE  TypeInv'
<1>1. ServerVars' /\ Builds'
  BY CommandsApart, TypeParts DEF TypeInv, ServerVars, Builds, server
<1>2. JobVars' /\ job' \in [Job -> JobState] /\ Courses'
  <2>1. 1 \in Version
    BY PublicationAssumption DEF Version
  <2>2. CASE StartAdopt(j) \/ StartReconcile(j) \/ StartStars(j)
    BY <2>2, CommandStarts
  <2>3. CASE \E v \in Version : Prune(j, v)
    BY <2>3, CommandGoes
  <2> QED BY <2>1, <2>2, <2>3, CommandGoes DEF JobStep
<1> QED BY <1>1, <1>2, TypeParts DEF TypeInv

LEMMA Steps == Next <=> ServerStep \/ \E j \in Job : JobStep(j)
BY DEF Next, ServerStep

LEMMA TypeStep == TypeInv /\ [Next]_vars => TypeInv'
<1>1. TypeInv /\ Next => TypeInv'
  BY Steps, ServerTypes, CommandTypes
<1>2. TypeInv /\ UNCHANGED vars => TypeInv'
  BY DEF TypeInv, TypeOK, Courses, Builds, vars, disk, server
<1> QED BY <1>1, <1>2

\* Every variable keeps its shape, whatever the commands do to each other: the
\* overlay links of current.json name real versions, and a background build that
\* is under way builds one.
THEOREM PublicationTypes == Spec => []TypeOK
<1>1. TypeInv => TypeOK
  BY DEF TypeInv
<1> QED BY TypeInit, TypeStep, <1>1, PTL DEF Spec
-----------------------------------------------------------------------------
(* The flag of a background build.                                          *)

LEMMA FlagStep == TypeInv /\ FlagHasBuilder /\ [Next]_vars => FlagHasBuilder'
<1> SUFFICES ASSUME TypeInv, FlagHasBuilder, [Next]_vars, loaded'.building
             PROVE  FlagHasBuilder'
  BY DEF FlagHasBuilder
<1>1. /\ loaded \in ServerState /\ builder \in [Builder -> BuildState]
      /\ request \in [Request -> Version \cup {NoVersion}]
  BY TypeParts DEF TypeInv, ServerVars
<1>2. CASE UNCHANGED <<loaded, builder>>
  BY <1>2 DEF FlagHasBuilder
<1>3. CASE \E r \in Request : Enter(r)
  <2>1. PICK r \in Request : Enter(r)
    BY <1>3
  <2>2. CASE EnterGone(r)
    BY <2>2, <1>2 DEF EnterGone
  <2>3. CASE EnterReady(r) \/ EnterOpens(r)
    <3>1. request[r] \in Version /\ UNCHANGED builder
      BY <2>3, <1>1 DEF EnterReady, EnterOpens, Inside
    <3>2. loaded' = loaded
      BY <3>1, <2>3, <1>1, Opening DEF EnterReady, EnterOpens, WantsHighway
    <3> QED BY <3>1, <3>2, <1>2
  <2>4. CASE \E b \in Builder : EnterBuilds(r, b)
    <3>1. PICK b \in Builder : EnterBuilds(r, b)
      BY <2>4
    <3>2. request[r] \in Version
      BY <3>1, <1>1 DEF EnterBuilds, Inside
    <3>3. loaded'.version = request[r]
      BY <3>1, <3>2, <1>1, Opening DEF EnterBuilds
    <3>4. builder'[b].at = "queued" /\ builder'[b].version = request[r]
      BY <3>1, <1>1 DEF EnterBuilds
    <3> QED BY <3>3, <3>4 DEF FlagHasBuilder
  <2> QED BY <2>1, <2>2, <2>3, <2>4 DEF Enter
<1>4. CASE \E b \in Builder : BuilderStep(b) \/ BuilderError(b)
  <2>1. PICK b \in Builder : BuilderStep(b) \/ BuilderError(b)
    BY <1>4
  <2>2. builder[b] \in BuildState /\ builder[b].at # "idle"
    BY <2>1, <1>1
    DEF BuilderStep, BuilderStart, BuilderFinish, BuilderEnds, BuilderError,
        BuilderFails, BuilderUnreadable
  <2>3. loaded' = loaded
        /\ (BuilderEnds(b) => loaded.version # builder[b].version)
    <3>1. CASE BuilderEnds(b)
      BY <3>1, <2>2, <1>1, Ending DEF BuilderEnds, BuildState
    <3>2. CASE ~BuilderEnds(b)
      BY <3>2, <2>1 DEF BuilderStep, BuilderStart, BuilderFinish, BuilderError, BuilderFails,
          BuilderUnreadable
    <3> QED BY <3>1, <3>2
  <2>4. PICK c \in Builder : /\ builder[c].at # "idle"
                            /\ builder[c].version = loaded.version
    BY <2>3 DEF FlagHasBuilder
  <2>5. builder'[c].at # "idle" /\ builder'[c].version = builder[c].version
    <3>1. CASE BuilderEnds(b)
      BY <3>1, <2>3, <2>4, <1>1 DEF BuilderEnds
    <3>2. CASE ~BuilderEnds(b)
      <4>1. \E a \in {"building", "ok", "failed"} :
              builder' = [builder EXCEPT ![b].at = a]
        BY <3>2, <2>1 DEF BuilderStep, BuilderStart, BuilderFinish, BuilderError, BuilderFails,
          BuilderUnreadable
      <4> QED BY <4>1, <2>4, <1>1 DEF BuildState
    <3> QED BY <3>1, <3>2
  <2> QED BY <2>3, <2>4, <2>5 DEF FlagHasBuilder
<1>9. CASE \E r \in Request, b \in Builder : EnterRebuilds(r, b)
  <2>1. PICK r \in Request, b \in Builder : EnterRebuilds(r, b)
    BY <1>9
  <2>2. request[r] \in Version
    BY <2>1, <1>1 DEF EnterRebuilds, Inside
  <2>3. loaded'.version = request[r]
    BY <2>1, <2>2, <1>1, Opening DEF EnterRebuilds
  <2>4. builder'[b].at = "queued" /\ builder'[b].version = request[r]
    BY <2>1, <1>1 DEF EnterRebuilds
  <2> QED BY <2>3, <2>4 DEF FlagHasBuilder
<1>5. CASE Restart
  BY <1>5 DEF Restart, NotLoaded
<1>6. CASE \E r \in Request : Ask(r)
  BY <1>6, <1>2 DEF Ask
<1>7. CASE \E j \in Job : JobStep(j)
  BY <1>7, <1>2, CommandsApart DEF server
<1>8. CASE UNCHANGED vars
  BY <1>8, <1>2 DEF vars, server
<1> QED BY <1>3, <1>4, <1>5, <1>6, <1>7, <1>8, <1>9, Steps DEF ServerStep

\* A build flag of the serving process always has a build behind it, however
\* many plots, builds, publications and restarts interleave.
THEOREM FlagsAreHeld == Spec => []FlagHasBuilder
<1>1. Init => FlagHasBuilder
  BY DEF Init, FlagHasBuilder, NotLoaded
<1> QED BY <1>1, TypeInit, TypeStep, FlagStep, PTL DEF Spec
-----------------------------------------------------------------------------
(* One command at a time.                                                   *)

Alone == \A j, k \in Job : j = k

Unwritten == {"diffed", "applying", "staged", "highway", "built", "renamed", "read"}

\* What a command may count on while no other one runs: its version is newer
\* than what is current, the copy it read is current, its directory is there,
\* and the prune has not listed a version it must spare.
Undisturbed(p) ==
  /\ p.at \in Unwritten /\ p.kind # "stars" => p.version > manifest.routing
  /\ p.at \in Unwritten /\ p.kind = "stars" => p.version > manifest.stars
  /\ \/ p.at = "read"
     \/ p.at \in Unwritten \ {"diffed"} /\ p.kind = "overlay"
     => p.seen = manifest
  /\ p.at \in {"renamed", "read"} /\ p.kind # "stars" => p.version \in onDisk
  /\ p.at \in {"written", "pruning"} => LastTwo \subseteq Spared(p)
  /\ p.at = "pruning" => p.todo \cap LastTwo = {}

\* current.json names the version published last.
Pointed ==
  /\ manifest.routing <= allocated /\ manifest.stars <= learned
  /\ published = <<>> => manifest.routing = NoVersion
  /\ published # <<>> => manifest.routing = published[Len(published)]

AloneInv ==
  /\ KeepsCurrentAndGrace /\ Pointed
  /\ \A j \in Job : Undisturbed(job[j])

LEMMA AloneInit == Init => AloneInv
<1> SUFFICES ASSUME Init PROVE AloneInv
  OBVIOUS
<1>1. LastTwo = {}
  BY DEF Init, LastTwo
<1>2. manifest.routing = 0 /\ manifest.stars = 0
  BY DEF Init, Empty, NoVersion
<1>3. KeepsCurrentAndGrace /\ Pointed
  BY <1>1, <1>2 DEF Init, KeepsCurrentAndGrace, Pointed, NoVersion
<1>4. \A j \in Job : Undisturbed(job[j])
  BY <1>1 DEF Init, Undisturbed, Idle, Unwritten
<1> QED BY <1>3, <1>4 DEF AloneInv

\* The last two of a longer history: the new version and the one before it.
LEMMA Latest ==
  ASSUME NEW v \in Version, published \in Seq(Version),
         published' = Append(published, v)
  PROVE  /\ published' # <<>> /\ published'[Len(published')] = v
         /\ LastTwo' \subseteq
              {v} \cup {published[i] : i \in {k \in {Len(published)} : k > 0}}
         /\ v \in LastTwo'
<1> DEFINE n == Len(published)
<1>1. /\ n \in Nat /\ Len(published') = n + 1 /\ DOMAIN published' = 1 .. (n + 1)
      /\ published'[n + 1] = v /\ \A i \in 1 .. n : published'[i] = published[i]
  OBVIOUS
<1>2. ASSUME NEW x \in LastTwo'
      PROVE  x \in {v} \cup {published[i] : i \in {k \in {n} : k > 0}}
  <2>1. PICK i \in 1 .. (n + 1) : i + 1 >= n + 1 /\ x = published'[i]
    BY <1>1, <1>2 DEF LastTwo
  <2> QED BY <2>1, <1>1
<1>3. v \in LastTwo'
  BY <1>1 DEF LastTwo
<1> QED BY <1>1, <1>2, <1>3

\* A job's entry after a step that rewrites it.
LEMMA Moved ==
  ASSUME TypeInv, NEW j \in Job, NEW p, Move(j, p)
  PROVE  job'[j] = p
BY DEF Move, TypeInv, TypeOK

LEMMA Quiet ==
  ASSUME TypeInv, AloneInv, UNCHANGED <<manifest, onDisk, published>>,
         allocated' \in allocated .. MaxVersion, learned' \in learned .. MaxStars
  PROVE  KeepsCurrentAndGrace' /\ Pointed' /\ LastTwo' = LastTwo
<1>1. LastTwo' = LastTwo
  BY DEF LastTwo
<1>2. KeepsCurrentAndGrace'
  BY <1>1 DEF AloneInv, KeepsCurrentAndGrace
<1>3. /\ manifest.routing \in Nat /\ manifest.stars \in Nat
      /\ allocated \in Nat /\ learned \in Nat
  BY PublicationAssumption DEF TypeInv, TypeOK, Manifest, Version, StarsVersion, NoVersion
<1>4. Pointed'
  BY <1>3, PublicationAssumption DEF AloneInv, Pointed
<1> QED BY <1>1, <1>2, <1>4

LEMMA AloneStarts ==
  ASSUME TypeInv, AloneInv, NEW j \in Job,
         StartAdopt(j) \/ StartReconcile(j) \/ StartStars(j)
  PROVE  KeepsCurrentAndGrace' /\ Pointed' /\ Undisturbed(job[j])'
<1>1. /\ manifest.routing \in Nat /\ manifest.stars \in Nat
      /\ allocated \in Nat /\ learned \in Nat
      /\ manifest.routing <= allocated /\ manifest.stars <= learned
  BY PublicationAssumption
  DEF TypeInv, TypeOK, Manifest, Version, StarsVersion, NoVersion, AloneInv, Pointed
<1>2. /\ UNCHANGED <<manifest, onDisk, published>>
      /\ allocated' \in allocated .. MaxVersion /\ learned' \in learned .. MaxStars
  BY JobTypes, PublicationAssumption
  DEF StartAdopt, StartReconcile, StartStars, disk
<1>3. PICK i \in JobState : i = Idle
  BY Starts
<1>4. \/ /\ job'[j] = [i EXCEPT !.kind = "adopt", !.at = "staged",
                              !.version = allocated + 1]
         /\ allocated' = allocated + 1
      \/ /\ job'[j] = [i EXCEPT !.kind = "overlay", !.at = "diffed",
                              !.version = allocated + 1]
         /\ allocated' = allocated + 1
      \/ /\ job'[j] = [i EXCEPT !.kind = "stars", !.at = "renamed",
                              !.version = learned + 1]
         /\ learned' = learned + 1
  BY <1>3, Moved DEF StartAdopt, StartReconcile, StartStars
<1>5. \/ /\ job'[j].kind = "adopt" /\ job'[j].at = "staged"
         /\ job'[j].version = allocated + 1
      \/ /\ job'[j].kind = "overlay" /\ job'[j].at = "diffed"
         /\ job'[j].version = allocated + 1
      \/ /\ job'[j].kind = "stars" /\ job'[j].at = "renamed"
         /\ job'[j].version = learned + 1
  BY <1>4 DEF JobState
<1>6. Undisturbed(job[j])'
  BY <1>1, <1>2, <1>5 DEF Undisturbed, Unwritten
<1> QED BY <1>2, <1>6, Quiet

LEMMA AloneGoes ==
  ASSUME TypeInv, AloneInv, NEW j \in Job, NEW v \in Version,
         \/ OverlayRead(j) \/ Apply(j) \/ HighwayStart(j) \/ HighwayEnd(j)
         \/ HighwayFails(j) \/ Rename(j) \/ ReadManifest(j)
         \/ ListVersions(j) \/ Done(j) \/ Stop(j) \/ Prune(j, v)
  PROVE  KeepsCurrentAndGrace' /\ Pointed' /\ Undisturbed(job[j])'
<1> DEFINE q == job[j]
<1>1. q \in JobState /\ Course(q, allocated, learned) /\ Undisturbed(q)
  BY JobTypes DEF AloneInv
<1>2. UNCHANGED <<manifest, published, allocated, learned>>
  BY DEF OverlayRead, Apply, HighwayStart, HighwayEnd, HighwayFails, Rename,
         ReadManifest, ListVersions, Done, Stop, Prune, disk
<1>3. LastTwo' = LastTwo
  BY <1>2 DEF LastTwo
<1>4. Pointed'
  BY <1>2 DEF AloneInv, Pointed
<1>5. job'[j] = Idle => Undisturbed(job[j])'
  BY DEF Idle, Undisturbed, Unwritten
<1>6. CASE \/ OverlayRead(j) \/ Apply(j) \/ HighwayStart(j) \/ HighwayEnd(j)
           \/ HighwayFails(j) \/ Rename(j) \/ ReadManifest(j)
  <2>1. \/ job'[j] = Idle
        \/ /\ job'[j].kind = q.kind /\ job'[j].version = q.version
           /\ job'[j].seen = IF q.at \in {"diffed", "renamed"} THEN manifest ELSE q.seen
           /\ \/ q.at = "diffed" /\ job'[j].at = "applying"
              \/ q.at = "applying" /\ job'[j].at = "staged"
              \/ q.at = "staged" /\ job'[j].at = "highway"
              \/ q.at = "highway" /\ job'[j].at = "built"
              \/ q.at = "built" /\ q.kind = "overlay" /\ job'[j].at = "read"
              \/ q.at = "built" /\ q.kind # "overlay" /\ job'[j].at = "renamed"
              \/ q.at = "renamed" /\ job'[j].at = "read"
           /\ q.at = "built" => q.version \in onDisk'
    <3>1. CASE OverlayRead(j) \/ Apply(j)
      <4>1. \/ job'[j] = Idle
            \/ /\ q.at = "diffed"
               /\ job'[j] = [q EXCEPT !.at = "applying", !.seen = manifest]
            \/ q.at = "applying" /\ job'[j] = [q EXCEPT !.at = "staged"]
        BY <3>1, Moved DEF OverlayRead, Apply, At, Goto, Fail
      <4> QED BY <4>1, <1>1 DEF JobState
    <3>2. CASE HighwayStart(j) \/ HighwayEnd(j) \/ HighwayFails(j)
      <4>1. \/ q.at = "staged" /\ job'[j] = [q EXCEPT !.at = "highway"]
            \/ /\ q.at = "highway"
               /\ \/ job'[j] = [q EXCEPT !.at = "built"]
                  \/ job'[j] = [q EXCEPT !.at = "built", !.built = Renames(q.version)]
        BY <3>2, Moved DEF HighwayStart, HighwayEnd, HighwayFails, At, Goto
      <4> QED BY <4>1, <1>1 DEF JobState
    <3>3. CASE Rename(j) \/ ReadManifest(j)
      <4>1. \/ /\ q.at = "built" /\ q.version \in onDisk'
               /\ job'[j] = [q EXCEPT !.at = IF q.kind = "overlay" THEN "read"
                                             ELSE "renamed"]
            \/ /\ q.at = "renamed"
               /\ job'[j] = [q EXCEPT !.at = "read", !.seen = manifest]
        BY <3>3, Moved DEF Rename, ReadManifest, At, Goto
      <4>2. CASE q.kind = "overlay"
        BY <4>1, <4>2, <1>1 DEF JobState
      <4>3. CASE q.kind # "overlay"
        BY <4>1, <4>3, <1>1 DEF JobState
      <4> QED BY <4>2, <4>3
    <3> QED BY <3>1, <3>2, <3>3, <1>6
  <2>2. onDisk \subseteq onDisk'
    BY <1>6
    DEF OverlayRead, Apply, HighwayStart, HighwayEnd, HighwayFails, Rename,
        ReadManifest, disk
  <2>3. KeepsCurrentAndGrace'
    BY <1>2, <1>3, <2>2 DEF AloneInv, KeepsCurrentAndGrace
  <2>4. Undisturbed(job[j])'
    BY <1>1, <1>2, <1>5, <2>1, <2>2 DEF Undisturbed, Unwritten, Course
  <2> QED BY <1>4, <2>3, <2>4
<1>7. CASE Done(j) \/ Stop(j)
  <2>1. job'[j] = Idle /\ UNCHANGED onDisk
    BY <1>7, Moved DEF Done, Stop, Fail, disk
  <2>2. KeepsCurrentAndGrace'
    BY <1>2, <1>3, <2>1 DEF AloneInv, KeepsCurrentAndGrace
  <2> QED BY <1>4, <1>5, <2>1, <2>2
<1>8. CASE ListVersions(j)
  <2>1. job'[j] = [q EXCEPT !.at = "pruning", !.todo = onDisk \ Spared(q)]
    BY <1>8, Moved DEF ListVersions
  <2>2. /\ job'[j].at = "pruning" /\ job'[j].todo = onDisk \ Spared(q)
        /\ job'[j].version = q.version /\ job'[j].seen = q.seen
    BY <2>1, <1>1 DEF JobState
  <2>3. LastTwo \subseteq Spared(q) /\ UNCHANGED onDisk
    BY <1>1, <1>8 DEF ListVersions, At, Undisturbed, disk
  <2>4. Spared(job[j])' = Spared(q)
    BY <2>2 DEF Spared
  <2>5. Undisturbed(job[j])'
    BY <1>3, <2>2, <2>3, <2>4 DEF Undisturbed, Unwritten
  <2>6. KeepsCurrentAndGrace'
    BY <1>2, <1>3, <2>3 DEF AloneInv, KeepsCurrentAndGrace
  <2> QED BY <1>4, <2>5, <2>6
<1>9. CASE Prune(j, v)
  <2>1. q.at = "pruning" /\ v \notin LastTwo /\ onDisk' = onDisk \ {v}
    BY <1>9, <1>1 DEF Prune, At, Undisturbed
  <2>2. KeepsCurrentAndGrace'
    BY <1>2, <1>3, <2>1 DEF AloneInv, KeepsCurrentAndGrace
  <2>3. \/ job'[j] = Idle
        \/ /\ job'[j].at = "pruning" /\ job'[j].todo = q.todo \ {v}
           /\ job'[j].version = q.version /\ job'[j].seen = q.seen
    BY <1>9, <1>1, <2>1, Moved DEF Prune, Fail, JobState
  <2>4. job'[j] # Idle => Spared(job[j])' = Spared(q)
    BY <2>3 DEF Spared
  <2>5. Undisturbed(job[j])'
    BY <1>1, <1>3, <1>5, <2>1, <2>3, <2>4 DEF Undisturbed, Unwritten
  <2> QED BY <1>4, <2>2, <2>5
<1> QED BY <1>6, <1>7, <1>8, <1>9

\* The one step that changes current.json.
LEMMA AloneWrites ==
  ASSUME TypeInv, AloneInv, NEW j \in Job, WriteManifest(j)
  PROVE  /\ KeepsCurrentAndGrace' /\ Pointed' /\ Undisturbed(job[j])'
         /\ ~Overtaken(j)
<1> DEFINE q == job[j]
<1>1. q \in JobState /\ Course(q, allocated, learned) /\ Undisturbed(q)
  BY JobTypes DEF AloneInv
<1>2. /\ q.at = "read" /\ q.seen = manifest /\ q.kind \in {"adopt", "overlay", "stars"}
      /\ manifest' = NextManifest(q) /\ UNCHANGED <<onDisk, allocated, learned>>
  BY <1>1 DEF WriteManifest, At, Course, Undisturbed
<1>3. /\ manifest \in Manifest /\ published \in Seq(Version)
      /\ allocated \in 0 .. MaxVersion /\ learned \in 0 .. MaxStars
  BY DEF TypeInv, TypeOK
<1>4. CASE q.kind = "stars"
  <2>1. manifest' = [manifest EXCEPT !.stars = q.version]
    BY <1>2, <1>4 DEF NextManifest
  <2>2. /\ q.version \in 1 .. learned /\ q.version > manifest.stars
    BY <1>1, <1>2, <1>3, <1>4, PublicationAssumption
    DEF Course, Undisturbed, Unwritten
  <2>3. ~Overtaken(j)
    BY <1>2, <1>3, <1>4, <2>2, PublicationAssumption
    DEF Overtaken, Manifest, StarsVersion, NoVersion
  <2>4. manifest'.routing = manifest.routing /\ manifest'.stars = q.version
    BY <2>1, <1>3 DEF Manifest
  <2>5. job'[j] = Idle /\ UNCHANGED published
    BY <1>4, Moved DEF WriteManifest
  <2>6. LastTwo' = LastTwo
    BY <2>5 DEF LastTwo
  <2>7. KeepsCurrentAndGrace'
    BY <1>2, <2>4, <2>6 DEF AloneInv, KeepsCurrentAndGrace
  <2>8. Pointed'
    BY <1>2, <1>3, <2>2, <2>4, <2>5 DEF AloneInv, Pointed
  <2>9. Undisturbed(job[j])'
    BY <2>5 DEF Idle, Undisturbed, Unwritten
  <2> QED BY <2>3, <2>7, <2>8, <2>9
<1>5. CASE q.kind \in {"adopt", "overlay"}
  <2>1. /\ q.version \in 1 .. allocated /\ q.version \in Version
        /\ q.version > manifest.routing /\ q.version \in onDisk
    BY <1>1, <1>2, <1>3, <1>5, PublicationAssumption
    DEF Course, Undisturbed, Unwritten, Version
  <2>2. manifest'.routing = q.version /\ manifest'.stars = manifest.stars
    <3>1. CASE q.kind = "adopt"
      <4>1. manifest' = [manifest EXCEPT !.routing = q.version, !.chain = <<>>]
        BY <1>2, <3>1 DEF NextManifest
      <4> QED BY <4>1, <1>3 DEF Manifest
    <3>2. CASE q.kind = "overlay"
      <4> DEFINE c == Append(manifest.chain,
                             [from |-> manifest.routing, to |-> q.version])
      <4>1. manifest' = [manifest EXCEPT !.routing = q.version, !.chain = c]
        BY <1>2, <1>3, <3>2 DEF NextManifest, Manifest
      <4> HIDE DEF c
      <4> QED BY <4>1, <1>3 DEF Manifest
    <3> QED BY <3>1, <3>2, <1>5
  <2>11. ~Overtaken(j)
    <3>1. manifest.routing \in Nat /\ q.version \in Nat
      BY <1>1, <1>3, PublicationAssumption DEF JobState, Manifest, Version, NoVersion
    <3>2. ~(q.version <= manifest.routing)
      BY <3>1, <2>1
    <3> QED BY <1>2, <1>5, <3>2 DEF Overtaken
  <2>3. /\ published' = Append(published, q.version)
        /\ job'[j] = [q EXCEPT !.at = "written"]
    BY <1>5, Moved DEF WriteManifest, Goto
  <2>4. /\ published' # <<>> /\ published'[Len(published')] = q.version
        /\ q.version \in LastTwo'
        /\ LastTwo' \subseteq
             {q.version} \cup {published[i] : i \in {k \in {Len(published)} : k > 0}}
    BY <2>1, <2>3, <1>3, Latest
  <2>5. ASSUME Len(published) > 0
        PROVE  published[Len(published)] = manifest.routing /\ manifest.routing \in onDisk
    <3>1. /\ published # <<>> /\ Len(published) \in DOMAIN published
          /\ Len(published) + 1 >= Len(published)
      BY <2>5, <1>3
    <3>2. published[Len(published)] \in LastTwo
      BY <3>1 DEF LastTwo
    <3> QED BY <3>1, <3>2 DEF AloneInv, KeepsCurrentAndGrace, Pointed
  <2>6. LastTwo' \subseteq {q.version, manifest.routing} /\ LastTwo' \subseteq onDisk'
    BY <2>1, <2>4, <2>5, <1>2
  <2>7. KeepsCurrentAndGrace'
    BY <2>2, <2>4, <2>6 DEF KeepsCurrentAndGrace
  <2>8. Pointed'
    BY <1>2, <1>3, <2>1, <2>2, <2>4 DEF AloneInv, Pointed
  <2>9. /\ job'[j].at = "written" /\ job'[j].version = q.version
        /\ job'[j].seen = manifest
    BY <2>3, <1>1, <1>2 DEF JobState
  <2>10. Undisturbed(job[j])'
    BY <2>6, <2>9 DEF Undisturbed, Unwritten, Spared
  <2> QED BY <2>7, <2>8, <2>10, <2>11
<1> QED BY <1>2, <1>4, <1>5

\* The steps of a command that are no write leave current.json alone.
LEMMA OnlyWrites ==
  ASSUME NEW j \in Job, JobStep(j), ~WriteManifest(j)
  PROVE  UNCHANGED manifest
BY DEF JobStep, StartAdopt, StartReconcile, OverlayRead, Apply, HighwayStart,
       HighwayEnd, HighwayFails, Rename, StartStars, ReadManifest, ListVersions, Done,
       Stop, Prune, disk

LEMMA AloneStep ==
  ASSUME Alone, TypeInv, AloneInv, [Next]_vars
  PROVE  AloneInv' /\ ~LateWrite
<1>3. ~LateWrite
  BY AloneWrites DEF LateWrite
<1>1. CASE \E j \in Job : JobStep(j)
  <2>1. PICK j \in Job : JobStep(j)
    BY <1>1
  <2>2. \A k \in Job : k = j
    BY DEF Alone
  <2>3. 1 \in Version
    BY PublicationAssumption DEF Version
  <2>4. KeepsCurrentAndGrace' /\ Pointed' /\ Undisturbed(job[j])'
    BY <2>1, <2>3, AloneWrites, AloneStarts, AloneGoes DEF JobStep
  <2> QED BY <1>3, <2>2, <2>4 DEF AloneInv
<1>2. CASE ServerStep \/ UNCHANGED vars
  <2>1. UNCHANGED publisher
    BY <1>2, ServerApart DEF vars, publisher, disk
  <2>2. LastTwo' = LastTwo
    BY <2>1 DEF LastTwo, publisher
  <2>3. KeepsCurrentAndGrace' /\ Pointed'
    BY <2>1, <2>2 DEF publisher, AloneInv, KeepsCurrentAndGrace, Pointed
  <2>4. \A j \in Job : Undisturbed(job[j])'
    BY <2>1, <2>2 DEF publisher, AloneInv, Undisturbed, Spared
  <2> QED BY <1>3, <2>3, <2>4 DEF AloneInv
<1> QED BY <1>1, <1>2, <1>3, Steps

\* With one publishing command at a time, the version current.json names and the
\* one before it stay on the disk, wherever a command crashes and whatever the
\* serving process does meanwhile.
THEOREM GraceIsKept == Alone => (Spec => []KeepsCurrentAndGrace)
<1> SUFFICES ASSUME Alone PROVE Spec => []KeepsCurrentAndGrace
  OBVIOUS
<1>1. TypeInv /\ AloneInv /\ [Next]_vars => AloneInv'
  BY AloneStep
<1>2. AloneInv => KeepsCurrentAndGrace
  BY DEF AloneInv
<1> QED BY <1>1, <1>2, TypeInit, TypeStep, AloneInit, PTL DEF Spec

-----------------------------------------------------------------------------
(* The catalogue, whatever the commands do to each other.                   *)

\* A write that is not overtaken is a step of the catalogue.
LEMMA InTime ==
  ASSUME TypeInv, NEW j \in Job, WriteManifest(j), ~Overtaken(j)
  PROVE  Cat!Next
<1> DEFINE q == job[j]
<1>1. q \in JobState /\ Course(q, allocated, learned)
  BY JobTypes
<1>2. /\ q.at = "read" /\ q.kind \in {"adopt", "overlay", "stars"}
      /\ manifest' = NextManifest(q)
  BY <1>1 DEF WriteManifest, At, Course
<1>3. /\ manifest \in Manifest /\ q.seen \in Manifest
      /\ allocated \in 0 .. MaxVersion /\ learned \in 0 .. MaxStars
  BY <1>1 DEF TypeInv, TypeOK, JobState
<1>4. manifest.routing \in Nat /\ manifest.stars \in Nat /\ q.version \in Nat
  BY <1>1, <1>3, PublicationAssumption
  DEF JobState, Manifest, Version, StarsVersion, NoVersion
<1>5. CASE q.kind = "stars"
  <2>1. /\ q.seen.routing = manifest.routing /\ q.seen.chain = manifest.chain
        /\ q.version > manifest.stars
    BY <1>4, <1>5 DEF Overtaken, Carried
  <2>2. manifest' = [q.seen EXCEPT !.stars = q.version]
    BY <1>2, <1>5 DEF NextManifest
  <2>3. manifest' = [manifest EXCEPT !.stars = q.version]
    BY <2>1, <2>2, <1>3 DEF Manifest
  <2>4. q.version \in Cat!StarsVersion
    BY <1>1, <1>3, <1>5, PublicationAssumption DEF Course, Cat!StarsVersion
  <2> QED BY <2>1, <2>3, <2>4 DEF Cat!Next, Cat!Learn
<1>6. ASSUME q.kind # "stars"
      PROVE  q.version \in Cat!Version /\ q.version > manifest.routing
  <2>1. q.version > manifest.routing
    BY <1>4, <1>6 DEF Overtaken
  <2>2. q.version \in 1 .. allocated
    BY <1>1, <1>2, <1>6 DEF Course
  <2> QED BY <2>1, <2>2, <1>3, PublicationAssumption DEF Cat!Version
<1>7. CASE q.kind = "adopt"
  <2>1. q.seen.stars = manifest.stars
    BY <1>7 DEF Overtaken, Carried
  <2>2. manifest' = [q.seen EXCEPT !.routing = q.version, !.chain = <<>>]
    BY <1>2, <1>7 DEF NextManifest
  <2>3. manifest' = [manifest EXCEPT !.routing = q.version, !.chain = <<>>]
    BY <2>1, <2>2, <1>3 DEF Manifest
  <2>4. Cat!Rebase(q.version)
    BY <2>3, <1>6, <1>7 DEF Cat!Rebase
  <2> QED BY <2>4, <1>6, <1>7 DEF Cat!Next
<1>8. CASE q.kind = "overlay"
  <2>1. q.seen = manifest
    BY <1>8 DEF Overtaken, Carried
  <2>2. manifest' = [manifest EXCEPT
                       !.routing = q.version,
                       !.chain = Append(@, [from |-> manifest.routing,
                                            to |-> q.version])]
    BY <1>2, <1>8, <2>1 DEF NextManifest
  <2>3. manifest.routing # NoVersion
    BY <1>1, <1>2, <1>8, <2>1 DEF Course, Version, NoVersion
  <2>4. Cat!Extend(q.version)
    BY <2>2, <2>3, <1>6, <1>8 DEF Cat!Extend, Cat!NoVersion, NoVersion
  <2> QED BY <2>4, <1>6, <1>8 DEF Cat!Next
<1> QED BY <1>2, <1>5, <1>7, <1>8

LEMMA CatalogueStep ==
  ASSUME TypeInv, [Next]_vars
  PROVE  Cat!Next \/ UNCHANGED manifest \/ LateWrite
<1>1. CASE \E j \in Job : JobStep(j)
  <2>1. PICK j \in Job : JobStep(j)
    BY <1>1
  <2>2. CASE WriteManifest(j)
    BY <2>2, InTime DEF LateWrite
  <2>3. CASE ~WriteManifest(j)
    BY <2>1, <2>3, OnlyWrites
  <2> QED BY <2>2, <2>3
<1>2. CASE ServerStep \/ UNCHANGED vars
  BY <1>2, ServerApart DEF vars, publisher, disk
<1> QED BY <1>1, <1>2, Steps

\* However many publishing commands overlap, and whatever fails: every change of
\* current.json is a step of the catalogue (one product replaced and the other
\* carried forward, an overlay continuing what is current, versions moving on) or
\* a write of a command that another one overtook since it read current.json.
THEOREM OnlyLateWritesUndo ==
  Spec => [][Cat!Next \/ UNCHANGED manifest \/ LateWrite]_vars
<1>1. TypeInv /\ [Next]_vars =>
        [Cat!Next \/ UNCHANGED manifest \/ LateWrite]_vars
  BY CatalogueStep
<1> QED BY <1>1, TypeInit, TypeStep, PTL DEF Spec

\* One publishing command at a time is never overtaken.
THEOREM AloneIsNeverLate == Alone => (Spec => [][~LateWrite]_vars)
<1> SUFFICES ASSUME Alone PROVE Spec => [][~LateWrite]_vars
  OBVIOUS
<1>1. TypeInv /\ AloneInv /\ [Next]_vars => AloneInv' /\ [~LateWrite]_vars
  BY AloneStep
<1> QED BY <1>1, TypeInit, TypeStep, AloneInit, PTL DEF Spec

\* Publication implements the catalogue in every run without an overtaken write,
\* overlapping commands or not.
THEOREM PublicationIsACatalogue == Spec /\ [][~LateWrite]_vars => CatalogueSpec
<1>1. TypeInv /\ [Next]_vars /\ [~LateWrite]_vars => [Cat!Next]_manifest
  <2>1. UNCHANGED vars => UNCHANGED manifest
    BY DEF vars, disk
  <2> QED BY <2>1, CatalogueStep
<1>2. Init => Cat!Init
  BY DEF Init, Cat!Init, Empty, NoVersion, Cat!NoVersion
<1> QED
  BY <1>1, <1>2, TypeInit, TypeStep, PTL DEF Spec, CatalogueSpec, Cat!Spec
================================================================================

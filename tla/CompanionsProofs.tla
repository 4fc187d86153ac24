--------------------------- MODULE CompanionsProofs ---------------------------
(***************************************************************************)
(* Proofs about the dispatch of companion files, for any commanders, rules,  *)
(* values, bounds and faults: the shape of the state and whose panel shows   *)
(* what, for any callers; with one caller, games that write once a second    *)
(* and snapshots that are written, that no writing is passed over.           *)
(***************************************************************************)
EXTENDS Companions, FiniteSetTheorems, TLAPS

-----------------------------------------------------------------------------
(* Types.                                                                  *)

LEMMA Keys ==
  /\ Key \subseteq Nat /\ IsFiniteSet(Key) /\ Placeholder \in Key /\ Fid \subseteq Key
  /\ Placeholder \notin Fid
<1>1. IsFiniteSet(Fid \cup {Placeholder})
  BY CompanionsAssumption, FS_AddElement
<1> QED BY <1>1, CompanionsAssumption DEF Key, Placeholder

LEMMA Starts == Unscored \in Scores /\ Idle \in Calls /\ Idle.scores \in [Key -> Scores]
  BY DEF Unscored, Scores, Idle, Calls, Times, NoFile

LEMMA ScoreType ==
  ASSUME NEW k \in Maybe, NEW v \in Maybe
  PROVE  /\ Score(k, v) \in Scores
         /\ Score(k, v).fit = "distance" => name \in Balances
         /\ Score(k, v).fit = "exact" => name \notin Balances /\ Score(k, v).far = 0
         /\ Score(k, v).fit \in {"exact", "distance"} => v # Nothing
<1>1. CASE Nothing \in {k, v}
  BY <1>1, Starts DEF Score, Unscored
<1>2. CASE Nothing \notin {k, v}
  <2>1. k \in Nat /\ v \in Nat
    BY <1>2, CompanionsAssumption DEF Maybe
  <2>2. Apart(k, v) \in Nat
    BY <2>1 DEF Apart
  <2> QED BY <1>2, <2>2 DEF Score, Scores
<1> QED BY <1>1, <1>2

LEMMA ChoiceType ==
  ASSUME NEW p \in Calls
  PROVE  ResolveTie(p.text, Choose(p.list, p.scores)) \subseteq p.list
BY DEF ResolveTie, Choose, Calls

\* What a call may become, call by call.
LEMMA CallType ==
  ASSUME TypeOK, NEW c \in Caller, NEW q \in Calls, Goes(c, q)
  PROVE  sync' \in [Caller -> Calls]
BY DEF TypeOK, Goes

LEMMA DealtType ==
  ASSUME NEW p \in Calls, p.text \in Content, p.mtime \in 0 .. MaxSeconds, NEW f \in Key,
         copy[f] \in Copy \cup {NoRow, Unknown}
  PROVE  Dealt(p, f) \in Copy \cup {NoRow, Unknown}
BY DEF Dealt, Copy, Calls, Matches

\* A call that has read has a text and its time, a call that has not has no scores,
\* and what it has chosen is what the rules choose.
Reached(p) ==
  /\ p.at \in {"score", "deal"} => p.text \in Content
  /\ p.at \in {"read", "score", "deal"} => p.mtime \in 0 .. MaxSeconds /\ file # NoFile
  /\ p.at \notin {"score", "deal"} => \A f \in Key : p.scores[f] = Unscored
  /\ \A f \in Key :
       /\ p.scores[f].fit = "distance" => name \in Balances
       /\ p.scores[f].fit = "exact" => name \notin Balances /\ p.scores[f].far = 0
       /\ p.scores[f].fit \in {"exact", "distance"} => p.text.value # Nothing
  /\ p.at = "deal" => p.chosen = ResolveTie(p.text, Choose(p.list, p.scores))

Types == TypeOK /\ \A c \in Caller : Reached(sync[c])

LEMMA TypesInit == Init => Types
<1> SUFFICES ASSUME Init PROVE Types
  OBVIOUS
<1>3. /\ {has, said} \subseteq [Fid -> Maybe] /\ known \in [Key -> Maybe]
      /\ copy \in [Key -> Copy \cup {NoRow, Unknown}] /\ sync \in [Caller -> Calls]
  BY Starts, Keys DEF Init, Maybe
<1>4. /\ second \in 0 .. MaxSeconds /\ plays \in 0 .. MaxPlays /\ writes \in 0 .. MaxWrites
      /\ faults \in 0 .. MaxFaults
  BY CompanionsAssumption DEF Init
<1>5. name \in Name /\ file \in Content \cup {NoFile} /\ seen \in Times /\ holds \in BOOLEAN
      /\ stores \subseteq Key
  BY Keys DEF Init, Times
<1>1. TypeOK
  BY <1>3, <1>4, <1>5 DEF TypeOK
<1>2. \A c \in Caller : Reached(sync[c])
  BY DEF Init, Reached, Idle, Unscored
<1> QED BY <1>1, <1>2 DEF Types

\* The part of Types a call is responsible for.
LEMMA CallKept ==
  ASSUME Types, UNCHANGED <<name, file>>, NEW c \in Caller, NEW q, Goes(c, q), q \in Calls,
         Reached(q)
  PROVE  sync' \in [Caller -> Calls] /\ \A d \in Caller : Reached(sync[d])'
<1>1. sync' = [sync EXCEPT ![c] = q] /\ sync \in [Caller -> Calls]
  BY DEF Goes, Types, TypeOK
<1>2. \A d \in Caller : sync'[d] = IF d = c THEN q ELSE sync[d]
  BY <1>1
<1>3. \A d \in Caller : Reached(sync'[d])
  BY <1>2 DEF Types
<1>4. \A d \in Caller : Reached(sync[d])'
  BY <1>3 DEF Reached, ResolveTie, Choose
<1> QED BY <1>1, <1>4

\* What no call did leaves every call where it is.
LEMMA Unmoved ==
  ASSUME Types, UNCHANGED <<name, sync>>, file # NoFile => file' # NoFile
  PROVE  \A c \in Caller : Reached(sync[c])'
<1> SUFFICES ASSUME NEW c \in Caller PROVE Reached(sync[c])'
  OBVIOUS
<1>1. PICK p : p = sync[c]
  OBVIOUS
<1>2. Reached(p) /\ sync'[c] = p
  BY <1>1 DEF Types
<1>3. Reached(p)'
  <2>1. (p.at = "deal" => p.chosen = ResolveTie(p.text, Choose(p.list, p.scores)))'
    BY <1>2 DEF Reached, ResolveTie, Choose
  <2> QED BY <2>1, <1>2 DEF Reached
<1> QED BY <1>2, <1>3 DEF Reached, ResolveTie, Choose

LEMMA IdleReached == Reached(Idle)
  BY DEF Reached, Idle, Unscored

LEMMA GameTypes == Types /\ GameStep => Types'
<1> SUFFICES ASSUME Types, GameStep PROVE Types'
  OBVIOUS
<1>1. UNCHANGED <<name, faults, stores, holds, known, copy, seen, sync>>
  BY DEF GameStep, Play, Says, Rewrite, Tick, registry
<1>2. file # NoFile => file' # NoFile
  BY DEF GameStep, Play, Says, Rewrite, Tick, NoFile, registry, Types, TypeOK
<1>4. \A c \in Caller : Reached(sync[c])'
  BY <1>1, <1>2, Unmoved
<1>3. TypeOK'
  <2> USE DEF Types, TypeOK
  <2>1. CASE \E f \in Fid, v \in Value : Play(f, v)
    <3>1. PICK f \in Fid, v \in Value : Play(f, v)
      BY <2>1
    <3>2. has' \in [Fid -> Maybe] /\ plays' \in 0 .. MaxPlays
      BY <3>1, CompanionsAssumption DEF Play, Maybe
    <3>3. UNCHANGED <<said, file, writes, second>>
      BY <3>1 DEF Play
    <3> QED BY <3>2, <3>3, <1>1
  <2>2. CASE \E f \in Fid : Says(f)
    BY <2>2, <1>1 DEF Says
  <2>3. CASE \E f \in Fid : \E v \in {has[f], Nothing} : Rewrite(f, v)
    <3>1. PICK f \in Fid : \E v \in {has[f], Nothing} : Rewrite(f, v)
      BY <2>3
    <3>5. PICK v \in {has[f], Nothing} : Rewrite(f, v)
      BY <3>1
    <3>2. v \in Maybe /\ writes + 1 \in 1 .. MaxWrites
      BY <3>5, CompanionsAssumption DEF Rewrite, Maybe
    <3>3. file' \in Content
      BY <3>5, <3>2 DEF Rewrite, Content, Maybe
    <3> QED BY <3>5, <3>2, <3>3, <1>1 DEF Rewrite
  <2>4. CASE Tick
    BY <2>4, <1>1, CompanionsAssumption DEF Tick
  <2> QED BY <2>1, <2>2, <2>3, <2>4 DEF GameStep
<1> QED BY <1>4, <1>3 DEF Types

LEMMA SyncTypes ==
  ASSUME Types, NEW c \in Caller, SyncStep(c)
  PROVE  Types'
<1> DEFINE p == sync[c]
<1>0. /\ p \in Calls /\ Reached(p) /\ name' = name /\ file' = file /\ Idle \in Calls /\ Reached(Idle)
      /\ known \in [Key -> Maybe] /\ said \in [Fid -> Maybe] /\ holds \in BOOLEAN
      /\ copy \in [Key -> Copy \cup {NoRow, Unknown}] /\ seen \in Times
      /\ stores \subseteq Key /\ faults \in 0 .. MaxFaults
      /\ file \in Content \cup {NoFile}
  BY Starts, IdleReached
  DEF Types, TypeOK, SyncStep, Begin, BeginAlone, Ingest, LookBack, Stat, Read, Keep, ScoreStore, Decide,
      Deal, Fails, game
<1>1. UNCHANGED game
  BY DEF SyncStep, Begin, BeginAlone, Ingest, LookBack, Stat, Read, Keep, ScoreStore, Decide, Deal, Fails
<1> SUFFICES /\ \E q \in Calls : Goes(c, q) /\ Reached(q)
             /\ known' \in [Key -> Maybe] /\ stores' \subseteq Key /\ seen' \in Times /\ holds' \in BOOLEAN
             /\ copy' \in [Key -> Copy \cup {NoRow, Unknown}] /\ faults' \in 0 .. MaxFaults
  <2>1. PICK q \in Calls : Goes(c, q) /\ Reached(q)
    OBVIOUS
  <2>2. sync' \in [Caller -> Calls] /\ \A d \in Caller : Reached(sync[d])'
    BY <2>1, <1>0, CallKept
  <2> QED BY <2>2, <1>0, <1>1 DEF Types, TypeOK, game
<1>2. CASE Begin(c)
  <2> DEFINE q == [Idle EXCEPT !.at = "ingest", !.list = stores', !.todo = stores']
  <2>1. stores' \subseteq Key /\ Goes(c, q)
    BY <1>2, <1>0 DEF Begin, Named, Key
  <2>3. copy' \in [Key -> Copy \cup {NoRow, Unknown}]
    BY <1>2, <1>0 DEF Begin
  <2>2. q \in Calls /\ Reached(q)
    BY <2>1, <1>0 DEF Calls, Idle, Reached, Unscored
  <2> QED BY <2>1, <2>2, <2>3, <1>2, <1>0 DEF Begin
<1>3. CASE \E f \in Key : Ingest(c, f)
  <2>1. PICK f \in Key : Ingest(c, f)
    BY <1>3
  <2> DEFINE q == [p EXCEPT !.todo = @ \ {f}]
  <2>2. q \in Calls
    BY <1>0 DEF Calls
  <2>3. Reached(q)
    BY <1>0, <2>1 DEF Calls, Reached, Ingest
  <2> QED BY <2>1, <2>2, <2>3, <1>0 DEF Ingest
<1>4. CASE LookBack(c)
  <2> DEFINE q == [p EXCEPT !.at = "stat", !.saw = seen]
  <2>1. q \in Calls /\ Reached(q)
    BY <1>0, <1>4 DEF Calls, Reached, LookBack
  <2> QED BY <2>1, <1>4, <1>0 DEF LookBack
<1>5. CASE Stat(c)
  <2>1. CASE file = NoFile \/ file.at = p.saw
    BY <2>1, <1>5, <1>0 DEF Stat
  <2>2. CASE ~(file = NoFile \/ file.at = p.saw)
    <3> DEFINE q == [p EXCEPT !.at = "read", !.mtime = file.at]
    <3>1. file.at \in 0 .. MaxSeconds
      BY <2>2, <1>0 DEF Content
    <3>2. q \in Calls
      BY <1>0, <3>1 DEF Calls, Times
    <3>3. p.at = "stat" /\ \A f \in Key : p.scores[f] = Unscored
      BY <1>0, <1>5 DEF Reached, Stat
    <3>4. q.at = "read" /\ q.mtime = file.at /\ q.scores = p.scores
      BY <1>0 DEF Calls
    <3>5. Reached(q)
      <4> HIDE DEF q
      <4> QED BY <3>1, <3>3, <3>4, <2>2, <1>0 DEF Reached, Unscored
    <3> QED BY <3>2, <3>5, <2>2, <1>5, <1>0 DEF Stat
  <2> QED BY <2>1, <2>2
<1>6. CASE Read(c)
  <2>1. CASE Goes(c, Idle)
    BY <2>1, <1>6, <1>0 DEF Read
  <2>2. CASE Goes(c, [p EXCEPT !.at = "score", !.text = file, !.todo = p.list])
    <3> DEFINE q == [p EXCEPT !.at = "score", !.text = file, !.todo = p.list]
    <3>1. file \in Content
      BY <1>0, <1>6 DEF Reached, Read
    <3>2. q \in Calls
      BY <1>0, <3>1 DEF Calls
    <3>3. p.at = "read" /\ \A f \in Key : p.scores[f] = Unscored
      BY <1>0, <1>6 DEF Reached, Read
    <3>4. /\ q.at = "score" /\ q.mtime = p.mtime /\ q.scores = p.scores
          /\ q.text = file
      BY <1>0 DEF Calls
    <3>5. Reached(q)
      <4> HIDE DEF q
      <4> QED BY <3>1, <3>3, <3>4, <1>0 DEF Reached, Unscored
    <3> QED BY <3>2, <3>5, <2>2, <1>6, <1>0 DEF Read
  <2> QED BY <2>1, <2>2, <1>6 DEF Read
<1>7. CASE \E f \in Key : ScoreStore(c, f)
  <2>1. PICK f \in Key : ScoreStore(c, f)
    BY <1>7
  <2>2. p.at = "score" /\ p.text \in Content
    BY <2>1, <1>0 DEF ScoreStore, Reached
  <2>3. p.text.value \in Maybe /\ known[f] \in Maybe
    BY <2>2, <1>0 DEF Content, Maybe
  <2>4. PICK s \in Scores : /\ Goes(c, [p EXCEPT !.scores[f] = s, !.todo = @ \ {f}])
                            /\ s.fit = "distance" => name \in Balances
                            /\ s.fit = "exact" => name \notin Balances /\ s.far = 0
                            /\ s.fit \in {"exact", "distance"} => p.text.value # Nothing
    <3>1. CASE p.list = {f}
      BY <3>1, <2>1, Starts DEF ScoreStore, Unscored
    <3>2. CASE p.list # {f}
      BY <3>2, <2>1, <2>3, ScoreType DEF ScoreStore
    <3> QED BY <3>1, <3>2
  <2> DEFINE q == [p EXCEPT !.scores[f] = s, !.todo = @ \ {f}]
  <2>5. q \in Calls
    BY <1>0 DEF Calls
  <2>6. /\ q.at = "score" /\ q.text = p.text /\ q.mtime = p.mtime
        /\ \A g \in Key : q.scores[g] = IF g = f THEN s ELSE p.scores[g]
    BY <2>2, <1>0 DEF Calls
  <2>7. Reached(q)
    BY <2>6, <2>4, <2>2, <1>0 DEF Reached
  <2> QED BY <2>4, <2>5, <2>7, <2>1, <1>0 DEF ScoreStore
<1>8. CASE Decide(c)
  <2> DEFINE chosen == ResolveTie(p.text, Choose(p.list, p.scores))
             q == [p EXCEPT !.at = "deal", !.todo = p.list, !.chosen = chosen]
  <2>1. chosen \subseteq p.list
    BY <1>0, ChoiceType
  <2>2. p.at = "score" /\ Goes(c, q) /\ seen' = p.mtime
    BY <1>8 DEF Decide
  <2>3. q \in Calls
    BY <2>1, <1>0 DEF Calls
  <2>4. /\ q.at = "deal" /\ q.text = p.text /\ q.mtime = p.mtime /\ q.scores = p.scores
        /\ q.list = p.list /\ q.chosen = chosen
    BY <1>0 DEF Calls
  <2>5. Reached(q)
    <3> HIDE DEF q
    <3> QED BY <2>4, <2>2, <1>0 DEF Reached
  <2>6. seen' \in Times
    BY <2>2, <1>0 DEF Reached, Times
  <2> QED BY <2>2, <2>3, <2>5, <2>6, <1>8, <1>0 DEF Decide
<1>9. CASE \E f \in Key : Deal(c, f)
  <2>1. PICK f \in Key : Deal(c, f)
    BY <1>9
  <2>2. p.text \in Content /\ p.mtime \in 0 .. MaxSeconds
    BY <2>1, <1>0 DEF Deal, Reached
  <2>3. copy' \in [Key -> Copy \cup {NoRow, Unknown}]
    BY <2>1, <2>2, <1>0, DealtType DEF Deal
  <2>4. CASE p.todo = {f}
    BY <2>4, <2>1, <2>3, <1>0 DEF Deal
  <2>5. CASE p.todo # {f}
    <3> DEFINE q == [p EXCEPT !.todo = @ \ {f}]
    <3>1. q \in Calls /\ Reached(q)
      BY <1>0 DEF Calls, Reached
    <3> QED BY <3>1, <2>5, <2>1, <2>3, <1>0 DEF Deal
  <2> QED BY <2>4, <2>5
<1>10. CASE Fails(c)
  <2>1. faults' \in 0 .. MaxFaults
    BY <1>10, <1>0, CompanionsAssumption DEF Fails
  <2> QED BY <2>1, <1>10, <1>0 DEF Fails
<1>11. CASE BeginAlone(c)
  <2> DEFINE q == [Idle EXCEPT !.at = "stat", !.list = stores, !.saw = copy[Placeholder].mtime]
  <2>1. copy[Placeholder].mtime \in Times
    <3>1. copy[Placeholder] \in Copy \cup {NoRow, Unknown}
      BY <1>0, Keys
    <3> QED BY <3>1 DEF Copy, NoRow, Unknown, Times
  <2>2. q \in Calls /\ Reached(q)
    BY <2>1, <1>0 DEF Calls, Idle, Reached, Unscored
  <2>3. known' \in [Key -> Maybe] /\ holds' \in BOOLEAN
    <3>1. CASE UNCHANGED <<holds, known>>
      BY <3>1, <1>0
    <3>2. CASE holds' = TRUE /\ \E v \in {known[Placeholder]} \cup Unnamed :
                 known' = [known EXCEPT ![Placeholder] = v]
      <4>1. PICK v \in {known[Placeholder]} \cup Unnamed : known' = [known EXCEPT ![Placeholder] = v]
        BY <3>2
      <4>2. v \in Maybe
        BY <1>0, Keys, CompanionsAssumption DEF Maybe
      <4> QED BY <3>2, <4>1, <4>2, <1>0
    <3> QED BY <3>1, <3>2, <1>11 DEF BeginAlone
  <2> QED BY <2>2, <2>3, <1>11, <1>0 DEF BeginAlone
<1>12. CASE Keep(c)
  <2>1. p.text \in Content /\ p.mtime \in 0 .. MaxSeconds
    BY <1>12, <1>0 DEF Keep, Reached
  <2>2. copy' \in [Key -> Copy \cup {NoRow, Unknown}]
    BY <2>1, <1>12, <1>0 DEF Keep, Copy
  <2> QED BY <2>2, <1>12, <1>0 DEF Keep
<1> QED BY <1>2, <1>3, <1>4, <1>5, <1>6, <1>7, <1>8, <1>9, <1>10, <1>11, <1>12 DEF SyncStep

LEMMA RestartTypes == Types /\ Restart => Types'
<1> SUFFICES ASSUME Types, Restart PROVE Types'
  OBVIOUS
<1>0. copy' \in [Key -> Copy \cup {NoRow, Unknown}] /\ stores' \subseteq Key
  BY DEF Types, TypeOK, Restart
<1>1. TypeOK'
  BY <1>0, Starts, CompanionsAssumption DEF Types, TypeOK, Restart, game, Times
<1>2. \A c \in Caller : sync'[c] = Idle
  BY DEF Restart
<1>3. \A c \in Caller : Reached(sync[c])'
  BY <1>2 DEF Reached, Idle, Unscored
<1> QED BY <1>1, <1>3 DEF Types

LEMMA TypesStep == Types /\ [Next]_vars => Types'
<1> SUFFICES ASSUME Types, [Next]_vars PROVE Types'
  OBVIOUS
<1>1. CASE UNCHANGED vars
  <2>1. TypeOK'
    BY <1>1 DEF vars, Types, TypeOK
  <2>2. \A c \in Caller : Reached(sync[c])'
    BY <1>1, Unmoved DEF vars
  <2> QED BY <2>1, <2>2 DEF Types
<1> QED
  BY <1>1, GameTypes, SyncTypes, RestartTypes DEF Next

LEMMA TypesAlways == Spec => []Types
<1> QED BY TypesInit, TypesStep, PTL DEF Spec

\* Every variable keeps its shape, whatever the callers do to each other.
THEOREM CompanionTypes == Spec => []TypeOK
<1>1. Types => TypeOK
  BY DEF Types
<1> QED BY <1>1, TypesAlways, PTL

-----------------------------------------------------------------------------
(* Whose panel.                                                            *)

LEMMA TwoOrMore ==
  ASSUME NEW S \in SUBSET Key, NEW f \in S, NEW g \in S, f # g
  PROVE  Cardinality(S) \in Nat /\ Cardinality(S) >= 2
<1>1. IsFiniteSet(S) /\ Cardinality(S) \in Nat
  BY Keys, FS_Subset, FS_CardinalityType
<1>2. Cardinality({f}) = 1 /\ IsFiniteSet({f})
  BY FS_Singleton
<1>3. Cardinality({f} \cup {g}) = 2 /\ IsFiniteSet({f} \cup {g})
  BY <1>2, FS_AddElement
<1>4. Cardinality({f} \cup {g}) <= Cardinality(S)
  BY <1>1, FS_Subset
<1> QED BY <1>1, <1>3, <1>4

\* Who is chosen next to a writer whose journal agrees agrees as well, and then the
\* text is no full hold.
LEMMA ChosenFits ==
  ASSUME Types, NEW c \in Caller, NEW p, p = sync[c], p.at = "deal",
         NEW f \in p.chosen, NEW w \in p.list, w # f, Matches(p.scores[w])
  PROVE  Matches(p.scores[f]) /\ (name \in Holds => p.text.value = 0)
<1>1. /\ p \in Calls /\ Reached(p) /\ p.chosen = ResolveTie(p.text, Choose(p.list, p.scores))
      /\ p.list \in SUBSET Key /\ p.scores \in [Key -> Scores]
  BY DEF Types, TypeOK, Reached, Calls
<1> DEFINE chosen == Choose(p.list, p.scores)
           exact == {g \in p.list : p.scores[g].fit = "exact"}
           near == {g \in p.list : p.scores[g].fit = "distance"}
<1>2. f \in chosen /\ f \in p.list /\ w \in Key /\ f \in Key /\ chosen \in SUBSET Key
  BY <1>1 DEF ResolveTie, Choose
<1>3. Cardinality(p.list) # 1
  BY <1>1, <1>2, TwoOrMore
<1>4. p.scores[w].far = 0 /\ p.scores[w].fit \in {"exact", "distance"}
      /\ p.text.value # Nothing
  BY <1>1, <1>2 DEF Matches, Reached
<1>5. CASE exact # {}
  <2>1. chosen = exact
    BY <1>3, <1>5 DEF Choose
  <2>2. name \notin Balances /\ Matches(p.scores[f])
    BY <2>1, <1>1, <1>2 DEF Reached, Matches
  <2>3. w \in chosen
    BY <2>1, <2>2, <1>1, <1>2, <1>4 DEF Reached
  <2>4. Cardinality(chosen) \in Nat /\ Cardinality(chosen) >= 2
    BY <2>3, <1>2, TwoOrMore
  <2>5. name \in Holds => p.text.value = 0
    BY <2>4, <1>1, <1>4 DEF ResolveTie
  <2> QED BY <2>2, <2>5
<1>6. CASE exact = {}
  <2>1. w \in near /\ name \in Balances
    BY <1>6, <1>1, <1>2, <1>4 DEF Reached
  <2>2. /\ p.scores[f].fit = "distance"
        /\ p.scores[f].far <= p.scores[w].far
    <3>1. f \in near /\ \/ p.scores[f].far < p.scores[w].far
                        \/ p.scores[f].far = p.scores[w].far /\ f < w
      BY <2>1, <1>2, <1>3, <1>6 DEF Choose
    <3> QED BY <3>1, <1>1, <1>2 DEF Scores
  <2>3. Matches(p.scores[f])
    BY <2>2, <1>1, <1>2, <1>4 DEF Matches, Scores
  <2> QED BY <2>1, <2>3 DEF Balances, Holds
<1> QED BY <1>5, <1>6

LEMMA OwnPanelStep == Types /\ OwnPanel /\ [Next]_vars => OwnPanel'
<1> SUFFICES ASSUME Types, OwnPanel, [Next]_vars PROVE OwnPanel'
  OBVIOUS
<1>1. UNCHANGED name
  BY DEF Next, GameStep, SyncStep, Restart, Play, Says, Rewrite, Tick, Begin, BeginAlone, Ingest,
         LookBack, Stat, Read, Keep, ScoreStore, Decide, Deal, Fails, vars
<1>2. CASE UNCHANGED copy
  BY <1>1, <1>2 DEF OwnPanel, Shows
<1>3. CASE \E c \in Caller, f \in Key : Deal(c, f)
  <2>1. PICK c \in Caller, f \in Key : Deal(c, f)
    BY <1>3
  <2> DEFINE p == sync[c]
             fine(r) == r.is = "copy" /\ r.text.by # f =>
                          r.late \/ (r.fits /\ (name \in Holds => r.text.value = 0))
  <2>2. /\ copy'[f] = Dealt(p, f) /\ \A g \in Key \ {f} : copy'[g] = copy[g]
        /\ p.at = "deal" /\ Reached(p) /\ p \in Calls
    BY <2>1 DEF Deal, Types, TypeOK
  <2>3. fine(copy[f])
    BY DEF OwnPanel, Shows
  <2>4. fine(Unknown)
    BY DEF Unknown, NoRow
  <2>5. ASSUME f \in p.chosen, copy[f].mtime # p.mtime PROVE fine(Dealt(p, f))
    <3> DEFINE w == p.text.by
               r == [is |-> "copy", text |-> p.text, mtime |-> p.mtime,
                     late |-> w \notin p.list \/ ~Matches(p.scores[w]),
                     fits |-> Matches(p.scores[f])]
    <3>1. Dealt(p, f) = r
      BY <2>5 DEF Dealt
    <3>2. w # f /\ w \in p.list /\ Matches(p.scores[w])
          => Matches(p.scores[f]) /\ (name \in Holds => p.text.value = 0)
      BY <2>2, <2>5, ChosenFits
    <3>3. r.is = "copy" /\ r.text.by = w /\ r.text.value = p.text.value
      OBVIOUS
    <3>4. CASE w = f
      BY <3>1, <3>3, <3>4
    <3>5. CASE w \notin p.list \/ ~Matches(p.scores[w])
      <4>1. r.late
        BY <3>5
      <4> QED BY <3>1, <4>1
    <3>6. CASE w # f /\ w \in p.list /\ Matches(p.scores[w])
      <4>1. r.fits /\ (name \in Holds => r.text.value = 0)
        BY <3>2, <3>3, <3>6
      <4> QED BY <3>1, <4>1
    <3> QED BY <3>4, <3>5, <3>6
  <2>6. fine(copy'[f])
    BY <2>2, <2>3, <2>4, <2>5 DEF Dealt
  <2> QED BY <2>2, <2>6, <1>1 DEF OwnPanel, Shows
<1>4. CASE \/ Restart \/ \E c \in Caller : Begin(c)
  <2>1. \A f \in Key : copy'[f] \in {copy[f], NoRow}
    BY <1>4 DEF Restart, Begin, Types, TypeOK
  <2> QED BY <2>1, <1>1 DEF OwnPanel, Shows, NoRow
<1>5. CASE \E c \in Caller : Keep(c)
  <2>1. /\ copy'[Placeholder].late /\ \A f \in Key \ {Placeholder} : copy'[f] = copy[f]
    BY <1>5, Keys DEF Keep, Types, TypeOK
  <2> QED BY <2>1, <1>1 DEF OwnPanel, Shows
<1> QED
  BY <1>2, <1>3, <1>4, <1>5
  DEF Next, GameStep, SyncStep, Play, Says, Rewrite, Tick, BeginAlone, Ingest,
      LookBack, Stat, Read, ScoreStore, Decide, Fails, vars, registry

\* Another commander's text is shown only if his journal was behind, or if the
\* receiver's journal agrees and the text is no full hold; for any commanders,
\* values and rules, however syncs, restarts and writings meet.
THEOREM PanelsAreOwn == Spec => []OwnPanel
<1>1. Init => OwnPanel
  BY DEF Init, OwnPanel, Shows, NoRow
<1> QED BY <1>1, TypesAlways, OwnPanelStep, PTL DEF Spec

-----------------------------------------------------------------------------
(* No writing of the file is passed over.                                  *)

\* One call at a time, one writing a second, and snapshots that are written; each of
\* the three is needed.
Calm == OncePerSecond /\ ~WritesFail /\ \A c, d \in Caller : c = d

\* A text is not newer than the file, and is the file if it is as new.
Old(t) == t.at <= file.at /\ (t.at = file.at => t = file)

Settled ==
  file # NoFile /\ seen = file.at =>
    (\E f \in Key : copy[f].text = file) \/ (\A f \in Key : ~Shows(f))

\* The stores a call has already been to show the file, if it has not changed since
\* its time was taken.
Dealing(p) ==
  /\ p.chosen = {} => \A f \in p.list \ p.todo : ~Shows(f)
  /\ \A f \in p.chosen \ p.todo : copy[f].text = file

\* The time a call took is not later than the text it read.
Timed(p) ==
  /\ p.at # "idle" => p.list = stores /\ stores # {}
  /\ p.at \in {"read", "score", "deal"} => p.mtime <= file.at
  /\ p.at \in {"score", "deal"} => p.mtime <= p.text.at /\ Old(p.text)
  /\ p.at = "deal" => /\ seen = p.mtime /\ p.todo # {} /\ p.todo \subseteq p.list
                      /\ p.mtime = file.at => Dealing(p)

Rows ==
  \A f \in Key : Shows(f) => /\ f \in stores /\ file # NoFile /\ Old(copy[f].text)
                             /\ copy[f].mtime <= copy[f].text.at

\* A placeholder by itself has dispatched nothing, and one that holds nothing is by
\* itself.
Lone ==
  /\ stores # {}
  /\ stores = {Placeholder} => seen = Nothing
  /\ Placeholder \in stores /\ ~holds => stores = {Placeholder}

MissInv ==
  /\ Lone
  /\ file # NoFile => file.at <= second
  /\ seen # Nothing => file # NoFile /\ seen <= file.at
  /\ Rows
  /\ \A c \in Caller : Timed(sync[c])
  /\ (\A c \in Caller : sync[c].at # "deal") => Settled

LEMMA MissInit == Init => MissInv
  BY DEF Init, MissInv, Lone, Rows, Timed, Settled, Idle, NoRow, Shows, NoFile

LEMMA Numbers ==
  ASSUME Types
  PROVE  /\ second \in Nat /\ (file # NoFile => file \in Content /\ file.at \in Nat)
         /\ seen # Nothing => seen \in Nat
         /\ Nothing \notin Nat
         /\ \A f \in Key : Shows(f) => copy[f].mtime \in Nat /\ copy[f].text.at \in Nat
         /\ \A c \in Caller :
              /\ sync[c].at \in {"read", "score", "deal"} => sync[c].mtime \in Nat
              /\ sync[c].at \in {"score", "deal"} => sync[c].text.at \in Nat
<1>1. \A f \in Key : Shows(f) => copy[f] \in Copy
  BY DEF Types, TypeOK, Shows, NoRow, Unknown
<1>2. \A f \in Key : Shows(f) => copy[f].mtime \in Nat /\ copy[f].text.at \in Nat
  BY <1>1, CompanionsAssumption DEF Copy, Content
<1> QED
  BY <1>2, CompanionsAssumption DEF Types, TypeOK, Content, Times, Reached

\* A writing makes every text and every time in use older than the file.
LEMMA RewriteMiss ==
  ASSUME Types, MissInv, Calm, NEW f \in Fid, NEW v, Rewrite(f, v)
  PROVE  MissInv'
<1>1. /\ file'.at = second /\ file' # NoFile
      /\ UNCHANGED <<second, stores, holds, copy, seen, sync>>
  BY DEF Rewrite, NoFile, Types, TypeOK, registry
<1>2. file # NoFile => file.at \in Nat /\ file.at < second
  BY Numbers DEF MissInv, Calm, Rewrite
<1>3. second \in Nat
  BY Numbers
<1>4. seen # Nothing => seen < file'.at
  BY <1>1, <1>2, Numbers DEF MissInv
<1>5. Rows'
  <2> SUFFICES ASSUME NEW g \in Key, Shows(g)'
               PROVE  (/\ g \in stores /\ file # NoFile /\ Old(copy[g].text)
                       /\ copy[g].mtime <= copy[g].text.at)'
    BY DEF Rows
  <2>1. /\ Shows(g) /\ g \in stores /\ file # NoFile /\ copy[g].text.at <= file.at
        /\ copy[g].mtime <= copy[g].text.at /\ copy[g].text.at \in Nat
    BY <1>1, Numbers DEF Shows, MissInv, Rows, Old
  <2>2. copy[g].text.at < file'.at
    BY <2>1, <1>1, <1>2, <1>3
  <2> QED BY <2>1, <2>2, <1>1, <1>3 DEF Old
<1>6. ASSUME NEW c \in Caller PROVE Timed(sync[c])'
  <2>1. PICK p : p = sync[c]
    OBVIOUS
  <2>2. Timed(p) /\ Reached(p) /\ sync'[c] = p
    BY <2>1, <1>1 DEF MissInv, Types
  <2>3. p.at \in {"read", "score", "deal"} => p.mtime < file'.at /\ p.mtime \in Nat
    BY <2>1, <2>2, <1>1, <1>2, <1>3, Numbers DEF Timed, Reached
  <2>4. p.at \in {"score", "deal"} => p.text.at < file'.at /\ p.text.at \in Nat
    BY <2>1, <2>2, <1>1, <1>2, <1>3, Numbers DEF Timed, Reached, Old
  <2> QED BY <2>2, <2>3, <2>4, <1>1, <1>3 DEF Timed, Old
<1>7. Settled'
  BY <1>1, <1>3, <1>4, Numbers DEF Settled
<1>8. Lone'
  BY <1>1 DEF MissInv, Lone
<1> QED BY <1>1, <1>3, <1>4, <1>5, <1>6, <1>7, <1>8, Numbers DEF MissInv

\* What leaves the files, the rows and the calls alone.
LEMMA QuietMiss ==
  ASSUME Types, MissInv, UNCHANGED <<file, stores, holds, copy, seen, sync>>,
         second' \in Nat, second <= second'
  PROVE  MissInv'
<1>1. (file # NoFile => file.at <= second)'
  BY Numbers DEF MissInv
<1>2. Rows' /\ Settled' = Settled /\ Lone'
  BY DEF MissInv, Rows, Shows, Old, Settled, Lone
<1>3. \A c \in Caller : Timed(sync[c])'
  BY DEF MissInv, Timed, Old, Dealing, Shows
<1> QED BY <1>1, <1>2, <1>3 DEF MissInv

LEMMA GameMiss == Types /\ MissInv /\ Calm /\ GameStep => MissInv'
<1> SUFFICES ASSUME Types, MissInv, Calm, GameStep PROVE MissInv'
  OBVIOUS
<1>1. CASE \E f \in Fid : \E v \in {has[f], Nothing} : Rewrite(f, v)
  BY <1>1, RewriteMiss
<1>2. CASE ~\E f \in Fid : \E v \in {has[f], Nothing} : Rewrite(f, v)
  <2>1. /\ UNCHANGED <<file, stores, holds, copy, seen, sync>>
        /\ second' = second \/ second' = second + 1
    BY <1>2 DEF GameStep, Play, Says, Tick, registry
  <2> QED BY <2>1, QuietMiss, Numbers
<1> QED BY <1>1, <1>2

\* A call goes on without touching the rows: what it may become is left to show.
LEMMA CallMiss ==
  ASSUME Types, MissInv, Calm, NEW c \in Caller, NEW q, Goes(c, q),
         UNCHANGED <<game, copy, seen, stores>>, holds' \in {holds, TRUE},
         sync[c].at # "deal", q.at # "deal", Timed(q)'
  PROVE  MissInv'
<1>1. sync'[c] = q /\ \A d \in Caller : d = c
  BY DEF Goes, Types, TypeOK, Calm
<1>2. Rows'
  BY DEF MissInv, Rows, Shows, Old, game
<1>3. \A d \in Caller : Timed(sync[d])'
  BY <1>1 DEF Timed, Old, Dealing, Shows
<1>4. Settled'
  BY <1>1 DEF MissInv, Settled, Shows, game
<1>5. Lone'
  BY DEF MissInv, Lone
<1> QED BY <1>2, <1>3, <1>4, <1>5 DEF MissInv, game

\* A placeholder that retires has seen nothing of the file.
LEMMA BeginMiss ==
  ASSUME Types, MissInv, Calm, NEW c \in Caller, Begin(c)
  PROVE  MissInv'
<1>0. PICK q : q = [Idle EXCEPT !.at = "ingest", !.list = stores', !.todo = stores']
  OBVIOUS
<1>1. /\ q.at = "ingest" /\ q.list = stores' /\ sync[c].at = "idle" /\ sync'[c] = q
      /\ UNCHANGED <<game, holds, seen>> /\ \A d \in Caller : d = c
  BY <1>0 DEF Begin, Goes, Idle, Types, TypeOK, Calm
<1>2. /\ stores' # {} /\ stores' # {Placeholder}
      /\ \A f \in Key \ {Placeholder} : copy'[f] = copy[f]
      /\ stores \ {Placeholder} \subseteq stores'
      /\ copy'[Placeholder] = IF Placeholder \in stores' THEN copy[Placeholder] ELSE NoRow
      /\ ~holds => Placeholder \notin stores'
      /\ Placeholder \in stores /\ Placeholder \notin stores' => seen = Nothing
  BY Keys DEF Begin, MissInv, Lone, Types, TypeOK
<1>3. Lone'
  BY <1>1, <1>2 DEF Lone
<1>4. Rows'
  <2> SUFFICES ASSUME NEW g \in Key, Shows(g)'
               PROVE  (/\ g \in stores /\ file # NoFile /\ Old(copy[g].text)
                       /\ copy[g].mtime <= copy[g].text.at)'
    BY DEF Rows
  <2>1. copy'[g] = copy[g] /\ (g = Placeholder => g \in stores')
    BY <1>2 DEF Shows, NoRow
  <2>2. Shows(g) /\ g \in stores
    BY <2>1 DEF Shows, MissInv, Rows
  <2> QED BY <2>1, <2>2, <1>1, <1>2 DEF MissInv, Rows, Old, game
<1>5. \A d \in Caller : Timed(sync[d])'
  BY <1>1, <1>2 DEF Timed
<1>6. Settled'
  <2>1. CASE Placeholder \in stores /\ Placeholder \notin stores'
    <3>1. seen = Nothing
      BY <2>1, <1>2
    <3> QED BY <3>1, <1>1, Numbers DEF Settled, game
  <2>2. CASE ~(Placeholder \in stores /\ Placeholder \notin stores')
    <3>1. Settled
      BY <1>1 DEF MissInv
    <3>2. \A f \in Key : Shows(f) => copy'[f] = copy[f]
      <4>1. Shows(Placeholder) => Placeholder \in stores
        BY Keys DEF MissInv, Rows
      <4> QED BY <2>2, <1>2, <4>1
    <3>3. \A f \in Key : Shows(f)' => Shows(f)
      BY <1>2 DEF Shows, NoRow
    <3>4. file # NoFile => \A f \in Key : copy[f].text = file => Shows(f)
      <4>1. \A f \in Key : copy[f] \in Copy \cup {NoRow, Unknown}
        BY DEF Types, TypeOK
      <4> QED BY <4>1 DEF Copy, Shows, NoRow, Unknown
    <3> QED BY <3>1, <3>2, <3>3, <3>4, <1>1 DEF Settled, game
  <2> QED BY <2>1, <2>2
<1> QED BY <1>1, <1>3, <1>4, <1>5, <1>6 DEF MissInv, game

LEMMA SyncMiss ==
  ASSUME Types, MissInv, Calm, NEW c \in Caller, SyncStep(c)
  PROVE  MissInv'
<1>0. PICK p : p = sync[c]
  OBVIOUS
<1>1. /\ p \in Calls /\ Reached(p) /\ Timed(p) /\ \A d \in Caller : d = c
      /\ UNCHANGED game /\ Timed(Idle)'
  BY <1>0 DEF Types, TypeOK, MissInv, Calm, SyncStep, Begin, BeginAlone, Ingest, LookBack,
              Stat, Read, Keep, ScoreStore, Decide, Deal, Fails, Timed, Idle
<1>2. CASE Begin(c)
  BY <1>2, BeginMiss
<1>3. CASE \E f \in Key : Ingest(c, f)
  <2>1. PICK f \in Key : Ingest(c, f)
    BY <1>3
  <2>0. PICK q : q = [p EXCEPT !.todo = @ \ {f}]
    OBVIOUS
  <2>2. q.at = "ingest" /\ q.list = p.list /\ UNCHANGED stores /\ Goes(c, q)
    BY <2>0, <2>1, <1>0, <1>1 DEF Ingest, Calls
  <2>3. Timed(q)'
    BY <2>2, <1>1, <2>1, <1>0 DEF Timed, Ingest
  <2> QED BY <2>1, <2>2, <2>3, <1>0, <1>1, CallMiss DEF Ingest
<1>4. CASE LookBack(c)
  <2>0. PICK q : q = [p EXCEPT !.at = "stat", !.saw = seen]
    OBVIOUS
  <2>1. q.at = "stat" /\ q.list = p.list /\ UNCHANGED stores /\ Goes(c, q)
    BY <2>0, <1>4, <1>0, <1>1 DEF LookBack, Calls
  <2>2. Timed(q)'
    BY <2>1, <1>1, <1>4, <1>0 DEF Timed, LookBack
  <2> QED BY <2>1, <2>2, <1>4, <1>0, <1>1, CallMiss DEF LookBack
<1>5. CASE Stat(c)
  <2>1. CASE Goes(c, Idle)
    BY <2>1, <1>5, <1>1, CallMiss DEF Stat, Idle
  <2>2. CASE file # NoFile /\ Goes(c, [p EXCEPT !.at = "read", !.mtime = file.at])
    <3>0. PICK q : q = [p EXCEPT !.at = "read", !.mtime = file.at]
      OBVIOUS
    <3>1. /\ q.at = "read" /\ q.list = p.list /\ q.mtime = file.at /\ p.at = "stat"
          /\ UNCHANGED <<stores, file>> /\ Goes(c, q)
      BY <3>0, <2>2, <1>5, <1>0, <1>1 DEF Stat, Calls, game
    <3>2. Timed(q)'
      BY <3>1, <1>1, <2>2, Numbers DEF Timed
    <3> QED BY <3>1, <3>2, <2>2, <1>5, <1>0, <1>1, CallMiss DEF Stat
  <2> QED BY <2>1, <2>2, <1>5, <1>0 DEF Stat
<1>6. CASE Read(c)
  <2>1. CASE Goes(c, Idle)
    BY <2>1, <1>6, <1>1, CallMiss DEF Read, Idle
  <2>2. CASE Goes(c, [p EXCEPT !.at = "score", !.text = file, !.todo = p.list])
    <3>0. PICK q : q = [p EXCEPT !.at = "score", !.text = file, !.todo = p.list]
      OBVIOUS
    <3>1. /\ q.at = "score" /\ q.list = p.list /\ q.mtime = p.mtime /\ q.text = file
          /\ UNCHANGED <<stores, file>> /\ Goes(c, q)
      BY <3>0, <2>2, <1>6, <1>0, <1>1 DEF Read, Calls, game
    <3>2. p.at = "read" /\ file.at \in Nat
      BY <1>6, <1>0, <1>1, Numbers DEF Read, Reached
    <3>3. Timed(q)'
      BY <3>1, <3>2, <1>1 DEF Timed, Old
    <3> QED BY <3>1, <3>3, <2>2, <1>6, <1>0, <1>1, CallMiss DEF Read
  <2> QED BY <2>1, <2>2, <1>6, <1>0 DEF Read
<1>7. CASE \E f \in Key : ScoreStore(c, f)
  <2>1. PICK f \in Key : ScoreStore(c, f)
    BY <1>7
  <2>2. PICK s : Goes(c, [p EXCEPT !.scores[f] = s, !.todo = @ \ {f}])
    BY <2>1, <1>0 DEF ScoreStore
  <2>0. PICK q : q = [p EXCEPT !.scores[f] = s, !.todo = @ \ {f}]
    OBVIOUS
  <2>3. /\ q.at = "score" /\ q.list = p.list /\ q.mtime = p.mtime /\ q.text = p.text
        /\ p.at = "score" /\ UNCHANGED <<stores, file>> /\ Goes(c, q)
    BY <2>0, <2>2, <2>1, <1>0, <1>1 DEF ScoreStore, Calls, game
  <2>4. Timed(q)'
    BY <2>3, <1>1 DEF Timed, Old
  <2> QED BY <2>2, <2>3, <2>4, <2>1, <1>0, <1>1, CallMiss DEF ScoreStore
<1>8. CASE Fails(c)
  <2>1. p.at # "deal" /\ Goes(c, Idle) /\ UNCHANGED <<stores, holds, copy, seen>>
    BY <1>8, <1>0 DEF Fails, Calm
  <2> QED BY <2>1, <1>0, <1>1, CallMiss DEF Idle
<1>9. CASE Decide(c)
  <2>a. PICK chosen : chosen = ResolveTie(p.text, Choose(p.list, p.scores))
    OBVIOUS
  <2>0. PICK q : q = [p EXCEPT !.at = "deal", !.todo = p.list, !.chosen = chosen]
    OBVIOUS
  <2>1. /\ p.at = "score" /\ sync'[c] = q /\ seen' = p.mtime
        /\ UNCHANGED <<stores, copy, file, second>>
    BY <2>a, <2>0, <1>9, <1>0, <1>1 DEF Decide, Goes, Types, TypeOK, game
  <2>2. /\ q.at = "deal" /\ q.list = p.list /\ q.mtime = p.mtime /\ q.text = p.text
        /\ q.todo = p.list /\ q.chosen = chosen /\ chosen \subseteq p.list
    BY <2>a, <2>0, <1>1, ChoiceType DEF Calls
  <2>3. Timed(q)'
    BY <2>1, <2>2, <1>1 DEF Timed, Old, Dealing
  <2>4. \A d \in Caller : Timed(sync[d])'
    BY <2>1, <2>3, <1>1 DEF Timed, Old, Dealing, Shows
  <2>5. Rows'
    BY <2>1 DEF MissInv, Rows, Shows, Old
  <2>6. file # NoFile /\ p.mtime <= file.at
    BY <2>1, <1>1 DEF Timed, Reached
  <2>7. Lone'
    BY <2>1, <1>9, <1>1 DEF MissInv, Lone, Timed, Decide
  <2> QED BY <2>1, <2>2, <2>4, <2>5, <2>6, <2>7 DEF MissInv
<1>10. CASE \E f \in Key : Deal(c, f)
  <2>1. PICK f \in Key : Deal(c, f)
    BY <1>10
  <2>2. /\ p.at = "deal" /\ f \in p.todo /\ seen = p.mtime /\ p.mtime \in Nat
        /\ file # NoFile /\ file.at \in Nat /\ p.text.at \in Nat
        /\ p.mtime <= p.text.at /\ Old(p.text) /\ p.list = stores
        /\ p.todo \subseteq p.list /\ p.chosen \subseteq p.list /\ p.list \subseteq Key
        /\ p.mtime = file.at => Dealing(p)
    BY <2>1, <1>0, <1>1, Numbers, ChoiceType DEF Deal, Timed, Reached, Calls
  <2>3. /\ UNCHANGED <<file, second, stores, seen>>
        /\ copy'[f] = Dealt(p, f) /\ \A g \in Key \ {f} : copy'[g] = copy[g]
        /\ \/ p.todo = {f} /\ sync'[c] = Idle
           \/ p.todo # {f} /\ sync'[c] = [p EXCEPT !.todo = @ \ {f}]
    BY <2>1, <1>0, <1>1 DEF Deal, Goes, Types, TypeOK, game
  <2>4. \/ copy'[f] = copy[f] /\ f \in p.chosen /\ copy[f].mtime = p.mtime
        \/ /\ f \in p.chosen /\ Shows(f)'
           /\ copy'[f].text = p.text /\ copy'[f].mtime = p.mtime
        \/ copy'[f] = Unknown /\ p.chosen = {}
        \/ copy'[f] = copy[f] /\ f \notin p.chosen /\ p.chosen # {}
    BY <2>3 DEF Dealt, Shows
  <2>5. f \in p.chosen /\ copy[f].mtime = p.mtime =>
           /\ Shows(f) /\ copy[f].text.at \in Nat /\ Old(copy[f].text)
           /\ copy[f].mtime <= copy[f].text.at
    <3>1. ASSUME copy[f].mtime = p.mtime PROVE Shows(f)
      <4>1. copy[f] \in Copy \cup {NoRow, Unknown} /\ p.mtime # Nothing
        BY <2>2, Numbers DEF Types, TypeOK
      <4>2. copy[f].mtime # Nothing
        BY <4>1, <3>1
      <4>3. copy[f] # NoRow /\ copy[f] # Unknown
        BY <4>2 DEF NoRow, Unknown
      <4> QED BY <4>1, <4>3 DEF Shows, Copy
    <3> QED BY <3>1, Numbers DEF MissInv, Rows
  <2>6. Rows'
    <3> SUFFICES ASSUME NEW g \in Key, Shows(g)'
                 PROVE  (/\ g \in stores /\ file # NoFile /\ Old(copy[g].text)
                         /\ copy[g].mtime <= copy[g].text.at)'
      BY DEF Rows
    <3>1. CASE copy'[g] = copy[g]
      BY <3>1, <2>3 DEF MissInv, Rows, Shows, Old
    <3>2. CASE copy'[g] # copy[g]
      <4>1. g = f /\ copy'[g] # Unknown
        BY <3>2, <2>3 DEF Shows, Unknown, NoRow
      <4> QED BY <4>1, <3>2, <2>2, <2>3, <2>4 DEF Old
    <3> QED BY <3>1, <3>2
  <2>7. ASSUME p.mtime = file.at
        PROVE  /\ p.chosen = {} => \A g \in p.list \ (p.todo \ {f}) : ~Shows(g)'
               /\ \A g \in p.chosen \ (p.todo \ {f}) : copy'[g].text = file
    <3>1. Dealing(p)
      BY <2>7, <2>2
    <3>2. ASSUME p.chosen = {}, NEW g \in p.list \ (p.todo \ {f}) PROVE ~Shows(g)'
      <4>1. CASE g = f
        BY <4>1, <3>2, <2>4 DEF Shows, Unknown, NoRow
      <4>2. CASE g # f
        BY <4>2, <3>1, <3>2, <2>2, <2>3 DEF Dealing, Shows
      <4> QED BY <4>1, <4>2
    <3>3. ASSUME NEW g \in p.chosen \ (p.todo \ {f}) PROVE copy'[g].text = file
      <4>1. CASE g # f
        BY <4>1, <3>1, <2>2, <2>3 DEF Dealing
      <4>2. CASE g = f /\ copy[f].mtime = p.mtime
        <5>1. copy[f].text = file
          BY <4>2, <2>2, <2>5, <2>7 DEF Old
        <5> QED BY <5>1, <4>2, <2>4, <2>2, <2>7 DEF Old
      <4>3. CASE g = f /\ copy[f].mtime # p.mtime
        <5>1. p.text = file
          BY <2>2, <2>7 DEF Old
        <5> QED BY <5>1, <4>3, <2>4
      <4> QED BY <4>1, <4>2, <4>3
    <3> QED BY <3>2, <3>3
  <2>10. Lone'
    BY <2>1, <2>3 DEF MissInv, Lone, Deal
  <2>8. CASE p.todo # {f}
    <3>0. PICK q : q = [p EXCEPT !.todo = @ \ {f}]
      OBVIOUS
    <3>1. /\ q.at = "deal" /\ q.list = p.list /\ q.mtime = p.mtime /\ q.text = p.text
          /\ q.todo = p.todo \ {f} /\ q.chosen = p.chosen /\ sync'[c] = q
      BY <3>0, <2>2, <2>3, <2>8, <1>1 DEF Calls
    <3>2. p.mtime = file.at => Dealing(q)'
      BY <3>1, <2>7, <2>3 DEF Dealing
    <3>3. Timed(q)'
      BY <3>1, <3>2, <2>2, <2>3, <2>8, <1>1 DEF Timed, Old
    <3>4. \A d \in Caller : Timed(sync[d])'
      BY <3>1, <3>3, <1>1 DEF Timed, Old, Dealing, Shows
    <3> QED BY <3>1, <3>4, <2>6, <2>2, <2>3, <2>10, <1>1 DEF MissInv
  <2>9. CASE p.todo = {f}
    <3>1. sync'[c] = Idle
      BY <2>9, <2>3
    <3>2. \A d \in Caller : Timed(sync[d])'
      BY <3>1, <1>1 DEF Timed, Idle
    <3>3. Settled'
      <4> SUFFICES ASSUME p.mtime = file.at
                   PROVE  (\E g \in Key : copy'[g].text = file) \/ (\A g \in Key : ~Shows(g)')
        BY <2>2, <2>3 DEF Settled, Shows
      <4>1. CASE p.chosen = {}
        <5>1. ASSUME NEW g \in Key PROVE ~Shows(g)'
          <6>1. CASE g \in p.list
            BY <6>1, <4>1, <2>7, <2>9
          <6>2. CASE g \notin p.list
            BY <6>2, <2>6, <2>2, <2>3 DEF Rows
          <6> QED BY <6>1, <6>2
        <5> QED BY <5>1
      <4>2. CASE p.chosen # {}
        BY <4>2, <2>2, <2>7, <2>9
      <4> QED BY <4>1, <4>2
    <3> QED BY <3>2, <3>3, <2>6, <2>2, <2>3, <2>10, <1>1 DEF MissInv
  <2> QED BY <2>8, <2>9
<1>11. CASE BeginAlone(c)
  <2>0. PICK q : q = [Idle EXCEPT !.at = "stat", !.list = stores, !.saw = copy[Placeholder].mtime]
    OBVIOUS
  <2>1. /\ q.at = "stat" /\ q.list = stores /\ UNCHANGED stores /\ Goes(c, q)
        /\ p.at = "idle" /\ holds' \in {holds, TRUE}
    BY <2>0, <1>11, <1>0 DEF BeginAlone, Idle
  <2>2. Timed(q)'
    BY <2>1 DEF Timed, MissInv, Lone
  <2> QED BY <2>1, <2>2, <1>11, <1>0, <1>1, CallMiss DEF BeginAlone
<1>12. CASE Keep(c)
  <2>1. /\ p.at = "score" /\ p.list = {Placeholder} /\ p.list = stores /\ seen = Nothing
        /\ p.text.at \in Nat /\ p.mtime <= p.text.at /\ Old(p.text) /\ file # NoFile
    BY <1>12, <1>0, <1>1, Numbers DEF Keep, Timed, MissInv, Lone, Reached
  <2>2. /\ copy'[Placeholder].text = p.text /\ copy'[Placeholder].mtime = p.mtime
        /\ \A f \in Key \ {Placeholder} : copy'[f] = copy[f]
        /\ sync'[c] = Idle /\ UNCHANGED <<file, second, stores, holds, seen>>
    BY <1>12, <1>0, Keys DEF Keep, Goes, Types, TypeOK, game
  <2>3. \A d \in Caller : Timed(sync[d])'
    BY <2>2, <1>1 DEF Timed, Idle
  <2>4. Rows'
    BY <2>1, <2>2 DEF MissInv, Rows, Shows, Old
  <2>5. Settled' /\ Lone'
    BY <2>1, <2>2, Numbers DEF Settled, Lone, MissInv
  <2> QED BY <2>1, <2>2, <2>3, <2>4, <2>5 DEF MissInv
<1> QED
  BY <1>2, <1>3, <1>4, <1>5, <1>6, <1>7, <1>8, <1>9, <1>10, <1>11, <1>12 DEF SyncStep

LEMMA MissStep == Types /\ MissInv /\ Calm /\ [Next]_vars => MissInv'
<1> SUFFICES ASSUME Types, MissInv, Calm, [Next]_vars PROVE MissInv'
  OBVIOUS
<1>1. CASE UNCHANGED vars
  BY <1>1, QuietMiss, Numbers DEF vars
<1>2. CASE Restart
  <2>1. /\ UNCHANGED <<file, second, holds>> /\ seen' = Nothing
        /\ \A c \in Caller : sync'[c] = Idle
        /\ \A f \in Key : \/ copy'[f] = copy[f] /\ (f \in stores => f \in stores')
                          \/ copy'[f] = NoRow
        /\ stores' # {} /\ (Placeholder \in stores' => stores' = {Placeholder})
    BY <1>2, Keys DEF Restart, game, MissInv, Lone, Types, TypeOK
  <2>2. \A c \in Caller : Timed(sync[c])'
    BY <2>1 DEF Timed, Idle
  <2>3. Rows'
    BY <2>1 DEF MissInv, Rows, Shows, Old, NoRow
  <2>4. Settled' /\ Lone'
    BY <2>1, Numbers DEF Settled, Lone
  <2> QED BY <2>1, <2>2, <2>3, <2>4 DEF MissInv
<1> QED BY <1>1, <1>2, GameMiss, SyncMiss DEF Next

\* With one call at a time, one writing a second and snapshots that are written, the
\* last writing of the file is what some store shows, or nobody's, as soon as it will
\* not be looked at again; for any commanders, rules, restarts and failed syncs.
THEOREM WritingsAreSeen == Calm => (Spec => []NothingMissed)
<1> SUFFICES ASSUME Calm PROVE Spec => []NothingMissed
  OBVIOUS
<1>1. MissInv => NothingMissed
  BY DEF MissInv, NothingMissed, Settled
<1>2. Types /\ MissInv /\ [Next]_vars => MissInv'
  BY MissStep
<1> QED BY <1>1, <1>2, MissInit, TypesAlways, PTL DEF Spec
===============================================================================

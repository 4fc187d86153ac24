---------------------------- MODULE KnowledgeProofs ----------------------------
(***************************************************************************)
(* Proofs about the EDSM proxy, for any requests, keys and stars and any    *)
(* number of faults.                                                        *)
(*                                                                         *)
(* The flight: a key leaves the set only with its one guard, so the keys in *)
(* flight and the guards correspond one to one.  The waiters: a key leaves  *)
(* the set in a step that has the wake-up still before it, and the wake-up  *)
(* reaches all who looked at the set before.  The pacer: who is past the    *)
(* permit is the first of the queue, and leaves it with the permit.         *)
(***************************************************************************)
EXTENDS Knowledge, SequenceTheorems, FiniteSetTheorems, TLAPS

Stepping == pc \in [Request -> Stages] /\ ask \in [Request -> Key \cup {Nothing}]

\* Keys in flight and guards, one to one; nobody leads a flight of no key.
Led ==
  /\ inflight \subseteq Key
  /\ \A r \in Request : pc[r] # "done" => ask[r] \in Key
  /\ \A r \in Request : pc[r] \in WithGuard => ask[r] \in inflight
  /\ \A k \in inflight : \E r \in Request : ask[r] = k /\ pc[r] \in WithGuard
  /\ \A r, q \in Request :
       pc[r] \in WithGuard /\ pc[q] \in WithGuard /\ ask[r] = ask[q] => r = q

\* The queue for the permit: its first may have it, the others wait.
InQueue == {r \in Request : pc[r] \in {"queue"} \cup WithPermit}
Paced ==
  /\ pacer \in Seq(Request) /\ IsInjective(pacer)
  /\ Range(pacer) = InQueue
  /\ \A r \in Request : pc[r] \in WithPermit => r = pacer[1]

KInv == Stepping /\ Led /\ NoSleeper /\ Paced
-----------------------------------------------------------------------------
(* The queue.                                                               *)

LEMMA Members ==
  ASSUME NEW S, NEW s \in Seq(S)
  PROVE  /\ Len(s) \in Nat
         /\ \A x : x \in Range(s) <=> \E i \in 1..Len(s) : s[i] = x
         /\ \A i \in 1..Len(s) : s[i] \in S /\ s[i] \in Range(s)
<1>1. Len(s) \in Nat /\ DOMAIN s = 1..Len(s)
  BY LenProperties
<1>2. \A i \in 1..Len(s) : s[i] \in S
  BY ElementOfSeq
<1>3. \A x : x \in Range(s) <=> \E i \in 1..Len(s) : s[i] = x
  BY <1>1 DEF Range
<1> QED BY <1>1, <1>2, <1>3

LEMMA InjectiveSeq ==
  ASSUME NEW S, NEW s \in Seq(S)
  PROVE  IsInjective(s) <=> \A i, j \in 1..Len(s) : s[i] = s[j] => i = j
BY LenProperties DEF IsInjective

LEMMA Behind ==
  ASSUME NEW S, NEW s \in Seq(S), IsInjective(s), NEW e \in S, e \notin Range(s)
  PROVE  LET t == Append(s, e)
         IN  /\ t \in Seq(S) /\ IsInjective(t) /\ Range(t) = Range(s) \cup {e}
             /\ s # <<>> => t[1] = s[1]
<1> DEFINE t == Append(s, e)
<1>1. /\ t \in Seq(S) /\ Len(t) = Len(s) + 1 /\ t[Len(s) + 1] = e
      /\ \A i \in 1..Len(s) : t[i] = s[i]
      /\ Len(s) \in Nat /\ (s # <<>> => Len(s) # 0)
  BY AppendProperties, LenProperties, EmptySeq
<1> HIDE DEF t
<1>2. IsInjective(t)
  <2>1. \A i, j \in 1..Len(s) : s[i] = s[j] => i = j
    BY InjectiveSeq
  <2>2. \A i \in 1..Len(s) : s[i] # e
    BY Members
  <2>3. \A i, j \in 1..Len(t) : t[i] = t[j] => i = j
    BY <1>1, <2>1, <2>2
  <2> QED BY <1>1, <2>3, InjectiveSeq
<1>3. Range(t) = Range(s) \cup {e}
  <2>1. \A x : x \in Range(t) <=> \E i \in 1..Len(t) : t[i] = x
    BY <1>1, Members
  <2>2. \A x : x \in Range(s) <=> \E i \in 1..Len(s) : s[i] = x
    BY Members
  <2>3. 1..Len(t) = (1..Len(s)) \cup {Len(s) + 1}
    BY <1>1
  <2>4. \A x : (\E i \in 1..Len(t) : t[i] = x) <=> (\E i \in 1..Len(s) : s[i] = x) \/ x = e
    BY <1>1, <2>3
  <2> QED BY <2>1, <2>2, <2>4
<1> QED BY <1>1, <1>2, <1>3 DEF t

\* A sequence without its j-th element.
LEMMA Removed ==
  ASSUME NEW S, NEW s \in Seq(S), NEW j \in 1..Len(s)
  PROVE  LET t == RemoveAt(s, j)
         IN  /\ t \in Seq(S) /\ Len(t) = Len(s) - 1
             /\ \A i \in 1..Len(t) : t[i] = IF i < j THEN s[i] ELSE s[i + 1]
<1> DEFINE a == SubSeq(s, 1, j - 1)
           b == SubSeq(s, j + 1, Len(s))
<1>1. Len(s) \in Nat /\ \A i \in 1..Len(s) : s[i] \in S
  BY Members
<1>2. a \in Seq(S) /\ Len(a) = j - 1 /\ \A i \in 1..(j - 1) : a[i] = s[i]
  <2>1. \A i \in 1..(j - 1) : s[i] \in S
    BY <1>1
  <2> QED BY <1>1, <2>1, SubSeqProperties
<1>3. b \in Seq(S) /\ Len(b) = Len(s) - j /\ \A i \in 1..(Len(s) - j) : b[i] = s[j + i]
  <2>1. \A i \in (j + 1)..Len(s) : s[i] \in S
    BY <1>1
  <2> QED BY <1>1, <2>1, SubSeqProperties
<1> HIDE DEF a, b
<1>4. /\ a \o b \in Seq(S) /\ Len(a \o b) = Len(a) + Len(b)
      /\ \A i \in 1..(Len(a) + Len(b)) : (a \o b)[i] = IF i <= Len(a) THEN a[i] ELSE b[i - Len(a)]
  BY <1>2, <1>3, ConcatProperties
<1>5. RemoveAt(s, j) = a \o b
  BY DEF RemoveAt, a, b
<1>6. ASSUME NEW i \in 1..(Len(s) - 1)
      PROVE  RemoveAt(s, j)[i] = IF i < j THEN s[i] ELSE s[i + 1]
  <2>1. CASE i < j
    BY <1>1, <1>2, <1>3, <1>4, <1>5, <2>1
  <2>2. CASE ~(i < j)
    <3>1. i - (j - 1) \in 1..(Len(s) - j) /\ j + (i - (j - 1)) = i + 1
      BY <1>1, <2>2
    <3>2. b[i - (j - 1)] = s[i + 1]
      BY <1>3, <3>1
    <3> QED BY <1>1, <1>2, <1>3, <1>4, <1>5, <2>2, <3>2
  <2> QED BY <2>1, <2>2
<1>7. Len(RemoveAt(s, j)) = Len(s) - 1 /\ RemoveAt(s, j) \in Seq(S)
  BY <1>1, <1>2, <1>3, <1>4, <1>5
<1> QED BY <1>6, <1>7

LEMMA Gone ==
  ASSUME NEW S, NEW s \in Seq(S), IsInjective(s), NEW e \in Range(s)
  PROVE  LET t == RemoveFirst(s, e)
         IN  /\ t \in Seq(S) /\ IsInjective(t) /\ Range(t) = Range(s) \ {e}
             /\ s[1] # e => t[1] = s[1]
<1> DEFINE t == RemoveFirst(s, e)
<1>1. Len(s) \in Nat /\ \A x : x \in Range(s) <=> \E i \in 1..Len(s) : s[i] = x
  BY Members
<1>2. PICK j \in 1..Len(s) : s[j] = e
  BY <1>1
<1>3. \A i, k \in 1..Len(s) : s[i] = s[k] => i = k
  BY InjectiveSeq
<1>4. t = RemoveAt(s, j)
  <2>1. {i \in 1..Len(s) : s[i] = e} = {j}
    BY <1>2, <1>3
  <2>2. Min({j}) = j
    BY <1>1 DEF Min
  <2>3. SelectInSeq(s, LAMBDA v : v = e) = j
    BY <2>1, <2>2 DEF SelectInSeq
  <2> QED BY <1>2, <2>3 DEF RemoveFirst
<1>5. /\ t \in Seq(S) /\ Len(t) = Len(s) - 1
      /\ \A i \in 1..Len(t) : t[i] = IF i < j THEN s[i] ELSE s[i + 1]
  BY <1>4, Removed
<1> HIDE DEF t
<1>6. IsInjective(t)
  <2> DEFINE old(i) == IF i < j THEN i ELSE i + 1
  <2>1. \A i \in 1..Len(t) : old(i) \in 1..Len(s) /\ t[i] = s[old(i)]
    BY <1>1, <1>5
  <2>2. \A i, k \in 1..Len(t) : old(i) = old(k) => i = k
    BY <1>1, <1>5
  <2> HIDE DEF old
  <2>3. \A i, k \in 1..Len(t) : t[i] = t[k] => i = k
    BY <1>3, <2>1, <2>2
  <2> QED BY <1>5, <2>3, InjectiveSeq
<1>7. Range(t) = Range(s) \ {e}
  <2>1. \A x : x \in Range(t) <=> \E i \in 1..Len(t) : t[i] = x
    BY <1>5, Members
  <2>2. \A i \in 1..Len(t) : t[i] \in Range(s) /\ t[i] # e
    BY <1>1, <1>2, <1>3, <1>5
  <2>3. ASSUME NEW x \in Range(s), x # e
        PROVE  x \in Range(t)
    <3>1. PICK i \in 1..Len(s) : s[i] = x
      BY <1>1
    <3>2. CASE i < j
      <4>1. i \in 1..Len(t) /\ t[i] = x
        BY <1>1, <1>5, <3>1, <3>2
      <4> QED BY <2>1, <4>1
    <3>3. CASE i > j
      <4>1. i - 1 \in 1..Len(t) /\ t[i - 1] = x
        BY <1>1, <1>5, <3>1, <3>3
      <4> QED BY <2>1, <4>1
    <3> QED BY <1>1, <1>2, <2>3, <3>1, <3>2, <3>3
  <2> QED BY <2>1, <2>2, <2>3
<1>8. s[1] # e => t[1] = s[1]
  <2> SUFFICES ASSUME s[1] # e PROVE t[1] = s[1]
    OBVIOUS
  <2>1. j > 1 /\ 1 \in 1..Len(t)
    BY <1>1, <1>2, <1>5
  <2> QED BY <1>5, <2>1
<1> QED BY <1>5, <1>6, <1>7, <1>8 DEF t
-----------------------------------------------------------------------------
(* Steps that do not touch the guards.                                      *)

\* One request goes on to a stage, the others stay where they are.
Only(r) == \A q \in Request : q # r => pc'[q] = pc[q]

LEMMA Goes ==
  ASSUME Stepping, NEW r \in Request, NEW stage \in Stages, Goto(r, stage), UNCHANGED ask
  PROVE  Stepping' /\ pc'[r] = stage /\ Only(r)
BY DEF Stepping, Goto, Only

LEMMA LedStep ==
  ASSUME Led, NEW r \in Request, Only(r), UNCHANGED <<ask, inflight>>,
         pc'[r] \in WithGuard <=> pc[r] \in WithGuard, pc[r] # "done"
  PROVE  Led'
<1>1. \A q \in Request :
        (pc'[q] \in WithGuard <=> pc[q] \in WithGuard) /\ (pc[q] = "done" => pc'[q] = "done")
  BY DEF Only
<1> QED BY <1>1 DEF Led

LEMMA SleeperStep ==
  ASSUME NoSleeper, NEW r \in Request, Only(r), UNCHANGED ask, inflight \subseteq inflight',
         pc[r] # "notify", pc'[r] = "asleep" => pc[r] = "asleep" \/ ask[r] \in inflight,
         \A q \in Request : q \in woken => q \in woken' \/ pc'[q] # "asleep"
  PROVE  NoSleeper'
<1> SUFFICES ASSUME NEW q \in Request, pc'[q] = "asleep", q \notin woken'
             PROVE  ask[q] \in inflight' \/ \E l \in Request : pc'[l] = "notify"
  BY DEF NoSleeper
<1>1. CASE pc[q] = "asleep"
  <2>1. q \notin woken
    OBVIOUS
  <2>2. ask[q] \in inflight \/ \E l \in Request : pc[l] = "notify"
    BY <1>1, <2>1 DEF NoSleeper
  <2>3. ASSUME NEW l \in Request, pc[l] = "notify"
        PROVE  pc'[l] = "notify"
    BY <2>3 DEF Only
  <2> QED BY <2>2, <2>3
<1>2. CASE pc[q] # "asleep"
  BY <1>2 DEF Only
<1> QED BY <1>1, <1>2

Lined(stage) == stage \in {"queue"} \cup WithPermit

LEMMA PacedStep ==
  ASSUME Paced, NEW r \in Request, Only(r), UNCHANGED pacer,
         Lined(pc'[r]) <=> Lined(pc[r]),
         pc'[r] \in WithPermit => r = pacer[1]
  PROVE  Paced'
<1>1. InQueue' = InQueue
  BY DEF InQueue, Only, Lined
<1>2. \A q \in Request : pc'[q] \in WithPermit => q = pacer[1]
  BY DEF Only, Paced
<1> QED BY <1>1, <1>2 DEF Paced

LEMMA PacedLeaves ==
  ASSUME Paced, NEW r \in Request, Only(r), Lined(pc[r]), pc'[r] = "leave",
         pacer' = RemoveFirst(pacer, r)
  PROVE  Paced'
<1>1. r \in Range(pacer)
  BY DEF Paced, InQueue, Lined
<1>2. /\ pacer' \in Seq(Request) /\ IsInjective(pacer') /\ Range(pacer') = Range(pacer) \ {r}
      /\ pacer[1] # r => pacer'[1] = pacer[1]
  BY <1>1, Gone DEF Paced
<1>3. ~Lined(pc'[r])
  BY DEF Lined, WithPermit, Writing
<1>4. InQueue' = InQueue \ {r}
  BY <1>3 DEF InQueue, Only, Lined
<1>5. \A q \in Request : pc'[q] \in WithPermit => q = pacer'[1]
  BY <1>2, <1>3 DEF Only, Paced, Lined
<1> QED BY <1>2, <1>4, <1>5 DEF Paced

\* What is left of a step that neither takes a guard nor drops one.
LEMMA Plain ==
  ASSUME KInv, NEW r \in Request, NEW stage \in Stages, Goto(r, stage),
         UNCHANGED <<ask, inflight, pacer>>,
         pc[r] \notin WithGuard, pc[r] # "done", pc[r] # "notify", stage \notin WithGuard,
         stage = "asleep" => ask[r] \in inflight,
         \A q \in Request : q \in woken => q \in woken' \/ q = r
  PROVE  KInv'
<1>1. Stepping' /\ pc'[r] = stage /\ Only(r)
  BY Goes DEF KInv
<1>2. Led'
  BY <1>1, LedStep DEF KInv
<1>3. NoSleeper'
  <2>1. \A q \in Request : q \in woken => q \in woken' \/ pc'[q] # "asleep" \/ q = r
    OBVIOUS
  <2>2. CASE stage = "asleep"
    <3> SUFFICES ASSUME NEW q \in Request, pc'[q] = "asleep", q \notin woken'
                 PROVE  ask[q] \in inflight \/ \E l \in Request : pc'[l] = "notify"
      BY DEF NoSleeper
    <3>1. CASE q = r
      BY <2>2, <3>1
    <3>2. CASE q # r
      <4>1. pc[q] = "asleep" /\ q \notin woken
        BY <1>1, <3>2 DEF Only
      <4>2. ask[q] \in inflight \/ \E l \in Request : pc[l] = "notify"
        BY <4>1 DEF KInv, NoSleeper
      <4> QED BY <1>1, <4>2 DEF Only
    <3> QED BY <3>1, <3>2
  <2>3. CASE stage # "asleep"
    <3>1. \A q \in Request : q \in woken => q \in woken' \/ pc'[q] # "asleep"
      BY <1>1, <2>3
    <3>2. inflight \subseteq inflight' /\ pc'[r] # "asleep" /\ UNCHANGED ask
      BY <1>1, <2>3
    <3> QED BY <1>1, <3>1, <3>2, SleeperStep DEF KInv
  <2> QED BY <2>2, <2>3
<1>4. Paced'
  BY <1>1, PacedStep DEF KInv, Lined, WithGuard
<1> QED BY <1>1, <1>2, <1>3, <1>4 DEF KInv

\* A step with the guard in hand.
LEMMA Guarded ==
  ASSUME KInv, NEW r \in Request, NEW stage \in WithGuard, Goto(r, stage),
         UNCHANGED <<ask, inflight, woken>>, pc[r] \in WithGuard, Paced'
  PROVE  KInv'
<1>1. stage \in Stages /\ stage # "asleep" /\ pc[r] \notin {"done", "notify"}
  BY DEF Stages, WithGuard, WithPermit, Writing
<1>2. Stepping' /\ pc'[r] = stage /\ Only(r)
  BY <1>1, Goes DEF KInv
<1>3. Led'
  BY <1>1, <1>2, LedStep DEF KInv
<1>4. inflight \subseteq inflight' /\ pc'[r] # "asleep"
  BY <1>1, <1>2
<1>5. NoSleeper'
  BY <1>1, <1>2, <1>4, SleeperStep DEF KInv
<1> QED BY <1>2, <1>3, <1>5 DEF KInv

\* The leader's scope ends, or is dropped.
LEMMA Leaving ==
  ASSUME KInv, NEW r \in Request, Goto(r, "leave"), Lined(pc[r]),
         UNCHANGED <<ask, inflight, woken>>, pacer' = RemoveFirst(pacer, r)
  PROVE  KInv'
<1>1. "leave" \in WithGuard /\ "leave" \in Stages /\ pc[r] \in WithGuard
  BY DEF Stages, WithGuard, Lined
<1>2. pc'[r] = "leave" /\ Only(r)
  BY <1>1, Goes DEF KInv
<1>3. Paced'
  BY <1>2, PacedLeaves DEF KInv
<1> QED BY <1>1, <1>3, Guarded

\* A step between the permit and the end of the scope.
LEMMA Working ==
  ASSUME KInv, NEW r \in Request, NEW stage \in WithPermit, Goto(r, stage),
         UNCHANGED <<ask, inflight, woken, pacer>>, Lined(pc[r]), r = pacer[1]
  PROVE  KInv'
<1>1. stage \in WithGuard /\ stage \in Stages /\ pc[r] \in WithGuard /\ Lined(stage)
  BY DEF Stages, WithGuard, Lined
<1>2. pc'[r] = stage /\ Only(r)
  BY <1>1, Goes DEF KInv
<1>3. Paced'
  BY <1>1, <1>2, PacedStep DEF KInv
<1> QED BY <1>1, <1>3, Guarded
-----------------------------------------------------------------------------
(* The actions.                                                             *)

LEMMA OutsideGuard ==
  /\ {"look", "begin", "arm", "check", "asleep", "reread", "done"} \subseteq Stages
  /\ \A stage \in {"look", "begin", "arm", "check", "asleep", "reread", "notify", "done"} :
       stage \notin WithGuard
BY DEF Stages, Waiting, WithGuard, WithPermit, Writing

LEMMA WaiterStep ==
  ASSUME KInv, NEW r \in Request,
         Look(r) \/ Arm(r) \/ Check(r) \/ Wake(r) \/ Budget(r) \/ Reread(r) \/ ReadFails(r)
  PROVE  KInv'
<1>1. UNCHANGED <<ask, inflight, pacer>>
  BY DEF Look, Arm, Check, Wake, Budget, Reread, ReadFails, asked, flight, permits
<1>2. /\ pc[r] \in {"look", "arm", "check", "asleep", "reread"}
      /\ \A q \in Request : q \in woken => q \in woken' \/ q = r
  BY DEF Look, Arm, Check, Wake, Budget, Reread, ReadFails, flight
<1>3. PICK stage \in {"begin", "arm", "check", "asleep", "reread", "done"} :
        Goto(r, stage) /\ (stage = "asleep" => ask[r] \in inflight)
  BY DEF Look, Arm, Check, Wake, Budget, Reread, ReadFails
<1>4. stage \in Stages /\ stage \notin WithGuard /\ pc[r] \notin WithGuard \cup {"done", "notify"}
  BY <1>2, OutsideGuard
<1> QED BY <1>1, <1>2, <1>3, <1>4, Plain

LEMMA BeginStep ==
  ASSUME KInv, NEW r \in Request, Begin(r)
  PROVE  KInv'
<1>1. pc[r] = "begin" /\ pc[r] \notin WithGuard /\ UNCHANGED <<ask, woken>>
  BY OutsideGuard DEF Begin, asked
<1>2. CASE ask[r] \in inflight
  BY <1>1, <1>2, OutsideGuard, Plain DEF Begin
<1>3. CASE ask[r] \notin inflight
  <2>1. /\ Goto(r, "queue") /\ inflight' = inflight \cup {ask[r]} /\ pacer' = Append(pacer, r)
    BY <1>3 DEF Begin
  <2>2. "queue" \in Stages /\ "queue" \in WithGuard /\ "queue" \notin WithPermit
    BY DEF Stages, WithGuard, WithPermit, Writing
  <2>3. Stepping' /\ pc'[r] = "queue" /\ Only(r)
    BY <1>1, <2>1, <2>2, Goes DEF KInv
  <2>4. ask[r] \in Key /\ \A q \in Request : pc[q] \in WithGuard => ask[q] # ask[r]
    BY <1>1, <1>3 DEF KInv, Led
  <2>5. Led'
    <3>1. inflight' \subseteq Key /\ \A q \in Request : pc'[q] # "done" => ask'[q] \in Key
      BY <1>1, <2>1, <2>3, <2>4 DEF KInv, Led, Only
    <3>2. \A q \in Request : pc'[q] \in WithGuard => ask'[q] \in inflight'
      BY <1>1, <2>1, <2>3 DEF KInv, Led, Only
    <3>3. ASSUME NEW k \in inflight'
          PROVE  \E q \in Request : ask'[q] = k /\ pc'[q] \in WithGuard
      <4>1. CASE k = ask[r]
        BY <1>1, <2>2, <2>3, <4>1
      <4>2. CASE k \in inflight
        <5>1. PICK q \in Request : ask[q] = k /\ pc[q] \in WithGuard
          BY <4>2 DEF KInv, Led
        <5> QED BY <1>1, <2>3, <5>1 DEF Only
      <4> QED BY <2>1, <4>1, <4>2
    <3>4. \A p, q \in Request :
            pc'[p] \in WithGuard /\ pc'[q] \in WithGuard /\ ask'[p] = ask'[q] => p = q
      BY <1>1, <2>3, <2>4 DEF KInv, Led, Only
    <3> QED BY <3>1, <3>2, <3>3, <3>4 DEF Led
  <2>6. NoSleeper'
    <3>1. inflight \subseteq inflight' /\ pc'[r] # "asleep" /\ pc[r] # "notify"
      BY <1>1, <2>1, <2>3
    <3> QED BY <1>1, <2>3, <3>1, SleeperStep DEF KInv
  <2>7. Paced'
    <3>1. r \notin Range(pacer)
      BY <1>1 DEF KInv, Paced, InQueue, WithPermit, Writing
    <3>2. /\ pacer' \in Seq(Request) /\ IsInjective(pacer') /\ Range(pacer') = Range(pacer) \cup {r}
          /\ pacer # <<>> => pacer'[1] = pacer[1]
      BY <2>1, <3>1, Behind DEF KInv, Paced
    <3>3. InQueue' = InQueue \cup {r}
      BY <2>3 DEF InQueue, Only
    <3>4. ASSUME NEW q \in Request, pc'[q] \in WithPermit
          PROVE  q = pacer'[1]
      <4>1. pc[q] \in WithPermit
        BY <2>2, <2>3, <3>4 DEF Only
      <4>2. q = pacer[1] /\ q \in Range(pacer)
        BY <4>1 DEF KInv, Paced, InQueue
      <4>3. pacer # <<>>
        BY <4>2, Members, EmptySeq DEF KInv, Paced
      <4> QED BY <3>2, <4>2, <4>3
    <3> QED BY <3>2, <3>3, <3>4 DEF KInv, Paced
  <2> QED BY <2>3, <2>5, <2>6, <2>7 DEF KInv
<1> QED BY <1>2, <1>3

LEMMA First ==
  ASSUME KInv, NEW r \in Request, Lined(pc[r])
  PROVE  /\ Head(pacer) = pacer[1]
         /\ pc[r] \in WithPermit => r = pacer[1]
BY Members, EmptySeq DEF KInv, Paced, InQueue, Lined

LEMMA PermitStep ==
  ASSUME KInv, NEW r \in Request, Permit(r)
  PROVE  KInv'
<1>1. Lined(pc[r]) /\ "calling" \in WithPermit
  BY DEF Permit, Lined, WithPermit
<1>2. Goto(r, "calling") /\ r = pacer[1] /\ UNCHANGED <<ask, inflight, woken, pacer>>
  BY <1>1, First DEF Permit, asked, flight, permits
<1> QED BY <1>1, <1>2, Working

LEMMA LeaderStep ==
  ASSUME KInv, NEW r \in Request,
         Answered(r) \/ CallFails(r) \/ Write(r) \/ WriteFails(r)
  PROVE  KInv'
<1>1. pc[r] \in WithPermit /\ UNCHANGED <<ask, inflight, woken>>
  BY DEF Answered, CallFails, Write, WriteFails, WithPermit, asked, flight
<1>2. \/ Goto(r, "leave") /\ pacer' = RemoveFirst(pacer, r)
      \/ \E stage \in WithPermit : Goto(r, stage) /\ UNCHANGED pacer
  <2>1. CASE Answered(r)
    BY <2>1 DEF Answered, LeaveWith, DropPermit, FirstWrite, WithPermit, Writing, permits
  <2>2. CASE CallFails(r)
    BY <2>2 DEF CallFails, LeaveWith, DropPermit
  <2>3. CASE Write(r)
    <3> DEFINE next == AfterWrite(MyKind(r), pc[r])
    <3>1. next \in {"leave", "stars", "clear", "sweep"}
      BY <2>3 DEF Write, Writing, AfterWrite
    <3>2. CASE next = "leave"
      BY <2>3, <3>2 DEF Write, LeaveWith, DropPermit
    <3>3. CASE next # "leave"
      <4>1. next \in WithPermit
        BY <3>1, <3>3 DEF WithPermit, Writing
      <4>2. Goto(r, next) /\ UNCHANGED pacer
        BY <2>3, <3>3 DEF Write, permits
      <4> QED BY <4>1, <4>2
    <3> QED BY <3>2, <3>3
  <2>4. CASE WriteFails(r)
    BY <2>4 DEF WriteFails, LeaveWith, DropPermit
  <2> QED BY <2>1, <2>2, <2>3, <2>4
<1>3. Lined(pc[r]) /\ r = pacer[1]
  BY <1>1, First DEF Lined
<1> QED BY <1>1, <1>2, <1>3, Leaving, Working

LEMMA DisconnectStep ==
  ASSUME KInv, NEW r \in Request, Disconnect(r)
  PROVE  KInv'
<1>1. UNCHANGED <<ask, inflight, woken>>
  BY DEF Disconnect, asked, flight
<1>2. CASE Lined(pc[r])
  <2>1. Goto(r, "leave") /\ pacer' = RemoveFirst(pacer, r)
    BY <1>2 DEF Disconnect, Lined
  <2> QED BY <1>1, <1>2, <2>1, Leaving
<1>3. CASE ~Lined(pc[r])
  <2>1. Goto(r, "done") /\ UNCHANGED pacer /\ pc[r] \in {"look", "asleep", "reread"}
    BY <1>3 DEF Disconnect, Lined, permits
  <2>2. pc[r] \notin WithGuard /\ pc[r] # "done" /\ pc[r] # "notify" /\ "done" \notin WithGuard
    BY <2>1, OutsideGuard
  <2> QED BY <1>1, <2>1, <2>2, OutsideGuard, Plain
<1> QED BY <1>2, <1>3

LEMMA LeaveStep ==
  ASSUME KInv, NEW r \in Request, Leave(r)
  PROVE  KInv'
<1>1. /\ pc[r] = "leave" /\ Goto(r, "notify") /\ inflight' = inflight \ {ask[r]}
      /\ UNCHANGED <<ask, woken, pacer>>
  BY DEF Leave, asked, permits
<1>2. pc[r] \in WithGuard /\ ~Lined("leave") /\ ~Lined("notify") /\ "notify" \notin WithGuard
  BY <1>1 DEF WithGuard, WithPermit, Writing, Lined
<1>3. Stepping' /\ pc'[r] = "notify" /\ Only(r)
  BY <1>1, Goes DEF KInv, Stages
<1>4. Led'
  <2>1. inflight' \subseteq Key /\ \A q \in Request : pc'[q] # "done" => ask'[q] \in Key
    BY <1>1, <1>3 DEF KInv, Led, Only
  <2>2. ASSUME NEW q \in Request, pc'[q] \in WithGuard
        PROVE  ask'[q] \in inflight'
    BY <1>1, <1>2, <1>3, <2>2 DEF KInv, Led, Only
  <2>3. ASSUME NEW k \in inflight'
        PROVE  \E q \in Request : ask'[q] = k /\ pc'[q] \in WithGuard
    <3>1. PICK q \in Request : ask[q] = k /\ pc[q] \in WithGuard
      BY <1>1, <2>3 DEF KInv, Led
    <3>2. q # r
      BY <1>1, <2>3, <3>1
    <3> QED BY <1>1, <1>3, <3>1, <3>2 DEF Only
  <2>4. \A p, q \in Request :
          pc'[p] \in WithGuard /\ pc'[q] \in WithGuard /\ ask'[p] = ask'[q] => p = q
    BY <1>1, <1>2, <1>3 DEF KInv, Led, Only
  <2> QED BY <2>1, <2>2, <2>3, <2>4 DEF Led
<1>5. NoSleeper'
  BY <1>3 DEF NoSleeper
<1>6. Paced'
  <2>1. pc'[r] \notin WithPermit /\ ~Lined(pc[r]) /\ ~Lined(pc'[r])
    BY <1>1, <1>2, <1>3 DEF Lined
  <2> QED BY <1>1, <1>3, <2>1, PacedStep DEF KInv
<1> QED BY <1>3, <1>4, <1>5, <1>6 DEF KInv

LEMMA NotifyStep ==
  ASSUME KInv, NEW r \in Request, Notify(r)
  PROVE  KInv'
<1>1. /\ pc[r] = "notify" /\ Goto(r, "done") /\ UNCHANGED <<ask, inflight, pacer>>
      /\ woken' = woken \cup {q \in Request : pc[q] \in {"check", "asleep"}}
  BY DEF Notify, asked, permits
<1>2. pc[r] \notin WithGuard /\ "done" \notin WithGuard /\ ~Lined("notify") /\ ~Lined("done")
  BY <1>1 DEF WithGuard, WithPermit, Writing, Lined
<1>3. Stepping' /\ pc'[r] = "done" /\ Only(r)
  BY <1>1, Goes, OutsideGuard DEF KInv
<1>4. Led'
  BY <1>1, <1>2, <1>3, LedStep DEF KInv
<1>5. NoSleeper'
  BY <1>1, <1>3 DEF NoSleeper, Only
<1>6. Paced'
  <2>1. pc'[r] \notin WithPermit /\ ~Lined(pc[r]) /\ ~Lined(pc'[r])
    BY <1>1, <1>2, <1>3 DEF Lined
  <2> QED BY <1>1, <1>3, <2>1, PacedStep DEF KInv
<1> QED BY <1>3, <1>4, <1>5, <1>6 DEF KInv

LEMMA Elsewhere ==
  ASSUME KInv, UNCHANGED <<ask, pc, inflight, woken, pacer>>
  PROVE  KInv'
BY DEF KInv, Stepping, Led, NoSleeper, Paced, InQueue

LEMMA KnowledgeStep ==
  ASSUME KInv, [Next]_vars
  PROVE  KInv'
<1>1. ASSUME NEW r \in Request, Progress(r) \/ Misfortune(r)
      PROVE  KInv'
  BY <1>1, WaiterStep, BeginStep, PermitStep, LeaderStep, DisconnectStep, LeaveStep, NotifyStep
     DEF Progress, Misfortune
<1>2. CASE Rest
  BY <1>2, Elsewhere DEF Rest, asked, flight
<1>3. ASSUME NEW s \in Star, AskStar(s) \/ QueueStar(s)
      PROVE  KInv'
  BY <1>3, Elsewhere DEF AskStar, QueueStar, asked, flight, permits
<1>4. CASE Job \/ JobFails
  BY <1>4, Elsewhere
     DEF Job, JobFails, JobPick, JobAnswered, JobUpsert, JobClear, JobCallFails, JobWriteFails,
         asked, flight, permits
<1>5. CASE Settled \/ UNCHANGED vars
  BY <1>5, Elsewhere DEF Settled, vars, asked
<1> QED BY <1>1, <1>2, <1>3, <1>4, <1>5 DEF Next

LEMMA KnowledgeStart ==
  ASSUME Init
  PROVE  KInv
<1>1. PICK a \in Asks : ask = a.keys
  BY DEF Init
<1>2. ask \in [Request -> Key \cup {Nothing}]
  BY <1>1, KnowledgeAssumption DEF KnowledgeAssumption
<1>3. pc = [r \in Request |-> IF ask[r] = Nothing THEN "done" ELSE "look"]
  BY DEF Init
<1>4. /\ pc \in [Request -> Stages]
      /\ \A r \in Request : pc[r] \in {"look", "done"} /\ (pc[r] # "done" => ask[r] \in Key)
  BY <1>2, <1>3, OutsideGuard
<1>5. \A r \in Request : ~Lined(pc[r]) /\ pc[r] \notin WithGuard /\ pc[r] # "asleep"
  BY <1>4, OutsideGuard DEF WithGuard, Lined
<1>6. inflight = {} /\ pacer = <<>>
  BY DEF Init
<1>7. Paced
  <2>1. pacer \in Seq(Request) /\ IsInjective(pacer) /\ Range(pacer) = {}
    BY <1>6 DEF IsInjective, Range
  <2> QED BY <1>5, <2>1 DEF Paced, InQueue, Lined
<1> QED BY <1>2, <1>4, <1>5, <1>6, <1>7 DEF KInv, Stepping, Led, NoSleeper

LEMMA KnowledgeInvariance == Spec => []KInv
BY KnowledgeStart, KnowledgeStep, PTL DEF Spec

\* A waiter of SingleFlight that sleeps has someone to wake it, for any number of
\* requests of any keys that share its one Notify, whoever leaves or fails.
THEOREM SomeoneWakes == Spec => []NoSleeper
<1>1. KInv => NoSleeper
  BY DEF KInv
<1> QED BY <1>1, KnowledgeInvariance, PTL

\* Keys in flight and guards correspond one to one: FlightGuard takes its key out
\* of the set wherever the leader's future ends, and nobody else does.
THEOREM FlightsAreLed == Spec => []FlightHasLeader
<1>1. KInv => FlightHasLeader
  <2> SUFFICES ASSUME KInv, NEW k \in Key
               PROVE  Cardinality({r \in Request : ask[r] = k /\ pc[r] \in WithGuard})
                        = IF k \in inflight THEN 1 ELSE 0
    BY DEF FlightHasLeader
  <2> DEFINE leaders == {r \in Request : ask[r] = k /\ pc[r] \in WithGuard}
  <2>1. CASE k \in inflight
    <3>1. PICK r \in Request : ask[r] = k /\ pc[r] \in WithGuard
      BY <2>1 DEF KInv, Led
    <3>2. leaders = {r}
      BY <3>1 DEF KInv, Led
    <3> QED BY <2>1, <3>2, FS_Singleton
  <2>2. CASE k \notin inflight
    <3>1. leaders = {}
      BY <2>2 DEF KInv, Led
    <3> QED BY <2>2, <3>1, FS_EmptySet
  <2> QED BY <2>1, <2>2
<1> QED BY <1>1, KnowledgeInvariance, PTL

\* The Pacer's permit is held from the call to the end of the leader's scope, so
\* the requests never have two calls, or a call and a write, at once.
THEOREM CallsAreSerial == Spec => []OneByOne
<1>1. KInv => OneByOne
  BY DEF KInv, Paced, OneByOne
<1> QED BY <1>1, KnowledgeInvariance, PTL
-----------------------------------------------------------------------------
(* Why a name is missing.                                                   *)

Learned(k) == rows[k] = "fresh" \/ k \in bare

\* Who waits has a flight to wait for, or one that ended after it learned the
\* key or was marked bare; who reads again within its budget has the latter.
Explained ==
  /\ rows \in [Key -> {"none", "stale", "fresh"}] /\ answer \in [Request -> Answers]
  /\ \A r \in Request : pc[r] \in Waiting => ask[r] \in inflight \/ Learned(ask[r])
  /\ \A r \in Request : pc[r] = "reread" /\ r \notin late => Learned(ask[r])
  /\ MissIsExplained

\* A step of one request that leaves the flight alone, or begins one: what was
\* learned stays learned.
LEMMA ExplainedStep ==
  ASSUME Explained, NEW r \in Request, Only(r), UNCHANGED ask,
         rows' \in [Key -> {"none", "stale", "fresh"}], answer' \in [Request -> Answers],
         \A k \in Key : Learned(k) => Learned(k)',
         \A q \in Request : pc[q] # "done" => ask[q] \in Key,
         \A q \in Request : q # r => answer'[q] = answer[q],
         inflight \subseteq inflight', bare \subseteq bare', late \subseteq late',
         pc'[r] \in Waiting => ask[r] \in inflight' \/ Learned(ask[r])',
         pc'[r] = "reread" => r \in late' \/ Learned(ask[r])',
         answer'[r] = "notfound" =>
            \/ answer[r] = "notfound"
            \/ r \in late' \/ ask[r] \notin EdsmKnows \/ ask[r] \in bare'
  PROVE  Explained'
<1>1. ASSUME NEW q \in Request, pc'[q] \in Waiting
      PROVE  ask[q] \in inflight' \/ Learned(ask[q])'
  <2>1. CASE q = r
    BY <1>1, <2>1
  <2>2. CASE q # r
    <3>1. pc[q] \in Waiting /\ pc[q] # "done"
      BY <1>1, <2>2 DEF Only, Waiting
    <3> QED BY <3>1 DEF Explained
  <2> QED BY <2>1, <2>2
<1>2. ASSUME NEW q \in Request, pc'[q] = "reread", q \notin late'
      PROVE  Learned(ask[q])'
  <2>1. CASE q = r
    BY <1>2, <2>1
  <2>2. CASE q # r
    <3>1. pc[q] = "reread" /\ q \notin late
      BY <1>2, <2>2 DEF Only
    <3> QED BY <3>1 DEF Explained
  <2> QED BY <2>1, <2>2
<1>3. MissIsExplained'
  BY DEF Explained, MissIsExplained
<1> QED BY <1>1, <1>2, <1>3 DEF Explained

LEMMA LearnedStays ==
  ASSUME UNCHANGED rows, bare \subseteq bare', NEW k \in Key, Learned(k)
  PROVE  Learned(k)'
BY DEF Learned

LEMMA ExplainedWaiter ==
  ASSUME KInv, Explained, NEW r \in Request,
         \/ Look(r) \/ Begin(r) \/ Arm(r) \/ Check(r) \/ Wake(r) \/ Budget(r)
         \/ Reread(r) \/ ReadFails(r) \/ Notify(r)
  PROVE  Explained'
<1>1. UNCHANGED <<ask, rows, bare>> /\ inflight \subseteq inflight' /\ late \subseteq late'
  BY DEF Look, Begin, Arm, Check, Wake, Budget, Reread, ReadFails, Notify, asked, flight, history
<1>2. PICK stage \in Stages : Goto(r, stage)
  <2>1. {"begin", "queue", "arm", "check", "asleep", "reread", "done"} \subseteq Stages
    BY OutsideGuard DEF Stages, WithGuard
  <2> QED BY <2>1 DEF Look, Begin, Arm, Check, Wake, Budget, Reread, ReadFails, Notify
<1>3. Only(r) /\ pc'[r] = stage
  BY <1>1, <1>2, Goes DEF KInv
<1>4. answer' \in [Request -> Answers] /\ \A q \in Request : q # r => answer'[q] = answer[q]
  <2>1. UNCHANGED answer \/ \E a \in Answers : Reply(r, a)
    BY DEF Look, Begin, Arm, Check, Wake, Budget, Reread, ReadFails, Notify, Answers
  <2> QED BY <2>1 DEF Reply, Explained
<1>5. /\ \A k \in Key : Learned(k) => Learned(k)'
      /\ \A q \in Request : pc[q] # "done" => ask[q] \in Key
  BY <1>1, LearnedStays DEF KInv, Led
<1>6. /\ pc[r] # "done" /\ ask[r] \in Key
      /\ pc[r] \in Waiting => ask[r] \in inflight \/ Learned(ask[r])
      /\ pc[r] = "reread" /\ r \notin late => Learned(ask[r])
  <2>1. pc[r] # "done"
    BY DEF Look, Begin, Arm, Check, Wake, Budget, Reread, ReadFails, Notify
  <2> QED BY <1>5, <2>1 DEF Explained
<1>7. pc'[r] \in Waiting => ask[r] \in inflight' \/ Learned(ask[r])'
  <2> SUFFICES ASSUME pc'[r] \in Waiting
               PROVE  ask[r] \in inflight \/ Learned(ask[r])
    BY <1>1, <1>5, <1>6
  <2>1. stage \in {"arm", "check", "asleep"} /\ pc' = [pc EXCEPT ![r] = stage]
    BY <1>2, <1>3 DEF Goto, Waiting
  <2>2. pc'[r] = stage
    BY <1>3
  <2>3. pc[r] \in Waiting \/ ask[r] \in inflight
    <3>1. CASE Begin(r)
      BY <2>1, <1>3, <3>1, Goes, OutsideGuard DEF Begin, KInv, Goto, Stepping
    <3>2. CASE Arm(r) \/ Check(r) \/ Wake(r)
      BY <3>2 DEF Arm, Check, Wake, Waiting
    <3>3. CASE Look(r) \/ Budget(r) \/ Reread(r) \/ ReadFails(r) \/ Notify(r)
      BY <2>1, <1>3, <3>3 DEF Look, Budget, Reread, ReadFails, Notify, KInv, Goto, Stepping
    <3> QED BY <3>1, <3>2, <3>3
  <2> QED BY <1>6, <2>3
<1>8. pc'[r] = "reread" => r \in late' \/ Learned(ask[r])'
  <2> SUFFICES ASSUME pc'[r] = "reread"
               PROVE  r \in late' \/ Learned(ask[r])
    BY <1>1, <1>5, <1>6
  <2>1. pc' = [pc EXCEPT ![r] = "reread"] /\ r \in DOMAIN pc
    BY <1>2, <1>3 DEF Goto, KInv, Stepping
  <2>2. Check(r) \/ Budget(r)
    BY <2>1 DEF Look, Begin, Arm, Wake, Reread, ReadFails, Notify, Goto, KInv, Stepping
  <2>3. CASE Budget(r)
    BY <2>3 DEF Budget
  <2>4. CASE Check(r)
    <3>1. pc[r] \in Waiting
      BY <2>4 DEF Check, Waiting
    <3>2. ask[r] \notin inflight
      BY <2>1, <2>4 DEF Check, Goto
    <3> QED BY <1>6, <3>1, <3>2
  <2> QED BY <2>2, <2>3, <2>4
<1>9. answer'[r] = "notfound" =>
        \/ answer[r] = "notfound"
        \/ r \in late' \/ ask[r] \notin EdsmKnows \/ ask[r] \in bare'
  <2>1. CASE Look(r)
    BY <2>1 DEF Look, Reply, Explained
  <2>2. CASE Begin(r) \/ Arm(r) \/ Check(r) \/ Wake(r) \/ Budget(r) \/ Notify(r)
    BY <2>2 DEF Begin, Arm, Check, Wake, Budget, Notify
  <2>3. CASE ReadFails(r)
    BY <2>3 DEF ReadFails, Reply, Explained
  <2>4. CASE Reread(r)
    <3>1. CASE rows[ask[r]] = "none"
      <4>1. r \in late \/ ask[r] \in bare
        BY <1>6, <2>4, <3>1 DEF Reread, Learned
      <4> QED BY <1>1, <4>1
    <3>2. CASE rows[ask[r]] # "none"
      BY <2>4, <3>2 DEF Reread, Reply, Explained
    <3> QED BY <3>1, <3>2
  <2> QED BY <2>1, <2>2, <2>3, <2>4
<1> QED BY <1>1, <1>3, <1>4, <1>5, <1>7, <1>8, <1>9, ExplainedStep DEF Explained

LEMMA ExplainedLeader ==
  ASSUME KInv, Explained, NEW r \in Request,
         \/ Permit(r) \/ Answered(r) \/ CallFails(r) \/ Write(r) \/ WriteFails(r)
         \/ Disconnect(r)
  PROVE  Explained'
<1>1. UNCHANGED <<ask, inflight, bare, late>>
  BY DEF Permit, Answered, CallFails, Write, WriteFails, Disconnect, asked, flight, history
<1>2. pc[r] # "done" /\ ask[r] \in Key /\ \A q \in Request : pc[q] # "done" => ask[q] \in Key
  <2>1. pc[r] # "done"
    BY DEF Permit, Answered, CallFails, Write, WriteFails, Disconnect, WithPermit, Writing
  <2> QED BY <2>1 DEF KInv, Led
<1>3. PICK stage \in {"calling", "leave", "done"} \cup Writing : Goto(r, stage)
  <2>1. CASE Permit(r) \/ Answered(r) \/ CallFails(r) \/ WriteFails(r) \/ Disconnect(r)
    BY <2>1 DEF Permit, Answered, CallFails, WriteFails, Disconnect, LeaveWith, FirstWrite, Writing
  <2>2. CASE Write(r)
    <3>1. AfterWrite(MyKind(r), pc[r]) \in {"leave"} \cup Writing
      BY <2>2 DEF Write, Writing, AfterWrite
    <3> QED BY <2>2, <3>1 DEF Write, LeaveWith
  <2> QED BY <2>1, <2>2
<1>4. stage \in Stages /\ stage \notin Waiting /\ stage # "reread"
  BY OutsideGuard DEF Stages, WithGuard, WithPermit, Writing, Waiting
<1>5. Only(r) /\ pc'[r] = stage
  BY <1>1, <1>3, <1>4, Goes DEF KInv
<1>6. /\ rows' \in [Key -> {"none", "stale", "fresh"}]
      /\ \A k \in Key : rows[k] = "fresh" => rows'[k] = "fresh"
  BY <1>2 DEF Permit, Answered, CallFails, Write, WriteFails, Disconnect, Explained
<1>7. \A k \in Key : Learned(k) => Learned(k)'
  BY <1>1, <1>6 DEF Learned
<1>8. PICK a \in Answers : answer' = [answer EXCEPT ![r] = a]
                           /\ (a = "notfound" => answer[r] = a \/ ask[r] \notin EdsmKnows)
  <2>1. \/ UNCHANGED answer
        \/ \E a \in Answers : Reply(r, a) /\ (a = "notfound" => ask[r] \notin EdsmKnows)
    BY DEF Permit, Answered, CallFails, Write, WriteFails, Disconnect, LeaveWith,
           OnWriteFailure, Answers
  <2>2. CASE UNCHANGED answer
    <3>1. answer[r] \in Answers /\ answer' = [answer EXCEPT ![r] = answer[r]]
      BY <2>2 DEF Explained
    <3> QED BY <3>1
  <2> QED BY <2>1, <2>2 DEF Reply
<1>9. /\ answer' \in [Request -> Answers] /\ \A q \in Request : q # r => answer'[q] = answer[q]
      /\ answer'[r] = "notfound" => answer[r] = "notfound" \/ ask[r] \notin EdsmKnows
  BY <1>8 DEF Explained
<1> QED BY <1>1, <1>2, <1>4, <1>5, <1>6, <1>7, <1>9, ExplainedStep

LEMMA ExplainedLeave ==
  ASSUME KInv, Explained, NEW r \in Request, Leave(r)
  PROVE  Explained'
<1>1. /\ UNCHANGED <<ask, rows, answer, late>> /\ ask[r] \in Key
      /\ inflight' = inflight \ {ask[r]} /\ bare \subseteq bare'
      /\ Goto(r, "notify")
  BY DEF Leave, asked, KInv, Led
<1>2. Only(r) /\ pc'[r] = "notify"
  BY <1>1, Goes DEF KInv, Stages
<1>3. Learned(ask[r])' /\ \A k \in Key : Learned(k) => Learned(k)'
  BY <1>1, LearnedStays DEF Leave, Learned
<1>4. \A q \in Request : pc[q] \in Waiting \cup {"reread"} => ask[q] \in Key
  BY DEF KInv, Led, Waiting
<1>5. ASSUME NEW q \in Request, pc'[q] \in Waiting \cup {"reread"}
      PROVE  q # r /\ pc[q] = pc'[q]
  BY <1>2, <1>5 DEF Only, Waiting
<1>6. ASSUME NEW q \in Request, pc'[q] \in Waiting
      PROVE  ask[q] \in inflight' \/ Learned(ask[q])'
  BY <1>1, <1>3, <1>4, <1>5, <1>6 DEF Explained
<1>7. ASSUME NEW q \in Request, pc'[q] = "reread", q \notin late
      PROVE  Learned(ask[q])'
  BY <1>1, <1>3, <1>4, <1>5, <1>7 DEF Explained
<1>8. MissIsExplained'
  BY <1>1 DEF Explained, MissIsExplained
<1> QED BY <1>1, <1>6, <1>7, <1>8 DEF Explained

LEMMA ExplainedElsewhere ==
  ASSUME Explained, UNCHANGED <<ask, pc, answer, inflight, rows, bare, late>>
  PROVE  Explained'
BY DEF Explained, Learned, MissIsExplained

LEMMA ExplainedNext ==
  ASSUME KInv, Explained, [Next]_vars
  PROVE  Explained'
<1>1. ASSUME NEW r \in Request, Progress(r) \/ Misfortune(r)
      PROVE  Explained'
  BY <1>1, ExplainedWaiter, ExplainedLeader, ExplainedLeave DEF Progress, Misfortune
<1>2. CASE Rest
  BY <1>2, ExplainedElsewhere DEF Rest, asked, flight, history
<1>3. ASSUME NEW s \in Star, AskStar(s) \/ QueueStar(s)
      PROVE  Explained'
  BY <1>3, ExplainedElsewhere DEF AskStar, QueueStar, asked, flight, history
<1>4. CASE Job \/ JobFails
  BY <1>4, ExplainedElsewhere
     DEF Job, JobFails, JobPick, JobAnswered, JobUpsert, JobClear, JobCallFails, JobWriteFails,
         asked, flight, history
<1>5. CASE Settled \/ UNCHANGED vars
  BY <1>5, ExplainedElsewhere DEF Settled, vars, asked
<1> QED BY <1>1, <1>2, <1>3, <1>4, <1>5 DEF Next

\* A waiter that kept waiting to the end of its flight and is told that a name is
\* unknown was told so of a name whose guard was dropped bare: what a leader
\* learned was written before the guard went.  (knowledge.rs, system_document)
THEOREM MissesAreExplained == Spec => []MissIsExplained
<1>1. Init => Explained
  BY OutsideGuard DEF Init, Explained, MissIsExplained, Waiting, Answers
<1>2. KInv /\ Explained /\ [Next]_vars => Explained'
  BY ExplainedNext
<1>3. Explained => MissIsExplained
  BY DEF Explained
<1> QED BY <1>1, <1>2, <1>3, KnowledgeInvariance, PTL DEF Spec
=============================================================================

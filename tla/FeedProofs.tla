------------------------------ MODULE FeedProofs ------------------------------
(***************************************************************************)
(* Proof that the feed loses nothing on its way, for every capacity, batch  *)
(* size and number of attempts, and for frames of any number of operations. *)
(*                                                                         *)
(* The argument: what has been settled, the batch, the channel and the rest *)
(* of the frame in hand are one sequence cut in four.  A step moves a cut,  *)
(* so the sequence stays; only Recv lengthens it, and by then the frame     *)
(* before is empty.                                                        *)
(***************************************************************************)
EXTENDS Feed, SequenceTheorems, TLAPS

Fate == [op : Nat, as : {"applied", "dropped", "lost"}]

Types ==
  /\ queue \in Seq(Nat) /\ heard \in Nat
  /\ {parked, channel, batch} \subseteq Seq(Nat)
  /\ fate \in Seq(Fate)

\* Only a subscriber that is sending has operations in hand, and only a writer
\* that is not idle a batch.
Hands ==
  /\ sub # "send" => parked = <<>>
  /\ writer = "idle" => batch = <<>>

FeedInv == Types /\ Hands /\ NothingLost

FirstN(n) == [i \in 1..n |-> i]
-----------------------------------------------------------------------------
(* Sequences cut at different places.                                       *)

\* Two sequences in a row, and one sequence cut in four.
Two(a, b) == a \o b
Line(a, b, c, d) == Two(Two(Two(a, b), c), d)

LEMMA TwoType ==
  ASSUME NEW a \in Seq(Nat), NEW b \in Seq(Nat)
  PROVE  Two(a, b) \in Seq(Nat)
BY DEF Two

LEMMA TwoEmpty ==
  ASSUME NEW a \in Seq(Nat)
  PROVE  <<>> \in Seq(Nat) /\ Two(a, <<>>) = a
BY DEF Two

LEMMA TwoAssociative ==
  ASSUME NEW a \in Seq(Nat), NEW b \in Seq(Nat), NEW c \in Seq(Nat)
  PROVE  Two(Two(a, b), c) = Two(a, Two(b, c))
BY DEF Two

LEMMA SameEnd ==
  ASSUME NEW a \in Seq(Nat), NEW b \in Seq(Nat), NEW c \in Seq(Nat), NEW d \in Seq(Nat),
         NEW e \in Seq(Nat), NEW f \in Seq(Nat), Two(e, f) = Two(c, d)
  PROVE  Line(a, b, e, f) = Line(a, b, c, d)
<1>1. Two(a, b) \in Seq(Nat)
  BY TwoType
<1>2. Line(a, b, e, f) = Two(Two(a, b), Two(e, f))
  BY <1>1, TwoAssociative DEF Line
<1>3. Line(a, b, c, d) = Two(Two(a, b), Two(c, d))
  BY <1>1, TwoAssociative DEF Line
<1> QED BY <1>2, <1>3

LEMMA SameMiddle ==
  ASSUME NEW a \in Seq(Nat), NEW b \in Seq(Nat), NEW c \in Seq(Nat), NEW d \in Seq(Nat),
         NEW e \in Seq(Nat), NEW f \in Seq(Nat), Two(e, f) = Two(b, c)
  PROVE  Line(a, e, f, d) = Line(a, b, c, d)
<1>1. Two(Two(a, e), f) = Two(a, Two(e, f))
  BY TwoAssociative
<1>2. Two(Two(a, b), c) = Two(a, Two(b, c))
  BY TwoAssociative
<1> QED BY <1>1, <1>2 DEF Line

LEMMA OnlyFirst ==
  ASSUME NEW a \in Seq(Nat)
  PROVE  Line(a, <<>>, <<>>, <<>>) = a
BY TwoEmpty DEF Line

LEMMA FirstTwo ==
  ASSUME NEW a \in Seq(Nat), NEW b \in Seq(Nat), NEW c \in Seq(Nat), NEW d \in Seq(Nat)
  PROVE  Line(Two(a, b), <<>>, c, d) = Line(a, b, c, d)
BY TwoType, TwoEmpty DEF Line

LEMMA Regroup ==
  ASSUME NEW a \in Seq(Nat), NEW b \in Seq(Nat), NEW c \in Seq(Nat), NEW d \in Seq(Nat)
  PROVE  Two(a, Two(Two(b, c), d)) = Line(a, b, c, d)
<1>1. Two(b, c) \in Seq(Nat)
  BY TwoType
<1>2. Two(a, Two(Two(b, c), d)) = Two(Two(a, Two(b, c)), d)
  BY <1>1, TwoAssociative
<1>3. Two(a, Two(b, c)) = Two(Two(a, b), c)
  BY TwoAssociative
<1> QED BY <1>2, <1>3 DEF Line

LEMMA NextFrame ==
  ASSUME NEW a \in Seq(Nat), NEW b \in Seq(Nat), NEW c \in Seq(Nat), NEW d \in Seq(Nat)
  PROVE  Line(a, b, c, d) = Two(Line(a, b, c, <<>>), d)
<1>1. Two(a, b) \in Seq(Nat)
  BY TwoType
<1>2. Two(Two(a, b), c) \in Seq(Nat)
  BY <1>1, TwoType
<1>3. Line(a, b, c, <<>>) = Two(Two(a, b), c)
  BY <1>2, TwoEmpty DEF Line
<1> QED BY <1>3 DEF Line

\* Moving the first element of a sequence to the end of the one before it.
LEMMA Move ==
  ASSUME NEW a \in Seq(Nat), NEW b \in Seq(Nat), b # <<>>
  PROVE  /\ Append(a, Head(b)) \in Seq(Nat) /\ Tail(b) \in Seq(Nat)
         /\ Two(Append(a, Head(b)), Tail(b)) = Two(a, b)
<1>1. /\ Head(b) \in Nat /\ Tail(b) \in Seq(Nat) /\ Len(b) \in Nat \ {0} /\ Head(b) = b[1]
      /\ Len(Tail(b)) = Len(b) - 1 /\ \A i \in 1..Len(Tail(b)) : Tail(b)[i] = b[i + 1]
  BY HeadTailProperties, LenProperties, EmptySeq
<1>2. <<Head(b)>> \o Tail(b) = b
  <2>1. <<Head(b)>> \in Seq(Nat) /\ Len(<<Head(b)>>) = 1 /\ <<Head(b)>>[1] = b[1]
    BY <1>1
  <2>2. /\ <<Head(b)>> \o Tail(b) \in Seq(Nat)
        /\ Len(<<Head(b)>> \o Tail(b)) = Len(<<Head(b)>>) + Len(Tail(b))
        /\ \A i \in 1..(Len(<<Head(b)>>) + Len(Tail(b))) :
             (<<Head(b)>> \o Tail(b))[i] =
               IF i <= Len(<<Head(b)>>) THEN <<Head(b)>>[i] ELSE Tail(b)[i - Len(<<Head(b)>>)]
    BY <1>1, <2>1, ConcatProperties
  <2>3. ASSUME NEW i \in 1..Len(b)
        PROVE  (<<Head(b)>> \o Tail(b))[i] = b[i]
    <3>1. CASE i = 1
      BY <1>1, <2>1, <2>2, <3>1
    <3>2. CASE i > 1
      <4>1. i - 1 \in 1..Len(Tail(b)) /\ (i - 1) + 1 = i
        BY <1>1, <3>2
      <4> QED BY <1>1, <2>1, <2>2, <3>2, <4>1
    <3> QED BY <1>1, <3>1, <3>2
  <2> QED BY <1>1, <2>1, <2>2, <2>3, SeqEqual
<1>3. Append(a, Head(b)) \in Seq(Nat) /\ Append(a, Head(b)) = a \o <<Head(b)>>
  BY <1>1, AppendProperties, AppendIsConcat
<1>4. (a \o <<Head(b)>>) \o Tail(b) = a \o (<<Head(b)>> \o Tail(b))
  BY <1>1, ConcatAssociative
<1> QED BY <1>1, <1>2, <1>3, <1>4 DEF Two

LEMMA OpsType ==
  ASSUME NEW f \in Seq(Fate)
  PROVE  Ops(f) \in Seq(Nat) /\ Len(Ops(f)) = Len(f)
         /\ \A i \in 1..Len(f) : Ops(f)[i] = f[i].op
<1>1. Len(f) \in Nat /\ DOMAIN f = 1..Len(f) /\ \A i \in 1..Len(f) : f[i] \in Fate
  BY LenProperties, ElementOfSeq
<1>2. Ops(f) \in [1..Len(f) -> Nat]
  BY <1>1 DEF Ops, Fate
<1> QED BY <1>1, <1>2 DEF Ops

LEMMA Enumerated ==
  ASSUME NEW S, NEW n \in Nat, NEW s, s \in [1..n -> S]
  PROVE  s \in Seq(S) /\ Len(s) = n
OBVIOUS

LEMMA PointByPoint ==
  ASSUME NEW a \in Seq(Nat), NEW b \in Seq(Nat), NEW w \in Seq(Nat),
         Len(w) = Len(a) + Len(b),
         \A i \in 1..Len(w) : w[i] = IF i <= Len(a) THEN a[i] ELSE b[i - Len(a)]
  PROVE  Two(a, b) = w
<1>1. /\ a \o b \in Seq(Nat) /\ Len(a \o b) = Len(a) + Len(b)
      /\ \A i \in 1..(Len(a) + Len(b)) :
           (a \o b)[i] = IF i <= Len(a) THEN a[i] ELSE b[i - Len(a)]
  OBVIOUS
<1>2. PICK x \in Seq(Nat) : x = a \o b
  BY <1>1
<1>3. Len(x) = Len(w) /\ \A i \in 1..Len(x) : x[i] = w[i]
  BY <1>1, <1>2
<1>4. x = w
  BY <1>3, SeqEqual
<1> QED BY <1>2, <1>4 DEF Two

LEMMA OpsJoined ==
  ASSUME NEW f, f \in Seq(Fate), NEW ops, ops \in Seq(Nat), NEW s, s \in Seq(Fate),
         Len(s) = Len(ops), \A i \in 1..Len(ops) : s[i].op = ops[i]
  PROVE  f \o s \in Seq(Fate) /\ Ops(f \o s) = Two(Ops(f), ops)
<1>1. /\ f \o s \in Seq(Fate) /\ Len(f \o s) = Len(f) + Len(ops) /\ Len(f) \in Nat
      /\ \A i \in 1..(Len(f) + Len(ops)) :
           (f \o s)[i] = IF i <= Len(f) THEN f[i] ELSE s[i - Len(f)]
  OBVIOUS
<1>2. PICK w \in Seq(Fate) : w = f \o s
  BY <1>1
<1>3. /\ Ops(w) \in Seq(Nat) /\ Len(Ops(w)) = Len(f) + Len(ops)
      /\ \A i \in 1..(Len(f) + Len(ops)) : Ops(w)[i] = w[i].op
  BY <1>1, <1>2, OpsType
<1>4. Ops(f) \in Seq(Nat) /\ Len(Ops(f)) = Len(f) /\ \A i \in 1..Len(f) : Ops(f)[i] = f[i].op
  BY OpsType
<1>5. ASSUME NEW i \in 1..Len(Ops(w))
      PROVE  Ops(w)[i] = IF i <= Len(Ops(f)) THEN Ops(f)[i] ELSE ops[i - Len(Ops(f))]
  <2>1. i \in 1..(Len(f) + Len(ops)) /\ Ops(w)[i] = w[i].op
    BY <1>3
  <2>2. CASE i <= Len(f)
    BY <2>1, <2>2, <1>1, <1>2, <1>4
  <2>3. CASE ~(i <= Len(f))
    <3>1. i - Len(f) \in 1..Len(ops)
      BY <2>1, <2>3, <1>1
    <3>2. w[i] = s[i - Len(f)]
      BY <2>1, <2>3, <1>1, <1>2
    <3> QED BY <3>1, <3>2, <2>1, <2>3, <1>4
  <2> QED BY <2>2, <2>3
<1>6. Two(Ops(f), ops) = Ops(w)
  <2>1. Ops(w) \in Seq(Nat) /\ Ops(f) \in Seq(Nat) /\ Len(Ops(w)) = Len(Ops(f)) + Len(ops)
    BY <1>3, <1>4
  <2> QED BY <2>1, <1>5, PointByPoint
<1> QED BY <1>1, <1>2, <1>6

\* Settled operations go to the end of what has been settled.
LEMMA Settled ==
  ASSUME fate \in Seq(Fate), NEW ops \in Seq(Nat), NEW as \in {"applied", "dropped", "lost"},
         Settle(ops, as)
  PROVE  fate' \in Seq(Fate) /\ Ops(fate') = Two(Ops(fate), ops)
<1>1. Len(ops) \in Nat /\ DOMAIN ops = 1..Len(ops) /\ \A i \in 1..Len(ops) : ops[i] \in Nat
  BY LenProperties, ElementOfSeq
<1>2. PICK s : s = [i \in DOMAIN ops |-> [op |-> ops[i], as |-> as]] /\ fate' = fate \o s
  BY DEF Settle
<1>3. s \in [1..Len(ops) -> Fate] /\ \A i \in 1..Len(ops) : s[i].op = ops[i]
  BY <1>1, <1>2 DEF Fate
<1>4. s \in Seq(Fate) /\ Len(s) = Len(ops)
  BY <1>1, <1>3, Enumerated
<1> QED BY <1>2, <1>3, <1>4, OpsJoined

LEMMA Longer ==
  ASSUME NEW n \in Nat, NEW k \in Nat
  PROVE  LET t == [i \in 1..k |-> n + i]
         IN  /\ t \in Seq(Nat) /\ FirstN(n) \in Seq(Nat)
             /\ Two(FirstN(n), t) = FirstN(n + k)
<1> DEFINE t == [i \in 1..k |-> n + i]
<1>1. /\ FirstN(n) \in [1..n -> Nat] /\ FirstN(n + k) \in [1..(n + k) -> Nat]
      /\ t \in [1..k -> Nat]
      /\ \A i \in 1..k : t[i] = n + i
      /\ \A i \in 1..n : FirstN(n)[i] = i
      /\ \A i \in 1..(n + k) : FirstN(n + k)[i] = i
  BY DEF FirstN
<1> HIDE DEF t
<1>2. /\ FirstN(n) \in Seq(Nat) /\ Len(FirstN(n)) = n
      /\ FirstN(n + k) \in Seq(Nat) /\ Len(FirstN(n + k)) = n + k
      /\ t \in Seq(Nat) /\ Len(t) = k
  BY <1>1, Enumerated
<1>3. ASSUME NEW i \in 1..Len(FirstN(n + k))
      PROVE  FirstN(n + k)[i] =
               IF i <= Len(FirstN(n)) THEN FirstN(n)[i] ELSE t[i - Len(FirstN(n))]
  <2>1. i \in 1..(n + k) /\ FirstN(n + k)[i] = i /\ Len(FirstN(n)) = n
    BY <1>1, <1>2
  <2>2. CASE i <= n
    <3>1. i \in 1..n
      BY <2>1, <2>2
    <3> QED BY <3>1, <2>1, <2>2, <1>1
  <2>3. CASE ~(i <= n)
    <3>1. i - n \in 1..k /\ n + (i - n) = i
      BY <2>1, <2>3
    <3> QED BY <3>1, <2>1, <2>3, <1>1
  <2> QED BY <2>2, <2>3
<1>4. Two(FirstN(n), t) = FirstN(n + k)
  BY <1>2, <1>3, PointByPoint
<1> QED BY <1>2, <1>4 DEF t
-----------------------------------------------------------------------------
(* One step.                                                                *)

\* A step that leaves the four parts alone.
LEMMA Kept ==
  ASSUME FeedInv, UNCHANGED <<parked, channel, batch, fate, heard>>,
         queue' \in Seq(Nat), Hands'
  PROVE  FeedInv'
BY DEF FeedInv, Types, NothingLost, Ops

LEMMA AsLine ==
  /\ NothingLost <=> Line(Ops(fate), batch, channel, parked) = FirstN(heard)
  /\ NothingLost' <=> Line(Ops(fate'), batch', channel', parked') = FirstN(heard')
BY DEF NothingLost, Line, Two, FirstN, Ops

LEMMA Parts ==
  ASSUME Types
  PROVE  {Ops(fate), batch, channel, parked} \subseteq Seq(Nat)
BY OpsType DEF Types

LEMMA PublishStep ==
  ASSUME FeedInv, NEW frame \in PerFrame, Publish(frame)
  PROVE  FeedInv'
<1>1. queue' \in Seq(Nat)
  BY FeedAssumption, AppendProperties DEF Publish, FeedInv, Types, FeedAssumption
<1>2. Hands'
  BY DEF Publish, FeedInv, Hands, writing
<1> QED BY <1>1, <1>2, Kept DEF Publish, writing

LEMMA RecvStep ==
  ASSUME FeedInv, Recv
  PROVE  FeedInv'
<1> DEFINE k == Head(queue)
           t == [i \in 1..k |-> heard + i]
<1>1. k \in Nat /\ Tail(queue) \in Seq(Nat) /\ heard \in Nat
  BY HeadTailProperties DEF Recv, FeedInv, Types
<1>2. parked = <<>> /\ parked' = t /\ heard' = heard + k /\ queue' = Tail(queue)
      /\ sub' = "send" /\ UNCHANGED <<channel, writer, batch, fate>>
  BY DEF Recv, FeedInv, Hands, writing
<1>3. t \in Seq(Nat) /\ Two(FirstN(heard), t) = FirstN(heard + k)
  BY <1>1, Longer
<1> HIDE DEF t, k
<1>4. Line(Ops(fate), batch, channel, t) = Two(Line(Ops(fate), batch, channel, <<>>), t)
  BY <1>3, Parts, NextFrame DEF FeedInv
<1>5. NothingLost'
  BY <1>2, <1>3, <1>4, AsLine DEF FeedInv
<1>6. Types'
  BY <1>1, <1>2, <1>3 DEF FeedInv, Types
<1>7. Hands'
  BY <1>2 DEF FeedInv, Hands
<1> QED BY <1>5, <1>6, <1>7 DEF FeedInv

LEMMA SendStep ==
  ASSUME FeedInv, Send
  PROVE  FeedInv'
<1>1. Ops(fate) \in Seq(Nat) /\ batch \in Seq(Nat) /\ channel \in Seq(Nat) /\ parked \in Seq(Nat)
  BY Parts DEF FeedInv
<1>2. channel' \in Seq(Nat) /\ parked' \in Seq(Nat) /\ Two(channel', parked') = Two(channel, parked)
  BY <1>1, Move DEF Send
<1>3. UNCHANGED <<queue, heard, fate, batch, sub, writer>>
  BY DEF Send, writing
<1>4. Line(Ops(fate), batch, channel', parked') = Line(Ops(fate), batch, channel, parked)
  BY <1>1, <1>2, SameEnd
<1>5. NothingLost'
  BY <1>3, <1>4, AsLine DEF FeedInv
<1>6. Types' /\ Hands'
  BY <1>2, <1>3 DEF FeedInv, Types, Hands, Send
<1> QED BY <1>5, <1>6 DEF FeedInv

LEMMA TakeStep ==
  ASSUME FeedInv, Take, writer' # "idle", UNCHANGED <<queue, sub, parked, heard, fate>>
  PROVE  FeedInv'
<1>1. Ops(fate) \in Seq(Nat) /\ batch \in Seq(Nat) /\ channel \in Seq(Nat) /\ parked \in Seq(Nat)
  BY Parts DEF FeedInv
<1>2. batch' \in Seq(Nat) /\ channel' \in Seq(Nat) /\ Two(batch', channel') = Two(batch, channel)
  BY <1>1, Move DEF Take
<1>3. Line(Ops(fate), batch', channel', parked) = Line(Ops(fate), batch, channel, parked)
  BY <1>1, <1>2, SameMiddle
<1>4. NothingLost'
  BY <1>3, AsLine DEF FeedInv
<1>5. Types' /\ Hands'
  BY <1>2 DEF FeedInv, Types, Hands
<1> QED BY <1>4, <1>5 DEF FeedInv

LEMMA DoneStep ==
  ASSUME FeedInv, NEW as \in {"applied", "dropped"}, Done(as),
         UNCHANGED <<queue, sub, parked, channel, heard>>
  PROVE  FeedInv'
<1>1. Ops(fate) \in Seq(Nat) /\ batch \in Seq(Nat) /\ channel \in Seq(Nat) /\ parked \in Seq(Nat)
  BY Parts DEF FeedInv
<1>2. fate' \in Seq(Fate) /\ Ops(fate') = Two(Ops(fate), batch)
  BY <1>1, Settled DEF Done, FeedInv, Types
<1>3. batch' = <<>> /\ writer' = "idle"
  BY DEF Done
<1>4. Line(Two(Ops(fate), batch), <<>>, channel, parked) = Line(Ops(fate), batch, channel, parked)
  BY <1>1, FirstTwo
<1>5. NothingLost'
  BY <1>2, <1>3, <1>4, AsLine DEF FeedInv
<1>6. Types' /\ Hands'
  BY <1>2, <1>3 DEF FeedInv, Types, Hands
<1> QED BY <1>5, <1>6 DEF FeedInv

LEMMA EndsStep ==
  ASSUME FeedInv, Ends
  PROVE  FeedInv'
<1>1. Ops(fate) \in Seq(Nat) /\ batch \in Seq(Nat) /\ channel \in Seq(Nat) /\ parked \in Seq(Nat)
  BY Parts DEF FeedInv
<1>2. /\ Two(Two(batch, channel), parked) \in Seq(Nat)
      /\ Two(Two(batch, channel), parked) = batch \o channel \o parked
  BY <1>1, TwoType DEF Two
<1>3. Settle(Two(Two(batch, channel), parked), "lost")
  BY <1>2 DEF Ends
<1>4. fate' \in Seq(Fate) /\ Ops(fate') = Two(Ops(fate), Two(Two(batch, channel), parked))
  BY <1>2, <1>3, Settled DEF FeedInv, Types
<1>5. Ops(fate') = Line(Ops(fate), batch, channel, parked)
  BY <1>1, <1>4, Regroup
<1>6. Line(Ops(fate'), <<>>, <<>>, <<>>) = Ops(fate')
  BY <1>4, OpsType, OnlyFirst
<1>7. /\ parked' = <<>> /\ channel' = <<>> /\ batch' = <<>> /\ queue' = <<>>
      /\ heard' = heard
  BY DEF Ends
<1>8. NothingLost'
  BY <1>5, <1>6, <1>7, AsLine DEF FeedInv
<1>9. Types' /\ Hands'
  BY <1>7, <1>4, EmptySeq DEF FeedInv, Types, Hands
<1> QED BY <1>8, <1>9 DEF FeedInv

LEMMA SubscriberStep ==
  ASSUME FeedInv, Subscriber
  PROVE  FeedInv'
<1>1. CASE Recv
  BY <1>1, RecvStep
<1>2. CASE Send
  BY <1>2, SendStep
<1>3. CASE Dial \/ Backoff \/ Idle \/ RecvFails \/ Sent
  <2>1. queue' \in {queue, <<>>} /\ UNCHANGED <<parked, channel, batch, writer, fate, heard>>
    BY <1>3 DEF Dial, Dialled, Backoff, Idle, RecvFails, Sent, Redial, writing
  <2>2. queue' \in Seq(Nat)
    BY <2>1, EmptySeq DEF FeedInv, Types
  <2>3. parked = <<>>
    BY <1>3 DEF FeedInv, Hands, Dial, Dialled, Backoff, Idle, RecvFails, Sent
  <2> QED BY <2>1, <2>3, <2>2, Kept DEF FeedInv, Hands
<1> QED BY <1>1, <1>2, <1>3 DEF Subscriber

LEMMA WriterStep ==
  ASSUME FeedInv, Writer
  PROVE  FeedInv'
<1>1. CASE First \/ More
  <2>1. writer' # "idle"
    BY <1>1 DEF First, More
  <2> QED BY <1>1, <2>1, TakeStep DEF First, More, subscriber
<1>2. CASE Collected \/ Retry
  <2>1. UNCHANGED <<queue, sub, parked, channel, batch, fate, heard>> /\ writer' # "idle"
    BY <1>2 DEF Collected, Retry, subscriber
  <2> QED BY <2>1, Kept DEF FeedInv, Types, Hands
<1>3. CASE Applies
  BY <1>3, DoneStep DEF Applies, subscriber
<1>4. CASE ApplyFails
  <2>1. CASE attempts + 1 >= MaxAttempts
    BY <1>4, <2>1, DoneStep DEF ApplyFails, subscriber
  <2>2. CASE ~(attempts + 1 >= MaxAttempts)
    <3>1. UNCHANGED <<queue, sub, parked, channel, batch, fate, heard>> /\ writer' = "backoff"
      BY <1>4, <2>2 DEF ApplyFails, subscriber
    <3> QED BY <3>1, Kept DEF FeedInv, Types, Hands
  <2> QED BY <2>1, <2>2
<1> QED BY <1>1, <1>2, <1>3, <1>4 DEF Writer

LEMMA EnvironmentStep ==
  ASSUME FeedInv, Environment
  PROVE  FeedInv'
<1>1. CASE \E frame \in PerFrame : Publish(frame)
  BY <1>1, PublishStep
<1>2. CASE Ends
  BY <1>2, EndsStep
<1>3. CASE (\E how \in {"wedged", "closed"} : Breaks(how)) \/ Restart
  <2>1. UNCHANGED <<queue, sub, parked, channel, batch, writer, fate, heard>>
    BY <1>3 DEF Breaks, Restart, subscriber, writing
  <2> QED BY <2>1, Kept DEF FeedInv, Types, Hands
<1>4. CASE DialFails \/ DialHangs \/ LateAnswer
  <2>1. UNCHANGED <<parked, channel, batch, writer, fate, heard>> /\ parked = <<>>
    BY <1>4 DEF DialFails, DialHangs, LateAnswer, Dialled, writing, FeedInv, Hands
  <2>2. queue' \in Seq(Nat)
    BY <1>4, EmptySeq DEF DialFails, DialHangs, LateAnswer, Dialled, FeedInv, Types
  <2> QED BY <2>1, <2>2, Kept DEF FeedInv, Hands
<1> QED BY <1>1, <1>2, <1>3, <1>4 DEF Environment

LEMMA FeedInvariance == Spec => []FeedInv
<1>1. Init => FeedInv
  <2> SUFFICES ASSUME Init PROVE FeedInv
    OBVIOUS
  <2>1. Types
    BY DEF Init, Types
  <2>2. Hands
    BY DEF Init, Hands
  <2>3. NothingLost
    <3>1. Ops(fate) \in Seq(Nat) /\ Len(Ops(fate)) = 0
      BY OpsType, <2>1, EmptySeq DEF Init, Types
    <3>2. Ops(fate) = <<>>
      BY <3>1, EmptySeq
    <3>3. <<>> \in Seq(Nat)
      BY EmptySeq
    <3>4. FirstN(0) \in Seq(Nat) /\ Len(FirstN(0)) = 0
      <4>1. FirstN(0) \in [1..0 -> Nat]
        BY DEF FirstN
      <4> QED BY <4>1
    <3>5. FirstN(0) = <<>>
      BY <3>4, EmptySeq
    <3>6. Ops(fate) \o batch \o channel \o parked = <<>>
      BY <3>2, <3>3, ConcatEmptySeq DEF Init
    <3>7. FirstN(0) = [i \in 1..heard |-> i]
      BY DEF Init, FirstN
    <3> QED BY <3>5, <3>6, <3>7 DEF NothingLost
  <2> QED BY <2>1, <2>2, <2>3 DEF FeedInv
<1>2. FeedInv /\ [Next]_vars => FeedInv'
  <2> SUFFICES ASSUME FeedInv, [Next]_vars PROVE FeedInv'
    OBVIOUS
  <2>1. CASE UNCHANGED vars
    BY <2>1, Kept DEF vars, subscriber, writing, FeedInv, Types, Hands
  <2>2. CASE Next
    BY <2>2, SubscriberStep, WriterStep, EnvironmentStep DEF Next
  <2> QED BY <2>1, <2>2
<1> QED BY <1>1, <1>2, PTL DEF Spec

\* From the relay to the store every operation is somewhere, once, and in its
\* place, whatever fails and however often the writer tries a batch again:
\* only a batch given up and the end of the process settle one unapplied.
THEOREM NothingIsLost == Spec => []NothingLost
<1>1. FeedInv => NothingLost
  BY DEF FeedInv
<1> QED BY FeedInvariance, <1>1, PTL
=============================================================================

------------------------------ MODULE LaneGate ------------------------------
(***************************************************************************)
(* What a lane of the plot endpoint promises the requests that want a      *)
(* planner: at most so many run, at most so many more wait, whoever has    *)
(* waited longest is next, and a place once left is free for another.      *)
(* How a request ends, whether its client stays and what its planner still *)
(* does after the answer are not the lane's business: a planner counts     *)
(* until it has ended.                                                     *)
(***************************************************************************)
EXTENDS Naturals, Sequences, FiniteSets

CONSTANTS Lane, Plot, Slots, Room

VARIABLES
  queue,    \* lane -> the plots that wait, in the order they came
  running   \* lane -> the plots that have a slot

Waiting(l) == {queue[l][i] : i \in DOMAIN queue[l]}
Inside(l) == Waiting(l) \cup running[l]

Init ==
  /\ queue = [l \in Lane |-> <<>>]
  /\ running = [l \in Lane |-> {}]

Arrive(l, p) ==
  /\ \A m \in Lane : p \notin Inside(m)
  /\ Cardinality(Inside(l)) < Slots[l] + Room[l]
  /\ queue' = [queue EXCEPT ![l] = Append(@, p)]
  /\ UNCHANGED running

Start(l, p) ==
  /\ queue[l] # <<>> /\ p = Head(queue[l])
  /\ Cardinality(running[l]) < Slots[l]
  /\ queue' = [queue EXCEPT ![l] = Tail(@)]
  /\ running' = [running EXCEPT ![l] = @ \cup {p}]

Leave(l, p) ==
  /\ \E i \in DOMAIN queue[l] :
       /\ queue[l][i] = p
       /\ queue' = [queue EXCEPT ![l] = SubSeq(@, 1, i - 1) \o SubSeq(@, i + 1, Len(@))]
  /\ UNCHANGED running

End(l, p) ==
  /\ p \in running[l]
  /\ running' = [running EXCEPT ![l] = @ \ {p}]
  /\ UNCHANGED queue

Next == \E l \in Lane, p \in Plot : Arrive(l, p) \/ Start(l, p) \/ Leave(l, p) \/ End(l, p)

Spec == Init /\ [][Next]_<<queue, running>>
=============================================================================

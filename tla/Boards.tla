------------------------------- MODULE Boards -------------------------------
(***************************************************************************)
(* What the galaxy store promises the readers of a station's market,       *)
(* outfitting or shipyard: they see one sender's board, whole, and the     *)
(* next board they see is of a strictly later observation, however many    *)
(* sources write and in whatever order their observations arrive.          *)
(***************************************************************************)
EXTENDS Naturals

CONSTANTS
    Board,     \* a product of a station
    Sender,    \* who may have observed it
    Unseen     \* the board nobody has sent yet

VARIABLE shown

Observation == [at : Nat \ {0}, by : Sender]

Init == shown = [b \in Board |-> Unseen]

Newer(new, old) == old = Unseen \/ new.at > old.at

\* One transaction may replace several boards.
Publish ==
    /\ shown' \in [Board -> Observation \cup {Unseen}]
    /\ \A b \in Board :
         \/ shown'[b] = shown[b]
         \/ shown'[b] # Unseen /\ Newer(shown'[b], shown[b])

Spec == Init /\ [][Publish]_shown
=============================================================================

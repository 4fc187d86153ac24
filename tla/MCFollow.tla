------------------------------ MODULE MCFollow ------------------------------
(* Follow on three systems: the planner goes straight, from A to B by way of C. *)
EXTENDS Follow, TLC

CONSTANTS A, B, C, nothing

Systems == {A, B, C}
Homes == {A}
Planner ==
    [p \in Systems \X Systems |->
       CASE p[1] = p[2] -> {<<p[1]>>}
         [] p = <<A, B>> -> {<<A, C, B>>}
         [] OTHER -> {<<p[1], p[2]>>}]
Far == {<<B, C, A>>}
Loop == [stops |-> <<A, B>>, cycle |-> TRUE]
Tour == [stops |-> <<A, B>>, cycle |-> FALSE]
LoopAndTour == {Loop, Tour}
=============================================================================

---------------------------- MODULE MCKnowledge ----------------------------
(* Instances of Knowledge for TLC.                                         *)
EXTENDS Knowledge, TLC

CONSTANTS r1, r2, r3, cell, system, bodies, bright, dark, nothing

Requests == {r1, r2, r3}
Keys == {cell, system, bodies}
Kinds == [k \in Keys |-> CASE k = cell -> "cell" [] k = system -> "system" [] OTHER -> "bodies"]

By(a, b, c) == (r1 :> a) @@ (r2 :> b) @@ (r3 :> c)

Stars == {bright, dark}

\* Three requests for one key, or two for one and one for another; or one
\* request and the stars.
AskSets ==
    {[keys |-> k, stars |-> {}, stale |-> {}] :
       k \in {By(system, system, system), By(system, system, cell), By(system, cell, cell)}}
    \cup {[keys |-> By(bodies, bodies, cell), stars |-> {}, stale |-> s] : s \in {{}, {bodies}}}
    \cup {[keys |-> By(k, nothing, nothing), stars |-> Stars, stale |-> {}] : k \in {system, cell}}

Bright == {bright}
\* A sweep of the cell teaches the star of the system in it.
Taught == [k \in Keys |-> IF k = bodies THEN {} ELSE {bright}]
============================================================================

---------------------------- MODULE MCPublication ----------------------------
(* Instances of Publication for TLC.                                       *)
EXTENDS Publication, TLC

CONSTANTS j1, j2, r1, r2, b1, b2

\* One publishing command at a time, as the timers are meant to run.
OneJob == {j1}
\* Two at a time: nothing in the code or the unit files excludes it.
TwoJobs == {j1, j2}

OneRequest == {r1}
TwoRequests == {r1, r2}
OneBuilder == {b1}
TwoBuilders == {b1, b2}
ServerSymmetry == Permutations(Request) \cup Permutations(Builder)
==============================================================================

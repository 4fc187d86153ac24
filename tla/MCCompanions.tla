---------------------------- MODULE MCCompanions ----------------------------
(* Instances of Companions for TLC.                                        *)
EXTENDS Companions

TwoFid == {1, 2}
\* One file for each kind of rule.
Rules == {"Status.json", "Cargo.json", "NavRoute.json"}
Hold == {"Cargo.json"}
Status == {"Status.json"}
Few == {0, 2}
Two == {2}
One == {"watcher"}
Both == {"watcher", "button"}
=============================================================================

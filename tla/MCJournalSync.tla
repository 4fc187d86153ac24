---------------------------- MODULE MCJournalSync ----------------------------
(* Instances of JournalSync for TLC.                                       *)
EXTENDS JournalSync, TLC

CONSTANTS c1, c2

OneFid == {c1}
TwoFids == {c1, c2}
FidSymmetry == Permutations(Fid)

\* The games of journal_two: visits to the menu and Shutdown lines among the
\* first two lines only, half lines before the second; then logins and play.
\* The commanders being alike, the first file is the first one's.
Bounded ==
    /\ file[1].last \in {c1, NoKey}
    /\ Len(written) <= 1 \/ \A f \in File : ~file[f].half
    /\ Len(written) <= 2
          \/ \A t \in DOMAIN written : written[t].kind \in {"login", "play"}
\* Only a step of the game can leave these bounds.
BoundedNext == (GameStep /\ Bounded') \/ SyncStep \/ SyncFails \/ Restart
BoundedSpec == Init /\ [][BoundedNext]_vars /\ WF_vars(SyncStep)
==============================================================================

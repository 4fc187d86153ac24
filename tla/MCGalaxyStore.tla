--------------------------- MODULE MCGalaxyStore ---------------------------
(* Instances of GalaxyStore for TLC.                                       *)
EXTENDS GalaxyStore, FiniteSetsExt, TLC

CONSTANTS sol, twin, blank, a1, a2, s1, s2, market, ship, bubble, null

Names == {sol, twin, blank}
Addresses == {a1, a2}
TwoStations == {s1, s2}
OneProduct == {market}
\* Two systems of one name: the second cannot be filed.
Homes == (s1 :> a1) @@ (s2 :> a2)

Said(s, n, at) == [op |-> "board", station |-> s, name |-> n, product |-> market,
                   at |-> at, byId |-> TRUE, fits |-> TRUE]
SaidByName(s, n, at) == [Said(s, n, at) EXCEPT !.byId = FALSE]
Seen(n, a, at) == [op |-> "journal", name |-> n, addr |-> a, cell |-> bubble,
                   at |-> at, fits |-> TRUE]
Source(n, a, at) == [Seen(n, a, at) EXCEPT !.op = "source"]
Files(s, a) == [op |-> "ensure", station |-> s, addr |-> a]

\* The feed: boards and systems in either order, with an old or a new time, a
\* system with its address or without, one more message, or one that is refused.
FeedPlans ==
    {<<first, second>> :
       first \in {<<Said(s1, sol, 1)>>,
                  <<Seen(twin, a2, 1), Said(s1, sol, 1)>>,
                  <<Seen(twin, a2, 3), Said(s1, sol, 3)>>},
       second \in {<<Seen(sol, a1, 3)>>, <<Said(s1, twin, 2), Seen(sol, null, 1)>>,
                   <<Said(s1, sol, 2), SaidByName(s1, sol, 3)>>,
                   <<Said(s1, sol, 2), [Seen(sol, a1, 2) EXCEPT !.fits = FALSE]>>,
                   <<Seen(blank, null, 2)>>,
                   <<[Said(s1, twin, 2) EXCEPT !.fits = FALSE]>>}}

\* No dump, or one of two systems, of one name or of two, and their stations; the
\* second system's stations straddle two batches.
DumpPlans ==
    {<<>>} \cup
    {<< <<Source(sol, a1, 2), Source(n, a2, 2), Files(s1, a1), Said(s1, sol, 2)>>,
        <<Files(s2, a2), Said(s2, n, 2)>> >> : n \in {sol, twin}}

\* A station that stands elsewhere than one of the feed's boards says, which
\* does not give its market id.
MovedFeedPlans == {<< <<Said(s1, sol, 1)>>, <<SaidByName(s1, sol, 2)>> >>}
MovedDumpPlans == {<< <<Source(twin, a2, 3), Files(s1, a2), Said(s1, twin, 3)>> >>}

\* Ten systems, which the feed names in one batch and the dump in five, two by two
\* and each time in the other order.
InOrder == FoldSet(LAMBDA n, seq : Append(seq, n), <<>>, Name)
CrossingHomes == s1 :> InOrder[1]
CrossingFeedPlans == {<< [i \in 1..10 |-> Seen(InOrder[i], null, 1)] >>}
CrossingDumpPlans ==
    {[k \in 1..5 |-> [j \in 1..2 |-> LET n == InOrder[2 * k + 1 - j] IN Source(n, n, 2)]]}
============================================================================

------------------------------ MODULE Catalogue ------------------------------
(***************************************************************************)
(* What the published catalogue promises its readers, whoever publishes    *)
(* and however many steps a publication takes: one routing version and one *)
(* star catalogue are current, a publication replaces exactly the product  *)
(* it publishes, an overlay always continues the version that is current   *)
(* at that moment, and versions only move forward.                         *)
(***************************************************************************)
EXTENDS Naturals, Sequences

CONSTANTS MaxVersion, MaxStars

VARIABLE manifest

\* No product published yet: current.json is missing or lacks the product.
NoVersion == 0

Version == 1 .. MaxVersion
StarsVersion == 1 .. MaxStars

Init == manifest = [routing |-> NoVersion, stars |-> NoVersion, chain |-> <<>>]

\* A full index under version v: the overlay chain starts afresh.
Rebase(v) ==
    /\ v > manifest.routing
    /\ manifest' = [manifest EXCEPT !.routing = v, !.chain = <<>>]

\* A day's changes as version v: one more link from what is current.
Extend(v) ==
    /\ manifest.routing # NoVersion
    /\ v > manifest.routing
    /\ manifest' =
         [manifest EXCEPT
            !.routing = v,
            !.chain = Append(@, [from |-> manifest.routing, to |-> v])]

\* A star catalogue: the routing product stays as it is.
Learn(w) ==
    /\ w > manifest.stars
    /\ manifest' = [manifest EXCEPT !.stars = w]

Next ==
    \/ \E v \in Version : Rebase(v) \/ Extend(v)
    \/ \E w \in StarsVersion : Learn(w)

Spec == Init /\ [][Next]_manifest
==============================================================================

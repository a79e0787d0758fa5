----------------------------- MODULE MCListing -----------------------------
(* Two routes for Listing.  Keys 3 and 4 share the common prefix 2. *)
EXTENDS Listing

CONSTANTS a, b

\* Route a is anchored under prefix 2; route b matches more, key 3 too.
MCMatched == a :> {3, 4} @@ b :> {1, 3, 6}
MCFactor == a :> 3 @@ b :> 5
MCBothAnchored == a :> 3 @@ b :> 3

MCStores ==
    {a :> s @@ b :> t : s \in {{}, {3, 4}, Keys}, t \in {{}, {1, 3}, Keys}}

Plain == [k \in Keys |-> k]
Folded == [k \in Keys |-> IF k \in {3, 4} THEN 2 ELSE k]

Asks(version, n, under, shown, skipped) ==
    [version |-> version, maxKeys |-> n, under |-> under, shown |-> shown,
     skipped |-> skipped]

MCClients ==
    {Asks("v1", 1, Keys, Plain, {}), Asks("v2", 1, Keys, Plain, {})}
    \cup {Asks("v2", n, Keys, Folded, {}) : n \in {1, 2}}
    \cup {Asks("v2", 1, {3, 4}, Plain, {}), Asks("v2", 2, {1}, Plain, {a})}

\* One that takes the whole bucket key by key.
MCPagers == {Asks("v2", 1, Keys, Plain, {})}
=============================================================================

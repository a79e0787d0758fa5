----------------------------- MODULE MCLookups -----------------------------
(***************************************************************************)
(* Lookups with routings that make keys share an object or have none,      *)
(* routes for the optimizer as the README and the tests write them, and    *)
(* tables of virtual hosts that write their entries in every order.        *)
(***************************************************************************)
EXTENDS Lookups, Functions

CONSTANTS b1, b2, x, y, k1, k2, k3, k4, k5

At(b, n) == [backend |-> b, name |-> n]

\* k1 and k2 are rewritten to the same object.  The routes match the empty
\* key, which the request itself needs, but not k5.
MCRouted ==
    [k \in Keys |-> CASE k \in {k1, k2} -> At(b1, x)
                      [] k = k3         -> At(b1, y)
                      [] k = k4         -> At(b2, x)
                      [] k = k5         -> NoRoute]

MCRequestKey == At(b2, y)

-----------------------------------------------------------------------------
Route(anchored, atoms, ended, rewrites) ==
    [anchored |-> anchored, atoms |-> atoms, ended |-> ended,
     rewrites |-> rewrites]

Capture == [before |-> << >>, after |-> << >>]
Below == [before |-> <<"y", "/">>, after |-> << >>]
Above == [before |-> << >>, after |-> <<"/", "y">>]

\* Everything under a directory, moved elsewhere, or a catch-all.
MCMoves ==
    {Route(TRUE, dir \o <<g>>, ended, <<rule>>) :
       dir \in {<<"x", "/">>, <<"y", "/">>, <<"x", "/", "y", "/">>},
       g \in {"(.*)", "(.+)"}, ended \in BOOLEAN,
       rule \in {Capture, Below, Above}}
    \cup {Route(anchored, <<a>>, ended, << >>) :
       anchored \in BOOLEAN, a \in {".*", ".+", "(.*)", "(.+)"}, ended \in BOOLEAN}

\* They are of the two kinds the theorems about the optimizer are about.
ASSUME MovesAssumption == \A r \in MCMoves : Optimizer!Moves(r) \/ Optimizer!LeftAlone(r)

\* ^x/(.*) with no rewrite.
MCUnrewritten == {Route(TRUE, <<"x", "/", "(.*)">>, FALSE, << >>)}

-----------------------------------------------------------------------------
Entry(kind, name, port, to) ==
    [kind |-> kind, name |-> name, port |-> port, bucket |-> to]

\* Entries that overlap: a name with and without a port, a wildcard above it
\* with and without a bucket, and a wildcard below it.
MCEntries ==
    {Entry("exact", <<"a", "local">>, "any", "mapped"),
     Entry("exact", <<"a", "local">>, "8080", "ported"),
     Entry("exact", <<"b", "local">>, "any", "unmapped"),
     Entry("wild", <<"local">>, "any", "unmapped"),
     Entry("wild", <<"local">>, "any", "wide"),
     Entry("wild", <<"local">>, "8080", "wide"),
     Entry("wild", <<"a", "local">>, "any", "unmapped")}

\* Every choice of three of them in every order.
MCTables == {t \in [1..3 -> MCEntries] : IsInjective(t)}

-----------------------------------------------------------------------------
\* README.md:372, "If no rewrite rules are provided, the original key (...) is
\* forwarded unchanged": the object of such a route is listed under its own
\* name.
UnrewrittenListed == NothingHidden
=============================================================================

----------------------------- MODULE MCExecutor -----------------------------
(***************************************************************************)
(* Executor on a small instance: two backends, one with a prefix; a key    *)
(* with an escape and a plain one on the first, one on the second, and one *)
(* that no route matches.                                                  *)
(***************************************************************************)
EXTENDS Executor, TLC

CONSTANTS b1, b2, u1

plain == <<"a">>
spaced == <<"a", "%20">>
far == <<"far">>
lost == <<"lost">>

MCKeys == {plain, spaced, far, lost}
MCPrefix == (b1 :> <<"p/">>) @@ (b2 :> << >>)
MCDecoded == [t \in {"%20"} |-> " "]

MCRouted ==
    [k \in MCKeys |->
       CASE k \in {plain, spaced} -> [backend |-> b1, key |-> k]
         [] k = far               -> [backend |-> b2, key |-> k]
         [] k = lost              -> NoRoute]

Part1 == [number |-> 1, body |-> "part"]

\* One request of every kind, and copies from a routed key, from another
\* backend and from an unrouted key.  The copies are to a key without escapes.
MCRequests ==
    {[op |-> "get", key |-> plain],
     [op |-> "put", key |-> spaced, body |-> "put", streamed |-> FALSE],
     [op |-> "put", key |-> lost, body |-> "put", streamed |-> TRUE],
     [op |-> "delete", key |-> spaced],
     [op |-> "copy", key |-> plain, source |-> spaced],
     [op |-> "copy", key |-> plain, source |-> lost],
     [op |-> "copy", key |-> plain, source |-> far],
     [op |-> "create", key |-> spaced],
     [op |-> "part", key |-> spaced, upload |-> u1, number |-> 1,
      body |-> "part"],
     [op |-> "complete", key |-> spaced, upload |-> u1, list |-> <<Part1>>],
     [op |-> "abort", key |-> spaced, upload |-> u1]}

MCClients == Permutations(Clients)

MCStray == {<<"stray">>}
=============================================================================

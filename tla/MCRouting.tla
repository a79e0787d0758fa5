----------------------------- MODULE MCRouting -----------------------------
(* A small routing table for the matcher, with the rewriting of the code.  *)
EXTENDS RouteMatcher, Rewriting

MCBuckets == {<<"photos">>, <<"logs">>, <<"absent">>}
MCKeys == {<<"foo/", "x">>, <<"foo/", "special/", "x">>, <<"data/", ":", "x">>}
MCMethods == {<<"GET">>, <<"PUT">>}

MCNames(p) ==
    CASE p = "^foo/(?P<rest>.*)"          -> [rest |-> 1]
      [] p = "^(?P<tenant>t1/)?data/(.*)" -> [tenant |-> 1]
      [] OTHER                            -> << >>

After(t, k) == IF Len(k) > 0 /\ k[1] = t THEN (0 :> k) @@ (1 :> Tail(k))
               ELSE NoMatch

MCFind(p, k) ==
    CASE p = "^foo/(?P<rest>.*)" -> After("foo/", k)
      [] p = "^special/(.*)"     -> After("special/", k)
      [] p = "^foo/special/(.*)" ->
           IF Len(k) > 1 /\ k[1] = "foo/" /\ k[2] = "special/"
           THEN (0 :> k) @@ (1 :> Tail(Tail(k))) ELSE NoMatch
      [] p = ".*"                -> (0 :> k)
      [] p = "^(?P<tenant>t1/)?data/(.*)" ->
           IF Len(k) > 0 /\ k[1] = "data/"
           THEN (0 :> k) @@ (1 :> Unset) @@ (2 :> Tail(k))
           ELSE IF Len(k) > 1 /\ k[1] = "t1/" /\ k[2] = "data/"
           THEN (0 :> k) @@ (1 :> <<"t1/">>) @@ (2 :> Tail(Tail(k)))
           ELSE NoMatch

Rule(result) == [hasPattern |-> FALSE, pattern |-> "", result |-> result]
RuleOn(p, result) == [hasPattern |-> TRUE, pattern |-> p, result |-> result]
Route(path, backend, rewrites) ==
    [path |-> path, backend |-> backend, rewrites |-> rewrites]

\* The example of the README, a catch-all behind it, and a route with an
\* optional group and a default for it.
MCRoutes ==
    (<<"photos">> :>
       << Route("^foo/(?P<rest>.*)", "backend1",
                << Rule(<<Var("rest", 0, "", << >>)>>),
                   RuleOn("^special/(.*)", <<Literal(<<"SPECIAL/">>),
                                             Var("", 1, "", << >>)>>) >>),
          Route(".*", "backend2", << >>) >>)
 @@ (<<"logs">> :>
       << Route("^(?P<tenant>t1/)?data/(.*)", "backend1",
                << Rule(<<Var("tenant", 0, ":-", <<Literal(<<"shared/">>)>>),
                          Var("", 2, "", << >>)>>) >>),
          Route("^foo/special/(.*)", "backend2", << >>) >>)
=============================================================================

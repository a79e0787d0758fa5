-------------------------- MODULE PrefixOptimizer --------------------------
(***************************************************************************)
(* How the listing of one route finds its objects: the optimizer reads a   *)
(* literal prefix off the route's pattern and turns the client's prefix    *)
(* into one for the backend (prefix_optimizer.go); the keys that come back *)
(* are turned into the client's keys (reverseRewrite).  A GET goes the     *)
(* other way, from the pattern's match to the backend's key; what is       *)
(* listed must be what a GET finds.                                        *)
(*                                                                         *)
(* Keys are sequences of characters.  A pattern is a sequence of atoms, a  *)
(* character or one of the regular expressions below, between anchors.     *)
(***************************************************************************)
EXTENDS Naturals, Sequences, FiniteSetsExt, SequencesExt

CONSTANTS
    Chars,       \* "/" and letters
    RouteTable,  \* the routes: [anchored, atoms, ended, rewrites]
    KeyLength    \* bound of the model

Wide == {".*", ".+", "(.*)", "(.+)"}
Level == {"[^/]*", "[^/]+", "([^/]*)", "([^/]+)"}
Groups == {"(.*)", "(.+)", "([^/]*)", "([^/]+)"}
Atoms == Chars \cup Wide \cup Level \cup {"x?"}

\* rewrites holds no rule, or one without a pattern whose result is a first
\* group between two literals, such as PREFIX/$1.
RuleType == [before : Seq(Chars), after : Seq(Chars)]

\* What the constants must be.
PrefixAssumption ==
    /\ {"/", "x"} \subseteq Chars /\ KeyLength \in Nat
    /\ Chars \cap (Wide \cup Level \cup {"x?"}) = {}
    /\ \A r \in RouteTable :
          /\ r.anchored \in BOOLEAN /\ r.ended \in BOOLEAN
          /\ r.atoms \in Seq(Atoms)
          /\ r.rewrites \in Seq(RuleType) /\ Len(r.rewrites) <= 1
          /\ r.rewrites # << >> => ToSet(r.atoms) \cap Groups # {}

Words == UNION {[1..n -> Chars] : n \in 0..KeyLength}

VARIABLES
    route,
    prefix,   \* the client's prefix
    skipped,  \* CanSkipRoute: the backend is not asked
    query     \* the prefix the backend is asked for

vars == <<route, prefix, skipped, query>>

-----------------------------------------------------------------------------
(* What a GET does: regexp and Matcher.rewrite.                            *)

\* A word one atom stands for.
Means(atom, w) ==
    CASE atom \in Chars                 -> w = <<atom>>
      [] atom \in {".*", "(.*)"}        -> TRUE
      [] atom \in {".+", "(.+)"}        -> w # << >>
      [] atom \in {"[^/]*", "([^/]*)"}  -> "/" \notin ToSet(w)
      [] atom \in {"[^/]+", "([^/]+)"}  -> w # << >> /\ "/" \notin ToSet(w)
      [] OTHER                          -> w \in {<< >>, <<"x">>}

First(w, n) == SubSeq(w, 1, n)
From(w, n) == SubSeq(w, n + 1, Len(w))

\* The places of w from which its last k atoms reach its end.
Fits(atoms, w) ==
    LET n == Len(atoms)
        fits[k \in 0..n] ==
          IF k = 0 THEN {Len(w)}
          ELSE LET next == fits[k - 1]
               IN  {i \in 0..Len(w) : \E j \in next :
                      i <= j /\ Means(atoms[n - k + 1], SubSeq(w, i + 1, j))}
    IN  fits

Accepts(atoms, w) == 0 \in Fits(atoms, w)[Len(atoms)]

\* The pattern with what a missing anchor allows.
Whole(r) == (IF r.anchored THEN << >> ELSE <<".*">>) \o r.atoms
            \o (IF r.ended THEN << >> ELSE <<".*">>)

Matches(r, key) == Accepts(Whole(r), key)

\* Where each atom ends: it takes as much as the ones after it leave it.
Ends(atoms, w) ==
    LET n == Len(atoms)
        ends[k \in 0..n] ==
          IF k = 0 THEN 0
          ELSE LET from == ends[k - 1]
               IN  Max({j \in Fits(atoms, w)[n - k] :
                          from <= j /\ Means(atoms[k], SubSeq(w, from + 1, j))})
    IN  ends

\* The first group.
Captured(atoms, w) ==
    LET g == Min({k \in DOMAIN atoms : atoms[k] \in Groups})
        ends == Ends(atoms, w)
    IN  SubSeq(w, ends[g - 1] + 1, ends[g])

Physical(r, key) ==
    IF r.rewrites = << >> THEN key
    ELSE r.rewrites[1].before \o Captured(Whole(r), key) \o r.rewrites[1].after

-----------------------------------------------------------------------------
(* What the optimizer reads off a pattern.                                 *)

\* tokenizePattern: the segments so far, with the one under way if it is none
\* of the empty ones, which are dropped.
Close(tokens) ==
    IF tokens.current = << >> THEN tokens.segments
    ELSE Append(tokens.segments, tokens.current)

\* The atoms between slashes.
Segments(atoms) ==
    LET tokens[k \in 0..Len(atoms)] ==
          IF k = 0 THEN [segments |-> << >>, current |-> << >>]
          ELSE LET was == tokens[k - 1]
               IN  IF atoms[k] = "/"
                   THEN [segments |-> Close(was), current |-> << >>]
                   ELSE [was EXCEPT !.current = Append(@, atoms[k])]
    IN  Close(tokens[Len(atoms)])

\* extractLiteralPrefix and extractStaticPrefixFromRegex: the characters before
\* the first metacharacter, and so x of x? too.
LiteralStart(atoms) ==
    LET n == Max({m \in 0..Len(atoms) : ToSet(First(atoms, m)) \subseteq Chars})
    IN  First(atoms, n)
        \o (IF n < Len(atoms) /\ atoms[n + 1] = "x?" THEN <<"x">> ELSE << >>)

\* classifySegment; a segment that ends in a wide group counts as that group.
Class(seg) ==
    CASE ToSet(seg) \subseteq Chars                         -> "Literal"
      [] seg \in {<<".*">>, <<".+">>}
         \/ Last(seg) \in {"(.*)", "(.+)"}                  -> "MultiLevel"
      [] Len(seg) = 1 /\ seg[1] \in Level                   -> "SingleLevel"
      [] OTHER                                              -> "Complex"

\* StaticPrefixLen: the leading literal segments.
StaticLen(segs) ==
    Max({n \in 0..Len(segs) : \A i \in 1..n : Class(segs[i]) = "Literal"})

\* GetStaticPrefixFromStructure.
StaticOf(segs) ==
    IF segs = << >> THEN << >>
    ELSE IF StaticLen(segs) > 0
    THEN FlattenSeq([i \in 1..StaticLen(segs) |-> Append(segs[i], "/")])
    ELSE IF Class(segs[1]) = "Complex" THEN LiteralStart(segs[1]) ELSE << >>

\* canSafelyOptimizeWithPrefix and areSegmentsSafeForOptimization.
Safe(segs, ended) ==
    LET n == StaticLen(segs)
        headed == n = 0 /\ StaticOf(segs) # << >>
    IN  IF ended THEN (n > 0 /\ n < Len(segs)) \/ headed
        ELSE \/ n > 0 /\ n = Len(segs)
             \/ headed /\ Last(segs[1]) \in Wide
             \/ /\ n > 0 \/ headed
                /\ n < Len(segs)
                /\ Class(Last(segs)) # "Complex" \/ Last(Last(segs)) \in Wide
                /\ Class(Last(segs)) # "Literal"

CanOptimize(r) ==
    LET segs == Segments(r.atoms)
    IN  r.anchored /\ StaticOf(segs) # << >> /\ Safe(segs, r.ended)

StaticPrefix(r) == IF CanOptimize(r) THEN StaticOf(Segments(r.atoms)) ELSE << >>

\* Mutant of CanSkipRoute: a client's prefix shorter than the route's counts
\* as another one.
CanSkipShorter(r, p) ==
    CanOptimize(r) /\ p # << >> /\ ~IsPrefix(StaticPrefix(r), p)

CanSkipRoute(r, p) ==
    /\ CanOptimize(r) /\ p # << >>
    /\ ~IsPrefix(StaticPrefix(r), p) /\ ~IsPrefix(p, StaticPrefix(r))

\* analyzeRewrites.
HasTrivialRewrite(r) ==
    r.rewrites = << >> \/ r.rewrites[1].before # << >> \/ r.rewrites[1].after = << >>

RewriteResultPrefix(r) == IF r.rewrites = << >> THEN << >> ELSE r.rewrites[1].before

\* ComputePhysicalPrefix, for a route that is not skipped and so shares its
\* prefix with the client's; createOptimizedParams takes nothing but a trivial
\* rewrite's.
PhysicalPrefix(r, p) ==
    LET static == StaticPrefix(r)
    IN  IF ~HasTrivialRewrite(r) THEN << >>
        ELSE IF p = << >> THEN RewriteResultPrefix(r)
        ELSE IF IsPrefix(static, p)
        THEN RewriteResultPrefix(r) \o From(p, Len(static))
        ELSE << >>

-----------------------------------------------------------------------------
\* Mutant of ReverseRewrite: a rule's literals are not taken off.
ReverseUnstripped(r, object) ==
    IF r.rewrites = << >> THEN object ELSE LiteralStart(r.atoms) \o object

\* reverseRewriteRule.
ReverseRewrite(r, object) ==
    IF r.rewrites = << >> THEN object
    ELSE LET rule == r.rewrites[1]
             inner ==
               IF rule.before # << >> /\ IsPrefix(rule.before, object)
               THEN From(object, Len(rule.before))
               ELSE IF rule.after # << >> /\ IsSuffix(rule.after, object)
               THEN First(object, Len(object) - Len(rule.after))
               ELSE object
         IN  LiteralStart(r.atoms) \o inner

\* listObjectsFromRoute and filterByVirtualPrefix, of a backend that holds
\* every object.
ListedFrom(r, p, q) ==
    {pair \in {<<ReverseRewrite(r, o), o>> : o \in {w \in Words : IsPrefix(q, w)}} :
       Matches(r, pair[1]) /\ IsPrefix(p, pair[1])}

Init ==
    /\ route \in RouteTable
    /\ prefix = << >> /\ skipped = FALSE /\ query = PhysicalPrefix(route, << >>)

\* The client lists with prefix p: processRouteWorker.
List(p) ==
    /\ prefix' = p
    /\ skipped' = CanSkipRoute(route, p)
    /\ query' = IF skipped' THEN << >> ELSE PhysicalPrefix(route, p)
    /\ UNCHANGED route

Next == \E p \in Words : List(p)

Spec == Init /\ [][Next]_vars
-----------------------------------------------------------------------------
(* Two kinds of routes, as the README and the tests write them.            *)

\* Everything in a directory, moved elsewhere: ^dir/(.*) with one rule that puts
\* something before what the group captures, or after it, or neither.
Moves(r) ==
    LET dir == Front(r.atoms)
    IN  /\ r.anchored
        /\ Len(r.atoms) > 1 /\ Last(r.atoms) \in {"(.*)", "(.+)"}
        /\ ToSet(dir) \subseteq Chars
        /\ dir[1] # "/" /\ Last(dir) = "/"
        /\ \A i \in 1..(Len(dir) - 1) : ~(dir[i] = "/" /\ dir[i + 1] = "/")
        /\ Len(r.rewrites) = 1
        /\ r.rewrites[1].before = << >> \/ r.rewrites[1].after = << >>

\* Nothing is rewritten and the optimizer leaves the route alone, such as that
\* of a catch-all.
LeftAlone(r) == r.rewrites = << >> /\ ~CanOptimize(r)

-----------------------------------------------------------------------------
(* Properties.                                                             *)

\* What the route contributes to the listing: pairs of a key and an object.
Listed == IF skipped THEN {} ELSE ListedFrom(route, prefix, query)

\* A key a GET would find here is listed, under whichever of its prefixes the
\* client asks for: the optimizer neither skips its route nor asks the backend
\* for a prefix the object does not have, and its name survives the way back.
NothingHidden ==
    LET listed == Listed
    IN  \A key \in Words \ {<< >>} :
          /\ IsPrefix(prefix, key) /\ Matches(route, key)
          /\ Len(Physical(route, key)) <= KeyLength
          => <<key, Physical(route, key)>> \in listed

\* What is listed can be fetched: a GET of the listed key finds the object it
\* was listed for, if that object has the literals of the route's rule.
NothingInvented ==
    \A pair \in Listed :
       /\ route.rewrites # << >> => /\ IsPrefix(route.rewrites[1].before, pair[2])
                                    /\ IsSuffix(route.rewrites[1].after, pair[2])
       => /\ Matches(route, pair[1])
          /\ Physical(route, pair[1]) = pair[2]
=============================================================================

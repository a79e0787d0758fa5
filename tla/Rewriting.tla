----------------------------- MODULE Rewriting -----------------------------
(***************************************************************************)
(* Matcher.rewrite and the templates of internal/template: how a route     *)
(* turns an object key into the key it has at the backend.                 *)
(*                                                                         *)
(* A key is a sequence of tokens.  A regular expression is what the code   *)
(* sees of it: Find gives the text of group 0, 1, ... of the leftmost      *)
(* match, where an optional group that took no part is Unset, and Names    *)
(* the number of each named group.                                         *)
(***************************************************************************)
EXTENDS Naturals, Sequences, SequencesExt

CONSTANTS
    Find(_, _),   \* FindStringSubmatchIndex: NoMatch or group -> text
    Names(_),     \* SubexpNames: name -> number of the group
    NoMatch,
    Unset

\* Template nodes.  A placeholder has a name or, when that is "", an index,
\* and op says what its inner template is for: "" none, ":-" or ":+".
Literal(s) == [node |-> "literal", text |-> s]
Var(name, index, op, inner) ==
    [node |-> "placeholder", name |-> name, index |-> index, op |-> op,
     inner |-> inner]

\* The value of a placeholder; empty when there is none.
ValueOf(n, named, groups) ==
    IF n.name # ""
    THEN IF n.name \in DOMAIN named THEN named[n.name] ELSE << >>
    ELSE IF n.index \in DOMAIN groups THEN groups[n.index] ELSE << >>

RECURSIVE Execute(_, _, _)
Execute(nodes, named, groups) ==
    LET Value(n) ==
          LET v == ValueOf(n, named, groups)
          IN CASE n.op = ""   -> v
               [] n.op = ":-" -> IF v # << >> THEN v
                                 ELSE Execute(n.inner, named, groups)
               [] n.op = ":+" -> IF v # << >>
                                 THEN Execute(n.inner, named, groups)
                                 ELSE << >>
        Emit(n) == IF n.node = "literal" THEN n.text ELSE Value(n)
    IN FlattenSeq([i \in 1..Len(nodes) |-> Emit(nodes[i])])

\* The named groups that took part in a match, over those known before.
WithNamed(named, pattern, groups) ==
    LET new == {x \in DOMAIN Names(pattern) : groups[Names(pattern)[x]] # Unset}
    IN [x \in DOMAIN named \cup new |->
          IF x \in new THEN groups[Names(pattern)[x]] ELSE named[x]]

\* substituteCaptures slices the key at every group's bounds before it looks
\* at the template: an Unset group is the slice [-1:-1].
Sliceable(groups) == \A i \in DOMAIN groups : groups[i] # Unset

\* One rule, on the state of the loop: the key so far, the named captures.
\* A rule with a pattern works on the present key; one without starts again
\* from the match of the route's path.
ApplyRule(s, rule, groups) ==
    IF ~s.ok THEN s
    ELSE IF ~rule.hasPattern
    THEN IF Sliceable(groups)
         THEN [s EXCEPT !.key = Execute(rule.result, s.named, groups)]
         ELSE [s EXCEPT !.ok = FALSE]
    ELSE LET sub == Find(rule.pattern, s.key)
         IN IF sub = NoMatch THEN s
            ELSE LET named == WithNamed(s.named, rule.pattern, sub)
                 IN IF Sliceable(sub)
                    THEN [s EXCEPT !.key = Execute(rule.result, named, sub),
                                   !.named = named]
                    ELSE [s EXCEPT !.ok = FALSE]

PathMatches(route, key) == Find(route.path, key) # NoMatch

RewriteKey(route, key) ==
    LET groups == Find(route.path, key)
        start  == [ok |-> TRUE, key |-> key,
                   named |-> WithNamed(<< >>, route.path, groups)]
        end    == FoldLeft(LAMBDA s, r : ApplyRule(s, r, groups),
                           start, route.rewrites)
    IN [ok |-> end.ok, key |-> end.key]
=============================================================================

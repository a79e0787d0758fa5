---------------------------- MODULE RouteMatcher ----------------------------
(***************************************************************************)
(* routing.Matcher: request goroutines that look a decision up in a shared *)
(* LRU cache and, when it is not there, scan the bucket's routes in order  *)
(* and add what they find.  The lookup and the insertion are separate      *)
(* critical sections of the cache's lock; between them other goroutines    *)
(* add, evict and purge.  The route lists never change after start-up.     *)
(*                                                                         *)
(* Which entry the LRU evicts is left open: nothing here depends on it.    *)
(* Bucket names, keys and methods are sequences of strings, so that the    *)
(* cache key is the concatenation the code formats.                        *)
(***************************************************************************)
EXTENDS Naturals, Sequences, FiniteSets

CONSTANTS
    Callers,        \* the goroutines that call Match
    Buckets,        \* bucket names a request can carry, configured or not
    Keys,           \* object keys
    Methods,        \* HTTP methods
    Routes,         \* Config.Buckets: configured bucket -> its route list
    Matches(_, _),  \* route.Path matches the key
    Rewrite(_, _),  \* Matcher.rewrite: [ok, key], ok = FALSE when it panics
    CacheSize       \* 0: no cache

\* S3 bucket names and HTTP methods hold no colon; object keys may.  The
\* router itself does not check the names in its configuration.
ASSUME RouteMatcherAssumption ==
    /\ Buckets \cup Keys \cup Methods \subseteq Seq(STRING)
    /\ \A s \in Buckets \cup Methods : \A i \in 1..Len(s) : s[i] # ":"
    /\ \A b \in DOMAIN Routes :
         Len(Routes[b]) \in Nat /\ DOMAIN Routes[b] = 1..Len(Routes[b])
    /\ CacheSize \in Nat

VARIABLES
    question,  \* question[g]: the arguments of g's last call
    answer,    \* answer[g]: what that call returned, "pending" while it runs
    at,        \* at[g]: the route g tries next, 0 before the cache lookup
    cache      \* the LRU: cache key -> Decision

vars == <<question, answer, at, cache>>

Questions == [bucket : Buckets, key : Keys, method : Methods]

Pending == [kind |-> "pending"]

\* Decision, or the panic that rewriting ends in.
Outcome(route, key) ==
    LET r == Rewrite(route, key)
    IN IF r.ok
       THEN [kind |-> "decided", backend |-> route.backend, key |-> r.key]
       ELSE [kind |-> "panic"]

\* Mutant: the bucket is left out.
CacheKeyNoBucket(q) == q.key \o <<":">> \o q.method

\* Sprintf("%s:%s:%s", bucket, objectKey, method)
CacheKey(q) == q.bucket \o <<":">> \o q.key \o <<":">> \o q.method

-----------------------------------------------------------------------------
Init ==
    /\ question \in [Callers -> Questions]
    /\ answer = [g \in Callers |-> [kind |-> "idle"]]
    /\ at = [g \in Callers |-> 0]
    /\ cache = << >>

\* A goroutine enters Match for another request.
Call(g) ==
    /\ answer[g] # Pending
    /\ \E q \in Questions : question' = [question EXCEPT ![g] = q]
    /\ answer' = [answer EXCEPT ![g] = Pending]
    /\ at' = [at EXCEPT ![g] = 0]
    /\ UNCHANGED cache

Return(g, a) == answer' = [answer EXCEPT ![g] = a]

\* Mutant: the scan that follows a miss starts one route late.
LookupLate(g) ==
    /\ answer[g] = Pending /\ at[g] = 0
    /\ question[g].bucket \in DOMAIN Routes
    /\ CacheKey(question[g]) \notin DOMAIN cache
    /\ at' = [at EXCEPT ![g] = 2]
    /\ UNCHANGED <<question, answer, cache>>

\* The bucket check and the cache lookup.
Lookup(g) ==
    /\ answer[g] = Pending /\ at[g] = 0
    /\ \/ /\ question[g].bucket \notin DOMAIN Routes
          /\ Return(g, [kind |-> "no bucket"])
          /\ UNCHANGED at
       \/ /\ question[g].bucket \in DOMAIN Routes
          /\ CacheKey(question[g]) \in DOMAIN cache
          /\ Return(g, cache[CacheKey(question[g])])
          /\ UNCHANGED at
       \/ /\ question[g].bucket \in DOMAIN Routes
          /\ CacheKey(question[g]) \notin DOMAIN cache
          /\ at' = [at EXCEPT ![g] = 1]
          /\ UNCHANGED answer
    /\ UNCHANGED <<question, cache>>

Candidates(g) == Routes[question[g].bucket]

Scanning(g) == answer[g] = Pending /\ at[g] > 0

\* Path does not match: on to the next route.
Skip(g) ==
    /\ Scanning(g) /\ at[g] <= Len(Candidates(g))
    /\ ~Matches(Candidates(g)[at[g]], question[g].key)
    /\ at' = [at EXCEPT ![g] = @ + 1]
    /\ UNCHANGED <<question, answer, cache>>

\* Mutant: no entry is evicted.
AddUnbounded(k, d) ==
    cache' = [x \in DOMAIN cache \cup {k} |-> IF x = k THEN d ELSE cache[x]]

\* lru.Add: overwrite, fill a free place, or evict one entry.
Add(k, d) ==
    \E old \in SUBSET (DOMAIN cache \ {k}) :
        /\ IF k \in DOMAIN cache \/ Cardinality(DOMAIN cache) < CacheSize
           THEN old = {} ELSE \E x \in DOMAIN cache : old = {x}
        /\ cache' = [x \in (DOMAIN cache \cup {k}) \ old |->
                       IF x = k THEN d ELSE cache[x]]

\* Path matches: rewrite the key, cache the decision and return it.  A panic
\* leaves Match before the cache is touched.
Take(g) ==
    /\ Scanning(g) /\ at[g] <= Len(Candidates(g))
    /\ Matches(Candidates(g)[at[g]], question[g].key)
    /\ LET d == Outcome(Candidates(g)[at[g]], question[g].key)
       IN /\ Return(g, d)
          /\ IF CacheSize > 0 /\ d.kind = "decided"
             THEN Add(CacheKey(question[g]), d)
             ELSE UNCHANGED cache
    /\ UNCHANGED <<question, at>>

\* No route is left; the failure is not cached.
NoRoute(g) ==
    /\ Scanning(g) /\ at[g] > Len(Candidates(g))
    /\ Return(g, [kind |-> "no route"])
    /\ UNCHANGED <<question, at, cache>>

InvalidateCache ==
    /\ cache' = << >>
    /\ UNCHANGED <<question, answer, at>>

Next ==
    \/ \E g \in Callers : Call(g) \/ Lookup(g) \/ Skip(g) \/ Take(g) \/ NoRoute(g)
    \/ InvalidateCache

Spec == Init /\ [][Next]_vars
-----------------------------------------------------------------------------
(* Properties.                                                             *)

Outcomes ==
    UNION {UNION {{Outcome(Routes[b][i], k) :
                     k \in {x \in Keys : Matches(Routes[b][i], x)}} :
                   i \in 1..Len(Routes[b])} : b \in DOMAIN Routes}

Answers == [kind : {"idle", "pending", "no bucket", "no route"}] \cup Outcomes

\* Every variable stays in its range, and the cache within its size.
TypeOK ==
    /\ question \in [Callers -> Questions]
    /\ answer \in [Callers -> Answers]
    /\ at \in [Callers -> Nat]
    /\ DOMAIN cache \subseteq {CacheKey(q) : q \in Questions}
    /\ Cardinality(DOMAIN cache) <= CacheSize

\* Routing with the cache and the interleaved scans implements the promise of
\* module FirstMatch: whatever others add, evict or purge between a miss and
\* the insertion that follows it, every call returns what the first matching
\* route says.
Promise == INSTANCE FirstMatch

RoutesFirst == Promise!FirstMatchSpec

\* A decision in the cache is the right one for every request that can find
\* it there, for that bucket and no other.
CacheSound ==
    \A q \in Questions :
        CacheKey(q) \in DOMAIN cache =>
            /\ q.bucket \in DOMAIN Routes
            /\ cache[CacheKey(q)].kind = "decided"
            /\ Promise!Right(q, cache[CacheKey(q)])
=============================================================================

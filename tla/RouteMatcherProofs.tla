------------------------- MODULE RouteMatcherProofs -------------------------
(***************************************************************************)
(* The cached matcher is first-match routing, for every routing table,     *)
(* number of goroutines and cache size.                                    *)
(***************************************************************************)
EXTENDS RouteMatcher, SequenceTheorems, FiniteSetTheorems, TLAPS

-----------------------------------------------------------------------------
(* The cache key.                                                          *)

Tokens == STRING \cup {":"}

LEMMA TokenSequences == Seq(STRING) \subseteq Seq(Tokens)
  BY DEF Tokens

\* Where the tokens of one part land in a concatenation.
LEMMA ConcatLayout ==
    ASSUME NEW x \in Seq(Tokens), NEW y \in Seq(Tokens)
    PROVE  /\ x \o y \in Seq(Tokens)
           /\ Len(x \o y) = Len(x) + Len(y)
           /\ \A i \in 1..Len(x) : (x \o y)[i] = x[i]
           /\ \A i \in 1..Len(y) : (x \o y)[Len(x) + i] = y[i]
  <1>1. \A i \in 1..Len(y) : Len(x) + i \in 1..(Len(x) + Len(y))
    BY LenProperties
  <1> QED
    BY <1>1, ConcatProperties, LenProperties

LEMMA ColonLayout ==
    ASSUME NEW x \in Seq(Tokens)
    PROVE  /\ x \o <<":">> \in Seq(Tokens)
           /\ Len(x \o <<":">>) = Len(x) + 1
           /\ \A i \in 1..Len(x) : (x \o <<":">>)[i] = x[i]
           /\ (x \o <<":">>)[Len(x) + 1] = ":"
  <1>1. PICK c \in Seq(Tokens) : c = <<":">> /\ Len(c) = 1 /\ c[1] = ":"
    <2>2. <<":">> \in Seq(Tokens)
      BY DEF Tokens
    <2>3. Len(<<":">>) = 1 /\ <<":">>[1] = ":"
      OBVIOUS
    <2> QED
      BY <2>2, <2>3
  <1>2. 1 \in 1..Len(c)
    BY <1>1
  <1> QED
    BY <1>1, <1>2, ConcatLayout

\* The text Sprintf produces, and where its parts are.
Text(b, k, m) == (((b \o <<":">>) \o k) \o <<":">>) \o m

Layout(b, k, m, s) ==
    /\ s \in Seq(Tokens)
    /\ Len(s) = Len(b) + Len(k) + Len(m) + 2
    /\ \A i \in 1..Len(b) : s[i] = b[i]
    /\ s[Len(b) + 1] = ":"
    /\ \A i \in 1..Len(k) : s[Len(b) + 1 + i] = k[i]
    /\ s[Len(b) + Len(k) + 2] = ":"
    /\ \A i \in 1..Len(m) : s[Len(b) + Len(k) + 2 + i] = m[i]

LEMMA CacheKeyLayout ==
    ASSUME NEW b \in Seq(Tokens), NEW k \in Seq(Tokens), NEW m \in Seq(Tokens)
    PROVE  Layout(b, k, m, Text(b, k, m))
  <1> DEFINE u == b \o <<":">>  v == u \o k  w == v \o <<":">>  s == w \o m
  <1>1. /\ u \in Seq(Tokens) /\ Len(u) = Len(b) + 1
        /\ \A i \in 1..Len(b) : u[i] = b[i]
        /\ u[Len(b) + 1] = ":"
    BY ColonLayout
  <1> HIDE DEF u
  <1>2. /\ v \in Seq(Tokens) /\ Len(v) = Len(u) + Len(k)
        /\ \A i \in 1..Len(u) : v[i] = u[i]
        /\ \A i \in 1..Len(k) : v[Len(u) + i] = k[i]
    BY <1>1, ConcatLayout
  <1> HIDE DEF v
  <1>3. /\ w \in Seq(Tokens) /\ Len(w) = Len(v) + 1
        /\ \A i \in 1..Len(v) : w[i] = v[i]
        /\ w[Len(v) + 1] = ":"
    BY <1>2, ColonLayout
  <1> HIDE DEF w
  <1>4. /\ s \in Seq(Tokens) /\ Len(s) = Len(w) + Len(m)
        /\ \A i \in 1..Len(w) : s[i] = w[i]
        /\ \A i \in 1..Len(m) : s[Len(w) + i] = m[i]
    BY <1>3, ConcatLayout
  <1>5. Text(b, k, m) = s
    BY DEF Text, u, v, w
  <1> HIDE DEF s
  <1>6. /\ Len(b) \in Nat /\ Len(k) \in Nat /\ Len(m) \in Nat
        /\ Len(u) = Len(b) + 1 /\ Len(v) = Len(b) + Len(k) + 1
        /\ Len(w) = Len(b) + Len(k) + 2
    BY <1>1, <1>2, <1>3, LenProperties
  <1>7. \A i \in 1..Len(b) : s[i] = b[i]
    BY <1>1, <1>2, <1>3, <1>4, <1>6
  <1>8. s[Len(b) + 1] = ":"
    <2>1. Len(u) \in 1..Len(u) /\ Len(u) \in 1..Len(v) /\ Len(u) \in 1..Len(w)
      BY <1>6
    <2>2. s[Len(u)] = u[Len(u)]
      BY <2>1, <1>2, <1>3, <1>4
    <2> QED
      BY <2>2, <1>1
  <1>9. \A i \in 1..Len(k) : s[Len(b) + 1 + i] = k[i]
    <2> TAKE i \in 1..Len(k)
    <2>1. Len(u) + i \in 1..Len(v) /\ Len(u) + i \in 1..Len(w)
      BY <1>6
    <2>2. s[Len(u) + i] = k[i]
      BY <2>1, <1>2, <1>3, <1>4
    <2> QED
      BY <2>2, <1>1
  <1>10. s[Len(b) + Len(k) + 2] = ":"
    BY <1>3, <1>4, <1>6
  <1>11. Layout(b, k, m, s)
    BY <1>4, <1>6, <1>7, <1>8, <1>9, <1>10 DEF Layout
  <1> QED
    BY <1>5, <1>11

\* Two requests share a cache key only if they name the same bucket and the
\* same object: the first colon ends the bucket and the last starts the
\* method.
LEMMA CacheKeyInjective ==
    ASSUME NEW q \in Questions, NEW r \in Questions,
           CacheKey(q) = CacheKey(r)
    PROVE  q.bucket = r.bucket /\ q.key = r.key
  <1> DEFINE b == q.bucket  k == q.key  m == q.method
             c == r.bucket  l == r.key  n == r.method
             s == CacheKey(q)
  <1>1. /\ b \in Seq(Tokens) /\ k \in Seq(Tokens) /\ m \in Seq(Tokens)
        /\ c \in Seq(Tokens) /\ l \in Seq(Tokens) /\ n \in Seq(Tokens)
    BY RouteMatcherAssumption, TokenSequences DEF Questions
  <1>2. /\ \A i \in 1..Len(b) : b[i] # ":"
        /\ \A i \in 1..Len(m) : m[i] # ":"
        /\ \A i \in 1..Len(c) : c[i] # ":"
        /\ \A i \in 1..Len(n) : n[i] # ":"
    BY RouteMatcherAssumption DEF Questions
  <1>3. s = Text(b, k, m) /\ s = Text(c, l, n)
    BY DEF CacheKey, Text
  <1> HIDE DEF b, k, m, c, l, n, s
  <1>4. /\ Len(b) \in Nat /\ Len(k) \in Nat /\ Len(m) \in Nat
        /\ Len(c) \in Nat /\ Len(l) \in Nat /\ Len(n) \in Nat
    BY <1>1, LenProperties
  <1>5. /\ Len(s) = Len(b) + Len(k) + Len(m) + 2
        /\ \A i \in 1..Len(b) : s[i] = b[i]
        /\ s[Len(b) + 1] = ":"
        /\ \A i \in 1..Len(k) : s[Len(b) + 1 + i] = k[i]
        /\ s[Len(b) + Len(k) + 2] = ":"
        /\ \A i \in 1..Len(m) : s[Len(b) + Len(k) + 2 + i] = m[i]
    <2>1. Layout(b, k, m, Text(b, k, m))
      BY <1>1, CacheKeyLayout
    <2>2. Layout(b, k, m, s)
      BY <2>1, <1>3
    <2> QED
      BY <2>2 DEF Layout
  <1>6. /\ Len(s) = Len(c) + Len(l) + Len(n) + 2
        /\ \A i \in 1..Len(c) : s[i] = c[i]
        /\ s[Len(c) + 1] = ":"
        /\ \A i \in 1..Len(l) : s[Len(c) + 1 + i] = l[i]
        /\ s[Len(c) + Len(l) + 2] = ":"
        /\ \A i \in 1..Len(n) : s[Len(c) + Len(l) + 2 + i] = n[i]
    <2>1. Layout(c, l, n, Text(c, l, n))
      BY <1>1, CacheKeyLayout
    <2>2. Layout(c, l, n, s)
      BY <2>1, <1>3
    <2> QED
      BY <2>2 DEF Layout
  <1>7. Len(b) = Len(c)
    <2>1. ASSUME Len(b) < Len(c) PROVE FALSE
      <3>1. Len(b) + 1 \in 1..Len(c)
        BY <1>4, <2>1
      <3> QED
        BY <3>1, <1>2, <1>5, <1>6
    <2>2. ASSUME Len(c) < Len(b) PROVE FALSE
      <3>1. Len(c) + 1 \in 1..Len(b)
        BY <1>4, <2>2
      <3> QED
        BY <3>1, <1>2, <1>5, <1>6
    <2> QED
      BY <2>1, <2>2, <1>4
  <1>8. b = c
    BY <1>1, <1>5, <1>6, <1>7, SeqEqual
  <1>9. Len(m) = Len(n)
    <2>1. Len(b) + Len(k) + Len(m) = Len(c) + Len(l) + Len(n)
      <3>1. Len(b) + Len(k) + Len(m) + 2 = Len(c) + Len(l) + Len(n) + 2
        BY <1>5, <1>6
      <3> QED
        BY <3>1, <1>4
    <2>2. ASSUME Len(m) < Len(n) PROVE FALSE
      <3>1. /\ Len(n) - Len(m) \in 1..Len(n)
            /\ Len(b) + Len(k) + 2 = Len(c) + Len(l) + 2 + (Len(n) - Len(m))
        BY <1>4, <2>1, <2>2
      <3>2. s[Len(b) + Len(k) + 2] = n[Len(n) - Len(m)]
        BY <3>1, <1>6
      <3> QED
        BY <3>1, <3>2, <1>2, <1>5
    <2>3. ASSUME Len(n) < Len(m) PROVE FALSE
      <3>1. /\ Len(m) - Len(n) \in 1..Len(m)
            /\ Len(c) + Len(l) + 2 = Len(b) + Len(k) + 2 + (Len(m) - Len(n))
        BY <1>4, <2>1, <2>3
      <3>2. s[Len(c) + Len(l) + 2] = m[Len(m) - Len(n)]
        BY <3>1, <1>5
      <3> QED
        BY <3>1, <3>2, <1>2, <1>6
    <2> QED
      BY <2>2, <2>3, <1>4
  <1>10. Len(k) = Len(l)
    BY <1>4, <1>5, <1>6, <1>7, <1>9
  <1>11. k = l
    <2>1. \A i \in 1..Len(k) : k[i] = l[i]
      BY <1>5, <1>6, <1>7, <1>10
    <2> QED
      BY <1>1, <1>10, <2>1, SeqEqual
  <1> QED
    BY <1>8, <1>11 DEF b, k, c, l

-----------------------------------------------------------------------------
(* The inductive invariant.  A scan has passed only routes that do not     *)
(* match, so what it takes is the first match; together with the cache's   *)
(* soundness this makes every answer right.                                *)

ScanInv ==
    \A g \in Callers :
        Scanning(g) =>
            /\ question[g].bucket \in DOMAIN Routes
            /\ at[g] <= Len(Candidates(g)) + 1
            /\ \A j \in 1..(at[g] - 1) : ~Matches(Candidates(g)[j], question[g].key)

CacheInv ==
    /\ cache = [x \in DOMAIN cache |-> cache[x]]
    /\ IsFiniteSet(DOMAIN cache)
    /\ CacheSound

IInv == TypeOK /\ ScanInv /\ CacheInv

LEMMA OutcomeKinds ==
    ASSUME NEW r, NEW k
    PROVE  Outcome(r, k).kind \in {"decided", "panic"}
  BY DEF Outcome

\* What a matching route makes of a key is a member of Outcomes.
LEMMA MatchIsOutcome ==
    ASSUME NEW b \in DOMAIN Routes, NEW i \in 1..Len(Routes[b]), NEW k \in Keys,
           Matches(Routes[b][i], k)
    PROVE  Outcome(Routes[b][i], k) \in Outcomes
  <1> DEFINE Of(j) == {Outcome(Routes[b][j], x) : x \in {y \in Keys : Matches(Routes[b][j], y)}}
  <1>1. Outcome(Routes[b][i], k) \in Of(i)
    OBVIOUS
  <1> QED BY <1>1 DEF Outcomes

\* What a scan takes is the right answer, and a member of Outcomes.
LEMMA TakenIsRight ==
    ASSUME IInv, NEW g \in Callers, Scanning(g), at[g] <= Len(Candidates(g)),
           Matches(Candidates(g)[at[g]], question[g].key)
    PROVE  LET d == Outcome(Candidates(g)[at[g]], question[g].key)
           IN d \in Outcomes /\ Promise!Right(question[g], d)
  <1> DEFINE q == question[g]
             rs == Routes[q.bucket]
             i == at[g]
  <1>1. q \in Questions /\ q.key \in Keys /\ q.bucket \in DOMAIN Routes
    BY DEF IInv, TypeOK, ScanInv, Questions
  <1>2. i \in 1..Len(rs)
    <2>1. i \in Nat /\ i > 0 /\ i <= Len(rs)
      BY DEF IInv, TypeOK, Scanning, Candidates
    <2> QED BY <2>1, <1>1, RouteMatcherAssumption
  <1>3. Promise!Wins(rs, i, q.key)
    BY DEF IInv, ScanInv, Promise!Wins, Candidates
  <1>4. Promise!Right(q, Outcome(rs[i], q.key))
    BY <1>1, <1>2, <1>3 DEF Promise!Right
  <1>5. Outcome(rs[i], q.key) \in Outcomes
    <2>1. Matches(rs[i], q.key)
      BY DEF Candidates
    <2> HIDE DEF q, rs, i
    <2> QED BY <1>1, <1>2, <2>1, MatchIsOutcome DEF rs
  <1> QED BY <1>4, <1>5 DEF Candidates

\* What a lookup finds is the right answer, and a member of Outcomes.
LEMMA FoundIsRight ==
    ASSUME IInv, NEW q \in Questions, CacheKey(q) \in DOMAIN cache
    PROVE  /\ cache[CacheKey(q)] \in Outcomes
           /\ Promise!Right(q, cache[CacheKey(q)])
  <1> DEFINE d == cache[CacheKey(q)]
  <1>1. q.bucket \in DOMAIN Routes /\ d.kind = "decided" /\ Promise!Right(q, d)
    BY DEF IInv, CacheInv, CacheSound
  <1>2. PICK i \in 1..Len(Routes[q.bucket]) :
             /\ Matches(Routes[q.bucket][i], q.key)
             /\ d = Outcome(Routes[q.bucket][i], q.key)
    <2>1. d # [kind |-> "no route"]
      <3>1. [kind |-> "no route"].kind # "decided"
        OBVIOUS
      <3> QED BY <1>1, <3>1
    <2> QED BY <1>1, <2>1 DEF Promise!Right, Promise!Wins
  <1>3. q.key \in Keys
    BY DEF Questions
  <1> QED BY <1>1, <1>2, <1>3, MatchIsOutcome

LEMMA InitIInv == Init => IInv
  <1> SUFFICES ASSUME Init PROVE IInv
    OBVIOUS
  <1>1. DOMAIN cache = {} /\ cache = [x \in DOMAIN cache |-> cache[x]]
    BY DEF Init
  <1>2. TypeOK
    BY <1>1, RouteMatcherAssumption, FS_EmptySet DEF Init, TypeOK, Answers
  <1>3. ScanInv
    BY DEF Init, ScanInv, Scanning
  <1>4. CacheInv
    BY <1>1, FS_EmptySet DEF CacheInv, CacheSound
  <1> QED BY <1>2, <1>3, <1>4 DEF IInv

\* An insertion keeps the cache within its size and keeps it sound.
LEMMA AddKeepsCache ==
    ASSUME IInv, CacheSize > 0, NEW q \in Questions, NEW d,
           q.bucket \in DOMAIN Routes, d.kind = "decided", Promise!Right(q, d),
           Add(CacheKey(q), d)
    PROVE  /\ DOMAIN cache' \subseteq {CacheKey(r) : r \in Questions}
           /\ Cardinality(DOMAIN cache') <= CacheSize
           /\ CacheInv'
  <1> DEFINE k == CacheKey(q)
             D == DOMAIN cache
  <1>1. PICK old \in SUBSET (D \ {k}) :
          /\ IF k \in D \/ Cardinality(D) < CacheSize
             THEN old = {} ELSE \E x \in D : old = {x}
          /\ cache' = [x \in (D \cup {k}) \ old |-> IF x = k THEN d ELSE cache[x]]
    BY DEF Add
  <1>2. DOMAIN cache' = (D \cup {k}) \ old
    BY <1>1
  <1>3. /\ IsFiniteSet(D) /\ Cardinality(D) \in Nat /\ Cardinality(D) <= CacheSize
        /\ CacheSize \in Nat
    BY RouteMatcherAssumption, FS_CardinalityType DEF IInv, CacheInv, TypeOK
  <1>4. /\ IsFiniteSet(D \cup {k})
        /\ Cardinality(D \cup {k}) = IF k \in D THEN Cardinality(D)
                                     ELSE Cardinality(D) + 1
    BY <1>3, FS_AddElement
  <1>5. IsFiniteSet(DOMAIN cache') /\ Cardinality(DOMAIN cache') <= CacheSize
    <2>1. CASE k \in D \/ Cardinality(D) < CacheSize
      <3>1. (D \cup {k}) \ old = D \cup {k}
        BY <1>1, <2>1
      <3>2. CASE k \in D
        BY <1>2, <1>3, <1>4, <3>1, <3>2
      <3>3. CASE k \notin D
        <4>1. DOMAIN cache' = D \cup {k} /\ IsFiniteSet(D \cup {k})
          BY <1>2, <1>4, <3>1
        <4>2. Cardinality(D \cup {k}) = Cardinality(D) + 1
          BY <1>4, <3>3
        <4>3. Cardinality(D) < CacheSize
          BY <2>1, <3>3
        <4> HIDE DEF D, k
        <4> QED BY <4>1, <4>2, <4>3, <1>3
      <3> QED BY <3>2, <3>3
    <2>2. CASE ~(k \in D \/ Cardinality(D) < CacheSize)
      <3>1. PICK x \in D : old = {x}
        BY <1>1, <2>2
      <3>2. /\ IsFiniteSet((D \cup {k}) \ {x})
            /\ Cardinality((D \cup {k}) \ {x}) = Cardinality(D \cup {k}) - 1
        BY <1>4, <3>1, FS_RemoveElement
      <3> QED BY <1>2, <1>3, <1>4, <2>2, <3>1, <3>2
    <2> QED BY <2>1, <2>2
  <1>6. CacheSound'
    <2> SUFFICES ASSUME NEW r \in Questions, CacheKey(r) \in DOMAIN cache'
                 PROVE  /\ r.bucket \in DOMAIN Routes
                        /\ cache'[CacheKey(r)].kind = "decided"
                        /\ Promise!Right(r, cache'[CacheKey(r)])
      BY DEF CacheSound
    <2>1. CASE CacheKey(r) = k
      <3>1. r.bucket = q.bucket /\ r.key = q.key
        BY <2>1, CacheKeyInjective
      <3>2. cache'[CacheKey(r)] = d
        BY <1>1, <1>2, <2>1
      <3> QED BY <3>1, <3>2 DEF Promise!Right
    <2>2. CASE CacheKey(r) # k
      <3>1. CacheKey(r) \in D /\ cache'[CacheKey(r)] = cache[CacheKey(r)]
        BY <1>1, <1>2, <2>2
      <3> QED BY <3>1 DEF IInv, CacheInv, CacheSound
    <2> QED BY <2>1, <2>2
  <1>7. cache' = [x \in DOMAIN cache' |-> cache'[x]]
    BY <1>1
  <1>8. DOMAIN cache' \subseteq {CacheKey(r) : r \in Questions}
    BY <1>2 DEF IInv, TypeOK
  <1> QED BY <1>5, <1>6, <1>7, <1>8 DEF CacheInv

LEMMA NextIInv == IInv /\ [Next]_vars => IInv'
  <1> SUFFICES ASSUME IInv, [Next]_vars PROVE IInv'
    OBVIOUS
  <1> USE DEF IInv
  <1>1. ASSUME NEW g \in Callers, Call(g) PROVE IInv'
    <2>1. TypeOK'
      BY <1>1 DEF Call, TypeOK, Answers, Pending
    <2>2. ScanInv'
      <3> SUFFICES ASSUME NEW h \in Callers, Scanning(h)'
                   PROVE  /\ question[h]' = question[h] /\ at[h]' = at[h]
                          /\ Scanning(h)
        BY DEF ScanInv, Candidates
      <3>1. h # g
        BY <1>1 DEF Call, Scanning, TypeOK
      <3> QED BY <1>1, <3>1 DEF Call, Scanning, TypeOK
    <2>3. CacheInv'
      BY <1>1 DEF Call, CacheInv, CacheSound
    <2> QED BY <2>1, <2>2, <2>3
  <1>2. ASSUME NEW g \in Callers, Lookup(g) PROVE IInv'
    <2>1. question[g] \in Questions
      BY DEF TypeOK
    <2>2. \/ at' = at
          \/ at' = [at EXCEPT ![g] = 1] /\ question[g].bucket \in DOMAIN Routes
      BY <1>2 DEF Lookup
    <2>3. TypeOK'
      <3>1. \/ answer' = answer
            \/ answer' = [answer EXCEPT ![g] = [kind |-> "no bucket"]]
            \/ /\ CacheKey(question[g]) \in DOMAIN cache
               /\ answer' = [answer EXCEPT ![g] = cache[CacheKey(question[g])]]
        BY <1>2 DEF Lookup, Return
      <3>2. answer' \in [Callers -> Answers]
        <4>1. CacheKey(question[g]) \in DOMAIN cache =>
                cache[CacheKey(question[g])] \in Answers
          BY <2>1, FoundIsRight DEF Answers
        <4>2. answer \in [Callers -> Answers] /\ [kind |-> "no bucket"] \in Answers
          BY DEF TypeOK, Answers
        <4> QED BY <3>1, <4>1, <4>2
      <3>3. at' \in [Callers -> Nat]
        BY <2>2 DEF TypeOK
      <3> QED BY <1>2, <3>2, <3>3 DEF Lookup, TypeOK
    <2>4. ScanInv'
      <3> SUFFICES ASSUME NEW h \in Callers, Scanning(h)'
                   PROVE  /\ question[h].bucket \in DOMAIN Routes
                          /\ at'[h] <= Len(Candidates(h)) + 1
                          /\ \A j \in 1..(at'[h] - 1) :
                               ~Matches(Candidates(h)[j], question[h].key)
        BY <1>2 DEF ScanInv, Candidates, Lookup
      <3>1. CASE h = g
        <4>1. question[g].bucket \in DOMAIN Routes /\ at'[g] = 1
          <5>1. at[g] = 0 /\ at'[g] > 0 /\ at \in [Callers -> Nat]
            BY <1>2, <3>1 DEF Lookup, Scanning, TypeOK
          <5> QED BY <2>2, <5>1
        <4> QED BY <3>1, <4>1, RouteMatcherAssumption DEF Candidates
      <3>2. CASE h # g
        <4>1. Scanning(h) /\ at'[h] = at[h]
          BY <1>2, <2>2, <3>2 DEF Lookup, Scanning, TypeOK, Return
        <4> QED BY <4>1 DEF ScanInv
      <3> QED BY <3>1, <3>2
    <2>5. CacheInv'
      BY <1>2 DEF Lookup, CacheInv, CacheSound
    <2> QED BY <2>3, <2>4, <2>5
  <1>3. ASSUME NEW g \in Callers, Skip(g) PROVE IInv'
    <2>1. TypeOK'
      BY <1>3 DEF Skip, TypeOK
    <2>2. ScanInv'
      <3> SUFFICES ASSUME NEW h \in Callers, Scanning(h)'
                   PROVE  /\ question[h].bucket \in DOMAIN Routes
                          /\ at'[h] <= Len(Candidates(h)) + 1
                          /\ \A j \in 1..(at'[h] - 1) :
                               ~Matches(Candidates(h)[j], question[h].key)
        BY <1>3 DEF ScanInv, Candidates, Skip
      <3>1. CASE h = g
        <4>1. /\ Scanning(g) /\ at[g] \in Nat /\ at'[g] = at[g] + 1
              /\ at[g] <= Len(Candidates(g))
              /\ ~Matches(Candidates(g)[at[g]], question[g].key)
          BY <1>3 DEF Skip, TypeOK
        <4>2. question[g].bucket \in DOMAIN Routes /\ Len(Candidates(g)) \in Nat
          BY <4>1, RouteMatcherAssumption DEF ScanInv, Candidates
        <4>3. \A j \in 1..(at'[g] - 1) : j \in 1..(at[g] - 1) \/ j = at[g]
          BY <4>1
        <4> QED BY <3>1, <4>1, <4>2, <4>3 DEF ScanInv
      <3>2. CASE h # g
        <4>1. Scanning(h) /\ at'[h] = at[h]
          BY <1>3, <3>2 DEF Skip, Scanning, TypeOK
        <4> QED BY <4>1 DEF ScanInv
      <3> QED BY <3>1, <3>2
    <2>3. CacheInv'
      BY <1>3 DEF Skip, CacheInv, CacheSound
    <2> QED BY <2>1, <2>2, <2>3
  <1>4. ASSUME NEW g \in Callers, Take(g) PROVE IInv'
    <2> DEFINE d == Outcome(Candidates(g)[at[g]], question[g].key)
    <2>1. /\ d \in Outcomes /\ Promise!Right(question[g], d)
          /\ question[g] \in Questions /\ question[g].bucket \in DOMAIN Routes
      BY <1>4, TakenIsRight DEF Take, TypeOK, ScanInv
    <2>2. answer' = [answer EXCEPT ![g] = d] /\ UNCHANGED <<question, at>>
      BY <1>4 DEF Take, Return
    <2>3. \/ UNCHANGED cache
          \/ CacheSize > 0 /\ d.kind = "decided" /\ Add(CacheKey(question[g]), d)
      BY <1>4 DEF Take
    <2> HIDE DEF d
    <2>4. /\ DOMAIN cache' \subseteq {CacheKey(r) : r \in Questions}
          /\ Cardinality(DOMAIN cache') <= CacheSize
          /\ CacheInv'
      <3>1. CASE UNCHANGED cache
        BY <3>1 DEF TypeOK, CacheInv, CacheSound
      <3>2. CASE CacheSize > 0 /\ d.kind = "decided" /\ Add(CacheKey(question[g]), d)
        BY <2>1, <3>2, AddKeepsCache
      <3> QED BY <2>3, <3>1, <3>2
    <2>5. TypeOK'
      BY <2>1, <2>2, <2>4 DEF TypeOK, Answers
    <2>6. ScanInv'
      <3> SUFFICES ASSUME NEW h \in Callers, Scanning(h)' PROVE Scanning(h)
        BY <2>2 DEF ScanInv, Candidates
      <3>1. CASE h = g
        BY <1>4, <3>1 DEF Take
      <3>2. CASE h # g
        BY <2>2, <3>2 DEF Scanning, TypeOK
      <3> QED BY <3>1, <3>2
    <2> QED BY <2>4, <2>5, <2>6
  <1>5. ASSUME NEW g \in Callers, NoRoute(g) PROVE IInv'
    <2>1. TypeOK'
      BY <1>5 DEF NoRoute, Return, TypeOK, Answers
    <2>2. ScanInv'
      <3> SUFFICES ASSUME NEW h \in Callers, Scanning(h)' PROVE Scanning(h)
        BY <1>5 DEF ScanInv, Candidates, NoRoute
      <3>1. CASE h = g
        BY <1>5, <3>1 DEF NoRoute
      <3>2. CASE h # g
        BY <1>5, <3>2 DEF Scanning, TypeOK, NoRoute, Return
      <3> QED BY <3>1, <3>2
    <2>3. CacheInv'
      BY <1>5 DEF NoRoute, CacheInv, CacheSound
    <2> QED BY <2>1, <2>2, <2>3
  <1>6. CASE InvalidateCache
    <2>1. DOMAIN cache' = {} /\ cache' = [x \in DOMAIN cache' |-> cache'[x]]
      BY <1>6 DEF InvalidateCache
    <2>2. TypeOK' /\ CacheInv'
      BY <1>6, <2>1, FS_EmptySet, RouteMatcherAssumption
      DEF InvalidateCache, TypeOK, CacheInv, CacheSound
    <2>3. ScanInv'
      BY <1>6 DEF InvalidateCache, ScanInv, Scanning, Candidates
    <2> QED BY <2>2, <2>3
  <1>7. CASE UNCHANGED vars
    BY <1>7 DEF vars, TypeOK, ScanInv, Scanning, Candidates, CacheInv, CacheSound
  <1> QED BY <1>1, <1>2, <1>3, <1>4, <1>5, <1>6, <1>7 DEF Next

-----------------------------------------------------------------------------
\* Every variable stays in its range and the cache never outgrows CacheSize.
THEOREM TypeCorrect == Spec => []TypeOK
  <1>1. IInv => TypeOK
    BY DEF IInv
  <1> QED BY <1>1, InitIInv, NextIInv, PTL DEF Spec

\* A decision is cached only under keys whose requests it answers rightly.
THEOREM CacheIsSound == Spec => []CacheSound
  <1>1. IInv => CacheSound
    BY DEF IInv, CacheInv
  <1> QED BY <1>1, InitIInv, NextIInv, PTL DEF Spec

\* One call's answer, from the cache or from the scan, is a Reply of the
\* promise.
LEMMA AnswerImplements ==
    ASSUME IInv, NEW g \in Callers, NEW a, answer[g] = Pending, a # Pending,
           answer' = [answer EXCEPT ![g] = a], UNCHANGED question,
           Promise!Right(question[g], a)
    PROVE  Promise!FirstMatchNext
  <1>1. answer'[g] = a
    BY DEF IInv, TypeOK
  <1>2. Promise!Reply(g)
    BY <1>1 DEF Promise!Reply, Promise!Pending, Pending
  <1> QED BY <1>2 DEF Promise!FirstMatchNext

\* The cached matcher implements first-match routing: neither the cache, its
\* evictions and purges nor concurrent misses can be seen in the answers.
THEOREM MatcherRoutesFirst == Spec => RoutesFirst
  <1> USE DEF Promise!Pending, Pending
  <1>1. Init => Promise!FirstMatchInit
    BY DEF Init, Promise!FirstMatchInit
  <1>2. IInv /\ [Next]_vars => [Promise!FirstMatchNext]_<<question, answer>>
    <2> SUFFICES ASSUME IInv, [Next]_vars
                 PROVE  [Promise!FirstMatchNext]_<<question, answer>>
      OBVIOUS
    <2>1. ASSUME NEW g \in Callers, Call(g) PROVE Promise!FirstMatchNext
      <3>1. Promise!Pose(g)
        BY <2>1 DEF Call, Promise!Pose
      <3> QED BY <3>1 DEF Promise!FirstMatchNext
    <2>2. ASSUME NEW g \in Callers, Lookup(g)
          PROVE  Promise!FirstMatchNext \/ UNCHANGED <<question, answer>>
      <3>1. CASE UNCHANGED answer
        BY <2>2, <3>1 DEF Lookup
      <3>2. CASE /\ question[g].bucket \notin DOMAIN Routes
                 /\ Return(g, [kind |-> "no bucket"])
        <4>1. Promise!Right(question[g], [kind |-> "no bucket"])
          BY <3>2 DEF Promise!Right
        <4> QED BY <2>2, <3>2, <4>1, AnswerImplements DEF Lookup, Return
      <3>3. CASE /\ CacheKey(question[g]) \in DOMAIN cache
                 /\ Return(g, cache[CacheKey(question[g])])
        <4>1. question[g] \in Questions
          BY DEF IInv, TypeOK
        <4>2. /\ Promise!Right(question[g], cache[CacheKey(question[g])])
              /\ cache[CacheKey(question[g])].kind = "decided"
          BY <3>3, <4>1, FoundIsRight DEF IInv, CacheInv, CacheSound
        <4>3. cache[CacheKey(question[g])] # Pending
          BY <4>2
        <4> QED BY <2>2, <3>3, <4>2, <4>3, AnswerImplements DEF Lookup, Return
      <3> QED BY <2>2, <3>1, <3>2, <3>3 DEF Lookup
    <2>3. ASSUME NEW g \in Callers, Take(g) PROVE Promise!FirstMatchNext
      <3> DEFINE d == Outcome(Candidates(g)[at[g]], question[g].key)
      <3>1. Promise!Right(question[g], d)
        BY <2>3, TakenIsRight DEF Take
      <3>2. d # Pending
        <4>1. d.kind \in {"decided", "panic"}
          BY OutcomeKinds
        <4> HIDE DEF d
        <4> QED BY <4>1
      <3>3. /\ answer' = [answer EXCEPT ![g] = d] /\ UNCHANGED question
            /\ answer[g] = Pending
        BY <2>3 DEF Take, Return, Scanning
      <3> HIDE DEF d
      <3> QED BY <3>1, <3>2, <3>3, AnswerImplements
    <2>4. ASSUME NEW g \in Callers, NoRoute(g) PROVE Promise!FirstMatchNext
      <3> DEFINE q == question[g]
                 rs == Routes[q.bucket]
      <3>1. /\ q.bucket \in DOMAIN Routes /\ at[g] \in Nat
            /\ at[g] <= Len(rs) + 1 /\ at[g] > Len(rs) /\ Len(rs) \in Nat
            /\ \A j \in 1..(at[g] - 1) : ~Matches(rs[j], q.key)
        BY <2>4, RouteMatcherAssumption
        DEF NoRoute, IInv, TypeOK, ScanInv, Candidates
      <3>2. \A j \in 1..Len(rs) : ~Matches(rs[j], q.key)
        <4>1. at[g] - 1 = Len(rs)
          BY <3>1
        <4> QED BY <3>1, <4>1
      <3>3. Promise!Right(q, [kind |-> "no route"])
        BY <3>1, <3>2 DEF Promise!Right
      <3>4. /\ answer' = [answer EXCEPT ![g] = [kind |-> "no route"]]
            /\ UNCHANGED question /\ answer[g] = Pending
        BY <2>4 DEF NoRoute, Return, Scanning
      <3> QED BY <3>3, <3>4, AnswerImplements
    <2>5. CASE InvalidateCache \/ UNCHANGED vars
      BY <2>5 DEF InvalidateCache, vars
    <2>6. ASSUME NEW g \in Callers, Skip(g) PROVE UNCHANGED <<question, answer>>
      BY <2>6 DEF Skip
    <2> QED BY <2>1, <2>2, <2>3, <2>4, <2>5, <2>6 DEF Next
  <1> QED BY <1>1, <1>2, InitIInv, NextIInv, PTL
          DEF Spec, RoutesFirst, Promise!FirstMatchSpec
=============================================================================

--------------------------- MODULE ListingProofs ---------------------------
(***************************************************************************)
(* Proofs about module Listing, for any routes, keys, backends, clients    *)
(* and page sizes.                                                         *)
(***************************************************************************)
EXTENDS Listing, SequenceTheorems, FiniteSetTheorems, WellFoundedInduction, TLAPS

-----------------------------------------------------------------------------
(* Numbers and finite sets.                                                *)

\* A nonempty set of numbers has a least one.
LEMMA Least ==
    ASSUME NEW S \in SUBSET Nat, S # {}
    PROVE  \E x \in S : \A y \in S : x <= y
<1>1. OpToRel(<, Nat) = {ss \in Nat \X Nat : ss[1] < ss[2]}
  BY DEF OpToRel
<1>2. PICK x \in S : \A y \in S : ~ (<<y, x>> \in OpToRel(<, Nat))
  BY NatLessThanWellFounded, WFMin
<1>3. ASSUME NEW y \in S PROVE x <= y
  <2>1. <<y, x>> \in Nat \X Nat /\ <<y, x>> \notin OpToRel(<, Nat)
    BY <1>2
  <2>2. ~(y < x)
    BY <1>1, <2>1
  <2> QED  BY <2>2
<1> QED  BY <1>3

\* Of finitely many pairs, one has the greatest first component.
LEMMA Greatest ==
    ASSUME NEW S, IsFiniteSet(S), S # {}, \A e \in S : e[1] \in Nat
    PROVE  \E e \in S : \A f \in S : f[1] <= e[1]
<1> DEFINE Beyond(e) == {f \in S : f[1] > e[1]}
           T == {Beyond(e) : e \in S}
<1>1. T # {} /\ T \subseteq FiniteSubsetsOf(S)
  <2>1. \A e \in S : Beyond(e) \in FiniteSubsetsOf(S)
    <3> TAKE e \in S
    <3>1. Beyond(e) \in SUBSET S
      OBVIOUS
    <3> HIDE DEF Beyond
    <3>2. IsFiniteSet(Beyond(e))
      BY <3>1, FS_Subset
    <3> QED  BY <3>1, <3>2 DEF FiniteSubsetsOf
  <2> HIDE DEF Beyond
  <2> QED  BY <2>1
<1>2. PICK X \in T : \A Y \in T : <<Y, X>> \notin StrictSubsetOrdering(S)
  <2> HIDE DEF T
  <2> QED  BY <1>1, FS_StrictSubsetOrderingWellFounded, WFMin
<1>3. PICK e \in S : X = Beyond(e)
  OBVIOUS
<1>4. ASSUME NEW f \in S PROVE f[1] <= e[1]
  <2> SUFFICES ASSUME ~(f[1] <= e[1]) PROVE FALSE
    OBVIOUS
  <2>1. Beyond(f) \subseteq Beyond(e) /\ f \in Beyond(e) /\ f \notin Beyond(f)
    OBVIOUS
  <2>2. <<Beyond(f), Beyond(e)>> \in (SUBSET S) \X (SUBSET S)
    OBVIOUS
  <2>3. <<Beyond(f), Beyond(e)>> \in StrictSubsetOrdering(S)
    <3> HIDE DEF Beyond
    <3> QED  BY <2>1, <2>2 DEF StrictSubsetOrdering
  <2> QED  BY <1>2, <1>3, <2>3
<1> QED  BY <1>4

\* The smaller of two numbers.
LEMMA MinOfTwo ==
    ASSUME NEW m \in Nat, NEW n \in Nat
    PROVE  Min({m, n}) = IF m <= n THEN m ELSE n
<1>1. \E x \in {m, n} : \A y \in {m, n} : x <= y
  OBVIOUS
<1>2. PICK x \in {m, n} : x = Min({m, n}) /\ \A y \in {m, n} : x <= y
  BY <1>1 DEF Min
<1> QED  BY <1>2

\* A nonempty set of numbers with a bound has a greatest one.
LEMMA MaxOfBounded ==
    ASSUME NEW S \in SUBSET Nat, S # {}, NEW b \in Nat, \A x \in S : x <= b
    PROVE  Max(S) \in S /\ \A x \in S : x <= Max(S)
<1> DEFINE T == {b - x : x \in S}
<1>1. T \in SUBSET Nat /\ T # {}
  <2>1. \A x \in S : b - x \in Nat
    OBVIOUS
  <2> QED  BY <2>1
<1>2. PICK d \in T : \A e \in T : d <= e
  <2> HIDE DEF T
  <2> QED  BY <1>1, Least
<1>3. PICK x \in S : d = b - x
  OBVIOUS
<1>4. \A y \in S : x >= y
  <2> TAKE y \in S
  <2>1. b - x <= b - y /\ x \in Nat /\ y \in Nat
    BY <1>2, <1>3
  <2> QED  BY <2>1
<1> QED  BY <1>4 DEF Max

\* The greatest item of a nonempty page that is sorted is its last.
LEMMA MaxOfSorted ==
    ASSUME NEW page \in Seq(Nat), page # << >>,
           \A i, j \in DOMAIN page : i <= j => page[i] <= page[j]
    PROVE  Max(ToSet(page)) = page[Len(page)]
<1>1. Len(page) \in DOMAIN page /\ DOMAIN page = 1..Len(page)
  OBVIOUS
<1>2. page[Len(page)] \in ToSet(page)
  BY <1>1 DEF ToSet
<1>3. \A x \in ToSet(page) : x \in Nat /\ page[Len(page)] >= x
  BY <1>1 DEF ToSet
<1>4. \A x \in ToSet(page) :
         (\A y \in ToSet(page) : x >= y) => x = page[Len(page)]
  BY <1>2, <1>3
<1> QED  BY <1>2, <1>3, <1>4 DEF Max

-----------------------------------------------------------------------------
(* The merged list.                                                        *)

BeforeItem(x) == {e \in Entries : e[1] < x}
UpToItem(x) == {e \in Entries : e[1] <= x}

\* What the constants and the types say of the request.
LEMMA ClientOK ==
    ASSUME client \in Clients
    PROVE  /\ client \in ClientType
           /\ client.maxKeys \in Nat \ {0}
           /\ client.under \subseteq Keys
           /\ client.shown \in [Keys -> Nat \ {0}]
           /\ \A k \in Keys : client.shown[k] \in Keys => client.shown[k] = k
           /\ \A r \in client.skipped : Matched[r] \cap client.under = {}
  BY ListingAssumption DEF ClientType

\* Every entry comes from an object that a route found.
LEMMA EntryOrigin ==
    ASSUME client \in Clients, collected \subseteq Routes \X Keys
    PROVE  /\ \A e \in Entries :
                 /\ e[1] \in Items /\ e[1] \in Nat \ {0}
                 /\ \E p \in collected :
                       /\ p[2] \in client.under
                       /\ e = <<client.shown[p[2]],
                                IF client.shown[p[2]] = p[2] THEN {p[1]} ELSE {}>>
           /\ \A p \in collected : p[2] \in client.under =>
                 \E e \in Entries : e[1] = client.shown[p[2]]
<1> DEFINE S == {q \in collected : q[2] \in client.under}
           E(p) == <<client.shown[p[2]],
                     IF client.shown[p[2]] = p[2] THEN {p[1]} ELSE {}>>
<1>1. Entries = {E(p) : p \in S}
  BY DEF Entries
<1>2. \A p \in S : /\ p[2] \in client.under /\ p[2] \in Keys
                   /\ E(p)[1] = client.shown[p[2]]
                   /\ client.shown[p[2]] \in Nat \ {0}
                   /\ client.shown[p[2]] \in Items
  BY ClientOK DEF Items
<1>3. ASSUME NEW e \in Entries
      PROVE  /\ e[1] \in Items /\ e[1] \in Nat \ {0}
             /\ \E p \in collected : p[2] \in client.under /\ e = E(p)
  <2>1. PICK p \in S : e = E(p)
    BY <1>1
  <2>2. e[1] = client.shown[p[2]]
    BY <1>2, <2>1
  <2>3. p \in collected /\ p[2] \in client.under
    OBVIOUS
  <2> QED  BY <1>2, <2>1, <2>2, <2>3
<1>4. ASSUME NEW p \in collected, p[2] \in client.under
      PROVE  \E e \in Entries : e[1] = client.shown[p[2]]
  <2>1. p \in S
    BY <1>4
  <2>2. E(p) \in Entries
    BY <1>1, <2>1
  <2> QED  BY <1>2, <2>1, <2>2
<1> QED  BY <1>3, <1>4

\* There are finitely many of them.
LEMMA EntriesFinite ==
    ASSUME client \in Clients, collected \subseteq Routes \X Keys
    PROVE  /\ IsFiniteSet(Entries)
           /\ \A x : /\ IsFiniteSet(BeforeItem(x)) /\ IsFiniteSet(UpToItem(x))
                     /\ Cardinality(BeforeItem(x)) \in Nat
                     /\ Cardinality(UpToItem(x)) \in Nat
                     /\ Cardinality(UpToItem(x)) <= Cardinality(Entries)
           /\ Cardinality(Entries) \in Nat
<1> DEFINE S == {q \in collected : q[2] \in client.under}
           E(p) == <<client.shown[p[2]],
                     IF client.shown[p[2]] = p[2] THEN {p[1]} ELSE {}>>
           f == [p \in S |-> E(p)]
<1>1. IsFiniteSet(S)
  <2>1. IsFiniteSet(Routes \X Keys)
    BY ListingAssumption, FS_Product
  <2>2. S \in SUBSET (Routes \X Keys)
    OBVIOUS
  <2> HIDE DEF S
  <2> QED  BY <2>1, <2>2, FS_Subset
<1>2. Entries = {E(p) : p \in S}
  BY DEF Entries
<1>3. f \in Surjection(S, Entries)
  <2> HIDE DEF S, E
  <2> QED  BY <1>2 DEF Surjection
<1>4. IsFiniteSet(Entries)
  <2> HIDE DEF f, S
  <2> QED  BY <1>1, <1>3, FS_Surjection
<1>5. \A x : BeforeItem(x) \in SUBSET Entries /\ UpToItem(x) \in SUBSET Entries
  BY DEF BeforeItem, UpToItem
<1> QED  BY <1>4, <1>5, FS_Subset, FS_CardinalityType

\* As the bound grows by one item, so does the number of entries up to it.
LEMMA Counts ==
    ASSUME client \in Clients, collected \subseteq Routes \X Keys,
           NEW x \in Nat, NEW y \in Nat
    PROVE  /\ x <= y => Cardinality(UpToItem(x)) <= Cardinality(UpToItem(y))
           /\ x < y => Cardinality(UpToItem(x)) <= Cardinality(BeforeItem(y))
           /\ \A e \in Entries : e[1] = y =>
                 Cardinality(BeforeItem(y)) < Cardinality(UpToItem(y))
<1>1. \A e \in Entries : e[1] \in Nat
  BY EntryOrigin
<1>2. x <= y => UpToItem(x) \in SUBSET UpToItem(y)
  BY <1>1 DEF UpToItem
<1>3. x < y => UpToItem(x) \in SUBSET BeforeItem(y)
  BY <1>1 DEF UpToItem, BeforeItem
<1>4. BeforeItem(y) \in SUBSET UpToItem(y)
  BY <1>1 DEF UpToItem, BeforeItem
<1>5. \A e \in Entries : e[1] = y => e \in UpToItem(y) \ BeforeItem(y)
  BY DEF UpToItem, BeforeItem
<1>6. Cardinality(BeforeItem(y)) <= Cardinality(UpToItem(y))
      /\ (Cardinality(BeforeItem(y)) = Cardinality(UpToItem(y))
            => BeforeItem(y) = UpToItem(y))
  BY <1>4, EntriesFinite, FS_Subset
<1>7. \A e \in Entries : e[1] = y =>
                 Cardinality(BeforeItem(y)) < Cardinality(UpToItem(y))
  BY <1>5, <1>6, EntriesFinite
<1> QED  BY <1>2, <1>3, <1>7, EntriesFinite, FS_Subset

\* The place of every entry has an item, the one the list shows there.
LEMMA ItemAt ==
    ASSUME client \in Clients, collected \subseteq Routes \X Keys,
           NEW i \in 1..Cardinality(Entries)
    PROVE  \E e \in Entries : /\ Cardinality(BeforeItem(e[1])) < i
                              /\ i <= Cardinality(UpToItem(e[1]))
<1> DEFINE Reach == {x \in Nat : i <= Cardinality(UpToItem(x))}
<1>1. /\ Cardinality(Entries) \in Nat /\ i \in Nat \ {0}
      /\ i <= Cardinality(Entries)
  BY EntriesFinite
<1>2. Entries # {}
  BY <1>1, FS_EmptySet
<1>3. PICK g \in Entries : \A e \in Entries : e[1] <= g[1]
  BY <1>2, EntriesFinite, EntryOrigin, Greatest
<1>4. g[1] \in Reach
  <2>1. UpToItem(g[1]) = Entries
    BY <1>3 DEF UpToItem
  <2> QED  BY <1>1, <2>1, EntryOrigin
<1>5. PICK x \in Reach : \A y \in Reach : x <= y
  <2> HIDE DEF Reach
  <2>1. Reach \in SUBSET Nat
    BY DEF Reach
  <2> QED  BY <1>4, <2>1, Least
<1>6. Cardinality(BeforeItem(x)) < i
  <2>1. CASE x = 0
    <3>1. BeforeItem(x) = {}
      BY <2>1, EntryOrigin DEF BeforeItem
    <3> QED  BY <1>1, <3>1, FS_EmptySet
  <2>2. CASE x # 0
    <3>1. x - 1 \in Nat /\ x - 1 \notin Reach
      BY <1>5, <2>2
    <3>2. UpToItem(x - 1) = BeforeItem(x)
      BY <3>1, EntryOrigin DEF UpToItem, BeforeItem
    <3> QED  BY <1>1, <3>1, <3>2, EntriesFinite
  <2> QED  BY <2>1, <2>2
<1>7. \E e \in Entries : e[1] = x
  <2> SUFFICES ASSUME \A e \in Entries : e[1] # x PROVE FALSE
    OBVIOUS
  <2>1. UpToItem(x) = BeforeItem(x)
    BY <1>5, EntryOrigin DEF UpToItem, BeforeItem
  <2> QED  BY <1>1, <1>5, <1>6, <2>1, EntriesFinite
<1> QED  BY <1>5, <1>6, <1>7

\* The list: an item for each entry, in order, each item one of an entry.
LEMMA ListShape ==
    ASSUME client \in Clients, collected \subseteq Routes \X Keys
    PROVE  /\ unifiedList \in Seq(Nat)
           /\ Len(unifiedList) = Cardinality(Entries)
           /\ DOMAIN unifiedList = 1..Len(unifiedList)
           /\ \A i \in DOMAIN unifiedList :
                 /\ \E e \in Entries : unifiedList[i] = e[1]
                 /\ Cardinality(BeforeItem(unifiedList[i])) < i
                 /\ i <= Cardinality(UpToItem(unifiedList[i]))
<1> DEFINE N == Cardinality(Entries)
           Fits(i, x) == /\ Cardinality(BeforeItem(x)) < i
                         /\ i <= Cardinality(UpToItem(x))
           Shown == {e[1] : e \in Entries}
           L == [i \in 1..N |-> CHOOSE x \in Shown : Fits(i, x)]
<1>1. unifiedList = L
  BY DEF unifiedList, BeforeItem, UpToItem
<1>2. ASSUME NEW i \in 1..N PROVE \E x \in Shown : Fits(i, x)
  <2>1. PICK e \in Entries : Fits(i, e[1])
    BY ItemAt
  <2> HIDE DEF Fits
  <2> QED  BY <2>1
<1>3. \A i \in 1..N : L[i] \in Shown /\ Fits(i, L[i])
  <2> HIDE DEF Fits, Shown
  <2> QED  BY <1>2
<1>4. Shown \subseteq Nat /\ N \in Nat
  BY EntryOrigin, EntriesFinite
<1>5. L \in Seq(Nat) /\ Len(L) = N /\ DOMAIN L = 1..N
  <2>1. L \in [1..N -> Nat]
    BY <1>3, <1>4
  <2> HIDE DEF L, N
  <2> QED  BY <1>4, <2>1
<1> HIDE DEF L
<1> QED  BY <1>1, <1>3, <1>5

\* It is sorted, shows every entry, and shows an item twice for two entries.
LEMMA ListOrder ==
    ASSUME client \in Clients, collected \subseteq Routes \X Keys
    PROVE  /\ \A i, j \in DOMAIN unifiedList :
                 i <= j => unifiedList[i] <= unifiedList[j]
           /\ \A e \in Entries : \E i \in DOMAIN unifiedList :
                 unifiedList[i] = e[1]
           /\ \A i, j \in DOMAIN unifiedList :
                 i < j /\ unifiedList[i] = unifiedList[j] =>
                   \E d, e \in Entries : /\ d # e /\ d[1] = unifiedList[i]
                                         /\ e[1] = unifiedList[i]
<1> DEFINE L == unifiedList
           Before(x) == Cardinality(BeforeItem(x))
           UpTo(x) == Cardinality(UpToItem(x))
<1>1. /\ DOMAIN L = 1..Len(L) /\ Len(L) = Cardinality(Entries)
      /\ \A i \in DOMAIN L : /\ \E e \in Entries : L[i] = e[1]
                             /\ Before(L[i]) < i /\ i <= UpTo(L[i])
                             /\ i \in Nat /\ L[i] \in Nat
  BY ListShape, EntryOrigin
<1>2. \A x : Before(x) \in Nat /\ UpTo(x) \in Nat /\ UpTo(x) <= Len(L)
  BY <1>1, EntriesFinite
<1>3. \A x, y \in Nat :
         /\ x < y => UpTo(x) <= Before(y)
         /\ \A e \in Entries : e[1] = y => Before(y) < UpTo(y)
  BY Counts
<1>4. ASSUME NEW i \in DOMAIN L, NEW j \in DOMAIN L, i <= j
      PROVE  L[i] <= L[j]
  <2> HIDE DEF L, Before, UpTo
  <2>1. /\ i \in Nat /\ j \in Nat /\ L[i] \in Nat /\ L[j] \in Nat
        /\ Before(L[i]) < i /\ j <= UpTo(L[j])
    BY <1>1
  <2>2. L[j] < L[i] => UpTo(L[j]) <= Before(L[i])
    BY <1>3, <2>1
  <2>3. Before(L[i]) \in Nat /\ UpTo(L[j]) \in Nat
    BY <1>2
  <2> HIDE DEF L
  <2> QED  BY <1>4, <2>1, <2>2, <2>3
<1>5. ASSUME NEW e \in Entries
      PROVE  \E i \in DOMAIN L : L[i] = e[1]
  <2>1. e[1] \in Nat
    BY EntryOrigin
  <2> HIDE DEF L, Before, UpTo
  <2>2. UpTo(e[1]) \in DOMAIN L
    BY <1>1, <1>2, <1>3, <2>1
  <2> DEFINE i == UpTo(e[1])
             x == L[i]
  <2>3. x \in Nat /\ Before(x) < i /\ i <= UpTo(x)
    BY <1>1, <2>2
  <2>4. Before(e[1]) < i
    BY <1>3, <2>1
  <2>5. /\ x < e[1] => UpTo(x) <= Before(e[1])
        /\ e[1] < x => i <= Before(x)
    BY <1>3, <2>1, <2>3
  <2>6. Before(x) \in Nat /\ UpTo(x) \in Nat /\ Before(e[1]) \in Nat /\ i \in Nat
    BY <1>2
  <2> HIDE DEF i, x
  <2>7. x = e[1]
    BY <2>1, <2>3, <2>4, <2>5, <2>6
  <2> QED  BY <2>2, <2>7 DEF i, x
<1>6. ASSUME NEW i \in DOMAIN L, NEW j \in DOMAIN L, i < j, L[i] = L[j]
      PROVE  \E d, e \in Entries : d # e /\ d[1] = L[i] /\ e[1] = L[i]
  <2>1. PICK d \in Entries : d[1] = L[i]
    BY <1>1
  <2> SUFFICES ASSUME \A e \in Entries : e[1] = L[i] => e = d
               PROVE  FALSE
    BY <2>1
  <2>2. UpToItem(L[i]) = BeforeItem(L[i]) \cup {d}
    BY <1>1, <2>1, EntryOrigin DEF UpToItem, BeforeItem
  <2>3. UpTo(L[i]) <= Before(L[i]) + 1
    <3>1. IsFiniteSet(BeforeItem(L[i]))
      BY EntriesFinite
    <3>2. Cardinality(BeforeItem(L[i]) \cup {d}) =
             IF d \in BeforeItem(L[i]) THEN Cardinality(BeforeItem(L[i]))
                                      ELSE Cardinality(BeforeItem(L[i])) + 1
      BY <3>1, FS_AddElement
    <3> QED  BY <1>2, <2>2, <3>2
  <2> HIDE DEF L, Before, UpTo
  <2> QED  BY <1>1, <1>2, <1>6, <2>3
<1> QED  BY <1>4, <1>5, <1>6

-----------------------------------------------------------------------------
(* The page cut out of it.                                                 *)

PageStart == startIndex(unifiedList)
Rest == After(unifiedList)
Page == PageOf(Rest)

\* In a sorted list, the items up to a bound are the first ones.
LEMMA Boundary ==
    ASSUME NEW L \in Seq(Nat), NEW t \in Nat,
           \A i, j \in 1..Len(L) : i <= j => L[i] <= L[j]
    PROVE  \E n \in 0..Len(L) : \A i \in 1..Len(L) : L[i] <= t <=> i <= n
<1> DEFINE Past(k) == k = Len(L) \/ (k + 1 \in 1..Len(L) /\ t < L[k + 1])
           Beyond == {k \in 0..Len(L) : Past(k)}
<1>1. Len(L) \in Nat /\ \A i \in 1..Len(L) : L[i] \in Nat
  OBVIOUS
<1>2. PICK n \in Beyond : \A k \in Beyond : n <= k
  <2>1. Beyond \in SUBSET Nat /\ Len(L) \in Beyond
    BY <1>1
  <2> HIDE DEF Beyond
  <2> QED  BY <2>1, Least
<1>3. n \in 0..Len(L) /\ Past(n)
  OBVIOUS
<1>4. \A k \in 0..Len(L) : k < n => ~Past(k)
  <2> HIDE DEF Past
  <2> QED  BY <1>1, <1>2
<1> HIDE DEF Beyond
<1>5. ASSUME NEW i \in 1..Len(L) PROVE L[i] <= t <=> i <= n
  <2>1. ASSUME i <= n PROVE L[i] <= t
    <3> DEFINE k == i - 1
    <3>1. k \in 0..Len(L) /\ k < n /\ k + 1 = i /\ k # Len(L)
      BY <1>1, <1>3, <2>1
    <3> HIDE DEF k
    <3>2. ~Past(k)
      BY <1>4, <3>1
    <3>3. ~(t < L[i])
      BY <3>1, <3>2
    <3> QED  BY <1>1, <3>3
  <2>2. ASSUME ~(i <= n) PROVE t < L[i]
    <3>1. n # Len(L) /\ n + 1 <= i /\ n + 1 \in 1..Len(L)
      BY <1>1, <1>3, <2>2
    <3>2. t < L[n + 1] /\ L[n + 1] <= L[i]
      BY <1>3, <3>1
    <3> QED  BY <1>1, <3>1, <3>2
  <2> QED  BY <1>1, <2>1, <2>2
<1> QED  BY <1>3, <1>5

\* The items up to the token are those before the start of the page.
LEMMA StartIndex ==
    ASSUME client \in Clients, collected \subseteq Routes \X Keys, token \in Nat
    PROVE  /\ PageStart \in 0..Len(unifiedList)
           /\ \A i \in DOMAIN unifiedList :
                 unifiedList[i] <= token <=> i <= PageStart
<1>1. /\ unifiedList \in Seq(Nat)
      /\ DOMAIN unifiedList = 1..Len(unifiedList)
      /\ \A i, j \in 1..Len(unifiedList) :
            i <= j => unifiedList[i] <= unifiedList[j]
  BY ListShape, ListOrder
<1>2. PICK n \in 0..Len(unifiedList) :
         \A i \in 1..Len(unifiedList) : unifiedList[i] <= token <=> i <= n
  BY <1>1, Boundary
<1>3. {i \in DOMAIN unifiedList : unifiedList[i] <= token} = 1..n
  BY <1>1, <1>2
<1>4. Cardinality(1..n) = n
  BY <1>1, FS_Interval
<1>5. PageStart = n
  BY <1>3, <1>4 DEF PageStart, startIndex
<1> QED  BY <1>1, <1>2, <1>5

\* SubSeqProperties, for a stretch of numbers that may be empty.
LEMMA SubSeqShape ==
    ASSUME NEW s \in Seq(Nat), NEW a \in Nat, NEW b \in Nat,
           1 <= a, a <= b + 1, b <= Len(s), \A m \in a..b : s[m] \in Nat
    PROVE  /\ SubSeq(s, a, b) \in Seq(Nat) /\ Len(SubSeq(s, a, b)) = b - a + 1
           /\ \A m \in 1..(b - a + 1) : SubSeq(s, a, b)[m] = s[a + m - 1]
<1>1. SubSeq(s, a, b) \in Seq(Nat)
  BY SubSeqProperties
<1>2. Len(SubSeq(s, a, b)) = IF a <= b THEN b - a + 1 ELSE 0
  BY SubSeqProperties
<1>3. \A m \in 1..(b - a + 1) : SubSeq(s, a, b)[m] = s[a + m - 1]
  BY SubSeqProperties
<1> QED  BY <1>1, <1>2, <1>3

\* What is cut out of a list.
LEMMA Cut ==
    ASSUME NEW L \in Seq(Nat), NEW n \in 0..Len(L), NEW max \in Nat \ {0}
    PROVE  LET rest == SubSeq(L, n + 1, Len(L))
               page == SubSeq(rest, 1, Min({max, Len(rest)}))
           IN  /\ rest \in Seq(Nat) /\ Len(rest) = Len(L) - n
               /\ page \in Seq(Nat) /\ DOMAIN page = 1..Len(page)
               /\ Len(page) = (IF max <= Len(rest) THEN max ELSE Len(rest))
               /\ \A m \in 1..Len(page) : /\ n + m \in 1..Len(L)
                                          /\ page[m] = L[n + m]
<1> DEFINE rest == SubSeq(L, n + 1, Len(L))
           size == Min({max, Len(rest)})
           page == SubSeq(rest, 1, size)
<1>0. /\ Len(L) \in Nat /\ n \in Nat /\ n <= Len(L)
      /\ \A m \in 1..Len(L) : L[m] \in Nat
  OBVIOUS
<1>1. /\ rest \in Seq(Nat) /\ Len(rest) = Len(L) - n /\ Len(rest) \in Nat
      /\ \A m \in 1..Len(rest) : rest[m] = L[n + m]
  <2>1. \A m \in (n + 1)..Len(L) : L[m] \in Nat
    BY <1>0
  <2>2. n + 1 \in Nat
    BY <1>0
  <2>3. n + 1 <= Len(L) + 1
    BY <1>0
  <2>4. /\ rest \in Seq(Nat) /\ Len(rest) = Len(L) - (n + 1) + 1
        /\ \A m \in 1..(Len(L) - (n + 1) + 1) : rest[m] = L[(n + 1) + m - 1]
    BY <1>0, <2>1, <2>2, <2>3, SubSeqShape
  <2> HIDE DEF rest
  <2>5. Len(rest) = Len(L) - n /\ Len(L) - n \in Nat
    BY <1>0, <2>4
  <2>6. ASSUME NEW m \in 1..Len(rest) PROVE rest[m] = L[n + m]
    <3>1. (n + 1) + m - 1 = n + m /\ m \in 1..(Len(L) - (n + 1) + 1)
      BY <1>0, <2>4, <2>5
    <3> QED  BY <2>4, <3>1
  <2> QED  BY <2>4, <2>5, <2>6
<1>2. size = IF max <= Len(rest) THEN max ELSE Len(rest)
  BY <1>1, MinOfTwo
<1>3. /\ page \in Seq(Nat) /\ DOMAIN page = 1..Len(page)
      /\ Len(page) = size
      /\ \A m \in 1..Len(page) : page[m] = rest[m]
  <2> HIDE DEF rest, size
  <2>1. size \in Nat /\ size <= Len(rest)
    BY <1>1, <1>2
  <2>2. \A m \in 1..size : rest[m] \in Nat
    BY <1>1, <2>1
  <2>3. /\ page \in Seq(Nat) /\ Len(page) = size - 1 + 1
        /\ \A m \in 1..(size - 1 + 1) : page[m] = rest[1 + m - 1]
    BY <1>1, <2>1, <2>2, SubSeqShape
  <2> HIDE DEF page
  <2>4. size - 1 + 1 = size /\ \A m \in 1..size : 1 + m - 1 = m
    BY <2>1
  <2> QED  BY <2>3, <2>4
<1> HIDE DEF rest, page, size
<1>4. ASSUME NEW m \in 1..Len(page) PROVE n + m \in 1..Len(L) /\ page[m] = L[n + m]
  <2>1. size \in Nat /\ size <= Len(L) - n
    BY <1>1, <1>2
  <2>2. m \in Nat /\ 1 <= m /\ m <= size
    BY <1>3, <2>1
  <2>3. m \in 1..Len(rest) /\ n + m \in 1..Len(L)
    BY <1>0, <1>1, <2>1, <2>2
  <2> QED  BY <1>1, <1>3, <2>3
<1> QED  BY <1>1, <1>2, <1>3, <1>4 DEF rest, page, size

\* The page is the stretch of the list that follows, MaxKeys items at most.
LEMMA PageShape ==
    ASSUME client \in Clients, collected \subseteq Routes \X Keys, token \in Nat
    PROVE  /\ Page \in Seq(Nat) /\ Rest \in Seq(Nat)
           /\ DOMAIN Page = 1..Len(Page)
           /\ Len(Rest) = Len(unifiedList) - PageStart
           /\ Len(Page) <= client.maxKeys /\ Len(Page) <= Len(Rest)
           /\ Len(Page) < Len(Rest) => Len(Page) = client.maxKeys
           /\ \A m \in DOMAIN Page : /\ PageStart + m \in DOMAIN unifiedList
                                     /\ Page[m] = unifiedList[PageStart + m]
                                     /\ Page[m] > token
<1>1. unifiedList \in Seq(Nat) /\ DOMAIN unifiedList = 1..Len(unifiedList)
      /\ \A i \in DOMAIN unifiedList : unifiedList[i] \in Nat
  BY ListShape
<1>2. /\ PageStart \in 0..Len(unifiedList)
      /\ \A i \in DOMAIN unifiedList : unifiedList[i] <= token <=> i <= PageStart
  BY StartIndex
<1>3. client.maxKeys \in Nat \ {0}
  BY ClientOK
<1>4. /\ Rest \in Seq(Nat) /\ Len(Rest) = Len(unifiedList) - PageStart
      /\ Page \in Seq(Nat) /\ DOMAIN Page = 1..Len(Page)
      /\ Len(Page) = (IF client.maxKeys <= Len(Rest) THEN client.maxKeys
                                                    ELSE Len(Rest))
      /\ \A m \in 1..Len(Page) : /\ PageStart + m \in 1..Len(unifiedList)
                                 /\ Page[m] = unifiedList[PageStart + m]
  BY <1>1, <1>2, <1>3, Cut DEF Rest, After, PageStart, Page, PageOf
<1>5. ASSUME NEW m \in DOMAIN Page PROVE Page[m] > token
  <2> DEFINE i == PageStart + m
  <2>1. m \in Nat /\ m > 0 /\ PageStart \in Nat
    <3>1. Len(unifiedList) \in Nat
      BY <1>1
    <3>2. PageStart \in Nat
      BY <1>2, <3>1
    <3>3. Len(Page) \in Nat /\ m \in 1..Len(Page)
      BY <1>4
    <3> QED  BY <3>2, <3>3
  <2>2. ~(i <= PageStart)
    BY <2>1
  <2>3. i \in DOMAIN unifiedList /\ Page[m] = unifiedList[i]
    BY <1>1, <1>4
  <2> HIDE DEF i
  <2> QED  BY <1>1, <1>2, <2>2, <2>3
<1> QED  BY <1>1, <1>3, <1>4, <1>5

\* Its items are items of the client's, in order.
LEMMA PageItems ==
    ASSUME client \in Clients, collected \subseteq Routes \X Keys, token \in Nat
    PROVE  /\ \A m \in DOMAIN Page :
                 /\ Page[m] \in Items /\ Page[m] \in Nat \ {0}
                 /\ \E e \in Entries : Page[m] = e[1]
           /\ \A m, n \in DOMAIN Page : m <= n => Page[m] <= Page[n]
<1>1. /\ DOMAIN Page = 1..Len(Page) /\ PageStart \in Nat
      /\ \A m \in DOMAIN Page : /\ PageStart + m \in DOMAIN unifiedList
                                /\ Page[m] = unifiedList[PageStart + m]
  BY PageShape, StartIndex
<1>2. ASSUME NEW m \in DOMAIN Page
      PROVE  /\ Page[m] \in Items /\ Page[m] \in Nat \ {0}
             /\ \E e \in Entries : Page[m] = e[1]
  <2>1. PICK e \in Entries : Page[m] = e[1]
    BY <1>1, ListShape
  <2> QED  BY <2>1, EntryOrigin
<1>3. ASSUME NEW m \in DOMAIN Page, NEW n \in DOMAIN Page, m <= n
      PROVE  Page[m] <= Page[n]
  <2>1. PageStart + m <= PageStart + n
    BY <1>1, <1>3
  <2> QED  BY <1>1, <2>1, ListOrder
<1> QED  BY <1>2, <1>3

\* Who is promised an ascending and complete listing: a client of version 2,
\* or one that is shown objects only.
Promised == client.version = "v2" \/ Items \subseteq Keys

\* The token is an item, and for such a client it is the page's last item.
LEMMA PageToken ==
    ASSUME client \in Clients, collected \subseteq Routes \X Keys, token \in Nat,
           Len(Page) < Len(Rest)
    PROVE  /\ NextToken(Page) \in Items \cup {0}
           /\ Promised => /\ Len(Page) \in DOMAIN Page
                          /\ NextToken(Page) = Page[Len(Page)]
                          /\ NextToken(Page) > 0
<1> DEFINE last == Page[Len(Page)]
           candidates == IF client.version = "v2" THEN ToSet(Page)
                                                ELSE ToSet(Page) \cap Keys
<1>1. /\ Page \in Seq(Nat) /\ Page # << >> /\ DOMAIN Page = 1..Len(Page)
      /\ Len(Page) \in DOMAIN Page
  <2>1. Page \in Seq(Nat) /\ DOMAIN Page = 1..Len(Page) /\ Len(Page) \in Nat \ {0}
    BY PageShape, ClientOK
  <2> QED  BY <2>1
<1>2. /\ \A m \in DOMAIN Page : Page[m] \in Items /\ Page[m] \in Nat \ {0}
      /\ \A m, n \in DOMAIN Page : m <= n => Page[m] <= Page[n]
  BY PageItems
<1>3. NextToken(Page) = IF candidates = {} THEN 0 ELSE Max(candidates)
  BY DEF NextToken
<1>4. ToSet(Page) \subseteq Items /\ ToSet(Page) # {} /\ ToSet(Page) \subseteq Nat
      /\ \A x \in ToSet(Page) : x <= last
  BY <1>1, <1>2 DEF ToSet
<1>5. candidates # {} => Max(candidates) \in candidates
  <2>1. candidates \in SUBSET Nat /\ last \in Nat /\ \A x \in candidates : x <= last
    BY <1>1, <1>2, <1>4
  <2> HIDE DEF candidates, last
  <2> QED  BY <2>1, MaxOfBounded
<1>6. Promised => candidates = ToSet(Page)
  BY <1>4 DEF Promised
<1>7. Max(ToSet(Page)) = last
  BY <1>1, <1>2, MaxOfSorted
<1>8. candidates \subseteq Items
  BY <1>4
<1> HIDE DEF candidates, last
<1>9. NextToken(Page) \in Items \cup {0}
  BY <1>3, <1>5, <1>8
<1>10. last > 0
  BY <1>1, <1>2 DEF last
<1> QED  BY <1>1, <1>3, <1>4, <1>6, <1>7, <1>9, <1>10 DEF last

-----------------------------------------------------------------------------
(* The invariant.                                                          *)

Results == [route : Routes, ok : BOOLEAN, objects : SUBSET Keys]

\* TypeOK, with what it leaves open.
Types ==
    /\ TypeOK
    /\ results \in Seq(Results) /\ pages \in Seq(Seq(Nat))
    /\ cut \in BOOLEAN /\ lost \in BOOLEAN

Histories ==
    steady \subseteq Pairs(stored) /\ Pairs(stored) \subseteq held

\* What the routes have found was there, and their paths match it.
Reached == {p \in held : p[2] \in Matched[p[1]]}
Finds ==
    /\ collected \subseteq Reached
    /\ \A i \in DOMAIN results : {results[i].route} \X results[i].objects \subseteq Reached

\* What has been shown lies before the next page.
Behind ==
    phase \in {"asking", "collecting"} /\ Promised =>
        \A item \in Listed : item <= token

\* Each object a page must show has been found, or its route is still to say
\* so, or has failed.
Due == {q \in steady : q[2] \in Matched[q[1]] \cap client.under}
Told(p) ==
    \E i \in DOMAIN results :
       results[i].route = p[1] /\ (results[i].ok => p[2] \in results[i].objects)
Heard ==
    phase = "collecting" /\ ~cut =>
        \A p \in Due : \/ worker[p[1]] = "running"
                       \/ p \in collected \/ p[1] \in errors \/ Told(p)

\* The pages so far have shown all that comes before the next one.
ShownSoFar ==
    phase \in {"asking", "collecting"} /\ ~cut /\ ~lost /\ Promised =>
        \A item \in Wanted : item <= token => item \in Listed

IInv ==
    /\ Types /\ Histories /\ Finds /\ Honest
    /\ Behind /\ Ascending
    /\ Heard /\ ShownSoFar /\ Complete

\* The token and the items are numbers.
LEMMA TokenNat ==
    ASSUME Types
    PROVE  /\ client \in Clients /\ collected \subseteq Routes \X Keys
           /\ Items \subseteq Nat \ {0} /\ token \in Nat
  BY ClientOK DEF Types, TypeOK, Items

\* What an answered page does, in terms of the page.
LEMMA Answered ==
    ASSUME Types, Answer
    PROVE  /\ phase = "collecting" /\ results = << >> /\ Closed
           /\ pages' = Append(pages, Page)
           /\ token' = IF Len(Page) < Len(Rest) THEN NextToken(Page) ELSE 0
           /\ phase' = IF Len(Page) < Len(Rest) /\ NextToken(Page) # 0
                         THEN "asking" ELSE "done"
           /\ lost' = (lost \/ errors # {})
           /\ UNCHANGED <<request, stored, writes, client, steady, held, cut>>
  BY DEF Answer, Closed, Page, Rest

\* What is listed after it.
LEMMA ListedThen ==
    ASSUME Types, Answer
    PROVE  /\ Page \in Seq(Nat) /\ pages' \in Seq(Seq(Nat))
           /\ Listed' = Listed \cup ToSet(Page)
           /\ Len(pages') = Len(pages) + 1
           /\ \A i \in DOMAIN pages : i \in DOMAIN pages' /\ pages'[i] = pages[i]
           /\ pages'[Len(pages')] = Page
           /\ \A i \in DOMAIN pages' : i \in DOMAIN pages \/ i = Len(pages')
<1>1. Page \in Seq(Nat) /\ pages' = Append(pages, Page)
  BY Answered, TokenNat, PageShape
<1>2. pages \in Seq(Seq(Nat))
  BY DEF Types
<1>3. /\ pages' \in Seq(Seq(Nat)) /\ Len(pages') = Len(pages) + 1
      /\ DOMAIN pages' = 1..Len(pages') /\ DOMAIN pages = 1..Len(pages)
      /\ Len(pages) \in Nat
      /\ \A i \in 1..Len(pages) : pages'[i] = pages[i]
      /\ pages'[Len(pages) + 1] = Page
  BY <1>1, <1>2
<1> HIDE DEF Page
<1>4. /\ \A i \in DOMAIN pages : i \in DOMAIN pages' /\ pages'[i] = pages[i]
      /\ pages'[Len(pages')] = Page /\ Len(pages') \in DOMAIN pages'
      /\ \A i \in DOMAIN pages' : i \in DOMAIN pages \/ i = Len(pages')
  BY <1>3
<1>5. Listed' = UNION {ToSet(pages'[i]) : i \in DOMAIN pages'}
  BY DEF Listed, ToSet
<1>6. \A x : x \in Listed' <=> x \in Listed \/ x \in ToSet(Page)
  BY <1>4, <1>5 DEF Listed
<1> QED  BY <1>1, <1>3, <1>4, <1>6

\* The variables start in their ranges.
LEMMA TypesInit == Init => Types
<1> SUFFICES ASSUME Init PROVE Types
  OBVIOUS
<1>1. stored \in [Routes -> SUBSET Keys]
  BY ListingAssumption DEF Init
<1>2. Cardinality(Routes) \in Nat
  BY ListingAssumption, FS_CardinalityType
<1>3. TypeOK
  BY <1>1, <1>2 DEF Init, TypeOK
<1>4. results \in Seq(Results) /\ pages \in Seq(Seq(Nat))
  BY EmptySeq DEF Init
<1> QED  BY <1>3, <1>4 DEF Init, Types

\* Every step keeps them there; a page holds items of the list only.
LEMMA TypesStep == Types /\ [Next]_vars => Types'
<1> SUFFICES ASSUME Types, [Next]_vars PROVE Types'
  OBVIOUS
<1> USE DEF Types
<1>0. Cardinality(Routes) \in Nat
  BY ListingAssumption, FS_CardinalityType
<1>1. CASE Ask
  BY <1>0, <1>1 DEF Ask, TypeOK, history, Items
<1>2. CASE Collect
  <2>1. results \in Seq(Results) /\ results # << >> /\ results' = Tail(results)
    BY <1>2 DEF Collect
  <2>2. Head(results) \in Results
    BY <2>1
  <2>3. /\ results' \in Seq(Results) /\ Len(results') <= Cardinality(Routes)
        /\ \A i \in DOMAIN results' : results'[i] \in Results
    BY <1>0, <2>1 DEF TypeOK
  <2>4. collected' \subseteq Routes \X Keys /\ errors' \subseteq Routes
    BY <1>2, <2>2 DEF Collect, TypeOK, Results
  <2> QED  BY <1>2, <2>3, <2>4 DEF Collect, TypeOK, history, Items, Results
<1>3. CASE Abandon
  BY <1>3 DEF Abandon, TypeOK, request, history, Items
<1>4. CASE Answer
  <2>1. /\ token' \in Items \cup {0} /\ phase' \in {"asking", "done"}
    <3>1. Len(Page) < Len(Rest) => NextToken(Page) \in Items \cup {0}
      BY TokenNat, PageToken
    <3> QED  BY <1>4, <3>1, Answered
  <2>2. ToSet(Page) \subseteq Items /\ Len(Page) <= client.maxKeys
    <3>1. \A m \in DOMAIN Page : Page[m] \in Items
      BY TokenNat, PageItems
    <3> QED  BY <3>1, TokenNat, PageShape DEF ToSet
  <2>3. \A i \in DOMAIN pages' :
           ToSet(pages'[i]) \subseteq Items /\ Len(pages'[i]) <= client.maxKeys
    BY <1>4, <2>2, ListedThen DEF TypeOK
  <2>4. UNCHANGED <<stored, client, worker, results, collected, errors, cut, Items>>
    BY <1>4, Answered DEF request, Items
  <2>5. lost' \in BOOLEAN /\ pages' \in Seq(Seq(Nat))
    BY <1>4, Answered, ListedThen
  <2> QED  BY <2>1, <2>3, <2>4, <2>5 DEF TypeOK
<1>5. CASE Refuse
  BY <1>5 DEF Refuse, TypeOK, request, history, Items
<1>6. CASE Expire
  BY <1>6 DEF Expire, TypeOK, history, Items
<1>7. CASE Write
  BY <1>7 DEF Write, TypeOK, request, Items
<1>8. ASSUME NEW r \in Routes, Work(r) PROVE Types'
  <2> DEFINE Sent(result) ==
               /\ results' \in Seq(Results) /\ Len(results') <= Cardinality(Routes)
               /\ \A i \in DOMAIN results' : results'[i] \in Results
               /\ worker' \in [Routes -> {"idle", "running"}]
  <2>1. ASSUME NEW result \in Results, Send(r, result) PROVE Sent(result)
    BY <1>0, <2>1 DEF Send, TypeOK, Capacity
  <2>2. ASSUME NEW result \in Results, Sent(result), cut' \in BOOLEAN,
               UNCHANGED <<collected, errors, stored, client, phase, token, pages, lost>>
        PROVE  Types'
    BY <2>2 DEF TypeOK, Items, Results
  <2> HIDE DEF Sent, Types
  <2>3. CASE Skip(r)
    <3>1. [route |-> r, ok |-> TRUE, objects |-> {}] \in Results
      BY DEF Results
    <3>2. Sent([route |-> r, ok |-> TRUE, objects |-> {}])
      BY <2>1, <2>3, <3>1 DEF Skip
    <3> QED  BY <2>2, <2>3, <3>1, <3>2 DEF Skip, history, Types
  <2>4. CASE Succeed(r)
    <3>1. Objects(r) \subseteq Keys
      BY DEF Objects, Candidates, Types, TypeOK
    <3>2. [route |-> r, ok |-> TRUE, objects |-> Objects(r)] \in Results
      BY <3>1 DEF Results
    <3>3. Sent([route |-> r, ok |-> TRUE, objects |-> Objects(r)])
      BY <2>1, <2>4, <3>2 DEF Succeed
    <3>4. cut' \in BOOLEAN
      BY <2>4 DEF Succeed, Types
    <3> QED  BY <2>2, <2>4, <3>2, <3>3, <3>4 DEF Succeed
  <2>5. CASE Fail(r)
    <3>1. [route |-> r, ok |-> FALSE, objects |-> {}] \in Results
      BY DEF Results
    <3>2. Sent([route |-> r, ok |-> FALSE, objects |-> {}])
      BY <2>1, <2>5, <3>1 DEF Fail
    <3> QED  BY <2>2, <2>5, <3>1, <3>2 DEF Fail, history, Types
  <2> QED  BY <1>8, <2>3, <2>4, <2>5 DEF Work
<1>9. CASE UNCHANGED vars
  BY <1>9 DEF vars, TypeOK, Items
<1> QED
  BY <1>1, <1>2, <1>3, <1>4, <1>5, <1>6, <1>7, <1>8, <1>9
  DEF Next, Collector, Ended

-----------------------------------------------------------------------------
(* What was stored, found and shown.                                       *)

\* Only another client's write changes what is stored; the request stays.
LEMMA Kept ==
    ASSUME [Next]_vars
    PROVE  /\ client' = client /\ steady' \subseteq steady /\ held \subseteq held'
           /\ Write \/ UNCHANGED <<stored, steady, held>>
  BY DEF Next, Collector, vars, Ended, Ask, Collect, Abandon, Answer, Refuse,
         Expire, Write, Work, Skip, Succeed, Fail, history

\* What is stored all the time is stored now, and what is stored now was held.
LEMMA HistoriesStep == Histories /\ [Next]_vars => Histories'
<1> SUFFICES ASSUME Histories, [Next]_vars PROVE Histories'
  OBVIOUS
<1>1. CASE Write
  BY <1>1 DEF Write, Histories
<1>2. CASE UNCHANGED <<stored, steady, held>>
  BY <1>2 DEF Histories, Pairs
<1> QED  BY <1>1, <1>2, Kept

\* A route finds keys its path matches and its backend holds.
LEMMA FindsStep ==
    ASSUME Types, Histories, Finds, [Next]_vars
    PROVE  Finds'
<1>1. Reached \subseteq Reached'
  BY Kept DEF Reached
<1>2. results \in Seq(Results)
  BY DEF Types
<1>3. CASE UNCHANGED <<results, collected>>
  BY <1>1, <1>3 DEF Finds
<1>4. CASE Ask
  BY <1>4 DEF Ask, Finds
<1>5. CASE Collect
  <2>1. /\ results' \in Seq(Results)
        /\ \A i \in DOMAIN results' : i + 1 \in DOMAIN results
                                    /\ results'[i] = results[i + 1]
    BY <1>2, <1>5 DEF Collect
  <2>2. 1 \in DOMAIN results /\ Head(results) = results[1]
    BY <1>2, <1>5 DEF Collect
  <2>3. collected' \subseteq collected \cup ({results[1].route} \X results[1].objects)
    BY <1>5, <2>2 DEF Collect
  <2>4. collected' \subseteq Reached
    BY <2>2, <2>3 DEF Finds
  <2>5. \A i \in DOMAIN results' :
           {results'[i].route} \X results'[i].objects \subseteq Reached
    BY <2>1 DEF Finds
  <2> HIDE DEF Reached
  <2> QED  BY <1>1, <2>4, <2>5 DEF Finds
<1>6. ASSUME NEW r \in Routes, Work(r) PROVE Finds'
  <2> DEFINE Sent(result) == /\ results' = Append(results, result)
                             /\ UNCHANGED collected
  <2>1. PICK result \in Results : /\ Sent(result)
                                  /\ {result.route} \X result.objects \subseteq Reached
    <3>1. Objects(r) \subseteq Keys /\ {r} \X Objects(r) \subseteq Reached
      <4>1. \A k \in Objects(r) : k \in Keys /\ k \in stored[r] /\ k \in Matched[r]
        BY DEF Objects, Candidates, Types, TypeOK
      <4>2. \A k \in Objects(r) : <<r, k>> \in Pairs(stored)
        BY <4>1 DEF Pairs
      <4> QED  BY <4>1, <4>2 DEF Histories, Reached
    <3>2. CASE Skip(r)
      <4> DEFINE x == [route |-> r, ok |-> TRUE, objects |-> {}]
      <4>1. x \in Results /\ Sent(x) /\ {x.route} \X x.objects \subseteq Reached
        BY <3>2 DEF Results, Skip, Send
      <4> QED  BY <4>1
    <3>3. CASE Succeed(r)
      <4> DEFINE x == [route |-> r, ok |-> TRUE, objects |-> Objects(r)]
      <4>1. x \in Results /\ Sent(x) /\ {x.route} \X x.objects \subseteq Reached
        BY <3>1, <3>3 DEF Results, Succeed, Send
      <4> QED  BY <4>1
    <3>4. CASE Fail(r)
      <4> DEFINE x == [route |-> r, ok |-> FALSE, objects |-> {}]
      <4>1. x \in Results /\ Sent(x) /\ {x.route} \X x.objects \subseteq Reached
        BY <3>4 DEF Results, Fail, Send
      <4> QED  BY <4>1
    <3> QED  BY <1>6, <3>2, <3>3, <3>4 DEF Work
  <2>2. /\ results' \in Seq(Results)
        /\ \A i \in DOMAIN results' : \/ results'[i] = result
                                      \/ i \in DOMAIN results /\ results'[i] = results[i]
    BY <1>2, <2>1
  <2>3. \A i \in DOMAIN results' :
           {results'[i].route} \X results'[i].objects \subseteq Reached
    BY <2>1, <2>2 DEF Finds
  <2> HIDE DEF Reached
  <2> QED  BY <1>1, <2>1, <2>3 DEF Finds
<1> QED
  BY <1>3, <1>4, <1>5, <1>6
  DEF Next, Collector, vars, Ended, Abandon, Answer, Refuse, Expire, Write, request

\* Every item of a page comes from an object that was reached.
LEMMA PageOrigin ==
    ASSUME Types, Finds, NEW m \in DOMAIN Page
    PROVE  \E p \in held : /\ p[2] \in Matched[p[1]] \cap client.under
                           /\ client.shown[p[2]] = Page[m]
<1>1. PICK e \in Entries : Page[m] = e[1]
  BY TokenNat, PageItems
<1>2. PICK p \in collected :
         /\ p[2] \in client.under
         /\ e = <<client.shown[p[2]],
                  IF client.shown[p[2]] = p[2] THEN {p[1]} ELSE {}>>
  BY <1>1, TokenNat, EntryOrigin
<1> QED  BY <1>1, <1>2 DEF Finds, Reached

\* A page shows what was reached and nothing else.
LEMMA HonestStep ==
    ASSUME Types, Finds, Honest, [Next]_vars
    PROVE  Honest'
<1>1. client' = client /\ held \subseteq held'
  BY Kept
<1>2. CASE UNCHANGED pages
  <2>1. Listed' = Listed
    BY <1>2 DEF Listed
  <2> QED  BY <1>1, <2>1 DEF Honest
<1>3. CASE Answer
  <2>1. \A x \in ToSet(Page) : \E p \in held :
           p[2] \in Matched[p[1]] \cap client.under /\ client.shown[p[2]] = x
    BY PageOrigin DEF ToSet
  <2>2. Listed' = Listed \cup ToSet(Page)
    BY <1>3, ListedThen
  <2> QED  BY <1>1, <2>1, <2>2 DEF Honest
<1> QED
  BY <1>2, <1>3
  DEF Next, Collector, vars, Ended, Ask, Collect, Abandon, Refuse, Expire, Write,
      Work, Skip, Succeed, Fail

-----------------------------------------------------------------------------
(* The order of the pages.                                                 *)

\* An item that is on a page twice is a key that two routes found.
LEMMA PageTwice ==
    ASSUME Types, Finds, NEW m \in DOMAIN Page, NEW n \in DOMAIN Page,
           m < n, Page[m] = Page[n]
    PROVE  Twice(Page[m])
<1> DEFINE x == Page[m]
           E(p) == <<client.shown[p[2]],
                     IF client.shown[p[2]] = p[2] THEN {p[1]} ELSE {}>>
<1>1. PICK d \in Entries, e \in Entries : d # e /\ d[1] = x /\ e[1] = x
  <2> DEFINE a == PageStart + m
             b == PageStart + n
  <2>1. a \in DOMAIN unifiedList /\ b \in DOMAIN unifiedList
        /\ Page[m] = unifiedList[a] /\ Page[n] = unifiedList[b]
    BY TokenNat, PageShape
  <2>2. a < b
    <3>1. Len(unifiedList) \in Nat /\ PageStart \in 0..Len(unifiedList)
      BY TokenNat, StartIndex, ListShape
    <3>2. DOMAIN Page = 1..Len(Page) /\ Len(Page) \in Nat
      BY TokenNat, PageShape
    <3> QED  BY <3>1, <3>2
  <2> HIDE DEF a, b
  <2>3. \E d, e \in Entries : /\ d # e /\ d[1] = unifiedList[a]
                              /\ e[1] = unifiedList[a]
    BY <2>1, <2>2, TokenNat, ListOrder
  <2> QED  BY <2>1, <2>3
<1>2. PICK p \in collected : p[2] \in client.under /\ d = E(p)
  BY TokenNat, EntryOrigin
<1>3. PICK q \in collected : q[2] \in client.under /\ e = E(q)
  BY TokenNat, EntryOrigin
<1>4. client.shown[p[2]] = x /\ client.shown[q[2]] = x
  BY <1>1, <1>2, <1>3
<1>5. p[2] = x /\ q[2] = x
  <2>1. /\ p[2] \in Keys /\ q[2] \in Keys
        /\ \A k \in Keys : client.shown[k] \in Keys => client.shown[k] = k
    BY <1>2, <1>3, TokenNat, ClientOK
  <2>2. p[2] = x \/ q[2] = x
    BY <1>1, <1>2, <1>3, <1>4
  <2> QED  BY <1>4, <2>1, <2>2
<1>6. p[1] # q[1]
  BY <1>1, <1>2, <1>3, <1>4, <1>5
<1>7. /\ p \in held /\ q \in held /\ p \in Routes \X Keys /\ q \in Routes \X Keys
      /\ p[2] \in Matched[p[1]] /\ q[2] \in Matched[q[1]]
  BY <1>2, <1>3, TokenNat DEF Finds, Reached
<1>8. p = <<p[1], x>> /\ q = <<q[1], x>> /\ p[1] \in Routes /\ q[1] \in Routes
  BY <1>5, <1>7
<1> HIDE DEF x
<1>9. Twice(x)
  BY <1>5, <1>6, <1>7, <1>8 DEF Twice
<1> QED  BY <1>9 DEF x

\* The token is the last item shown.
LEMMA BehindStep ==
    ASSUME Types, Behind, [Next]_vars
    PROVE  Behind'
<1>1. Promised' = Promised
  BY Kept DEF Promised, Items
<1>2. CASE /\ UNCHANGED <<pages, token>>
           /\ phase' \in {"asking", "collecting"} => phase \in {"asking", "collecting"}
  <2>1. Listed' = Listed
    BY <1>2 DEF Listed
  <2> QED  BY <1>1, <1>2, <2>1 DEF Behind
<1>3. CASE Answer
  <2> SUFFICES ASSUME phase' \in {"asking", "collecting"}, Promised,
                      NEW item \in Listed'
               PROVE  item <= token'
    BY <1>1 DEF Behind
  <2>1. /\ Len(Page) < Len(Rest) /\ token' = NextToken(Page)
        /\ \A x \in Listed : x <= token
    BY <1>3, Answered DEF Behind
  <2>2. Len(Page) \in DOMAIN Page /\ token' = Page[Len(Page)]
    BY <2>1, TokenNat, PageToken
  <2>3. /\ DOMAIN Page = 1..Len(Page) /\ token \in Nat /\ token' \in Nat
        /\ \A m \in DOMAIN Page : Page[m] > token /\ Page[m] <= Page[Len(Page)]
    BY <2>2, TokenNat, PageShape, PageItems
  <2>4. Listed \subseteq Nat
    BY TokenNat DEF Listed, Types, TypeOK
  <2>5. CASE item \in Listed
    BY <2>1, <2>2, <2>3, <2>4, <2>5
  <2>6. CASE item \in ToSet(Page)
    BY <2>2, <2>3, <2>6 DEF ToSet
  <2> QED  BY <1>3, <2>5, <2>6, ListedThen
<1> QED
  BY <1>2, <1>3
  DEF Next, Collector, vars, Ended, Ask, Collect, Abandon, Refuse, Expire, Write,
      Work, Skip, Succeed, Fail

\* A page comes after all that has been shown, and is in order itself.
LEMMA AscendingStep ==
    ASSUME Types, Finds, Behind, Ascending, [Next]_vars
    PROVE  Ascending'
<1>1. Promised' = Promised /\ held \subseteq held'
  BY Kept DEF Promised, Items
<1> DEFINE Both(k) == \E r, s \in Routes :
                        /\ r # s /\ {<<r, k>>, <<s, k>>} \subseteq held'
                        /\ k \in Matched[r] \cap Matched[s]
<1>2. \A k : Twice(k) => Both(k)
  BY <1>1 DEF Twice
<1>3. CASE UNCHANGED pages
  <2> SUFFICES ASSUME Promised,
                      NEW i \in DOMAIN pages, NEW j \in DOMAIN pages,
                      NEW m \in DOMAIN pages[i], NEW n \in DOMAIN pages[j]
               PROVE  /\ i < j => pages[i][m] < pages[j][n]
                      /\ i = j /\ m < n => \/ pages[i][m] < pages[j][n]
                                           \/ /\ pages[i][m] = pages[j][n]
                                              /\ Both(pages[i][m])
    <3>1. (Ascending)' <=>
            (Promised' =>
               \A i, j \in DOMAIN pages' :
                 \A m \in DOMAIN pages'[i], n \in DOMAIN pages'[j] :
                   /\ i < j => pages'[i][m] < pages'[j][n]
                   /\ i = j /\ m < n => \/ pages'[i][m] < pages'[j][n]
                                        \/ /\ pages'[i][m] = pages'[j][n]
                                           /\ Both(pages'[i][m]))
      BY <1>1 DEF Ascending, Promised, Twice
    <3> HIDE DEF Both
    <3> QED  BY <1>1, <1>3, <3>1
  <2> HIDE DEF Both
  <2>1. /\ i < j => pages[i][m] < pages[j][n]
        /\ i = j /\ m < n => \/ pages[i][m] < pages[j][n]
                             \/ /\ pages[i][m] = pages[j][n]
                                /\ Twice(pages[i][m])
    BY DEF Ascending, Promised
  <2> QED  BY <1>2, <2>1
<1>4. CASE Answer
  <2> SUFFICES ASSUME Promised,
                      NEW i \in DOMAIN pages', NEW j \in DOMAIN pages',
                      NEW m \in DOMAIN pages'[i], NEW n \in DOMAIN pages'[j]
               PROVE  /\ i < j => pages'[i][m] < pages'[j][n]
                      /\ i = j /\ m < n => \/ pages'[i][m] < pages'[j][n]
                                           \/ /\ pages'[i][m] = pages'[j][n]
                                              /\ Both(pages'[i][m])
    BY <1>1 DEF Ascending, Promised, Twice
  <2> HIDE DEF Both
  <2>0. DOMAIN pages = 1..Len(pages) /\ Len(pages) \in Nat
    BY DEF Types
  <2>1. /\ \A k \in DOMAIN pages : k \in Nat /\ k <= Len(pages) /\ pages'[k] = pages[k]
        /\ Len(pages') = Len(pages) + 1 /\ Len(pages) \in Nat
        /\ pages'[Len(pages')] = Page
        /\ \A k \in DOMAIN pages' : k \in DOMAIN pages \/ k = Len(pages')
    <3>1. /\ \A k \in DOMAIN pages : pages'[k] = pages[k]
          /\ Len(pages') = Len(pages) + 1
          /\ pages'[Len(pages')] = Page
          /\ \A k \in DOMAIN pages' : k \in DOMAIN pages \/ k = Len(pages')
      BY <1>4, ListedThen
    <3>2. \A k \in DOMAIN pages : k \in Nat /\ k <= Len(pages)
      BY <2>0
    <3> QED  BY <2>0, <3>1, <3>2
  <2>2. CASE i \in DOMAIN pages /\ j \in DOMAIN pages
    <3>1. m \in DOMAIN pages[i] /\ n \in DOMAIN pages[j]
      BY <2>1, <2>2
    <3>2. /\ i < j => pages[i][m] < pages[j][n]
          /\ i = j /\ m < n => \/ pages[i][m] < pages[j][n]
                               \/ /\ pages[i][m] = pages[j][n]
                                  /\ Twice(pages[i][m])
      BY <2>2, <3>1 DEF Ascending, Promised
    <3>3. pages'[i] = pages[i] /\ pages'[j] = pages[j]
      BY <2>1, <2>2
    <3> QED  BY <1>2, <3>2, <3>3
  <2>3. CASE i \in DOMAIN pages /\ j = Len(pages')
    <3>1. pages[i][m] \in Listed /\ pages'[i][m] = pages[i][m]
      BY <2>1, <2>3 DEF Listed, ToSet
    <3>2. pages[i][m] <= token /\ pages[i][m] \in Nat
      <4>1. phase = "collecting"
        BY <1>4, Answered
      <4>2. pages[i][m] <= token
        BY <3>1, <4>1 DEF Behind
      <4>3. Listed \subseteq Nat
        BY TokenNat DEF Listed, Types, TypeOK
      <4> QED  BY <3>1, <4>2, <4>3
    <3>3. pages'[j][n] \in Nat /\ token < pages'[j][n] /\ token \in Nat
      <4>1. pages'[j] = Page /\ n \in DOMAIN Page
        BY <2>1, <2>3
      <4>2. Page[n] > token /\ token \in Nat
        BY <4>1, TokenNat, PageShape
      <4>3. Page[n] \in Nat
        BY <4>1, TokenNat, PageItems
      <4> QED  BY <4>1, <4>2, <4>3
    <3> QED  BY <2>1, <2>3, <3>1, <3>2, <3>3
  <2>4. CASE i = Len(pages') /\ j \in DOMAIN pages
    BY <2>1, <2>4
  <2>5. CASE i = Len(pages') /\ j = Len(pages')
    <3>1. pages'[i] = Page /\ pages'[j] = Page /\ m \in DOMAIN Page /\ n \in DOMAIN Page
      BY <2>1, <2>5
    <3>2. /\ m < n => Page[m] <= Page[n]
          /\ m < n /\ Page[m] = Page[n] => Twice(Page[m])
          /\ Page[m] \in Nat /\ Page[n] \in Nat
      <4>1. m \in Nat /\ n \in Nat
        <5>1. DOMAIN Page = 1..Len(Page)
          BY TokenNat, PageShape
        <5> HIDE DEF Page
        <5> QED  BY <3>1, <5>1
      <4>2. Page[m] \in Nat /\ Page[n] \in Nat
        BY <3>1, TokenNat, PageItems
      <4>3. m < n => Page[m] <= Page[n]
        <5>1. m < n => m <= n
          BY <4>1
        <5> QED  BY <3>1, <5>1, TokenNat, PageItems
      <4>4. m < n /\ Page[m] = Page[n] => Twice(Page[m])
        BY <3>1, PageTwice
      <4> QED  BY <4>2, <4>3, <4>4
    <3> QED  BY <1>2, <2>5, <3>1, <3>2
  <2> QED  BY <2>1, <2>2, <2>3, <2>4, <2>5
<1> QED
  BY <1>3, <1>4
  DEF Next, Collector, vars, Ended, Ask, Collect, Abandon, Refuse, Expire, Write,
      Work, Skip, Succeed, Fail

-----------------------------------------------------------------------------
(* Nothing that was there all the time is left out.                        *)

\* A reply that is not truncated holds every key that the route matches.
LEMMA WholeReply ==
    ASSUME Types, NEW r \in Routes, ~(Cardinality(Candidates(r)) > FetchSize(r)),
           NEW k \in Candidates(r), k \in Matched[r]
    PROVE  k \in Objects(r)
<1> DEFINE C == Candidates(r)
           D == {j \in C : j < k}
<1>1. C \in SUBSET Keys /\ IsFiniteSet(C) /\ Keys \subseteq Nat
  <2>1. C \in SUBSET Keys
    BY DEF Candidates, Types, TypeOK
  <2> HIDE DEF C
  <2> QED  BY <2>1, ListingAssumption, FS_Subset
<1>2. FetchSize(r) \in Nat
  <2>1. Factor[r] \in Nat /\ client.maxKeys \in Nat /\ Limit \in Nat
    BY ListingAssumption, TokenNat, ClientOK
  <2>2. Factor[r] * client.maxKeys \in Nat
    BY <2>1
  <2> QED  BY <2>1, <2>2, MinOfTwo DEF FetchSize
<1>3. D \in SUBSET C /\ k \notin D /\ k \in C
  <2>1. k \in C
    OBVIOUS
  <2> HIDE DEF C
  <2>2. k \in Nat
    BY <1>1, <2>1
  <2>3. ~(k < k)
    BY <2>2
  <2> QED  BY <2>1, <2>3
<1>4. Cardinality(D) < Cardinality(C)
  <2> HIDE DEF C, D
  <2>1. /\ Cardinality(D) <= Cardinality(C)
        /\ Cardinality(D) \in Nat /\ Cardinality(C) \in Nat
        /\ Cardinality(C) = Cardinality(D) => C = D
    BY <1>1, <1>3, FS_Subset, FS_CardinalityType
  <2> QED  BY <1>3, <2>1
<1>5. Cardinality(D) < FetchSize(r)
  <2>1. Cardinality(D) \in Nat /\ Cardinality(C) \in Nat
    <3> HIDE DEF C, D
    <3> QED  BY <1>1, <1>3, FS_Subset, FS_CardinalityType
  <2> QED  BY <1>2, <1>4, <2>1
<1> QED  BY <1>5 DEF Objects

\* What is due is a route's object, and not of a route that is skipped.
LEMMA DueType ==
    ASSUME Types, Histories, NEW p \in Due
    PROVE  /\ p[1] \in Routes /\ p[2] \in Keys /\ p = <<p[1], p[2]>>
           /\ p[2] \in stored[p[1]] /\ p[2] \in client.under
           /\ p[2] \in Matched[p[1]] /\ p[1] \notin client.skipped
<1>1. p \in Pairs(stored) /\ p[2] \in Matched[p[1]] \cap client.under
  BY DEF Due, Histories
<1>2. p[1] \notin client.skipped
  BY <1>1, TokenNat, ClientOK
<1> QED  BY <1>1, <1>2 DEF Pairs

\* A route's reply holds what is due, and the collector takes every reply.
LEMMA HeardStep ==
    ASSUME Types, Histories, Heard, [Next]_vars
    PROVE  Heard'
<1>1. Due' \subseteq Due
  BY Kept DEF Due
<1>2. results \in Seq(Results)
  BY DEF Types
<1>3. CASE /\ UNCHANGED <<worker, results, collected, errors, cut>>
           /\ phase' = "collecting" => phase = "collecting"
  BY <1>1, <1>3 DEF Heard, Told
<1>4. CASE Ask
  <2>1. \A p \in Due : worker'[p[1]] = "running"
    BY <1>4, DueType DEF Ask
  <2> QED  BY <1>1, <2>1 DEF Heard
<1>5. CASE Collect
  <2> SUFFICES ASSUME ~cut, NEW p \in Due
               PROVE  \/ worker[p[1]] = "running"
                      \/ p \in collected' \/ p[1] \in errors' \/ Told(p)'
    BY <1>1, <1>5 DEF Heard, Collect, history
  <2>1. /\ phase = "collecting" /\ results # << >> /\ results' = Tail(results)
        /\ collected \subseteq collected' /\ errors \subseteq errors'
    BY <1>5 DEF Collect
  <2>2. ASSUME NEW i \in DOMAIN results, results[i].route = p[1],
               results[i].ok => p[2] \in results[i].objects
        PROVE  p \in collected' \/ p[1] \in errors' \/ Told(p)'
    <3>1. CASE i = 1
      <4>1. Head(results) = results[1]
        BY <1>2, <2>1
      <4>2. CASE results[1].ok
        <5>1. collected' = collected \cup ({results[1].route} \X results[1].objects)
          BY <1>5, <4>1, <4>2 DEF Collect
        <5>2. p = <<results[1].route, p[2]>> /\ p[2] \in results[1].objects
          BY <2>2, <3>1, <4>2, DueType
        <5> QED  BY <5>1, <5>2
      <4>3. CASE ~results[1].ok
        BY <1>5, <2>2, <3>1, <4>1, <4>3 DEF Collect
      <4> QED  BY <4>2, <4>3
    <3>2. CASE i # 1
      <4>1. i - 1 \in DOMAIN results' /\ results'[i - 1] = results[i]
        BY <1>2, <2>1, <3>2
      <4> QED  BY <2>2, <4>1 DEF Told
    <3> QED  BY <3>1, <3>2
  <2> QED  BY <2>1, <2>2 DEF Heard, Told
<1>6. ASSUME NEW r \in Routes, Work(r) PROVE Heard'
  <2> SUFFICES ASSUME phase = "collecting", ~cut', NEW p \in Due
               PROVE  \/ worker'[p[1]] = "running"
                      \/ p \in collected \/ p[1] \in errors \/ Told(p)'
    BY <1>1, <1>6 DEF Heard, Work, Skip, Succeed, Fail
  <2>1. PICK result : /\ results' = Append(results, result)
                      /\ result.route = r
                      /\ worker' = [worker EXCEPT ![r] = "idle"]
                      /\ p[1] = r /\ result.ok => p[2] \in result.objects
    <3>1. CASE Skip(r)
      <4>1. r \in client.skipped /\ p[1] # r
        BY <3>1, DueType DEF Skip
      <4> QED  BY <3>1, <4>1 DEF Skip, Send
    <3>2. CASE Succeed(r)
      <4>1. p[1] = r => p[2] \in Objects(r)
        <5>1. ~(Cardinality(Candidates(r)) > FetchSize(r))
          BY <3>2 DEF Succeed
        <5>2. p[1] = r => p[2] \in Candidates(r) /\ p[2] \in Matched[r]
          BY DueType DEF Candidates
        <5> QED  BY <5>1, <5>2, WholeReply
      <4> DEFINE x == [route |-> r, ok |-> TRUE, objects |-> Objects(r)]
      <4>2. x.route = r /\ x.objects = Objects(r)
        OBVIOUS
      <4>3. results' = Append(results, x) /\ worker' = [worker EXCEPT ![r] = "idle"]
        BY <3>2 DEF Succeed, Send
      <4> HIDE DEF x
      <4> QED  BY <4>1, <4>2, <4>3
    <3>3. CASE Fail(r)
      BY <3>3 DEF Fail, Send
    <3> QED  BY <1>6, <3>1, <3>2, <3>3 DEF Work
  <2>2. ~cut
    BY <1>6 DEF Work, Skip, Succeed, Fail, history
  <2>3. /\ Len(results) + 1 \in DOMAIN results'
        /\ results'[Len(results) + 1] = result
        /\ \A i \in DOMAIN results : i \in DOMAIN results' /\ results'[i] = results[i]
    BY <1>2, <2>1
  <2>4. CASE p[1] = r
    BY <2>1, <2>3, <2>4 DEF Told
  <2>5. CASE p[1] # r
    <3>1. worker'[p[1]] = worker[p[1]]
      BY <2>1, <2>5, DueType DEF Types, TypeOK
    <3>2. Told(p) => Told(p)'
      BY <2>3 DEF Told
    <3> QED  BY <2>2, <3>1, <3>2 DEF Heard
  <2> QED  BY <2>4, <2>5
<1>7. CASE Abandon \/ Answer \/ Refuse
  BY <1>7, Answered DEF Abandon, Refuse, Heard
<1> QED
  BY <1>3, <1>4, <1>5, <1>6, <1>7
  DEF Next, Collector, vars, Ended, Expire, Write, request, history

\* A page that is answered when no route failed and no reply was truncated is
\* cut out of a list with all that is wanted.
LEMMA WantedInList ==
    ASSUME Types, Histories, Heard, Answer, ~cut, errors = {}, NEW w \in Wanted
    PROVE  \E i \in DOMAIN unifiedList : unifiedList[i] = w
<1>1. PICK p \in Due : client.shown[p[2]] = w
  BY DEF Wanted, Due
<1>2. p \in collected /\ p[2] \in client.under
  BY Answered, DueType DEF Heard, Told, Closed
<1>3. PICK e \in Entries : e[1] = w
  BY <1>1, <1>2, TokenNat, EntryOrigin
<1> QED  BY <1>3, TokenNat, ListOrder

\* Of what lies beyond the token, the page shows all if it is the last one,
\* and else all that does not lie beyond its own last item.
LEMMA PageShows ==
    ASSUME Types, NEW i \in DOMAIN unifiedList, unifiedList[i] > token
    PROVE  /\ ~(Len(Page) < Len(Rest)) => unifiedList[i] \in ToSet(Page)
           /\ Len(Page) \in DOMAIN Page /\ unifiedList[i] <= Page[Len(Page)] =>
                 unifiedList[i] \in ToSet(Page)
<1> DEFINE m == i - PageStart
<1>1. /\ DOMAIN unifiedList = 1..Len(unifiedList) /\ Len(unifiedList) \in Nat
      /\ PageStart \in 0..Len(unifiedList) /\ unifiedList[i] \in Nat
      /\ unifiedList[i] <= token <=> i <= PageStart
  BY TokenNat, ListShape, StartIndex
<1>2. /\ DOMAIN Page = 1..Len(Page) /\ Len(Page) \in Nat
      /\ Len(Rest) = Len(unifiedList) - PageStart /\ Len(Page) <= Len(Rest)
      /\ \A n \in DOMAIN Page : /\ PageStart + n \in DOMAIN unifiedList
                                /\ Page[n] = unifiedList[PageStart + n]
  BY TokenNat, PageShape
<1>3. m \in 1..Len(Rest) /\ PageStart + m = i
  <2>1. ~(i <= PageStart)
    BY <1>1, TokenNat
  <2> QED  BY <1>1, <1>2, <2>1
<1>4. m <= Len(Page) => unifiedList[i] \in ToSet(Page)
  <2>1. m <= Len(Page) => m \in DOMAIN Page
    BY <1>2, <1>3
  <2> QED  BY <1>2, <1>3, <2>1 DEF ToSet
<1>5. ~(Len(Page) < Len(Rest)) => m <= Len(Page)
  BY <1>2, <1>3
<1>6. ASSUME Len(Page) \in DOMAIN Page, unifiedList[i] <= Page[Len(Page)],
             ~(m <= Len(Page))
      PROVE  unifiedList[i] \in ToSet(Page)
  <2> DEFINE j == PageStart + Len(Page)
  <2>1. j \in DOMAIN unifiedList /\ Page[Len(Page)] = unifiedList[j]
    BY <1>2, <1>6
  <2>2. j <= i
    BY <1>1, <1>2, <1>3, <1>6
  <2>3. unifiedList[j] <= unifiedList[i] /\ unifiedList[j] \in Nat
    <3> HIDE DEF j
    <3>1. unifiedList[j] <= unifiedList[i]
      BY <2>1, <2>2, TokenNat, ListOrder
    <3>2. \A n \in DOMAIN unifiedList : unifiedList[n] \in Nat
      BY TokenNat, ListShape
    <3> QED  BY <2>1, <3>1, <3>2
  <2>4. unifiedList[i] = Page[Len(Page)]
    BY <1>1, <1>6, <2>1, <2>3
  <2> QED  BY <1>6, <2>4 DEF ToSet
<1> QED  BY <1>4, <1>5, <1>6

\* A page shows all that is wanted up to its token, and the last one the rest.
LEMMA ShownStep ==
    ASSUME Types, Histories, Heard, ShownSoFar, Complete, [Next]_vars
    PROVE  ShownSoFar' /\ Complete'
<1>1. /\ Promised' = Promised /\ Wanted' \subseteq Wanted
      /\ Promised <=> client.version = "v2" \/ Items \subseteq Keys
  BY Kept DEF Promised, Items, Wanted
<1>2. CASE /\ UNCHANGED <<pages, token, lost>> /\ (cut => cut')
           /\ phase' \in {"asking", "collecting"} => phase \in {"asking", "collecting"}
           /\ phase' = "done" => phase = "done"
  <2>1. Listed' = Listed
    BY <1>2 DEF Listed
  <2>2. ShownSoFar'
    BY <1>1, <1>2, <2>1 DEF ShownSoFar
  <2>3. Complete'
    BY <1>1, <1>2, <2>1 DEF Complete, Promised
  <2> QED  BY <2>2, <2>3
<1>3. CASE Answer
  <2>1. /\ phase = "collecting" /\ cut' = cut /\ lost' = (lost \/ errors # {})
        /\ token' = IF Len(Page) < Len(Rest) THEN NextToken(Page) ELSE 0
        /\ phase' = IF Len(Page) < Len(Rest) /\ NextToken(Page) # 0
                      THEN "asking" ELSE "done"
        /\ Listed' = Listed \cup ToSet(Page)
    BY <1>3, Answered, ListedThen
  <2>2. ASSUME ~cut, ~lost, errors = {}, Promised, NEW w \in Wanted
        PROVE  /\ phase' = "done" => w \in Listed'
               /\ phase' = "asking" /\ w <= token' => w \in Listed'
    <3>1. PICK i \in DOMAIN unifiedList : unifiedList[i] = w
      BY <1>3, <2>2, WantedInList
    <3>2. w \in Nat /\ token \in Nat
      BY <3>1, TokenNat, ListShape
    <3>3. CASE w <= token
      BY <2>1, <2>2, <3>3 DEF ShownSoFar
    <3>4. CASE w > token
      <4>1. phase' = "done" => ~(Len(Page) < Len(Rest))
        BY <2>1, <2>2, TokenNat, PageToken
      <4>2. phase' = "asking" => Len(Page) \in DOMAIN Page /\ token' = Page[Len(Page)]
        BY <2>1, <2>2, TokenNat, PageToken
      <4> QED  BY <2>1, <3>1, <3>4, <4>1, <4>2, PageShows
    <3> QED  BY <3>2, <3>3, <3>4
  <2>3. ShownSoFar'
    BY <1>1, <2>1, <2>2 DEF ShownSoFar
  <2>4. Complete'
    BY <1>1, <2>1, <2>2 DEF Complete, Promised
  <2> QED  BY <2>3, <2>4
<1>4. ASSUME NEW r \in Routes, Work(r) PROVE ShownSoFar' /\ Complete'
  <2>1. UNCHANGED <<pages, token, lost, phase>> /\ (cut => cut')
    <3>1. CASE Skip(r)
      BY <3>1 DEF Skip, history
    <3>2. CASE Succeed(r)
      BY <3>2 DEF Succeed
    <3>3. CASE Fail(r)
      BY <3>3 DEF Fail, history
    <3> QED  BY <1>4, <3>1, <3>2, <3>3 DEF Work
  <2> QED  BY <1>2, <2>1
<1>5. CASE Ask \/ Collect \/ Abandon \/ Refuse
  BY <1>2, <1>5 DEF Ask, Collect, Abandon, Refuse, history
<1>6. CASE Expire \/ Write \/ UNCHANGED vars
  BY <1>2, <1>6 DEF Expire, Write, vars, history
<1> QED
  BY <1>3, <1>4, <1>5, <1>6 DEF Next, Collector, Ended

-----------------------------------------------------------------------------
\* The invariant holds at first.
LEMMA IInvInit == Init => IInv
<1> SUFFICES ASSUME Init PROVE IInv
  OBVIOUS
<1>1. Types /\ Histories
  BY TypesInit DEF Init, Histories
<1>2. Listed = {}
  BY DEF Init, Listed
<1>3. Finds /\ Honest /\ Behind /\ ShownSoFar
  <2>1. Finds
    BY DEF Init, Finds
  <2>2. \A item \in Wanted : ~(item <= token)
    <3>1. \A p \in Due : client.shown[p[2]] \in Nat \ {0}
      BY <1>1, DueType, TokenNat, ClientOK
    <3> QED  BY <3>1 DEF Init, Wanted, Due
  <2> QED  BY <1>2, <2>1, <2>2 DEF Honest, Behind, ShownSoFar
<1>4. Ascending /\ Heard /\ Complete
  BY DEF Init, Ascending, Heard, Complete
<1> QED  BY <1>1, <1>3, <1>4 DEF IInv

\* Every step keeps it.
LEMMA IInvStep == IInv /\ [Next]_vars => IInv'
  BY TypesStep, HistoriesStep, FindsStep, HonestStep, BehindStep, AscendingStep,
     HeardStep, ShownStep DEF IInv

\* In every reachable state the invariant holds.
THEOREM Invariant == Spec => []IInv
<1>1. Init => IInv
  BY IInvInit
<1>2. IInv /\ [Next]_vars => IInv'
  BY IInvStep
<1> QED  BY <1>1, <1>2, PTL DEF Spec

\* Every variable stays in its range and no page is longer than MaxKeys.
THEOREM TypeCorrect == Spec => []TypeOK
<1>1. IInv => TypeOK
  BY DEF IInv, Types
<1> QED  BY <1>1, Invariant, PTL

\* What is listed comes from an object some backend held while the client was
\* listing, and to which the route leads.
THEOREM ListsHonestly == Spec => []Honest
<1>1. IInv => Honest
  BY DEF IInv
<1> QED  BY <1>1, Invariant, PTL

\* The pages follow one another in the order of the keys, and none repeats what
\* an earlier one has shown.
THEOREM ListsInOrder == Spec => []Ascending
<1>1. IInv => Ascending
  BY DEF IInv
<1> QED  BY <1>1, Invariant, PTL

\* A listing that ends without a failed route or a truncated reply is complete.
THEOREM ListsAll == Spec => []Complete
<1>1. IInv => Complete
  BY DEF IInv
<1> QED  BY <1>1, Invariant, PTL

-----------------------------------------------------------------------------
(* The channel has room for every goroutine that is to send.               *)

Running == {r \in Routes : worker[r] = "running"}
Room == Len(results) + Cardinality(Running) <= Cardinality(Routes)

\* A goroutine that sends no longer runs, and Ask empties the channel.
LEMMA RoomStep ==
    ASSUME Types, Room, [Next]_vars
    PROVE  Room'
<1>1. /\ IsFiniteSet(Routes) /\ Cardinality(Routes) \in Nat
      /\ IsFiniteSet(Running) /\ Cardinality(Running) \in Nat
  <2>1. Running \in SUBSET Routes
    BY DEF Running
  <2> QED  BY <2>1, ListingAssumption, FS_CardinalityType, FS_Subset
<1>2. results \in Seq(Results) /\ Len(results) \in Nat
  BY DEF Types
<1>3. CASE UNCHANGED <<worker, results>>
  BY <1>3 DEF Room, Running
<1>4. CASE Ask
  <2>1. Len(results') = 0 /\ Running' = Routes
    BY <1>4 DEF Ask, Running
  <2> QED  BY <1>1, <2>1 DEF Room
<1>5. CASE Collect
  <2>1. Len(results') = Len(results) - 1 /\ Running' = Running
    BY <1>2, <1>5 DEF Collect, Running
  <2> QED  BY <1>1, <1>2, <2>1 DEF Room
<1>6. ASSUME NEW r \in Routes, Work(r) PROVE Room'
  <2>1. PICK result : Send(r, result)
    BY <1>6 DEF Work, Skip, Succeed, Fail
  <2>2. Len(results') = Len(results) + 1
    BY <1>2, <2>1 DEF Send
  <2>3. r \in Running /\ Running' = Running \ {r}
    BY <2>1 DEF Send, Running, Types, TypeOK
  <2>4. Cardinality(Running') = Cardinality(Running) - 1
    BY <1>1, <2>3, FS_RemoveElement
  <2> QED  BY <1>1, <1>2, <2>2, <2>4 DEF Room
<1> QED
  BY <1>3, <1>4, <1>5, <1>6
  DEF Next, Collector, vars, Ended, Abandon, Answer, Refuse, Expire, Write, request

\* A route's goroutine never waits for room in the channel, also when nobody
\* collects any more: none leaks.
THEOREM SendNeverBlocks ==
    Spec => [](\A r \in Routes : worker[r] = "running" => Len(results) < Capacity)
<1>1. Init => Room
  <2> SUFFICES ASSUME Init PROVE Room
    OBVIOUS
  <2>1. Running = {} /\ Len(results) = 0
    BY DEF Init, Running
  <2> QED  BY <2>1, ListingAssumption, FS_EmptySet, FS_CardinalityType DEF Room
<1>2. IInv /\ Room /\ [Next]_vars => Room'
  BY RoomStep DEF IInv
<1>3. IInv /\ Room => \A r \in Routes : worker[r] = "running" => Len(results) < Capacity
  <2> SUFFICES ASSUME IInv, Room, NEW r \in Routes, worker[r] = "running"
               PROVE  Len(results) < Capacity
    OBVIOUS
  <2>1. Running \in SUBSET Routes /\ Running # {}
    BY DEF Running
  <2>2. IsFiniteSet(Running) /\ Cardinality(Running) \in Nat
    BY <2>1, ListingAssumption, FS_Subset, FS_CardinalityType
  <2>3. Cardinality(Running) # 0
    BY <2>1, <2>2, FS_EmptySet
  <2>4. Len(results) \in Nat /\ Cardinality(Routes) \in Nat
    BY ListingAssumption, FS_CardinalityType DEF IInv, Types
  <2> QED  BY <2>2, <2>3, <2>4 DEF Room, Capacity
<1> QED  BY <1>1, <1>2, <1>3, Invariant, PTL DEF Spec
=============================================================================

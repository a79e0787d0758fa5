---------------------------- MODULE LookupProofs ----------------------------
(***************************************************************************)
(* Proofs about the computations of module Lookups: batches of deletions,  *)
(* for any backends, keys and routes and batches of any length, virtual    *)
(* hosts, for any tables of entries, and the prefix optimizer, for any     *)
(* routes of the two kinds that PrefixOptimizer names.                     *)
(***************************************************************************)
EXTENDS Lookups, SequenceTheorems, FiniteSetTheorems, WellFoundedInduction, TLAPS

-----------------------------------------------------------------------------
(* Batches of deletions.                                                   *)

Places == 1..Len(named)

\* A group that is still to be asked for is all of the backend's keys.
GroupsRight ==
    \A b \in DOMAIN groups :
       groups[b] = {i \in Places : Decide(named[i]).backend = b}

\* OnlyNamed in terms of Decide.
RemovedDecided == removed \subseteq {Decide(k) : k \in NamedKeys}

\* ReportsAreTrue in terms of Decide.
ReportedConfirmed ==
    reported \subseteq NamedKeys /\ {Decide(k) : k \in reported} = confirmed

\* EveryBackendAsked in terms of Decide.
AskedOrWaiting ==
    /\ asked \cap DOMAIN groups = {}
    /\ asked \cup DOMAIN groups = {Decide(k).backend : k \in NamedKeys}

IInv ==
    /\ TypeOK
    /\ GroupsRight
    /\ RemovedDecided
    /\ ReportedConfirmed
    /\ AskedOrWaiting

\* A nonempty set of places has a last one.
LEMMA LastPlace ==
    ASSUME NEW n \in Nat, NEW S \in SUBSET (1..n), S # {}
    PROVE  \E i \in S : \A j \in S : ~(i < j)
<1> DEFINE T == {n - i : i \in S}
<1>1. OpToRel(<, Nat) = {ss \in Nat \X Nat : ss[1] < ss[2]}
  BY DEF OpToRel
<1>2. T \subseteq Nat /\ T # {}
  <2>1. \A i \in S : i \in Nat /\ i <= n
    OBVIOUS
  <2>2. \A i \in S : n - i \in Nat
    BY <2>1
  <2>3. PICK i \in S : TRUE
    OBVIOUS
  <2> QED  BY <2>2, <2>3
<1>3. PICK x \in T : \A y \in T : ~ (<<y, x>> \in OpToRel(<, Nat))
  BY NatLessThanWellFounded, <1>2, WFMin
<1>4. \A y \in T : ~(y < x)
  <2> TAKE y \in T
  <2>1. <<y, x>> \in Nat \X Nat
    BY <1>2
  <2>2. ~ (<<y, x>> \in {ss \in Nat \X Nat : ss[1] < ss[2]})
    BY <1>1, <1>3
  <2> QED  BY <2>1, <2>2
<1>5. PICK i \in S : x = n - i
  OBVIOUS
<1>6. ASSUME NEW j \in S PROVE ~(i < j)
  <2>1. ~ (n - j < n - i)
    BY <1>4, <1>5, <1>6
  <2>2. i \in Nat /\ j \in Nat
    BY <1>6
  <2> QED  BY <2>1, <2>2
<1> QED  BY <1>6

\* Every key has an object, with the backend it is at.
LEMMA DecideType ==
    ASSUME NEW k \in Keys
    PROVE  Decide(k) \in Objects /\ Decide(k).backend \in Backends
  BY BatchAssumption DEF Decide, Objects

\* The key an object is reported under is a key of the request with that object.
LEMMA VirtualKeyIsNamed ==
    ASSUME TypeOK, GroupsRight, NEW b \in DOMAIN groups, NEW o \in Targets(b)
    PROVE  VirtualKey(groups[b], o) \in NamedKeys
           /\ Decide(VirtualKey(groups[b], o)) = o
<1> DEFINE S == {i \in groups[b] : Decide(named[i]) = o}
<1>1. Len(named) \in Nat /\ S \subseteq 1..Len(named) /\ S # {}
  BY DEF TypeOK, Targets
<1>2. PICK i \in S : \A j \in S : ~(i < j)
  BY <1>1, LastPlace
<1>3. /\ i \in groups[b] /\ Decide(named[i]) = o
      /\ \A j \in groups[b] : j > i => Decide(named[j]) # o
  <2>1. \A j \in groups[b] : j \in Nat /\ i \in Nat
    BY <1>1, <1>2 DEF TypeOK
  <2> QED  BY <1>2, <2>1
<1> DEFINE Last(x) == /\ Decide(named[x]) = o
                      /\ \A j \in groups[b] : j > x => Decide(named[j]) # o
           c == CHOOSE x \in groups[b] : Last(x)
<1>4. c \in groups[b] /\ Last(c)
  BY <1>3
<1>5. VirtualKey(groups[b], o) = named[c]
  BY DEF VirtualKey
<1>6. groups[b] \subseteq 1..Len(named)
  BY DEF TypeOK
<1> QED  BY <1>4, <1>5, <1>6 DEF NamedKeys

\* The inductive invariant holds at first.
LEMMA InitIInv == Init => IInv
<1> SUFFICES ASSUME Init PROVE IInv
  OBVIOUS
<1>1. NamedKeys = {} /\ DOMAIN groups = {}
  BY DEF Init, NamedKeys
<1> QED
  BY <1>1 DEF Init, IInv, TypeOK, GroupsRight, RemovedDecided, ReportedConfirmed,
     AskedOrWaiting

\* A request that is received.
LEMMA ReceiveStep == IInv /\ Receive => IInv'
<1> SUFFICES ASSUME IInv, Receive PROVE IInv'
  OBVIOUS
<1> DEFINE Received(n, ks) ==
             /\ named' = ks /\ groups' = GroupsOf(ks)
             /\ phase' = IF n = 0 THEN "answered" ELSE "asking"
             /\ reported' = {} /\ asked' = {} /\ removed' = {} /\ confirmed' = {}
<1>0. PICK n \in 0..MaxKeys : \E ks \in [1..n -> Keys] : Received(n, ks)
  BY DEF Receive
<1>1. PICK ks \in [1..n -> Keys] : Received(n, ks)
  BY <1>0
<1>2. n \in Nat /\ ks \in Seq(Keys) /\ Len(ks) = n
  BY BatchAssumption
<1>3. DOMAIN groups' = {Decide(ks[i]).backend : i \in 1..Len(ks)}
  BY <1>1 DEF GroupsOf
<1>4. \A b \in DOMAIN groups' :
         groups'[b] = {i \in 1..Len(ks) : Decide(ks[i]).backend = b}
  BY <1>1 DEF GroupsOf
<1>5. NamedKeys' = {ks[i] : i \in 1..Len(ks)}
  BY <1>1 DEF NamedKeys
<1>6. TypeOK'
  <2>1. DOMAIN groups' \subseteq Backends
    BY <1>2, <1>3, DecideType
  <2>2. \A b \in DOMAIN groups' : groups'[b] \subseteq 1..Len(ks) /\ groups'[b] # {}
    BY <1>3, <1>4
  <2> QED  BY <1>1, <1>2, <2>1, <2>2 DEF TypeOK
<1>7. GroupsRight'
  BY <1>1, <1>4 DEF GroupsRight, Places, Decide
<1>8. RemovedDecided' /\ ReportedConfirmed'
  BY <1>1 DEF RemovedDecided, ReportedConfirmed
<1>9. AskedOrWaiting'
  BY <1>1, <1>3, <1>5 DEF AskedOrWaiting, Decide
<1> QED  BY <1>6, <1>7, <1>8, <1>9 DEF IInv

\* Taking up a backend: what is said of the groups and the backends asked.
LEMMA AskStep ==
    ASSUME IInv, NEW b \in Backends, Ask(b), UNCHANGED named
    PROVE  /\ NamedKeys' = NamedKeys
           /\ GroupsRight' /\ AskedOrWaiting'
           /\ asked' \subseteq Backends
           /\ DOMAIN groups' \subseteq Backends
           /\ \A x \in DOMAIN groups' :
                groups'[x] \subseteq 1..Len(named') /\ groups'[x] # {}
<1> USE DEF IInv, TypeOK
<1>1. /\ DOMAIN groups' = DOMAIN groups \ {b}
      /\ \A x \in DOMAIN groups' : groups'[x] = groups[x]
      /\ asked' = asked \cup {b} /\ b \in DOMAIN groups
  BY DEF Ask
<1>2. NamedKeys' = NamedKeys
  BY DEF NamedKeys
<1>3. GroupsRight'
  BY <1>1 DEF GroupsRight, Places, Decide
<1>4. AskedOrWaiting'
  BY <1>1, <1>2 DEF AskedOrWaiting, Decide
<1> QED  BY <1>1, <1>2, <1>3, <1>4

\* What the keys of a group are decided to be are objects of the request.
LEMMA TargetsAreNamed ==
    ASSUME TypeOK, NEW b \in DOMAIN groups
    PROVE  Targets(b) \subseteq {Decide(k) : k \in NamedKeys}
           /\ Targets(b) \subseteq Objects
  BY DecideType DEF TypeOK, Targets, NamedKeys

\* A backend that answers.
LEMMA DeletedStep == ASSUME IInv, NEW b \in Backends, Deleted(b) PROVE IInv'
<1>1. PICK gone \in SUBSET Targets(b) :
        /\ removed' = removed \cup gone
        /\ confirmed' = confirmed \cup gone
        /\ reported' = reported \cup {VirtualKey(groups[b], o) : o \in gone}
  BY DEF Deleted
<1>2. Ask(b) /\ b \in DOMAIN groups /\ UNCHANGED <<named, phase>>
  BY DEF Deleted, Ask
<1>3. \A o \in gone : VirtualKey(groups[b], o) \in NamedKeys
                      /\ Decide(VirtualKey(groups[b], o)) = o
  BY <1>2, VirtualKeyIsNamed DEF IInv
<1>4. gone \subseteq {Decide(k) : k \in NamedKeys} /\ gone \subseteq Objects
  BY <1>2, TargetsAreNamed DEF IInv
<1>5. NamedKeys \subseteq Keys
  BY DEF IInv, TypeOK, NamedKeys
<1>6. TypeOK'
  BY <1>1, <1>2, <1>3, <1>4, <1>5, AskStep DEF IInv, TypeOK
<1>7. RemovedDecided'
  BY <1>1, <1>2, <1>4, AskStep DEF IInv, RemovedDecided, Decide
<1>8. ReportedConfirmed'
  <2>1. {Decide(k) : k \in reported'} = confirmed'
    BY <1>1, <1>3 DEF IInv, ReportedConfirmed
  <2> QED  BY <1>1, <1>2, <1>3, <2>1, AskStep DEF IInv, ReportedConfirmed, Decide
<1> QED  BY <1>2, <1>6, <1>7, <1>8, AskStep DEF IInv

\* A backend whose call fails.
LEMMA FailedStep == ASSUME IInv, NEW b \in Backends, Failed(b) PROVE IInv'
<1>1. PICK gone \in SUBSET Targets(b) : removed' = removed \cup gone
  BY DEF Failed
<1>2. Ask(b) /\ b \in DOMAIN groups
      /\ UNCHANGED <<named, phase, reported, confirmed>>
  BY DEF Failed, Ask
<1>3. gone \subseteq {Decide(k) : k \in NamedKeys} /\ gone \subseteq Objects
  BY <1>2, TargetsAreNamed DEF IInv
<1>4. TypeOK'
  BY <1>1, <1>2, <1>3, AskStep DEF IInv, TypeOK
<1>5. RemovedDecided'
  BY <1>1, <1>2, <1>3, AskStep DEF IInv, RemovedDecided, Decide
<1>6. ReportedConfirmed'
  BY <1>2, AskStep DEF IInv, ReportedConfirmed, Decide
<1> QED  BY <1>2, <1>4, <1>5, <1>6, AskStep DEF IInv

\* The inductive invariant holds in every state.
THEOREM Invariant == Spec => []IInv
<1>1. IInv /\ UNCHANGED <<named, groups, reported, asked, removed, confirmed>>
           /\ phase' \in {"idle", "asking", "answered"} => IInv'
  BY DEF IInv, TypeOK, GroupsRight, RemovedDecided, ReportedConfirmed,
     AskedOrWaiting, NamedKeys, Places, Decide
<1>2. IInv /\ (Answer \/ UNCHANGED vars) => IInv'
  BY <1>1 DEF Answer, vars, IInv, TypeOK
<1>3. IInv /\ [Next]_vars => IInv'
  BY <1>2, ReceiveStep, DeletedStep, FailedStep DEF Next, Serve
<1> QED  BY InitIInv, <1>3, PTL DEF Spec

\* Next to the other two computations BatchDelete is as it is alone.
LEMMA BatchesRun == LookupsSpec => Spec
<1>1. LookupsInit => Init
  BY DEF LookupsInit
<1>2. [LookupsNext]_lookups => [Next]_vars
  BY DEF LookupsNext, lookups, vars
<1> QED  BY <1>1, <1>2, PTL DEF LookupsSpec, Spec

\* Every variable stays in its range, and no backend is asked for nothing:
\* BatchDelete.TypeOK.
THEOREM TypeCorrect == LookupsSpec => []TypeOK
<1>1. IInv => TypeOK
  BY DEF IInv
<1> QED  BY BatchesRun, Invariant, <1>1, PTL

\* No batch deletes an object that its keys are not routed to, but the one of
\* the empty key when a key has no route.
THEOREM NothingElseDeleted == LookupsSpec => []OnlyNamed
<1>1. IInv => OnlyNamed
  BY DEF IInv, RemovedDecided, OnlyNamed, Routable, Decide
<1> QED  BY BatchesRun, Invariant, <1>1, PTL

\* What is reported deleted was named and is confirmed to be gone.
THEOREM ReportsTrue == LookupsSpec => []ReportsAreTrue
<1>1. IInv => ReportsAreTrue
  BY DEF IInv, ReportedConfirmed, ReportsAreTrue, Routable, Decide
<1> QED  BY BatchesRun, Invariant, <1>1, PTL

\* No failure keeps a backend of the batch from being asked.
THEOREM AllBackendsAsked == LookupsSpec => []EveryBackendAsked
<1>1. IInv => EveryBackendAsked
  BY DEF IInv, AskedOrWaiting, EveryBackendAsked, Routable, Decide
<1> QED  BY BatchesRun, Invariant, <1>1, PTL

-----------------------------------------------------------------------------
(* Virtual hosts.                                                          *)

\* A nonempty set of numbers has a least one.
LEMMA LeastOf ==
    ASSUME NEW S \in SUBSET Nat, S # {}
    PROVE  /\ Virtual!Min(S) \in S
           /\ \A y \in S : Virtual!Min(S) <= y
<1>1. OpToRel(<, Nat) = {ss \in Nat \X Nat : ss[1] < ss[2]}
  BY DEF OpToRel
<1>2. PICK x \in S : \A y \in S : ~ (<<y, x>> \in OpToRel(<, Nat))
  BY NatLessThanWellFounded, WFMin
<1>3. ASSUME NEW y \in S PROVE x <= y
  <2>1. ~ (<<y, x>> \in {ss \in Nat \X Nat : ss[1] < ss[2]})
    BY <1>1, <1>2
  <2>2. x \in Nat /\ y \in Nat
    OBVIOUS
  <2>3. <<y, x>>[1] = y /\ <<y, x>>[2] = x /\ <<y, x>> \in Nat \X Nat
    BY <2>2
  <2>4. ~ (y < x)
    BY <2>1, <2>3
  <2> QED  BY <2>2, <2>4
<1>4. Virtual!Min(S) = CHOOSE z \in S : \A y \in S : z <= y
  BY DEF Virtual!Min
<1> QED  BY <1>3, <1>4

\* Of two entries of a table exactly one goes ahead, and what goes ahead of an
\* entry ahead goes ahead: the comparison is a strict weak order.
LEMMA AheadOrders ==
    ASSUME NEW t \in Tables,
           NEW i \in DOMAIN t, NEW j \in DOMAIN t
    PROVE  /\ ~(Virtual!Ahead(t, i, j) /\ Virtual!Ahead(t, j, i))
           /\ i # j => Virtual!Ahead(t, i, j) \/ Virtual!Ahead(t, j, i)
           /\ \A k \in DOMAIN t :
                Virtual!Ahead(t, i, j) /\ Virtual!Ahead(t, j, k)
                   => Virtual!Ahead(t, i, k)
<1> DEFINE ported(x) == t[x].port # NoPort
           length(x) == Len(t[x].name)
<1>1. \A x \in DOMAIN t : x \in Nat /\ length(x) \in Nat
  <2>1. t \in Seq(Virtual!Entries)
    BY VirtualAssumption DEF Virtual!TablesAssumption
  <2>2. \A x \in DOMAIN t : x \in Nat /\ t[x] \in Virtual!Entries
    BY <2>1
  <2>3. \A x \in DOMAIN t : t[x].name \in Seq(Labels)
    BY <2>2 DEF Virtual!Entries
  <2> QED  BY <2>2, <2>3
<1>2. \A x, y \in DOMAIN t :
         Virtual!Before(t[x], t[y]) <=>
            \/ ported(x) /\ ~ported(y)
            \/ (ported(x) <=> ported(y)) /\ length(x) > length(y)
  BY DEF Virtual!Before
<1>3. \A x, y \in DOMAIN t :
         Virtual!Ahead(t, x, y) <=>
            \/ ported(x) /\ ~ported(y)
            \/ /\ ported(x) <=> ported(y)
               /\ length(x) > length(y) \/ (length(x) = length(y) /\ x < y)
  <2> TAKE x, y \in DOMAIN t
  <2> HIDE DEF ported, length
  <2>1. length(x) \in Nat /\ length(y) \in Nat
    BY <1>1
  <2> QED  BY <1>2, <2>1 DEF Virtual!Ahead
<1> HIDE DEF ported, length
<1>4. ~(Virtual!Ahead(t, i, j) /\ Virtual!Ahead(t, j, i))
  BY <1>1, <1>3
<1>5. i # j => Virtual!Ahead(t, i, j) \/ Virtual!Ahead(t, j, i)
  <2>1. /\ i \in Nat /\ j \in Nat
        /\ length(i) \in Nat /\ length(j) \in Nat
    BY <1>1
  <2> QED  BY <1>3, <2>1
<1>6. ASSUME NEW k \in DOMAIN t, Virtual!Ahead(t, i, j), Virtual!Ahead(t, j, k)
      PROVE  Virtual!Ahead(t, i, k)
  <2>1. /\ i \in Nat /\ j \in Nat /\ k \in Nat
        /\ length(i) \in Nat /\ length(j) \in Nat /\ length(k) \in Nat
    BY <1>1
  <2> QED  BY <1>3, <1>6, <2>1
<1> QED  BY <1>4, <1>5, <1>6

\* The entries ahead of the one written at i.
Leading(t, i) == {j \in DOMAIN t : Virtual!Ahead(t, j, i)}

\* They are finitely many, and their number says who is ahead.
LEMMA PlacesOrder ==
    ASSUME NEW t \in Tables, NEW i \in DOMAIN t
    PROVE  /\ Virtual!Place(t, i) \in DOMAIN t
           /\ \A j \in DOMAIN t :
                Virtual!Ahead(t, i, j) =>
                   Virtual!Place(t, i) < Virtual!Place(t, j)
<1>1. PICK n \in Nat : DOMAIN t = 1..n
  <2>1. t \in Seq(Virtual!Entries)
    BY VirtualAssumption DEF Virtual!TablesAssumption
  <2> QED  BY <2>1
<1>2. IsFiniteSet(DOMAIN t) /\ Cardinality(DOMAIN t) = n
  BY <1>1, FS_Interval
<1>3. \A k \in DOMAIN t :
         /\ Leading(t, k) \subseteq DOMAIN t
         /\ IsFiniteSet(Leading(t, k))
         /\ Cardinality(Leading(t, k)) \in Nat
         /\ Virtual!Place(t, k) = 1 + Cardinality(Leading(t, k))
  <2> TAKE k \in DOMAIN t
  <2>1. Leading(t, k) \subseteq DOMAIN t
    BY DEF Leading
  <2>2. IsFiniteSet(Leading(t, k))
    BY <1>2, <2>1, FS_Subset
  <2>3. Cardinality(Leading(t, k)) \in Nat
    BY <2>2, FS_CardinalityType
  <2>4. Virtual!Place(t, k) = 1 + Cardinality(Leading(t, k))
    BY DEF Leading, Virtual!Place, Virtual!Cardinality, Cardinality
  <2> QED  BY <2>1, <2>2, <2>3, <2>4
<1>4. \A k \in DOMAIN t : k \notin Leading(t, k)
  BY AheadOrders DEF Leading
<1>5. Virtual!Place(t, i) \in DOMAIN t
  <2>1. /\ Cardinality(Leading(t, i)) <= n
        /\ Cardinality(Leading(t, i)) = n => Leading(t, i) = DOMAIN t
    BY <1>2, <1>3, FS_Subset
  <2>2. Cardinality(Leading(t, i)) # n
    BY <2>1, <1>4
  <2> QED  BY <1>1, <1>3, <2>1, <2>2
<1>6. ASSUME NEW j \in DOMAIN t, Virtual!Ahead(t, i, j)
      PROVE  Virtual!Place(t, i) < Virtual!Place(t, j)
  <2>1. Leading(t, i) \subseteq Leading(t, j)
    BY <1>6, AheadOrders DEF Leading
  <2>2. i \in Leading(t, j)
    BY <1>6 DEF Leading
  <2>3. /\ Cardinality(Leading(t, i)) <= Cardinality(Leading(t, j))
        /\ Cardinality(Leading(t, i)) = Cardinality(Leading(t, j))
             => Leading(t, i) = Leading(t, j)
    BY <1>3, <2>1, FS_Subset
  <2>4. Cardinality(Leading(t, i)) # Cardinality(Leading(t, j))
    BY <1>4, <2>2, <2>3
  <2>5. /\ Cardinality(Leading(t, i)) \in Nat
        /\ Cardinality(Leading(t, j)) \in Nat
    BY <1>3
  <2> QED  BY <1>3, <2>3, <2>4, <2>5
<1> QED  BY <1>5, <1>6

\* Every place is that of one entry: the sorted table holds the entries
\* written, each once.
LEMMA SortPermutes ==
    ASSUME NEW t \in Tables
    PROVE  /\ DOMAIN Virtual!Sorted(t) = DOMAIN t
           /\ \A i \in DOMAIN t :
                Virtual!Sorted(t)[Virtual!Place(t, i)] = t[i]
           /\ \A p \in DOMAIN t : \E i \in DOMAIN t :
                Virtual!Place(t, i) = p
<1> DEFINE f == [i \in DOMAIN t |-> Virtual!Place(t, i)]
<1>1. ASSUME NEW i \in DOMAIN t, NEW j \in DOMAIN t,
             Virtual!Place(t, i) = Virtual!Place(t, j)
      PROVE  i = j
  <2>1. /\ DOMAIN t \subseteq Nat
        /\ Virtual!Place(t, i) \in DOMAIN t /\ Virtual!Place(t, j) \in DOMAIN t
    <3>1. t \in Seq(Virtual!Entries)
      BY VirtualAssumption DEF Virtual!TablesAssumption
    <3> QED  BY <3>1, PlacesOrder
  <2>2. ~(Virtual!Place(t, i) < Virtual!Place(t, j))
    BY <1>1, <2>1
  <2>3. ~(Virtual!Place(t, j) < Virtual!Place(t, i))
    BY <1>1, <2>1
  <2> QED  BY <2>2, <2>3, PlacesOrder, AheadOrders
<1>2. f \in Injection(DOMAIN t, DOMAIN t)
  BY <1>1, PlacesOrder DEF Injection, IsInjective
<1>3. IsFiniteSet(DOMAIN t)
  <2>1. t \in Seq(Virtual!Entries)
    BY VirtualAssumption DEF Virtual!TablesAssumption
  <2>2. PICK n \in Nat : DOMAIN t = 1..n
    BY <2>1
  <2> QED  BY <2>2, FS_Interval
<1>4. f \in Surjection(DOMAIN t, DOMAIN t)
  BY <1>2, <1>3, FS_Injection
<1>5. \A p \in DOMAIN t : \E i \in DOMAIN t : Virtual!Place(t, i) = p
  BY <1>4 DEF Surjection
<1>6. ASSUME NEW i \in DOMAIN t
      PROVE  Virtual!Sorted(t)[Virtual!Place(t, i)] = t[i]
  <2> DEFINE c == CHOOSE j \in DOMAIN t : Virtual!Place(t, j) = Virtual!Place(t, i)
  <2>1. c \in DOMAIN t /\ Virtual!Place(t, c) = Virtual!Place(t, i)
    OBVIOUS
  <2>2. c = i
    BY <1>1, <2>1
  <2>3. Virtual!Place(t, i) \in DOMAIN t
    BY PlacesOrder
  <2>4. Virtual!Sorted(t)[Virtual!Place(t, i)] = t[c]
    BY <2>3 DEF Virtual!Sorted
  <2> QED  BY <2>2, <2>4
<1>7. DOMAIN Virtual!Sorted(t) = DOMAIN t
  BY DEF Virtual!Sorted
<1> QED  BY <1>5, <1>6, <1>7

\* What a table answers is the bucket of the entry that is ahead of all others
\* which accept the host.
LEMMA FirstDecides ==
    ASSUME NEW t \in Tables, NEW h
    PROVE  LET As == {i \in DOMAIN t : Virtual!AcceptsHost(t[i], h)}
           IN  \/ As = {} /\ Virtual!GetBucketMapping(t, h) = NoBucket
               \/ \E i \in As :
                    /\ Virtual!GetBucketMapping(t, h) = Virtual!BucketOf(t[i], h)
                    /\ \A j \in As : i = j \/ Virtual!Ahead(t, i, j)
<1> DEFINE As == {i \in DOMAIN t : Virtual!AcceptsHost(t[i], h)}
           Ps == {p \in DOMAIN Virtual!Sorted(t) :
                    Virtual!AcceptsHost(Virtual!Sorted(t)[p], h)}
<1>1. \A i \in As : Virtual!Place(t, i) \in Ps
  BY SortPermutes, PlacesOrder
<1>2. \A p \in Ps : \E i \in As : Virtual!Place(t, i) = p
  BY SortPermutes
<1>3. Ps \subseteq Nat
  <2>1. t \in Seq(Virtual!Entries)
    BY VirtualAssumption DEF Virtual!TablesAssumption
  <2> QED  BY <2>1, SortPermutes
<1>4. Virtual!GetBucketMapping(t, h) =
        IF Ps = {} THEN NoBucket
        ELSE Virtual!BucketOf(Virtual!Sorted(t)[Virtual!Min(Ps)], h)
  BY DEF Virtual!GetBucketMapping
<1> HIDE DEF Ps
<1>5. CASE Ps = {}
  <2>1. As = {}
    BY <1>1, <1>5
  <2> QED  BY <1>4, <1>5, <2>1
<1>6. CASE Ps # {}
  <2>1. Virtual!Min(Ps) \in Ps /\ \A p \in Ps : Virtual!Min(Ps) <= p
    BY <1>3, <1>6, LeastOf
  <2>2. PICK i \in As : Virtual!Place(t, i) = Virtual!Min(Ps)
    BY <1>2, <2>1
  <2>3. Virtual!Sorted(t)[Virtual!Min(Ps)] = t[i]
    BY <2>2, SortPermutes
  <2>4. ASSUME NEW j \in As, i # j PROVE Virtual!Ahead(t, i, j)
    <3>1. Virtual!Place(t, i) <= Virtual!Place(t, j)
      BY <1>1, <2>1, <2>2
    <3>2. Virtual!Place(t, i) \in Nat /\ Virtual!Place(t, j) \in Nat
      BY <1>1, <1>3
    <3>3. ~(Virtual!Place(t, j) < Virtual!Place(t, i))
      BY <3>1, <3>2
    <3>4. ~Virtual!Ahead(t, j, i)
      BY <3>3, PlacesOrder
    <3> QED  BY <2>4, <3>4, AheadOrders
  <2> QED  BY <1>4, <1>6, <2>2, <2>3, <2>4
<1> QED  BY <1>5, <1>6

\* The bucket kept is that of the host asked about, by the table given.
Resolved ==
    works = "hosts" =>
       table \in Tables /\ bucket = Virtual!GetBucketMapping(table, host)

\* Entries decide by their port, then by their name, then by their place, for
\* every table and every host: VirtualHosts.MostSpecific.
THEOREM EntriesDecide == LookupsSpec => []MostSpecific
<1>1. LookupsInit => Resolved
  BY DEF LookupsInit, Virtual!Init, Resolved
<1>2. Resolved /\ [LookupsNext]_lookups => Resolved'
  <2>1. Resolved /\ UNCHANGED <<works, virtual>> => Resolved'
    BY DEF Resolved, virtual
  <2>2. Resolved /\ Virtual!Next /\ UNCHANGED works => Resolved'
    BY DEF Resolved, Virtual!Next, Virtual!Resolve
  <2>3. [LookupsNext]_lookups =>
           UNCHANGED <<works, virtual>> \/ (Virtual!Next /\ UNCHANGED works)
    BY DEF LookupsNext, lookups, virtual
  <2> QED  BY <2>1, <2>2, <2>3
<1>3. Resolved => MostSpecific
  <2> SUFFICES ASSUME Resolved, works = "hosts" PROVE Virtual!MostSpecific
    BY DEF MostSpecific
  <2>1. Virtual!Accepting =
          {i \in DOMAIN table : Virtual!AcceptsHost(table[i], host)}
    <3>1. table \in Seq(Virtual!Entries)
      BY VirtualAssumption DEF Virtual!TablesAssumption, Resolved
    <3>2. DOMAIN table = 1..Len(table)
      BY <3>1
    <3> QED  BY <3>2 DEF Virtual!Accepting
  <2>2. \A i \in Virtual!Accepting :
           /\ i \in DOMAIN table /\ i \in Nat /\ Len(table[i].name) \in Nat
    <3>1. table \in Seq(Virtual!Entries)
      BY VirtualAssumption DEF Virtual!TablesAssumption, Resolved
    <3>2. \A i \in DOMAIN table : i \in Nat /\ table[i] \in Virtual!Entries
      BY <3>1
    <3>3. \A i \in DOMAIN table : table[i].name \in Seq(Labels)
      BY <3>2 DEF Virtual!Entries
    <3> QED  BY <2>1, <3>2, <3>3
  <2>3. CASE Virtual!Accepting = {}
    BY <2>1, <2>3, FirstDecides DEF Resolved, Virtual!MostSpecific
  <2>4. CASE Virtual!Accepting # {}
    <3>1. PICK i \in Virtual!Accepting :
            /\ bucket = Virtual!BucketOf(table[i], host)
            /\ \A j \in Virtual!Accepting : i = j \/ Virtual!Ahead(table, i, j)
      BY <2>1, <2>4, FirstDecides DEF Resolved
    <3>2. ASSUME NEW j \in Virtual!Accepting
          PROVE  \/ table[i].port # NoPort /\ table[j].port = NoPort
                 \/ /\ (table[i].port = NoPort) = (table[j].port = NoPort)
                    /\ \/ Len(table[i].name) > Len(table[j].name)
                       \/ Len(table[i].name) = Len(table[j].name) /\ i <= j
      <4>1. /\ i \in Nat /\ Len(table[i].name) \in Nat
            /\ j \in Nat /\ Len(table[j].name) \in Nat
        BY <2>2
      <4>2. CASE i = j
        BY <4>1, <4>2
      <4>3. CASE Virtual!Ahead(table, i, j)
        BY <4>1, <4>3 DEF Virtual!Ahead, Virtual!Before
      <4> QED  BY <3>1, <4>2, <4>3
    <3> QED  BY <2>4, <3>1, <3>2 DEF Virtual!MostSpecific
  <2> QED  BY <2>3, <2>4
<1> QED  BY <1>1, <1>2, <1>3, PTL DEF LookupsSpec

-----------------------------------------------------------------------------
(* Recursion.  A recursive function is what its definition says: the facts *)
(* optimizer's functions need, each proved from a set that its steps stay i*)

\* Induction over the numbers, for a set instead of a predicate.
LEMMA Induction ==
    ASSUME NEW S, 0 \in S, \A n \in Nat : n \in S => n + 1 \in S
    PROVE  \A n \in Nat : n \in S
<1> SUFFICES ASSUME NEW n \in Nat, n \notin S PROVE FALSE
  OBVIOUS
<1> DEFINE R == OpToRel(<, Nat)
           T == Nat \ S
<1>1. PICK x \in T : \A y \in T : <<y, x>> \notin R
  <2>1. IsWellFoundedOn(R, Nat)
    BY NatLessThanWellFounded
  <2>2. T \subseteq Nat /\ T # {}
    OBVIOUS
  <2> HIDE DEF R, T
  <2> QED  BY <2>1, <2>2, WFMin
<1>2. x # 0 /\ x - 1 \in Nat /\ x - 1 < x
  OBVIOUS
<1>3. x - 1 \in T => <<x - 1, x>> \in R
  BY <1>2 DEF OpToRel
<1>4. x - 1 \in S
  BY <1>1, <1>2, <1>3
<1> QED  BY <1>2, <1>4

\* From values in X, each step G[k] makes values in X.
StaysIn(X, n, G) == \A k \in 1..n : \A x \in X : G[k][x] \in X

\* A definition by recursion over 0..n defines something, if each step stays
\* in a set X: G[k] gives the value at k from that before.
LEMMA RecursionExists ==
    ASSUME NEW X, NEW x0 \in X, NEW n \in Nat, NEW G, StaysIn(X, n, G)
    PROVE  \E f \in [0..n -> X] :
              f[0] = x0 /\ \A k \in 1..n : f[k] = G[k][f[k - 1]]
<1> DEFINE Upto(m, f) == /\ f \in [0..m -> X] /\ f[0] = x0
                         /\ \A k \in 1..m : f[k] = G[k][f[k - 1]]
           S == {m \in Nat : m <= n => \E f : Upto(m, f)}
<1>1. 0 \in S
  <2> DEFINE f == [k \in 0..0 |-> x0]
  <2>1. Upto(0, f)
    OBVIOUS
  <2> QED  BY <2>1
<1>2. ASSUME NEW m \in Nat, m \in S PROVE m + 1 \in S
  <2> SUFFICES ASSUME m + 1 <= n PROVE \E f : Upto(m + 1, f)
    OBVIOUS
  <2>1. PICK f : Upto(m, f)
    BY <1>2
  <2>2. m + 1 \in 1..n /\ f[m] \in X
    BY <2>1
  <2>3. G[m + 1][f[m]] \in X
    BY <2>2 DEF StaysIn
  <2> DEFINE g == [k \in 0..(m + 1) |-> IF k = m + 1 THEN G[m + 1][f[m]] ELSE f[k]]
  <2>4. g \in [0..(m + 1) -> X]
    BY <2>1, <2>3
  <2>5. g[0] = x0
    BY <2>1
  <2>6. ASSUME NEW k \in 1..(m + 1) PROVE g[k] = G[k][g[k - 1]]
    <3>1. k - 1 \in 0..m /\ g[k - 1] = f[k - 1]
      OBVIOUS
    <3>2. CASE k = m + 1
      BY <3>1, <3>2
    <3>3. CASE k # m + 1
      <4>1. k \in 1..m /\ g[k] = f[k]
        BY <3>3
      <4> QED  BY <2>1, <3>1, <4>1
    <3> QED  BY <3>2, <3>3
  <2> HIDE DEF g
  <2>7. Upto(m + 1, g)
    BY <2>4, <2>5, <2>6
  <2> QED  BY <2>7
<1> HIDE DEF S, Upto
<1>3. n \in S
  BY <1>1, <1>2, Induction
<1>4. \E f : Upto(n, f)
  BY <1>3 DEF S
<1> QED  BY <1>4 DEF Upto

\* What is no more than m and not less.
LEMMA MaxIs ==
    ASSUME NEW S \in SUBSET Int, NEW m \in S, \A y \in S : y <= m
    PROVE  Optimizer!Max(S) = m
<1>1. Optimizer!Max(S) = CHOOSE x \in S : \A y \in S : x >= y
  BY DEF Optimizer!Max
<1>2. \A y \in S : m >= y
  OBVIOUS
<1>3. \A x \in S : (\A y \in S : x >= y) => x = m
  OBVIOUS
<1> QED  BY <1>1, <1>2, <1>3

\* What is no less than m and not more.
LEMMA MinIs ==
    ASSUME NEW S \in SUBSET Int, NEW m \in S, \A y \in S : m <= y
    PROVE  Optimizer!Min(S) = m
<1>1. Optimizer!Min(S) = CHOOSE x \in S : \A y \in S : x <= y
  BY DEF Optimizer!Min
<1>2. \A x \in S : (\A y \in S : x <= y) => x = m
  OBVIOUS
<1> QED  BY <1>1, <1>2

\* Fits is what its recursion says.
Fitting(F, atoms, w) ==
    /\ F \in [0..Len(atoms) -> SUBSET (0..Len(w))]
    /\ F[0] = {Len(w)}
    /\ \A k \in 1..Len(atoms) :
         F[k] = {i \in 0..Len(w) : \E j \in F[k - 1] :
                   i <= j /\ Optimizer!Means(atoms[Len(atoms) - k + 1],
                                             SubSeq(w, i + 1, j))}

LEMMA FitsAre ==
    ASSUME NEW atoms, Len(atoms) \in Nat, NEW w, Len(w) \in Nat
    PROVE  Fitting(Optimizer!Fits(atoms, w), atoms, w)
<1> DEFINE n == Len(atoms)
           X == SUBSET (0..Len(w))
           Step(k, next) ==
              {i \in 0..Len(w) : \E j \in next :
                 i <= j /\ Optimizer!Means(atoms[n - k + 1], SubSeq(w, i + 1, j))}
           G == [k \in 1..n |-> [next \in X |-> Step(k, next)]]
           Is(f) == f = [k \in 0..n |-> IF k = 0 THEN {Len(w)} ELSE Step(k, f[k - 1])]
<1>1. Optimizer!Fits(atoms, w) = CHOOSE f : Is(f)
  BY DEF Optimizer!Fits
<1>2. \E f : Is(f)
  <2>1. {Len(w)} \in X /\ StaysIn(X, n, G)
    BY DEF StaysIn
  <2>2. PICK f \in [0..n -> X] :
           f[0] = {Len(w)} /\ \A k \in 1..n : f[k] = G[k][f[k - 1]]
    <3> DEFINE x0 == {Len(w)}
    <3>1. x0 \in X /\ n \in Nat /\ StaysIn(X, n, G)
      BY <2>1
    <3> HIDE DEF G, X, x0, n
    <3>2. \E f \in [0..n -> X] : f[0] = x0 /\ \A k \in 1..n : f[k] = G[k][f[k - 1]]
      BY <3>1, RecursionExists
    <3> QED  BY <3>2 DEF x0
  <2>3. \A k \in 1..n : f[k] = Step(k, f[k - 1])
    <3> TAKE k \in 1..n
    <3>1. k - 1 \in 0..n
      OBVIOUS
    <3>2. f[k - 1] \in X
      BY <2>2, <3>1
    <3> HIDE DEF X, Step
    <3> QED  BY <2>2, <3>2
  <2> HIDE DEF Step, X
  <2>4. Is(f)
    BY <2>2, <2>3
  <2> HIDE DEF Is
  <2> QED  BY <2>4
<1> DEFINE f == Optimizer!Fits(atoms, w)
<1>3. Is(f)
  <2> HIDE DEF Is
  <2> QED  BY <1>1, <1>2
<1> HIDE DEF f
<1>4. f[0] = {Len(w)} /\ \A k \in 1..n : f[k] = Step(k, f[k - 1])
  <2> DEFINE x0 == {Len(w)}
  <2>1. n \in Nat /\ f = [k \in 0..n |-> IF k = 0 THEN x0 ELSE Step(k, f[k - 1])]
    BY <1>3
  <2> HIDE DEF Step, x0, n
  <2>2. f[0] = x0
    BY <2>1
  <2>3. ASSUME NEW k \in 1..n PROVE f[k] = Step(k, f[k - 1])
    <3>1. k \in 0..n /\ k # 0
      BY <2>1
    <3> QED  BY <2>1, <3>1
  <2> QED  BY <2>2, <2>3 DEF x0
<1>5. f \in [0..n -> X]
  <2>1. \A k \in 0..n : f[k] \in X
    <3> TAKE k \in 0..n
    <3>1. k = 0 \/ k \in 1..n
      OBVIOUS
    <3>2. \A next : Step(k, next) \in X
      OBVIOUS
    <3> HIDE DEF Step
    <3> QED  BY <1>4, <3>1, <3>2
  <2> HIDE DEF Step, X
  <2> QED  BY <1>3, <2>1
<1>6. Fitting(f, atoms, w)
  BY <1>4, <1>5 DEF Fitting
<1> QED  BY <1>6 DEF f

\* Ends is what its recursion says.
Ending(E, F, atoms, w) ==
    /\ E[0] = 0
    /\ \A k \in 1..Len(atoms) :
         E[k] = Optimizer!Max({j \in F[Len(atoms) - k] :
                   /\ E[k - 1] <= j
                   /\ Optimizer!Means(atoms[k], SubSeq(w, E[k - 1] + 1, j))})

LEMMA EndsAre ==
    ASSUME NEW atoms, Len(atoms) \in Nat, NEW w, Len(w) \in Nat
    PROVE  Ending(Optimizer!Ends(atoms, w), Optimizer!Fits(atoms, w), atoms, w)
<1> DEFINE n == Len(atoms)
           F == Optimizer!Fits(atoms, w)
           X == {0} \cup {Optimizer!Max(S) : S \in SUBSET (0..Len(w))}
           Step(k, from) ==
              Optimizer!Max({j \in F[n - k] :
                 from <= j /\ Optimizer!Means(atoms[k], SubSeq(w, from + 1, j))})
           G == [k \in 1..n |-> [from \in X |-> Step(k, from)]]
           Is(f) == f = [k \in 0..n |-> IF k = 0 THEN 0 ELSE Step(k, f[k - 1])]
<1>1. Optimizer!Ends(atoms, w) = CHOOSE f : Is(f)
  BY DEF Optimizer!Ends
<1>2. F \in [0..n -> SUBSET (0..Len(w))]
  BY FitsAre DEF Fitting
<1> HIDE DEF F
<1>3. \E f : Is(f)
  <2>1. \A k \in 1..n, from \in X : Step(k, from) \in X
    <3> TAKE k \in 1..n, from \in X
    <3> DEFINE S == {j \in F[n - k] :
                 from <= j /\ Optimizer!Means(atoms[k], SubSeq(w, from + 1, j))}
    <3>1. n - k \in 0..n
      OBVIOUS
    <3>2. S \in SUBSET (0..Len(w))
      BY <1>2, <3>1
    <3> HIDE DEF S
    <3>3. Optimizer!Max(S) \in X
      BY <3>2
    <3> QED  BY <3>3 DEF S
  <2>2. 0 \in X
    OBVIOUS
  <2> HIDE DEF X, Step
  <2>3. StaysIn(X, n, G)
    BY <2>1 DEF StaysIn
  <2>4. PICK f \in [0..n -> X] :
           f[0] = 0 /\ \A k \in 1..n : f[k] = G[k][f[k - 1]]
    <3>1. n \in Nat
      OBVIOUS
    <3> HIDE DEF G, n
    <3> QED  BY <2>2, <2>3, <3>1, RecursionExists
  <2>5. \A k \in 1..n : f[k] = Step(k, f[k - 1])
    <3> TAKE k \in 1..n
    <3>1. k - 1 \in 0..n
      OBVIOUS
    <3> QED  BY <2>4, <3>1
  <2>6. Is(f)
    BY <2>4, <2>5
  <2> HIDE DEF Is
  <2> QED  BY <2>6
<1> DEFINE f == Optimizer!Ends(atoms, w)
<1>4. Is(f)
  <2> HIDE DEF Is
  <2> QED  BY <1>1, <1>3
<1> HIDE DEF f
<1>5. f[0] = 0 /\ \A k \in 1..n : f[k] = Step(k, f[k - 1])
  <2> HIDE DEF Step
  <2> QED  BY <1>4
<1>6. Ending(f, F, atoms, w)
  BY <1>5 DEF Ending
<1> QED  BY <1>6 DEF f, F

\* The state of the tokenizer.
TokenStates(A) == [segments : Seq(Seq(A)), current : Seq(A)]

NoTokens == [segments |-> << >>, current |-> << >>]

NextTokens(was, a) ==
    IF a = "/" THEN [segments |-> Optimizer!Close(was), current |-> << >>]
    ELSE [was EXCEPT !.current = Append(@, a)]

\* The tokenizer's state stays one.
LEMMA TokensType ==
    ASSUME NEW A, NEW was \in TokenStates(A), NEW a \in A
    PROVE  NextTokens(was, a) \in TokenStates(A)
<1>1. was.segments \in Seq(Seq(A)) /\ was.current \in Seq(A)
  BY DEF TokenStates
<1>2. Optimizer!Close(was) \in Seq(Seq(A))
  BY <1>1 DEF Optimizer!Close
<1>3. Append(was.current, a) \in Seq(A) /\ << >> \in Seq(A)
  BY <1>1
<1>4. a = "/" => NextTokens(was, a) \in TokenStates(A)
  BY <1>2, <1>3 DEF NextTokens, TokenStates
<1>5. a # "/" => NextTokens(was, a) \in TokenStates(A)
  <2>1. ASSUME NEW c \in Seq(A) PROVE [was EXCEPT !.current = c] \in TokenStates(A)
    BY DEF TokenStates
  <2>2. [was EXCEPT !.current = Append(was.current, a)] \in TokenStates(A)
    BY <1>3, <2>1
  <2> QED  BY <2>2 DEF NextTokens
<1> QED  BY <1>4, <1>5

\* Segments is what its recursion says.
LEMMA SegmentsAre ==
    ASSUME NEW A, NEW atoms \in Seq(A)
    PROVE  \E tokens \in [0..Len(atoms) -> TokenStates(A)] :
              /\ tokens[0] = NoTokens
              /\ \A k \in 1..Len(atoms) :
                    tokens[k] = NextTokens(tokens[k - 1], atoms[k])
              /\ Optimizer!Segments(atoms) = Optimizer!Close(tokens[Len(atoms)])
<1> DEFINE n == Len(atoms)
           X == TokenStates(A)
           G == [k \in 1..n |-> [was \in X |-> NextTokens(was, atoms[k])]]
           Is(f) == f = [k \in 0..n |-> IF k = 0 THEN NoTokens
                                        ELSE NextTokens(f[k - 1], atoms[k])]
<1>1. Optimizer!Segments(atoms) = Optimizer!Close((CHOOSE f : Is(f))[n])
  BY DEF Optimizer!Segments, NextTokens, NoTokens
<1>2. n \in Nat /\ \A k \in 1..n : atoms[k] \in A
  OBVIOUS
<1>3. NoTokens \in X
  BY DEF NoTokens, TokenStates
<1>4. PICK f \in [0..n -> X] :
         f[0] = NoTokens /\ \A k \in 1..n : f[k] = G[k][f[k - 1]]
  <2>1. StaysIn(X, n, G)
    <3> HIDE DEF X
    <3> SUFFICES ASSUME NEW k \in 1..n, NEW x \in X PROVE NextTokens(x, atoms[k]) \in X
      BY DEF StaysIn
    <3> QED  BY <1>2, TokensType DEF X
  <2> HIDE DEF X, G, n
  <2> QED  BY <1>2, <1>3, <2>1, RecursionExists
<1> HIDE DEF X
<1>5. \A k \in 1..n : f[k] = NextTokens(f[k - 1], atoms[k])
  <2> TAKE k \in 1..n
  <2>1. k - 1 \in 0..n
    OBVIOUS
  <2> QED  BY <1>4, <2>1
<1> HIDE DEF n
<1>6. Is(f)
  BY <1>2, <1>4, <1>5
<1> DEFINE T == CHOOSE g : Is(g)
<1>7. Is(T)
  <2> HIDE DEF Is
  <2> QED  BY <1>6
<1> HIDE DEF T
<1>8. T[0] = NoTokens /\ \A k \in 1..n : T[k] = NextTokens(T[k - 1], atoms[k])
  <2>1. T[0] = NoTokens
    BY <1>2, <1>7
  <2>2. ASSUME NEW k \in 1..n PROVE T[k] = NextTokens(T[k - 1], atoms[k])
    <3>1. k \in 0..n /\ k # 0
      BY <1>2
    <3> QED  BY <1>7, <3>1
  <2> QED  BY <2>1, <2>2
<1>9. \A k \in Nat : k \in {i \in Nat : i <= n => T[i] \in X}
  <2> DEFINE S == {i \in Nat : i <= n => T[i] \in X}
  <2>1. 0 \in S
    BY <1>3, <1>8
  <2>2. ASSUME NEW k \in Nat, k \in S PROVE k + 1 \in S
    <3> SUFFICES ASSUME k + 1 <= n PROVE T[k + 1] \in X
      OBVIOUS
    <3>1. k + 1 \in 1..n /\ (k + 1) - 1 = k /\ T[k] \in X
      BY <1>2, <2>2
    <3>2. T[k + 1] = NextTokens(T[k], atoms[k + 1])
      BY <1>8, <3>1
    <3> QED  BY <1>2, <3>1, <3>2, TokensType DEF X
  <2> HIDE DEF S
  <2>3. \A k \in Nat : k \in S
    BY <2>1, <2>2, Induction
  <2> QED  BY <2>3 DEF S
<1>10. T \in [0..n -> X]
  <2>1. \A k \in 0..n : T[k] \in X
    BY <1>2, <1>9
  <2>2. T = [k \in 0..n |-> T[k]]
    BY <1>7
  <2> QED  BY <2>1, <2>2
<1>11. Optimizer!Segments(atoms) = Optimizer!Close(T[n])
  BY <1>1 DEF T
<1> QED  BY <1>8, <1>10, <1>11 DEF n, X

\* FlattenSeq is what its recursion says.
LEMMA FlattenIs ==
    ASSUME NEW A, NEW seqs \in Seq(Seq(A)), Len(seqs) > 0
    PROVE  \E f : /\ f[1] = seqs[1]
                  /\ \A i \in 2..Len(seqs) : f[i] = f[i - 1] \o seqs[i]
                  /\ Optimizer!FlattenSeq(seqs) = f[Len(seqs)]
<1> DEFINE n == Len(seqs)
           X == Seq(A)
           G == [k \in 1..n |-> [x \in X |-> x \o seqs[k]]]
           Is(f) == f = [i \in 1..n |-> IF i = 1 THEN seqs[i] ELSE f[i - 1] \o seqs[i]]
<1>1. n \in Nat /\ n > 0 /\ \A i \in 1..n : seqs[i] \in X
  OBVIOUS
<1>2. Optimizer!FlattenSeq(seqs) = (CHOOSE f : Is(f))[n]
  BY <1>1 DEF Optimizer!FlattenSeq
<1>3. << >> \in X /\ StaysIn(X, n, G)
  <2>1. \A k \in 1..n, x \in X : x \o seqs[k] \in X
    BY <1>1
  <2> QED  BY <2>1 DEF StaysIn
<1> HIDE DEF n, X
<1>4. PICK h \in [0..n -> X] :
         h[0] = << >> /\ \A k \in 1..n : h[k] = G[k][h[k - 1]]
  <2> DEFINE x0 == << >>
  <2>1. x0 \in X
    BY <1>3
  <2> HIDE DEF G, x0
  <2>2. \E h \in [0..n -> X] :
           h[0] = x0 /\ \A k \in 1..n : h[k] = G[k][h[k - 1]]
    BY <1>1, <1>3, <2>1, RecursionExists
  <2> QED  BY <2>2 DEF x0
<1>5. \A k \in 1..n : h[k] = h[k - 1] \o seqs[k]
  <2> TAKE k \in 1..n
  <2>1. k - 1 \in 0..n
    BY <1>1
  <2> QED  BY <1>4, <2>1
<1>6. h[1] = seqs[1]
  <2>1. 1 \in 1..n /\ 1 - 1 = 0
    BY <1>1
  <2>2. h[1] = << >> \o seqs[1] /\ seqs[1] \in Seq(A)
    BY <1>1, <1>4, <1>5, <2>1 DEF X
  <2> QED  BY <2>2
<1> DEFINE g == [i \in 1..n |-> h[i]]
<1>7. Is(g)
  <2>1. \A i \in 1..n : g[i] = IF i = 1 THEN seqs[i] ELSE g[i - 1] \o seqs[i]
    <3> TAKE i \in 1..n
    <3>1. CASE i = 1
      BY <1>1, <1>6, <3>1
    <3>2. CASE i # 1
      <4>1. i - 1 \in 1..n /\ g[i - 1] = h[i - 1] /\ g[i] = h[i]
        BY <1>1, <3>2
      <4> QED  BY <1>5, <3>2, <4>1
    <3> QED  BY <3>1, <3>2
  <2>2. g = [i \in 1..n |-> g[i]]
    OBVIOUS
  <2> HIDE DEF g
  <2> QED  BY <2>1, <2>2
<1> DEFINE f == CHOOSE p : Is(p)
<1>8. Is(f)
  <2> HIDE DEF Is, g
  <2> QED  BY <1>7
<1> HIDE DEF f
<1>9. f[1] = seqs[1]
  BY <1>1, <1>8
<1>10. ASSUME NEW i \in 2..n PROVE f[i] = f[i - 1] \o seqs[i]
  <2>1. i \in 1..n /\ i # 1
    BY <1>1
  <2> QED  BY <1>8, <2>1
<1>11. Optimizer!FlattenSeq(seqs) = f[n]
  BY <1>2 DEF f
<1> QED  BY <1>9, <1>10, <1>11 DEF n

-----------------------------------------------------------------------------
(* Lists: stretches, prefixes and suffixes.                                *)

\* The elements of a list after the a-th, up to the k-th.
LEMMA Stretch ==
    ASSUME NEW A, NEW s \in Seq(A), NEW a \in Nat, NEW k \in Nat,
           a <= k, k <= Len(s)
    PROVE  /\ SubSeq(s, a + 1, k) \in Seq(A) /\ Len(SubSeq(s, a + 1, k)) = k - a
           /\ \A i \in 1..(k - a) : SubSeq(s, a + 1, k)[i] = s[a + i]
<1> DEFINE p == SubSeq(s, a + 1, k)
<1>1. \A i \in (a + 1)..k : s[i] \in A
  OBVIOUS
<1>2. a + 1 \in Int /\ k \in Int /\ k - (a + 1) + 1 = k - a
  OBVIOUS
<1>3. /\ p \in Seq(A) /\ Len(p) = IF a + 1 <= k THEN k - a ELSE 0
      /\ \A i \in 1..(k - a) : p[i] = s[a + 1 + i - 1]
  BY <1>1, <1>2, SubSeqProperties
<1>4. Len(p) = k - a
  BY <1>3
<1> HIDE DEF p
<1>5. \A i \in 1..(k - a) : a + 1 + i - 1 = a + i
  OBVIOUS
<1>6. \A i \in 1..(k - a) : p[i] = s[a + i]
  BY <1>3, <1>5
<1> QED  BY <1>3, <1>4, <1>6 DEF p

\* Lists with the same elements are the same.
LEMMA SameList ==
    ASSUME NEW A, NEW s \in Seq(A), NEW t \in Seq(A), Len(s) = Len(t),
           \A i \in 1..Len(s) : s[i] = t[i]
    PROVE  s = t
  OBVIOUS

\* What joining two lists makes.
LEMMA Joined ==
    ASSUME NEW A, NEW s \in Seq(A), NEW t \in Seq(A)
    PROVE  /\ s \o t \in Seq(A) /\ Len(s \o t) = Len(s) + Len(t)
           /\ \A i \in 1..Len(s) : (s \o t)[i] = s[i]
           /\ \A i \in 1..Len(t) : (s \o t)[Len(s) + i] = t[i]
  OBVIOUS

\* Two stretches, one after the other, are one.
LEMMA StretchesJoin ==
    ASSUME NEW A, NEW s \in Seq(A), NEW a \in Nat, NEW j \in Nat, NEW k \in Nat,
           a <= j, j <= k, k <= Len(s)
    PROVE  SubSeq(s, a + 1, j) \o SubSeq(s, j + 1, k) = SubSeq(s, a + 1, k)
<1> DEFINE p == SubSeq(s, a + 1, j)
           q == SubSeq(s, j + 1, k)
           r == SubSeq(s, a + 1, k)
           t == p \o q
<1>1. j <= Len(s) /\ a <= k
  OBVIOUS
<1>2. p \in Seq(A) /\ Len(p) = j - a /\ \A i \in 1..(j - a) : p[i] = s[a + i]
  BY <1>1, Stretch
<1>3. q \in Seq(A) /\ Len(q) = k - j /\ \A i \in 1..(k - j) : q[i] = s[j + i]
  BY <1>1, Stretch
<1>4. r \in Seq(A) /\ Len(r) = k - a /\ \A i \in 1..(k - a) : r[i] = s[a + i]
  BY <1>1, Stretch
<1> HIDE DEF p, q, r
<1>5. /\ t \in Seq(A) /\ Len(t) = k - a
      /\ \A i \in 1..(j - a) : t[i] = p[i]
      /\ \A i \in 1..(k - j) : t[(j - a) + i] = q[i]
  <2>1. /\ t \in Seq(A) /\ Len(t) = Len(p) + Len(q)
        /\ \A i \in 1..Len(p) : t[i] = p[i]
        /\ \A i \in 1..Len(q) : t[Len(p) + i] = q[i]
    <3>1. p \in Seq(A) /\ q \in Seq(A)
      BY <1>2, <1>3
    <3> QED  BY <3>1
  <2>2. (j - a) + (k - j) = k - a
    OBVIOUS
  <2> HIDE DEF t
  <2> QED  BY <1>2, <1>3, <2>1, <2>2
<1> HIDE DEF t
<1>6. \A i \in 1..(k - a) : t[i] = r[i]
  <2> TAKE i \in 1..(k - a)
  <2>1. CASE i <= j - a
    <3>1. i \in 1..(j - a)
      BY <2>1
    <3> QED  BY <1>2, <1>4, <1>5, <3>1
  <2>2. CASE ~(i <= j - a)
    <3>1. i - (j - a) \in 1..(k - j)
      BY <2>2
    <3>2. (j - a) + (i - (j - a)) = i /\ j + (i - (j - a)) = a + i
      OBVIOUS
    <3>3. t[i] = q[i - (j - a)] /\ q[i - (j - a)] = s[a + i]
      BY <1>3, <1>5, <3>1, <3>2
    <3> QED  BY <1>4, <3>3
  <2> QED  BY <2>1, <2>2
<1>7. t = r
  BY <1>4, <1>5, <1>6, SameList
<1> QED  BY <1>7 DEF p, q, r, t

\* A stretch with the next element is the longer one.
LEMMA StretchGrows ==
    ASSUME NEW A, NEW s \in Seq(A), NEW a \in Nat, NEW k \in Nat,
           a <= k, k < Len(s)
    PROVE  Append(SubSeq(s, a + 1, k), s[k + 1]) = SubSeq(s, a + 1, k + 1)
<1> DEFINE p == SubSeq(s, a + 1, k)
           q == SubSeq(s, a + 1, k + 1)
           t == Append(p, s[k + 1])
           d == k - a
<1>1. /\ d \in Nat /\ s[k + 1] \in A /\ (k + 1) - a = d + 1 /\ a + (d + 1) = k + 1
      /\ k <= Len(s) /\ k + 1 <= Len(s) /\ a <= k + 1 /\ k + 1 \in Nat
  OBVIOUS
<1>2. p \in Seq(A) /\ Len(p) = d /\ \A i \in 1..d : p[i] = s[a + i]
  BY <1>1, Stretch
<1>3. /\ q \in Seq(A) /\ Len(q) = (k + 1) - a
      /\ \A i \in 1..((k + 1) - a) : q[i] = s[a + i]
  BY <1>1, Stretch
<1> HIDE DEF p, q, d
<1>4. /\ t \in Seq(A) /\ Len(t) = d + 1
      /\ \A i \in 1..d : t[i] = p[i]
      /\ t[d + 1] = s[k + 1]
  <2> DEFINE e == s[k + 1]
  <2>1. e \in A
    BY <1>1
  <2> HIDE DEF e
  <2>2. /\ Append(p, e) \in Seq(A) /\ Len(Append(p, e)) = Len(p) + 1
        /\ \A i \in 1..Len(p) : Append(p, e)[i] = p[i]
        /\ Append(p, e)[Len(p) + 1] = e
    BY <1>2, <2>1
  <2>3. t = Append(p, e)
    BY DEF e
  <2> HIDE DEF t
  <2>4. t[d + 1] = e
    BY <1>2, <2>2, <2>3
  <2> QED  BY <1>2, <2>2, <2>3, <2>4 DEF e
<1> HIDE DEF t
<1>5. \A i \in 1..(d + 1) : t[i] = q[i]
  <2> TAKE i \in 1..(d + 1)
  <2>1. i \in 1..d \/ i = d + 1
    BY <1>1
  <2> QED  BY <1>1, <1>2, <1>3, <1>4, <2>1
<1>6. t = q
  BY <1>1, <1>3, <1>4, <1>5, SameList
<1> QED  BY <1>6 DEF t, p, q

\* What it means to be a prefix, place by place.
LEMMA PrefixIs ==
    ASSUME NEW A, NEW s \in Seq(A), NEW t \in Seq(A)
    PROVE  Optimizer!IsPrefix(s, t) <=>
              Len(s) <= Len(t) /\ \A i \in 1..Len(s) : s[i] = t[i]
<1> SUFFICES ASSUME Len(s) <= Len(t)
             PROVE  SubSeq(s, 1, Len(s)) = SubSeq(t, 1, Len(s)) <=>
                       \A i \in 1..Len(s) : s[i] = t[i]
  BY DEF Optimizer!IsPrefix
<1> DEFINE x0 == 0
           n == Len(s)
           p == SubSeq(t, x0 + 1, n)
<1>1. x0 \in Nat /\ n \in Nat /\ x0 <= n /\ n <= Len(t) /\ n - x0 = n /\ x0 + 1 = 1
      /\ \A i \in 1..n : x0 + i = i
  OBVIOUS
<1>2. SubSeq(s, 1, n) = s
  OBVIOUS
<1> HIDE DEF x0
<1>3. p \in Seq(A) /\ Len(p) = n - x0 /\ \A i \in 1..(n - x0) : p[i] = t[x0 + i]
  BY <1>1, Stretch
<1> HIDE DEF p
<1>4. p = s <=> \A i \in 1..n : s[i] = t[i]
  <2>1. p \in Seq(A) /\ Len(p) = n /\ \A i \in 1..n : p[i] = t[i]
    BY <1>1, <1>3
  <2>2. ASSUME \A i \in 1..n : s[i] = t[i] PROVE p = s
    <3>1. \A i \in 1..Len(p) : p[i] = s[i]
      BY <2>1, <2>2
    <3> QED  BY <2>1, <3>1, SameList
  <2> QED  BY <2>1, <2>2
<1> QED  BY <1>1, <1>2, <1>4 DEF p

\* The first of two joined lists is a prefix, the second what follows it.
LEMMA JoinedPrefix ==
    ASSUME NEW A, NEW s \in Seq(A), NEW t \in Seq(A)
    PROVE  Optimizer!IsPrefix(s, s \o t) /\ Optimizer!From(s \o t, Len(s)) = t
           /\ Optimizer!First(s \o t, Len(s)) = s
<1> DEFINE u == s \o t
           n == Len(s)
           k == Len(u)
           x0 == 0
           p == SubSeq(u, x0 + 1, n)
           q == SubSeq(u, n + 1, k)
<1>1. /\ u \in Seq(A) /\ Len(u) = Len(s) + Len(t)
      /\ \A i \in 1..Len(s) : u[i] = s[i]
      /\ \A i \in 1..Len(t) : u[Len(s) + i] = t[i]
  OBVIOUS
<1>2. n \in Nat /\ k \in Nat /\ n <= k /\ k - n = Len(t) /\ k = Len(u)
  BY <1>1
<1>3. x0 \in Nat /\ x0 + 1 = 1 /\ x0 <= n /\ n - x0 = n /\ \A i \in 1..n : x0 + i = i
  BY <1>2
<1> HIDE DEF u
<1>4. Optimizer!IsPrefix(s, u)
  BY <1>1, <1>2, PrefixIs
<1> HIDE DEF k, x0
<1>5. q \in Seq(A) /\ Len(q) = k - n /\ \A i \in 1..(k - n) : q[i] = u[n + i]
  BY <1>1, <1>2, Stretch
<1>6. p \in Seq(A) /\ Len(p) = n - x0 /\ \A i \in 1..(n - x0) : p[i] = u[x0 + i]
  BY <1>1, <1>2, <1>3, Stretch
<1> HIDE DEF q, p
<1>7. q = t
  BY <1>1, <1>2, <1>5, SameList
<1>8. p = s
  BY <1>1, <1>3, <1>6, SameList
<1> QED  BY <1>3, <1>4, <1>7, <1>8 DEF u, k, p, q, Optimizer!From, Optimizer!First

\* A prefix and what follows it make the whole.
LEMMA PrefixAndRest ==
    ASSUME NEW A, NEW s \in Seq(A), NEW t \in Seq(A), Optimizer!IsPrefix(s, t)
    PROVE  /\ Optimizer!From(t, Len(s)) \in Seq(A)
           /\ s \o Optimizer!From(t, Len(s)) = t
           /\ Len(Optimizer!From(t, Len(s))) = Len(t) - Len(s)
<1> DEFINE n == Len(s)
           k == Len(t)
           q == SubSeq(t, n + 1, k)
           u == s \o q
<1>1. n \in Nat /\ k \in Nat /\ n <= k /\ k <= Len(t) /\ \A i \in 1..n : s[i] = t[i]
  BY PrefixIs
<1> HIDE DEF k
<1>2. q \in Seq(A) /\ Len(q) = k - n /\ \A i \in 1..(k - n) : q[i] = t[n + i]
  BY <1>1, Stretch
<1> HIDE DEF q
<1>3. /\ u \in Seq(A) /\ Len(u) = n + Len(q)
      /\ \A i \in 1..n : u[i] = s[i]
      /\ \A i \in 1..Len(q) : u[n + i] = q[i]
  BY <1>2
<1> HIDE DEF n, u
<1>4. Len(u) = k
  BY <1>1, <1>2, <1>3
<1>5. \A i \in 1..k : u[i] = t[i]
  <2> TAKE i \in 1..k
  <2>1. CASE i <= n
    <3>1. i \in 1..n
      BY <1>1, <2>1
    <3> QED  BY <1>1, <1>3, <3>1
  <2>2. CASE ~(i <= n)
    <3>1. i - n \in 1..(k - n) /\ n + (i - n) = i
      BY <1>1, <2>2
    <3>2. i - n \in 1..Len(q)
      BY <1>2, <3>1
    <3>3. u[n + (i - n)] = q[i - n] /\ q[i - n] = t[n + (i - n)]
      BY <1>2, <1>3, <3>1, <3>2
    <3> QED  BY <3>1, <3>3
  <2> QED  BY <2>1, <2>2
<1>6. u = t
  BY <1>3, <1>4, <1>5, SameList DEF k
<1> QED  BY <1>2, <1>6 DEF q, k, n, u, Optimizer!From

\* Of two prefixes of a list one is a prefix of the other.
LEMMA PrefixesNest ==
    ASSUME NEW A, NEW s \in Seq(A), NEW t \in Seq(A), NEW u \in Seq(A),
           Optimizer!IsPrefix(s, u), Optimizer!IsPrefix(t, u)
    PROVE  Optimizer!IsPrefix(s, t) \/ Optimizer!IsPrefix(t, s)
<1>1. \A i \in 1..Len(s) : s[i] = u[i]
  BY PrefixIs
<1>2. \A i \in 1..Len(t) : t[i] = u[i]
  BY PrefixIs
<1>3. CASE Len(s) <= Len(t)
  <2>1. \A i \in 1..Len(s) : s[i] = t[i]
    BY <1>1, <1>2, <1>3
  <2> QED  BY <1>3, <2>1, PrefixIs
<1>4. CASE Len(t) <= Len(s)
  <2>1. \A i \in 1..Len(t) : t[i] = s[i]
    BY <1>1, <1>2, <1>4
  <2> QED  BY <1>4, <2>1, PrefixIs
<1> QED  BY <1>3, <1>4

\* What it means to be a suffix, place by place.
LEMMA SuffixIs ==
    ASSUME NEW A, NEW s \in Seq(A), NEW t \in Seq(A)
    PROVE  Optimizer!IsSuffix(s, t) <=>
              /\ Len(s) <= Len(t)
              /\ \A i \in 1..Len(s) : s[i] = t[(Len(t) - Len(s)) + i]
<1> DEFINE m == Len(s)
           n == Len(t)
           p == Optimizer!Reverse(s)
           q == Optimizer!Reverse(t)
<1>1. /\ p \in Seq(A) /\ Len(p) = m /\ \A i \in 1..m : p[i] = s[(m - i) + 1]
      /\ q \in Seq(A) /\ Len(q) = n /\ \A i \in 1..n : q[i] = t[(n - i) + 1]
      /\ m \in Nat /\ n \in Nat
  BY DEF Optimizer!Reverse
<1> HIDE DEF p, q, m, n
<1>2. Optimizer!IsPrefix(p, q) <=> m <= n /\ \A i \in 1..m : p[i] = q[i]
  <2>1. p \in Seq(A) /\ q \in Seq(A)
    BY <1>1
  <2>2. Optimizer!IsPrefix(p, q) <=>
           Len(p) <= Len(q) /\ \A i \in 1..Len(p) : p[i] = q[i]
    BY <2>1, PrefixIs
  <2>3. Len(p) = m /\ Len(q) = n
    BY <1>1
  <2> QED  BY <2>2, <2>3
<1>3. ASSUME m <= n
      PROVE  (\A i \in 1..m : p[i] = q[i]) <=> \A i \in 1..m : s[i] = t[(n - m) + i]
  <2>1. ASSUME \A i \in 1..m : p[i] = q[i], NEW i \in 1..m
        PROVE  s[i] = t[(n - m) + i]
    <3> DEFINE k == (m - i) + 1
    <3>1. k \in 1..m /\ k \in 1..n /\ (m - k) + 1 = i /\ (n - k) + 1 = (n - m) + i
      BY <1>1, <1>3
    <3> HIDE DEF k
    <3>2. p[k] = s[i] /\ q[k] = t[(n - m) + i]
      BY <1>1, <3>1
    <3> QED  BY <2>1, <3>1, <3>2
  <2>2. ASSUME \A i \in 1..m : s[i] = t[(n - m) + i], NEW k \in 1..m
        PROVE  p[k] = q[k]
    <3> DEFINE i == (m - k) + 1
    <3>1. i \in 1..m /\ k \in 1..n /\ (m - k) + 1 = i /\ (n - k) + 1 = (n - m) + i
      BY <1>1, <1>3
    <3> HIDE DEF i
    <3>2. p[k] = s[i] /\ q[k] = t[(n - m) + i]
      BY <1>1, <3>1
    <3> QED  BY <2>2, <3>1, <3>2
  <2> QED  BY <2>1, <2>2
<1>4. Optimizer!IsSuffix(s, t) <=> Optimizer!IsPrefix(p, q)
  BY DEF Optimizer!IsSuffix, p, q
<1> QED  BY <1>2, <1>3, <1>4 DEF m, n

\* A suffix and what comes before it make the whole.
LEMMA SuffixAndRest ==
    ASSUME NEW A, NEW s \in Seq(A), NEW t \in Seq(A), Optimizer!IsSuffix(s, t)
    PROVE  /\ Optimizer!First(t, Len(t) - Len(s)) \in Seq(A)
           /\ Optimizer!First(t, Len(t) - Len(s)) \o s = t
<1> DEFINE m == Len(s)
           n == Len(t)
           d == n - m
           p == SubSeq(t, 1, d)
           q == SubSeq(t, d + 1, n)
<1>1. /\ m \in Nat /\ n \in Nat /\ d \in Nat /\ d <= n /\ n - d = m
      /\ \A i \in 1..m : s[i] = t[d + i]
  BY SuffixIs
<1>2. /\ 0 \in Nat /\ 0 <= d /\ 0 + 1 = 1
  BY <1>1
<1> HIDE DEF d
<1>3. q \in Seq(A) /\ Len(q) = n - d /\ \A i \in 1..(n - d) : q[i] = t[d + i]
  BY <1>1, Stretch
<1>4. q = s
  <2> HIDE DEF q, n, m
  <2>1. Len(s) = m
    BY DEF m
  <2> QED  BY <1>1, <1>3, <2>1, SameList
<1> DEFINE x0 == 0
<1>5. x0 \in Nat /\ x0 <= d /\ x0 + 1 = 1
  BY <1>2
<1> HIDE DEF x0
<1>6. SubSeq(t, x0 + 1, d) \in Seq(A)
  BY <1>1, <1>5, Stretch
<1>7. SubSeq(t, x0 + 1, d) \o SubSeq(t, d + 1, n) = SubSeq(t, x0 + 1, n)
  <2>1. x0 \in Nat /\ d \in Nat /\ n \in Nat /\ x0 <= d /\ d <= n
    BY <1>1, <1>5
  <2>2. n <= Len(t)
    BY <2>1
  <2> HIDE DEF n
  <2> QED  BY <2>1, <2>2, StretchesJoin
<1>8. SubSeq(t, 1, n) = t
  OBVIOUS
<1>9. p \in Seq(A) /\ p \o s = t
  BY <1>4, <1>5, <1>6, <1>7, <1>8
<1> QED  BY <1>9 DEF d, p, Optimizer!First

\* The second of two joined lists is a suffix, the first what comes before it.
LEMMA JoinedSuffix ==
    ASSUME NEW A, NEW s \in Seq(A), NEW t \in Seq(A)
    PROVE  /\ Optimizer!IsSuffix(t, s \o t)
           /\ Optimizer!First(s \o t, Len(s \o t) - Len(t)) = s
<1> DEFINE u == s \o t
<1>1. /\ u \in Seq(A) /\ Len(u) = Len(s) + Len(t)
      /\ \A i \in 1..Len(s) : u[i] = s[i]
      /\ \A i \in 1..Len(t) : u[Len(s) + i] = t[i]
  OBVIOUS
<1>2. Len(t) <= Len(u) /\ Len(u) - Len(t) = Len(s)
  BY <1>1
<1>3. Optimizer!First(u, Len(s)) = s
  BY JoinedPrefix
<1> HIDE DEF u
<1>4. \A i \in 1..Len(t) : t[i] = u[(Len(u) - Len(t)) + i]
  BY <1>1, <1>2
<1>5. Optimizer!IsSuffix(t, u)
  BY <1>1, <1>2, <1>4, SuffixIs
<1> QED  BY <1>2, <1>3, <1>5 DEF u

\* Joining is associative.
LEMMA Reassociate ==
    ASSUME NEW A, NEW s1 \in Seq(A), NEW s2 \in Seq(A), NEW s3 \in Seq(A)
    PROVE  (s1 \o s2) \o s3 = s1 \o (s2 \o s3)
<1> DEFINE p == (s1 \o s2) \o s3
           q == s1 \o (s2 \o s3)
<1>1. p \in Seq(A) /\ q \in Seq(A) /\ Len(p) = Len(q)
  OBVIOUS
<1>2. \A i \in 1..Len(p) : p[i] = q[i]
  OBVIOUS
<1> HIDE DEF p, q
<1>3. p = q
  BY <1>1, <1>2, SameList
<1> QED  BY <1>3 DEF p, q

LEMMA StillPrefix ==
    ASSUME NEW A, NEW s1 \in Seq(A), NEW s2 \in Seq(A), NEW s3 \in Seq(A)
    PROVE  Optimizer!IsPrefix(s1, (s1 \o s2) \o s3)
<1> DEFINE t == s2 \o s3
           o == (s1 \o s2) \o s3
<1>1. t \in Seq(A)
  OBVIOUS
<1>2. o = s1 \o t
  BY Reassociate
<1> HIDE DEF t, o
<1>3. Optimizer!IsPrefix(s1, o)
  BY <1>1, <1>2, JoinedPrefix
<1> QED  BY <1>3 DEF o

\* A list is a prefix of one that has more in its middle or at its end.
LEMMA LongerPrefix ==
    ASSUME NEW A, NEW s1 \in Seq(A), NEW s2 \in Seq(A), NEW s3 \in Seq(A),
           NEW s4 \in Seq(A)
    PROVE  Optimizer!IsPrefix(s1 \o s2, s1 \o (s2 \o s3) \o s4)
<1> DEFINE p == s1 \o s2
<1>1. p \in Seq(A)
  OBVIOUS
<1>2. s1 \o (s2 \o s3) = p \o s3
  BY Reassociate
<1> HIDE DEF p
<1>3. Optimizer!IsPrefix(p, (p \o s3) \o s4)
  BY <1>1, StillPrefix
<1> QED  BY <1>2, <1>3 DEF p

-----------------------------------------------------------------------------
(* What the optimizer reads off the pattern of everything in a directory.  *)

\* The text of a directory: it ends in a slash and has no empty segment.
Directory(dir) ==
    /\ dir \in Seq(Chars) /\ dir # << >>
    /\ dir[1] # "/" /\ dir[Len(dir)] = "/"
    /\ \A i \in 1..(Len(dir) - 1) : ~(dir[i] = "/" /\ dir[i + 1] = "/")

\* The tokenizer after k characters of dir: b says where the slashes are that
\* end its m segments.
Tokenized(tokens, dir, k, m, b) ==
    /\ m \in Nat /\ b \in [0..m -> 0..k] /\ b[0] = 0
    /\ \A i \in 1..m : b[i - 1] + 1 < b[i] /\ dir[b[i]] = "/"
    /\ Len(tokens.segments) = m
    /\ \A i \in 1..m : tokens.segments[i] = SubSeq(dir, b[i - 1] + 1, b[i] - 1)
    /\ tokens.current = SubSeq(dir, b[m] + 1, k)
    /\ \A i \in (b[m] + 1)..k : dir[i] # "/"

\* A slash ends a segment.
LEMMA SlashEnds ==
    ASSUME NEW A, NEW dir \in Seq(A), NEW k \in Nat, k < Len(dir),
           NEW was \in TokenStates(A), NEW m, NEW b,
           Tokenized(was, dir, k, m, b), dir[k + 1] = "/", b[m] < k
    PROVE  \E m2, b2 : Tokenized(NextTokens(was, "/"), dir, k + 1, m2, b2)
<1> DEFINE c == [i \in 0..(m + 1) |-> IF i = m + 1 THEN k + 1 ELSE b[i]]
           now == NextTokens(was, "/")
<1>1. /\ m \in Nat /\ b \in [0..m -> 0..k] /\ b[0] = 0 /\ b[m] \in 0..k
      /\ was.segments \in Seq(Seq(A)) /\ was.current \in Seq(A)
      /\ Len(was.segments) = m
  BY DEF Tokenized, TokenStates
<1>2. was.current = SubSeq(dir, b[m] + 1, k)
  BY DEF Tokenized
<1>3. was.current # << >>
  <2>1. \A i \in (b[m] + 1)..k : dir[i] \in A
    BY <1>1
  <2>2. b[m] + 1 \in Int /\ k \in Int /\ b[m] + 1 <= k
    BY <1>1
  <2>3. Len(SubSeq(dir, b[m] + 1, k)) = k - (b[m] + 1) + 1
    BY <2>1, <2>2, SubSeqProperties
  <2>4. k - (b[m] + 1) + 1 # 0
    BY <2>2
  <2>5. Len(was.current) # 0
    BY <1>2, <2>3, <2>4
  <2> QED  BY <2>5
<1>4. now = [segments |-> Append(was.segments, was.current), current |-> << >>]
  BY <1>3 DEF NextTokens, Optimizer!Close
<1>5. /\ Len(now.segments) = m + 1
      /\ now.segments[m + 1] = was.current
      /\ \A i \in 1..m : now.segments[i] = was.segments[i]
      /\ now.current = << >>
  <2> DEFINE s == Append(was.segments, was.current)
  <2>1. /\ Len(s) = m + 1 /\ s[m + 1] = was.current
        /\ \A i \in 1..m : s[i] = was.segments[i]
    BY <1>1
  <2>2. now.segments = s /\ now.current = << >>
    BY <1>4
  <2> HIDE DEF s, now
  <2> QED  BY <2>1, <2>2
<1>6. /\ c \in [0..(m + 1) -> 0..(k + 1)] /\ c[0] = 0 /\ c[m + 1] = k + 1
      /\ \A i \in 0..m : c[i] = b[i]
  BY <1>1
<1> HIDE DEF c, now
<1>7. SubSeq(dir, c[m + 1] + 1, k + 1) = << >>
  <2>1. k + 1 < c[m + 1] + 1 /\ c[m + 1] + 1 \in Int /\ k + 1 \in Int
    BY <1>6
  <2> QED  BY <2>1, SubSeqEmpty
<1>8. ASSUME NEW i \in 1..(m + 1)
      PROVE  /\ c[i - 1] + 1 < c[i] /\ dir[c[i]] = "/"
             /\ now.segments[i] = SubSeq(dir, c[i - 1] + 1, c[i] - 1)
  <2>1. CASE i = m + 1
    <3>1. i - 1 = m /\ m \in 0..m /\ c[i - 1] = b[m] /\ c[i] = k + 1
      BY <1>1, <1>6, <2>1
    <3>2. (k + 1) - 1 = k
      OBVIOUS
    <3> QED  BY <1>1, <1>2, <1>5, <2>1, <3>1, <3>2
  <2>2. CASE i # m + 1
    <3>1. i \in 1..m /\ i - 1 \in 0..m /\ i \in 0..m
      BY <1>1, <2>2
    <3>2. c[i - 1] = b[i - 1] /\ c[i] = b[i] /\ now.segments[i] = was.segments[i]
      BY <1>5, <1>6, <3>1
    <3> QED  BY <3>1, <3>2 DEF Tokenized
  <2> QED  BY <2>1, <2>2
<1>9. \A i \in (c[m + 1] + 1)..(k + 1) : dir[i] # "/"
  BY <1>6
<1>10. m + 1 \in Nat
  BY <1>1
<1>11. Tokenized(now, dir, k + 1, m + 1, c)
  BY <1>5, <1>6, <1>7, <1>8, <1>9, <1>10 DEF Tokenized
<1> QED  BY <1>11 DEF now

\* Any other character joins the one under way.
LEMMA CharacterJoins ==
    ASSUME NEW A, NEW dir \in Seq(A), NEW k \in Nat, k < Len(dir),
           NEW was \in TokenStates(A), NEW m, NEW b,
           Tokenized(was, dir, k, m, b), dir[k + 1] # "/"
    PROVE  Tokenized(NextTokens(was, dir[k + 1]), dir, k + 1, m, b)
<1> DEFINE now == NextTokens(was, dir[k + 1])
<1>1. /\ m \in Nat /\ b \in [0..m -> 0..k] /\ b[0] = 0 /\ b[m] \in 0..k
      /\ was.segments \in Seq(Seq(A)) /\ was.current \in Seq(A)
      /\ Len(was.segments) = m /\ was.current = SubSeq(dir, b[m] + 1, k)
  BY DEF Tokenized, TokenStates
<1>2. /\ now.segments = was.segments
      /\ now.current = Append(was.current, dir[k + 1])
  BY DEF NextTokens, TokenStates
<1> HIDE DEF now
<1>3. Append(SubSeq(dir, b[m] + 1, k), dir[k + 1]) = SubSeq(dir, b[m] + 1, k + 1)
  <2>1. b[m] \in Nat /\ b[m] <= k
    BY <1>1
  <2> QED  BY <2>1, StretchGrows
<1>4. \A i \in (b[m] + 1)..(k + 1) : dir[i] # "/"
  <2> TAKE i \in (b[m] + 1)..(k + 1)
  <2>1. i \in (b[m] + 1)..k \/ i = k + 1
    BY <1>1
  <2> QED  BY <2>1 DEF Tokenized
<1>5. b \in [0..m -> 0..(k + 1)]
  <2>1. \A i \in 0..m : b[i] \in 0..(k + 1)
    BY <1>1
  <2> QED  BY <1>1, <2>1
<1>6. Tokenized(now, dir, k + 1, m, b)
  BY <1>1, <1>2, <1>3, <1>4, <1>5 DEF Tokenized
<1> QED  BY <1>6 DEF now

\* All of a directory is tokenized into segments that end at its slashes.
LEMMA DirectoryTokens ==
    ASSUME NEW dir, Directory(dir), NEW A, dir \in Seq(A), NEW T,
           \A k \in 0..Len(dir) : T[k] \in TokenStates(A),
           T[0] = NoTokens,
           \A k \in 1..Len(dir) : T[k] = NextTokens(T[k - 1], dir[k])
    PROVE  \E m, b : /\ Tokenized(T[Len(dir)], dir, Len(dir), m, b)
                     /\ m > 0 /\ b[m] = Len(dir)
<1> DEFINE n == Len(dir)
           S == {k \in Nat : k <= n => \E m, b : Tokenized(T[k], dir, k, m, b)}
<1>1. n \in Nat /\ n > 0
  BY DEF Directory
<1>2. 0 \in S
  <2> DEFINE b == [i \in 0..0 |-> 0]
  <2>1. SubSeq(dir, 1, 0) = << >>
    BY SubSeqEmpty
  <2>2. b \in [0..0 -> 0..0] /\ b[0] = 0
    OBVIOUS
  <2> HIDE DEF b
  <2>3. Tokenized(T[0], dir, 0, 0, b)
    BY <2>1, <2>2 DEF Tokenized, NoTokens
  <2> QED  BY <2>3
<1>3. ASSUME NEW k \in Nat, k \in S PROVE k + 1 \in S
  <2> SUFFICES ASSUME k + 1 <= n PROVE \E m, b : Tokenized(T[k + 1], dir, k + 1, m, b)
    OBVIOUS
  <2>1. PICK m, b : Tokenized(T[k], dir, k, m, b)
    BY <1>1, <1>3
  <2>2. /\ k < n /\ k + 1 \in 1..n /\ k \in 0..n /\ (k + 1) - 1 = k
        /\ T[k] \in TokenStates(A) /\ T[k + 1] = NextTokens(T[k], dir[k + 1])
    BY <1>1
  <2>3. CASE dir[k + 1] # "/"
    <3>1. Tokenized(NextTokens(T[k], dir[k + 1]), dir, k + 1, m, b)
      BY <2>1, <2>2, <2>3, CharacterJoins
    <3> QED  BY <2>2, <3>1
  <2>4. CASE dir[k + 1] = "/"
    <3>1. m \in Nat /\ b[m] \in 0..k /\ b[0] = 0 /\ (m > 0 => dir[b[m]] = "/")
      <4>1. m \in Nat /\ b \in [0..m -> 0..k] /\ b[0] = 0
        BY <2>1 DEF Tokenized
      <4>2. m \in 0..m /\ (m > 0 => m \in 1..m)
        BY <4>1
      <4>3. m > 0 => dir[b[m]] = "/"
        BY <2>1, <4>2 DEF Tokenized
      <4> QED  BY <4>1, <4>2, <4>3
    <3>2. b[m] # k
      <4>1. CASE k = 0
        BY <2>4, <4>1 DEF Directory
      <4>2. CASE k > 0
        <5>1. k \in 1..(n - 1)
          BY <2>2, <4>2
        <5>2. dir[k] # "/"
          BY <2>4, <5>1 DEF Directory
        <5> QED  BY <3>1, <4>2, <5>2
      <4> QED  BY <4>1, <4>2
    <3>3. b[m] < k
      BY <3>1, <3>2
    <3> QED  BY <2>1, <2>2, <2>4, <3>3, SlashEnds
  <2> QED  BY <2>3, <2>4
<1> HIDE DEF S
<1>4. n \in S
  BY <1>1, <1>2, <1>3, Induction
<1>5. PICK m, b : Tokenized(T[n], dir, n, m, b)
  BY <1>1, <1>4 DEF S
<1>6. m \in Nat /\ b[m] \in 0..n /\ b[0] = 0 /\ dir[n] = "/"
      /\ \A i \in (b[m] + 1)..n : dir[i] # "/"
  BY <1>5 DEF Tokenized, Directory
<1>7. b[m] = n
  <2>1. n \notin (b[m] + 1)..n
    BY <1>6
  <2> QED  BY <1>1, <1>6, <2>1
<1>8. m > 0
  BY <1>1, <1>6, <1>7
<1> QED  BY <1>5, <1>7, <1>8

\* The pattern of everything in a directory.
Everything(atoms, dir, g) ==
    /\ Directory(dir) /\ g \in {"(.*)", "(.+)"}
    /\ atoms \in Seq(Chars \cup {g}) /\ Len(atoms) = Len(dir) + 1
    /\ \A i \in 1..Len(dir) : atoms[i] = dir[i]
    /\ atoms[Len(dir) + 1] = g

\* The segments of such a pattern: m of them end at the slashes at b, the group
\* is the last one.
Cut(segs, dir, g, m, b) ==
    /\ m \in Nat /\ m > 0 /\ b \in [0..m -> 0..Len(dir)]
    /\ b[0] = 0 /\ b[m] = Len(dir)
    /\ \A i \in 1..m : b[i - 1] + 1 < b[i] /\ dir[b[i]] = "/"
    /\ segs \in Seq(Seq(Chars \cup {g})) /\ Len(segs) = m + 1
    /\ \A i \in 1..m : segs[i] = SubSeq(dir, b[i - 1] + 1, b[i] - 1)
    /\ segs[m + 1] = <<g>>

\* Such a pattern has such segments.
LEMMA DirectorySegments ==
    ASSUME NEW atoms, NEW dir, NEW g, Everything(atoms, dir, g)
    PROVE  \E m, b : Cut(Optimizer!Segments(atoms), dir, g, m, b)
<1> DEFINE n == Len(dir)
           A == Chars \cup {g}
           segs == Optimizer!Segments(atoms)
<1>1. /\ n \in Nat /\ Directory(dir) /\ dir \in Seq(A) /\ atoms \in Seq(A)
      /\ Len(atoms) = n + 1 /\ g # "/" /\ g \in A /\ atoms[n + 1] = g
      /\ \A i \in 1..n : atoms[i] = dir[i]
  <2>1. dir \in Seq(Chars) /\ Chars \subseteq A
    BY DEF Everything, Directory
  <2>2. dir \in Seq(A)
    BY <2>1
  <2> QED  BY <2>1, <2>2 DEF Everything
<1> HIDE DEF A, n
<1>2. PICK T \in [0..Len(atoms) -> TokenStates(A)] :
         /\ T[0] = NoTokens
         /\ \A k \in 1..Len(atoms) : T[k] = NextTokens(T[k - 1], atoms[k])
         /\ segs = Optimizer!Close(T[Len(atoms)])
  BY <1>1, SegmentsAre
<1> HIDE DEF segs
<1>3. /\ \A k \in 0..n : T[k] \in TokenStates(A)
      /\ \A k \in 1..n : T[k] = NextTokens(T[k - 1], dir[k])
      /\ T[n + 1] = NextTokens(T[n], g) /\ T[n] \in TokenStates(A)
  <2>1. \A k \in 0..n : k \in 0..(n + 1)
    BY <1>1
  <2>2. \A k \in 1..n : k \in 1..(n + 1) /\ atoms[k] = dir[k]
    BY <1>1
  <2>3. n + 1 \in 1..(n + 1) /\ (n + 1) - 1 = n /\ n \in 0..n
    BY <1>1
  <2> QED  BY <1>1, <1>2, <2>1, <2>2, <2>3
<1>4. PICK m, b : Tokenized(T[n], dir, n, m, b) /\ m > 0 /\ b[m] = n
  BY <1>1, <1>2, <1>3, DirectoryTokens DEF n
<1>5. /\ m \in Nat /\ b \in [0..m -> 0..n] /\ b[0] = 0
      /\ \A i \in 1..m : b[i - 1] + 1 < b[i] /\ dir[b[i]] = "/"
      /\ Len(T[n].segments) = m
      /\ \A i \in 1..m : T[n].segments[i] = SubSeq(dir, b[i - 1] + 1, b[i] - 1)
      /\ T[n].current = SubSeq(dir, n + 1, n)
  BY <1>4 DEF Tokenized
<1>6. T[n].current = << >>
  <2>1. n < n + 1 /\ n \in Int /\ n + 1 \in Int
    BY <1>1
  <2> QED  BY <1>5, <2>1, SubSeqEmpty
<1>7. /\ T[n].segments \in Seq(Seq(A))
      /\ T[n + 1].segments = T[n].segments /\ T[n + 1].current = <<g>>
  <2>1. Append(<< >>, g) = <<g>>
    OBVIOUS
  <2> QED  BY <1>1, <1>3, <1>6, <2>1 DEF NextTokens, TokenStates
<1>8. segs = Append(T[n].segments, <<g>>)
  <2>1. <<g>> # << >>
    OBVIOUS
  <2> QED  BY <1>1, <1>2, <1>7, <2>1 DEF Optimizer!Close
<1>9. /\ segs \in Seq(Seq(A)) /\ Len(segs) = m + 1 /\ segs[m + 1] = <<g>>
      /\ \A i \in 1..m : segs[i] = T[n].segments[i]
  <2> DEFINE s == T[n].segments
             e == <<g>>
  <2>1. e \in Seq(A) /\ s \in Seq(Seq(A)) /\ Len(s) = m /\ m \in Nat
    BY <1>1, <1>5, <1>7
  <2>2. segs = Append(s, e)
    BY <1>8
  <2> HIDE DEF s, e
  <2>3. /\ segs \in Seq(Seq(A)) /\ Len(segs) = m + 1 /\ segs[m + 1] = e
        /\ \A i \in 1..m : segs[i] = s[i]
    BY <2>1, <2>2
  <2> QED  BY <2>3 DEF s, e
<1>10. Cut(segs, dir, g, m, b)
  BY <1>4, <1>5, <1>9 DEF Cut, n, A
<1> QED  BY <1>10 DEF segs

\* No character is a regular expression.
LEMMA CharsArePlain ==
    /\ "/" \in Chars
    /\ \A c \in Chars : /\ c \notin Optimizer!Wide /\ c \notin Optimizer!Level
                        /\ c \notin Optimizer!Groups /\ c # "x?"
BY OptimizerAssumption DEF Optimizer!PrefixAssumption, Optimizer!Wide, Optimizer!Level,
                           Optimizer!Groups

\* Characters alone are a literal segment.
LEMMA LiteralClass ==
    ASSUME NEW seg \in Seq(Chars), seg # << >>
    PROVE  Optimizer!Class(seg) = "Literal"
<1>1. Optimizer!ToSet(seg) \subseteq Chars
  BY DEF Optimizer!ToSet
<1>2. seg[1] \in Chars /\ Optimizer!Last(seg) \in Chars
  BY DEF Optimizer!Last
<1>3. seg \notin {<<".*">>, <<".+">>}
  BY <1>2, CharsArePlain DEF Optimizer!Wide
<1>4. /\ Optimizer!Last(seg) \notin {"(.*)", "(.+)"}
      /\ seg[1] \notin Optimizer!Level
  BY <1>2, CharsArePlain DEF Optimizer!Wide
<1> QED  BY <1>1, <1>3, <1>4 DEF Optimizer!Class

\* A wide group alone is a segment of any depth.
LEMMA GroupClass ==
    ASSUME NEW g \in {"(.*)", "(.+)"}
    PROVE  Optimizer!Class(<<g>>) = "MultiLevel"
<1> DEFINE seg == <<g>>
<1>1. g \in Optimizer!Groups /\ g \notin Optimizer!Level
  BY DEF Optimizer!Groups, Optimizer!Level
<1>2. ~(Optimizer!ToSet(seg) \subseteq Chars)
  BY <1>1, CharsArePlain DEF Optimizer!ToSet
<1>3. Optimizer!Last(seg) = g /\ seg[1] = g
  BY DEF Optimizer!Last
<1> HIDE DEF seg
<1>4. Optimizer!Class(seg) = "MultiLevel"
  BY <1>1, <1>2, <1>3 DEF Optimizer!Class
<1> QED  BY <1>4 DEF seg

\* A directory's static prefix is its text.
LEMMA DirectoryStatic ==
    ASSUME NEW atoms, NEW dir, NEW g, Everything(atoms, dir, g)
    PROVE  LET segs == Optimizer!Segments(atoms)
           IN  /\ Optimizer!StaticOf(segs) = dir
               /\ \A ended \in BOOLEAN : Optimizer!Safe(segs, ended)
<1> DEFINE segs == Optimizer!Segments(atoms)
           n == Len(dir)
<1>1. PICK m, b : Cut(segs, dir, g, m, b)
  BY DirectorySegments
<1>2. /\ m \in Nat /\ m > 0 /\ b \in [0..m -> 0..n]
      /\ b[0] = 0 /\ b[m] = n
      /\ \A i \in 1..m : b[i - 1] + 1 < b[i] /\ dir[b[i]] = "/"
      /\ segs \in Seq(Seq(Chars \cup {g})) /\ Len(segs) = m + 1
      /\ \A i \in 1..m : segs[i] = SubSeq(dir, b[i - 1] + 1, b[i] - 1)
      /\ segs[m + 1] = <<g>>
  BY <1>1 DEF Cut
<1> HIDE DEF segs
<1>3. /\ dir \in Seq(Chars) /\ n \in Nat /\ g \in {"(.*)", "(.+)"}
  BY DEF Everything, Directory
<1>4. ASSUME NEW i \in 1..m
      PROVE  /\ i \in Nat /\ i - 1 \in 0..m /\ b[i - 1] \in Nat /\ b[i] \in Nat
             /\ b[i - 1] < b[i] - 1 /\ b[i - 1] <= b[i] - 1
             /\ b[i] - 1 \in Nat /\ b[i] <= n
             /\ b[i] - 1 < n /\ (b[i] - 1) + 1 = b[i] /\ dir[b[i]] = "/"
  <2>1. m \in Nat
    BY <1>2
  <2>2. i \in Nat /\ i - 1 \in 0..m /\ i \in 0..m
    BY <2>1
  <2>3. /\ b[i - 1] \in 0..n /\ b[i] \in 0..n /\ b[i - 1] + 1 < b[i]
        /\ dir[b[i]] = "/"
    BY <1>2, <2>2
  <2> HIDE DEF n
  <2> DEFINE x0 == b[i - 1]
             x1 == b[i]
  <2>4. x0 \in 0..n /\ x1 \in 0..n /\ x0 + 1 < x1 /\ n \in Nat
    BY <1>3, <2>3
  <2> HIDE DEF x0, x1
  <2>5. /\ x0 \in Nat /\ x1 \in Nat /\ x0 < x1 - 1 /\ x0 <= x1 - 1 /\ x1 - 1 \in Nat
        /\ x1 <= n /\ x1 - 1 < n /\ (x1 - 1) + 1 = x1
    BY <2>4
  <2> QED  BY <2>2, <2>3, <2>5 DEF x0, x1
<1>5. \A i \in 1..m : segs[i] \in Seq(Chars) /\ Optimizer!Class(segs[i]) = "Literal"
  <2> TAKE i \in 1..m
  <2>1. /\ SubSeq(dir, b[i - 1] + 1, b[i] - 1) \in Seq(Chars)
        /\ SubSeq(dir, b[i - 1] + 1, b[i] - 1) # << >>
    <3> DEFINE a == b[i - 1]
               k == b[i] - 1
    <3>1. a \in Nat /\ k \in Nat /\ a <= k /\ k <= Len(dir) /\ k - a # 0
      BY <1>3, <1>4
    <3> HIDE DEF a, k
    <3>2. /\ SubSeq(dir, a + 1, k) \in Seq(Chars)
          /\ Len(SubSeq(dir, a + 1, k)) = k - a
      BY <1>3, <3>1, Stretch
    <3>3. SubSeq(dir, a + 1, k) # << >>
      BY <3>1, <3>2
    <3> QED  BY <3>2, <3>3 DEF a, k
  <2>2. segs[i] \in Seq(Chars) /\ segs[i] # << >>
    BY <1>2, <2>1
  <2> QED  BY <2>2, LiteralClass
<1>6. Optimizer!Class(segs[m + 1]) = "MultiLevel"
  BY <1>2, <1>3, GroupClass
<1>7. Optimizer!StaticLen(segs) = m
  <2> DEFINE S == {k \in 0..Len(segs) :
                     \A i \in 1..k : Optimizer!Class(segs[i]) = "Literal"}
  <2>1. S \in SUBSET Int /\ m \in S
    BY <1>2, <1>5
  <2>2. \A y \in S : y <= m
    <3> TAKE y \in S
    <3>1. y # m + 1
      <4>1. y \in 0..Len(segs) /\ \A i \in 1..y : Optimizer!Class(segs[i]) = "Literal"
        OBVIOUS
      <4>2. m + 1 \in 1..(m + 1)
        BY <1>2
      <4> QED  BY <1>6, <4>1, <4>2
    <3> QED  BY <1>2, <3>1
  <2> HIDE DEF S
  <2>3. Optimizer!Max(S) = m
    BY <2>1, <2>2, MaxIs
  <2> QED  BY <2>3 DEF S, Optimizer!StaticLen
<1>8. Optimizer!StaticOf(segs) = dir
  <2> DEFINE seqs == [i \in 1..m |-> Append(segs[i], "/")]
  <2>1. /\ seqs \in Seq(Seq(Chars)) /\ Len(seqs) = m
        /\ \A i \in 1..m : seqs[i] = SubSeq(dir, b[i - 1] + 1, b[i])
    <3>1. \A i \in 1..m : seqs[i] \in Seq(Chars)
      BY <1>5, CharsArePlain
    <3>2. ASSUME NEW i \in 1..m
          PROVE  Append(segs[i], "/") = SubSeq(dir, b[i - 1] + 1, b[i])
      <4> DEFINE a == b[i - 1]
                 k == b[i] - 1
      <4>1. /\ a \in Nat /\ k \in Nat /\ a <= k /\ k < Len(dir)
            /\ k + 1 = b[i] /\ dir[k + 1] = "/" /\ segs[i] = SubSeq(dir, a + 1, k)
        BY <1>2, <1>3, <1>4
      <4> HIDE DEF a, k
      <4>2. Append(SubSeq(dir, a + 1, k), dir[k + 1]) = SubSeq(dir, a + 1, k + 1)
        BY <1>3, <4>1, StretchGrows
      <4>3. Append(segs[i], "/") = SubSeq(dir, a + 1, b[i])
        BY <4>1, <4>2
      <4> QED  BY <4>3 DEF a
    <3>3. seqs \in Seq(Seq(Chars)) /\ Len(seqs) = m
      BY <1>2, <3>1
    <3> QED  BY <3>2, <3>3
  <2>2. segs # << >> /\ Optimizer!StaticOf(segs) = Optimizer!FlattenSeq(seqs)
    BY <1>2, <1>7 DEF Optimizer!StaticOf
  <2> HIDE DEF seqs
  <2>3. PICK f : /\ f[1] = seqs[1]
                 /\ \A i \in 2..m : f[i] = f[i - 1] \o seqs[i]
                 /\ Optimizer!FlattenSeq(seqs) = f[m]
    BY <1>2, <2>1, FlattenIs
  <2> DEFINE S == {i \in Nat : i + 1 <= m => f[i + 1] = SubSeq(dir, 1, b[i + 1])}
  <2>4. 0 \in S
    <3>1. 1 \in 1..m /\ 1 - 1 = 0 /\ b[0] + 1 = 1
      BY <1>2
    <3>2. seqs[1] = SubSeq(dir, b[1 - 1] + 1, b[1])
      BY <2>1, <3>1
    <3>3. f[1] = SubSeq(dir, 1, b[1])
      BY <2>3, <3>1, <3>2
    <3>4. 0 + 1 = 1
      OBVIOUS
    <3> QED  BY <3>3, <3>4
  <2>5. ASSUME NEW i \in Nat, i \in S PROVE i + 1 \in S
    <3> SUFFICES ASSUME i + 2 <= m PROVE f[i + 2] = SubSeq(dir, 1, b[i + 2])
      OBVIOUS
    <3> DEFINE j == i + 1
               k == i + 2
    <3>1. /\ k \in 2..m /\ k \in 1..m /\ j \in 1..m /\ k - 1 = j
          /\ f[j] = SubSeq(dir, 1, b[j])
      BY <1>2, <2>5
    <3> HIDE DEF j, k
    <3>2. f[k] = f[j] \o seqs[k] /\ seqs[k] = SubSeq(dir, b[j] + 1, b[k])
      BY <2>1, <2>3, <3>1
    <3>3. b[j] \in Nat /\ b[k] \in Nat /\ 0 <= b[j] /\ b[j] <= b[k] /\ b[k] <= n
      <4>1. b[j] \in Nat
        BY <1>4, <3>1
      <4>2. b[k] \in Nat /\ b[k - 1] < b[k] - 1 /\ b[k] <= n
        BY <1>4, <3>1
      <4> QED  BY <3>1, <4>1, <4>2
    <3> DEFINE x0 == 0
    <3>4. x0 \in Nat /\ x0 <= b[j] /\ x0 + 1 = 1
      BY <3>3
    <3> HIDE DEF x0
    <3>5. SubSeq(dir, x0 + 1, b[j]) \o SubSeq(dir, b[j] + 1, b[k])
             = SubSeq(dir, x0 + 1, b[k])
      BY <1>3, <3>3, <3>4, StretchesJoin
    <3>6. f[k] = SubSeq(dir, 1, b[k])
      BY <3>1, <3>2, <3>4, <3>5
    <3> QED  BY <3>6 DEF k
  <2> HIDE DEF S
  <2>6. \A i \in Nat : i \in S
    BY <2>4, <2>5, Induction
  <2>7. f[m] = SubSeq(dir, 1, b[m])
    <3>1. m - 1 \in Nat /\ (m - 1) + 1 = m
      BY <1>2
    <3>2. m - 1 \in S
      BY <2>6, <3>1
    <3> QED  BY <3>1, <3>2 DEF S
  <2>8. SubSeq(dir, 1, Len(dir)) = dir
    BY <1>3
  <2> QED  BY <1>2, <2>2, <2>3, <2>7, <2>8
<1>9. Optimizer!Last(segs) = segs[m + 1]
  BY <1>2 DEF Optimizer!Last
<1>10. \A ended \in BOOLEAN : Optimizer!Safe(segs, ended)
  <2> DEFINE c == Optimizer!Class(Optimizer!Last(segs))
  <2>1. c = "MultiLevel"
    BY <1>6, <1>9
  <2>2. c # "Complex" /\ c # "Literal" /\ m > 0 /\ m < Len(segs)
    BY <1>2, <2>1
  <2> HIDE DEF c
  <2> QED  BY <1>7, <2>2 DEF Optimizer!Safe, c
<1> QED  BY <1>8, <1>10 DEF segs

\* What the optimizer reads off the pattern of everything in a directory.
LEMMA DirectoryLiteral ==
    ASSUME NEW atoms, NEW dir, NEW g, Everything(atoms, dir, g)
    PROVE  Optimizer!LiteralStart(atoms) = dir
<1> DEFINE n == Len(dir)
           A == Chars \cup {g}
           S == {m \in 0..Len(atoms) :
                   Optimizer!ToSet(Optimizer!First(atoms, m)) \subseteq Chars}
<1>1. /\ dir \in Seq(Chars) /\ n \in Nat /\ g \in {"(.*)", "(.+)"}
      /\ atoms \in Seq(A) /\ Len(atoms) = n + 1 /\ atoms[n + 1] = g
      /\ \A i \in 1..n : atoms[i] = dir[i]
  BY DEF Everything, Directory
<1>2. g \notin Chars /\ g # "x?"
  BY <1>1, CharsArePlain DEF Optimizer!Groups
<1>3. SubSeq(atoms, 1, n) = dir
  <2> DEFINE x0 == 0
             p == SubSeq(atoms, x0 + 1, n)
  <2>1. x0 \in Nat /\ x0 <= n /\ n <= Len(atoms) /\ x0 + 1 = 1 /\ n - x0 = n
        /\ \A i \in 1..n : x0 + i = i
    BY <1>1
  <2> HIDE DEF x0, A
  <2>2. p \in Seq(A) /\ Len(p) = n - x0 /\ \A i \in 1..(n - x0) : p[i] = atoms[x0 + i]
    BY <1>1, <2>1, Stretch
  <2> HIDE DEF p
  <2>3. dir \in Seq(A)
    BY <1>1 DEF A
  <2>4. p = dir
    BY <1>1, <2>1, <2>2, <2>3, SameList
  <2> QED  BY <2>1, <2>4 DEF p
<1>4. n \in S
  BY <1>1, <1>3 DEF Optimizer!First, Optimizer!ToSet
<1>5. \A y \in S : y <= n
  <2> TAKE y \in S
  <2>1. ASSUME y = n + 1 PROVE FALSE
    <3>1. Optimizer!First(atoms, y) = atoms
      BY <1>1, <2>1 DEF Optimizer!First
    <3>2. g \in Optimizer!ToSet(atoms)
      BY <1>1 DEF Optimizer!ToSet
    <3> QED  BY <1>2, <3>1, <3>2
  <2> QED  BY <1>1, <2>1
<1>6. Optimizer!Max(S) = n
  <2>1. S \in SUBSET Int
    OBVIOUS
  <2> HIDE DEF S
  <2> QED  BY <1>4, <1>5, <2>1, MaxIs
<1>7. dir \o << >> = dir
  BY <1>1
<1> QED  BY <1>1, <1>2, <1>3, <1>6, <1>7 DEF Optimizer!LiteralStart, Optimizer!First

-----------------------------------------------------------------------------
(* What such a pattern accepts, and what its group captures.               *)

\* What the atoms of such a pattern stand for.
LEMMA MeansAre ==
    ASSUME NEW v
    PROVE  /\ \A c \in Chars : Optimizer!Means(c, v) <=> v = <<c>>
           /\ Optimizer!Means(".*", v) /\ Optimizer!Means("(.*)", v)
           /\ Optimizer!Means("(.+)", v) <=> v # << >>
<1>1. ASSUME NEW c \in Chars PROVE Optimizer!Means(c, v) <=> v = <<c>>
  BY CharsArePlain DEF Optimizer!Means, Optimizer!Wide, Optimizer!Level
<1>2. ".*" \notin Chars /\ "(.*)" \notin Chars /\ "(.+)" \notin Chars
  BY CharsArePlain DEF Optimizer!Wide
<1>3. Optimizer!Means(".*", v) /\ Optimizer!Means("(.*)", v)
  BY <1>2 DEF Optimizer!Means
<1>4. Optimizer!Means("(.+)", v) <=> v # << >>
  BY <1>2 DEF Optimizer!Means
<1> QED  BY <1>1, <1>3, <1>4

\* A character takes one place.
LEMMA CharacterFits ==
    ASSUME NEW w \in Seq(Chars), NEW c \in Chars, NEW X \in SUBSET (0..Len(w)),
           NEW i \in 0..Len(w)
    PROVE  (\E j \in X : i <= j /\ Optimizer!Means(c, SubSeq(w, i + 1, j)))
           <=> (i + 1 \in X /\ w[i + 1] = c)
<1>1. Len(w) \in Nat /\ i \in Nat /\ i + 1 \in Nat
  OBVIOUS
<1>2. ASSUME NEW j \in X, i <= j, Optimizer!Means(c, SubSeq(w, i + 1, j))
      PROVE  i + 1 \in X /\ w[i + 1] = c
  <2> DEFINE v == SubSeq(w, i + 1, j)
  <2>1. v = <<c>>
    BY <1>2, MeansAre
  <2>2. j \in Nat /\ j <= Len(w)
    OBVIOUS
  <2>3. Len(v) = j - i /\ \A t \in 1..(j - i) : v[t] = w[i + t]
    BY <1>1, <1>2, <2>2, Stretch
  <2> HIDE DEF v
  <2>4. Len(v) = 1 /\ v[1] = c
    BY <2>1
  <2>5. j = i + 1 /\ 1 \in 1..(j - i)
    <3>1. j - i = 1
      BY <2>3, <2>4
    <3> QED  BY <1>1, <2>2, <3>1
  <2> QED  BY <2>3, <2>4, <2>5
<1>3. ASSUME i + 1 \in X, w[i + 1] = c
      PROVE  \E j \in X : i <= j /\ Optimizer!Means(c, SubSeq(w, i + 1, j))
  <2> DEFINE j == i + 1
             v == SubSeq(w, i + 1, j)
  <2>1. j \in Nat /\ j <= Len(w) /\ i <= j /\ j - i = 1 /\ j \in X
    BY <1>1, <1>3
  <2> HIDE DEF j
  <2>2. v \in Seq(Chars) /\ Len(v) = j - i /\ \A t \in 1..(j - i) : v[t] = w[i + t]
    BY <1>1, <2>1, Stretch
  <2> HIDE DEF v
  <2>3. 1 \in 1..(j - i)
    BY <2>1
  <2>4. v[1] = c
    BY <1>3, <2>2, <2>3
  <2>5. v = <<c>>
    <3>1. Len(v) = 1 /\ v \in Seq(Chars)
      BY <2>1, <2>2
    <3> QED  BY <2>4, <3>1
  <2>6. Optimizer!Means(c, v)
    BY <2>5, MeansAre
  <2> QED  BY <2>1, <2>6 DEF v
<1> QED  BY <1>2, <1>3

\* A pattern dir(.*) or dir(.+), and what a missing $ allows.
Moving(atoms, dir, g) ==
    /\ atoms \in Seq(Optimizer!Atoms) /\ Directory(dir) /\ g \in {"(.*)", "(.+)"}
    /\ Len(atoms) \in {Len(dir) + 1, Len(dir) + 2}
    /\ \A i \in 1..Len(dir) : atoms[i] = dir[i]
    /\ atoms[Len(dir) + 1] = g
    /\ Len(atoms) = Len(dir) + 2 => atoms[Len(dir) + 2] = ".*"

\* What the group may leave of w.
Left(g, w) == IF g = "(.*)" THEN 0..Len(w) ELSE 0..(Len(w) - 1)

\* From where the group, and what follows it, reach the end.
LEMMA GroupFits ==
    ASSUME NEW atoms, NEW dir, NEW g, Moving(atoms, dir, g), NEW w \in Seq(Chars)
    PROVE  LET F == Optimizer!Fits(atoms, w)
               n == Len(atoms) - Len(dir)
           IN  /\ F[n - 1] \in SUBSET (0..Len(w)) /\ Len(w) \in F[n - 1]
               /\ F[n] = Left(g, w)
<1> DEFINE F == Optimizer!Fits(atoms, w)
           D == Len(dir)
           N == Len(atoms)
           L == Len(w)
           n == N - D
<1>1. /\ D \in Nat /\ D > 0 /\ L \in Nat /\ N \in Nat /\ N = D + n /\ n \in {1, 2}
      /\ g \in {"(.*)", "(.+)"} /\ atoms[D + 1] = g
      /\ n = 2 => atoms[D + 2] = ".*"
  BY DEF Moving, Directory
<1>2. Fitting(F, atoms, w)
  BY <1>1, FitsAre
<1>3. /\ F \in [0..N -> SUBSET (0..L)]
      /\ F[0] = {L}
      /\ \A k \in 1..N :
           F[k] = {i \in 0..L : \E j \in F[k - 1] :
                     i <= j /\ Optimizer!Means(atoms[N - k + 1], SubSeq(w, i + 1, j))}
  BY <1>2 DEF Fitting
<1> HIDE DEF F, n, N
<1>4. F[n - 1] \in SUBSET (0..L) /\ L \in F[n - 1]
  <2>1. CASE n = 1
    BY <1>1, <1>3, <2>1
  <2>2. CASE n = 2
    <3>1. n - 1 = 1 /\ 1 \in 1..N /\ 1 \in 0..N /\ 1 - 1 = 0 /\ N - 1 + 1 = D + 2
      BY <1>1, <2>2
    <3>2. F[1] = {i \in 0..L : \E j \in {L} :
                     i <= j /\ Optimizer!Means(".*", SubSeq(w, i + 1, j))}
      BY <1>1, <1>3, <2>2, <3>1
    <3>3. L \in F[1]
      BY <1>1, <3>2, MeansAre
    <3> QED  BY <1>3, <3>1, <3>3
  <2> QED  BY <1>1, <2>1, <2>2
<1>5. F[n] = {i \in 0..L : \E j \in F[n - 1] :
                i <= j /\ Optimizer!Means(g, SubSeq(w, i + 1, j))}
  <2>1. n \in 1..N /\ N - n + 1 = D + 1
    BY <1>1
  <2> QED  BY <1>1, <1>3, <2>1
<1>6. ASSUME NEW i \in 0..L
      PROVE  i \in F[n] <=> i \in Left(g, w)
  <2>1. CASE g = "(.*)"
    <3>1. i <= L /\ Optimizer!Means(g, SubSeq(w, i + 1, L))
      BY <1>1, <2>1, MeansAre
    <3>2. i \in F[n]
      BY <1>4, <1>5, <3>1
    <3> QED  BY <2>1, <3>2 DEF Left
  <2>2. CASE g = "(.+)"
    <3>1. ASSUME NEW j \in F[n - 1], i <= j
          PROVE  Optimizer!Means(g, SubSeq(w, i + 1, j)) <=> i < j
      <4> DEFINE v == SubSeq(w, i + 1, j)
      <4>1. i \in Nat /\ j \in Nat /\ j <= Len(w)
        BY <1>1, <1>4
      <4>2. v \in Seq(Chars) /\ Len(v) = j - i
        BY <3>1, <4>1, Stretch
      <4>3. Optimizer!Means(g, v) <=> v # << >>
        BY <2>2, MeansAre
      <4> HIDE DEF v
      <4>4. v # << >> <=> j - i # 0
        BY <4>1, <4>2
      <4>5. j - i # 0 <=> i < j
        BY <3>1, <4>1
      <4> QED  BY <4>3, <4>4, <4>5 DEF v
    <3>2. ASSUME i < L PROVE i \in F[n]
      BY <1>4, <1>5, <3>1, <3>2
    <3>3. ASSUME i \in F[n] PROVE i < L
      <4>1. PICK j \in F[n - 1] : i <= j /\ Optimizer!Means(g, SubSeq(w, i + 1, j))
        BY <1>5, <3>3
      <4>2. i < j /\ j \in 0..L
        BY <1>4, <3>1, <4>1
      <4> QED  BY <1>1, <4>2
    <3>4. i \in Left(g, w) <=> i < L
      BY <1>1, <2>2 DEF Left
    <3> QED  BY <3>2, <3>3, <3>4
  <2> QED  BY <1>1, <2>1, <2>2
<1>7. F[n] \subseteq 0..L /\ Left(g, w) \subseteq 0..L
  BY <1>1, <1>5 DEF Left
<1>8. F[n] = Left(g, w)
  BY <1>6, <1>7
<1> QED  BY <1>4, <1>8 DEF F, n, N

\* The last d characters of dir end where the group begins.
DirectoryLeads(F, n, dir, g, w) ==
    \A d \in 0..Len(dir) : \A i \in 0..Len(w) :
       i \in F[n + d] <=> /\ i + d \in Left(g, w)
                          /\ \A t \in 1..d : w[i + t] = dir[Len(dir) - d + t]

\* So they do.
LEMMA DirectoryFits ==
    ASSUME NEW atoms, NEW dir, NEW g, Moving(atoms, dir, g), NEW w \in Seq(Chars)
    PROVE  DirectoryLeads(Optimizer!Fits(atoms, w), Len(atoms) - Len(dir), dir, g, w)
<1> DEFINE F == Optimizer!Fits(atoms, w)
           D == Len(dir)
           N == Len(atoms)
           L == Len(w)
           n == N - D
           Same(d, i) == \A t \in 1..d : w[i + t] = dir[D - d + t]
           S == {d \in Nat : d <= D => \A i \in 0..L :
                   i \in F[n + d] <=> i + d \in Left(g, w) /\ Same(d, i)}
<1>1. /\ D \in Nat /\ D > 0 /\ L \in Nat /\ N \in Nat /\ N = D + n /\ n \in {1, 2}
      /\ dir \in Seq(Chars) /\ \A i \in 1..D : atoms[i] = dir[i]
      /\ g \in {"(.*)", "(.+)"}
  BY DEF Moving, Directory
<1>2. Fitting(F, atoms, w)
  BY <1>1, FitsAre
<1>3. /\ F \in [0..N -> SUBSET (0..L)]
      /\ \A k \in 1..N :
           F[k] = {i \in 0..L : \E j \in F[k - 1] :
                     i <= j /\ Optimizer!Means(atoms[N - k + 1], SubSeq(w, i + 1, j))}
  BY <1>2 DEF Fitting
<1>4. F[n] = Left(g, w)
  BY GroupFits
<1> HIDE DEF F, n, N
<1>5. Left(g, w) \subseteq 0..L
  BY <1>1 DEF Left
<1>6. 0 \in S
  <2>1. n + 0 = n /\ \A i \in 0..L : i + 0 = i
    BY <1>1
  <2>2. \A i \in 0..L : Same(0, i)
    OBVIOUS
  <2> QED  BY <1>4, <2>1, <2>2
<1>7. ASSUME NEW d \in Nat, d \in S PROVE d + 1 \in S
  <2> SUFFICES ASSUME d + 1 <= D, NEW i \in 0..L
               PROVE  i \in F[n + (d + 1)] <=>
                         i + (d + 1) \in Left(g, w) /\ Same(d + 1, i)
    OBVIOUS
  <2> DEFINE k == n + (d + 1)
             c == dir[D - d]
  <2>1. /\ k \in 1..N /\ k - 1 = n + d /\ k - 1 \in 0..N /\ N - k + 1 = D - d
        /\ D - d \in 1..D /\ d <= D /\ c \in Chars /\ atoms[D - d] = c
    BY <1>1
  <2>2. i \in F[k] <=> \E j \in F[k - 1] :
                          i <= j /\ Optimizer!Means(c, SubSeq(w, i + 1, j))
    BY <1>3, <2>1
  <2>3. F[k - 1] \in SUBSET (0..L)
    BY <1>3, <2>1
  <2> HIDE DEF k, c
  <2>4. i \in F[k] <=> i + 1 \in F[k - 1] /\ w[i + 1] = c
    BY <2>1, <2>2, <2>3, CharacterFits
  <2>5. i + 1 \in 0..L =>
           (i + 1 \in F[k - 1] <=> (i + 1) + d \in Left(g, w) /\ Same(d, i + 1))
    BY <1>7, <2>1
  <2>6. (i + 1) + d = i + (d + 1) /\ (i + (d + 1) \in Left(g, w) => i + 1 \in 0..L)
    <3>1. d \in Nat /\ i \in Nat
      BY <1>1
    <3>2. (i + 1) + d = i + (d + 1)
      BY <3>1
    <3>3. i + (d + 1) \in 0..L => i + 1 \in 0..L
      BY <1>1, <3>1
    <3> QED  BY <1>5, <3>2, <3>3
  <2>7. Same(d + 1, i) <=> w[i + 1] = c /\ Same(d, i + 1)
    <3>1. ASSUME Same(d + 1, i) PROVE w[i + 1] = c /\ Same(d, i + 1)
      <4>1. 1 \in 1..(d + 1) /\ D - (d + 1) + 1 = D - d
        BY <1>1
      <4>2. w[i + 1] = c
        BY <3>1, <4>1 DEF c
      <4>3. ASSUME NEW t \in 1..d PROVE w[(i + 1) + t] = dir[D - d + t]
        <5>1. /\ t + 1 \in 1..(d + 1) /\ i + (t + 1) = (i + 1) + t
              /\ D - (d + 1) + (t + 1) = D - d + t
          BY <1>1
        <5> QED  BY <3>1, <5>1
      <4> QED  BY <4>2, <4>3
    <3>2. ASSUME w[i + 1] = c, Same(d, i + 1) PROVE Same(d + 1, i)
      <4> TAKE t \in 1..(d + 1)
      <4>1. CASE t = 1
        <5>1. D - (d + 1) + t = D - d
          BY <1>1, <4>1
        <5> QED  BY <3>2, <4>1, <5>1 DEF c
      <4>2. CASE t # 1
        <5>1. /\ t - 1 \in 1..d /\ (i + 1) + (t - 1) = i + t
              /\ D - d + (t - 1) = D - (d + 1) + t
          BY <1>1, <4>2
        <5> QED  BY <3>2, <5>1
      <4> QED  BY <4>1, <4>2
    <3> QED  BY <3>1, <3>2
  <2> HIDE DEF Same
  <2>8. i \in F[k] <=> i + (d + 1) \in Left(g, w) /\ Same(d + 1, i)
    <3>1. i + 1 \in F[k - 1] => i + 1 \in 0..L
      BY <2>3
    <3> QED  BY <2>4, <2>5, <2>6, <2>7, <3>1
  <2> QED  BY <2>8 DEF k
<1> HIDE DEF S
<1>8. \A d \in Nat : d \in S
  BY <1>6, <1>7, Induction
<1>9. \A d \in 0..D : \A i \in 0..L :
         i \in F[n + d] <=> i + d \in Left(g, w) /\ Same(d, i)
  <2> HIDE DEF Same
  <2>1. \A d \in 0..D : d \in Nat /\ d <= D
    BY <1>1
  <2> QED  BY <1>8, <2>1 DEF S
<1>10. DirectoryLeads(F, n, dir, g, w)
  BY <1>9 DEF DirectoryLeads
<1> QED  BY <1>10 DEF F, n, N

\* What such a pattern accepts.
LEMMA MovingAccepts ==
    ASSUME NEW atoms, NEW dir, NEW g, Moving(atoms, dir, g), NEW w \in Seq(Chars)
    PROVE  Optimizer!Accepts(atoms, w) <=>
              Optimizer!IsPrefix(dir, w) /\ Len(dir) \in Left(g, w)
<1> DEFINE F == Optimizer!Fits(atoms, w)
           D == Len(dir)
           n == Len(atoms) - D
           L == Len(w)
<1>1. D \in Nat /\ n \in {1, 2} /\ Len(atoms) = n + D /\ L \in Nat /\ dir \in Seq(Chars)
  BY DEF Moving, Directory
<1>2. DirectoryLeads(F, n, dir, g, w)
  BY DirectoryFits
<1>3. \A d \in 0..D : \A i \in 0..L :
         i \in F[n + d] <=>
            i + d \in Left(g, w) /\ \A t \in 1..d : w[i + t] = dir[D - d + t]
  BY <1>2 DEF DirectoryLeads
<1> HIDE DEF F, n, D, L
<1>4. 0 \in F[n + D] <=>
         0 + D \in Left(g, w) /\ \A t \in 1..D : w[0 + t] = dir[D - D + t]
  <2>1. D \in 0..D /\ 0 \in 0..L
    BY <1>1
  <2> QED  BY <1>3, <2>1
<1>5. 0 + D = D /\ \A t \in 1..D : 0 + t = t /\ D - D + t = t
  BY <1>1
<1>6. 0 \in F[n + D] <=> D \in Left(g, w) /\ \A t \in 1..D : w[t] = dir[t]
  BY <1>4, <1>5
<1>7. D \in Left(g, w) => D <= L
  BY <1>1 DEF Left, L
<1>8. Optimizer!IsPrefix(dir, w) <=> D <= L /\ \A t \in 1..D : dir[t] = w[t]
  BY <1>1, PrefixIs DEF D, L
<1>9. Optimizer!Accepts(atoms, w) <=> 0 \in F[n + D]
  BY <1>1 DEF Optimizer!Accepts, F
<1> QED  BY <1>6, <1>7, <1>8, <1>9 DEF D

\* The group of such a pattern captures what follows the directory.
LEMMA MovingCaptures ==
    ASSUME NEW atoms, NEW dir, NEW g, Moving(atoms, dir, g), NEW w \in Seq(Chars),
           Optimizer!Accepts(atoms, w)
    PROVE  Optimizer!Captured(atoms, w) = Optimizer!From(w, Len(dir))
<1> DEFINE F == Optimizer!Fits(atoms, w)
           E == Optimizer!Ends(atoms, w)
           D == Len(dir)
           N == Len(atoms)
           n == N - D
           L == Len(w)
           Ended(k) == {j \in F[N - k] :
                          /\ E[k - 1] <= j
                          /\ Optimizer!Means(atoms[k], SubSeq(w, E[k - 1] + 1, j))}
<1>1. /\ D \in Nat /\ D > 0 /\ n \in {1, 2} /\ N = n + D /\ N \in Nat /\ L \in Nat
      /\ dir \in Seq(Chars) /\ \A i \in 1..D : atoms[i] = dir[i]
      /\ g \in {"(.*)", "(.+)"} /\ atoms[D + 1] = g /\ DOMAIN atoms = 1..N
  BY DEF Moving, Directory
<1>2. /\ D \in Left(g, w) /\ D <= L /\ \A i \in 1..D : w[i] = dir[i]
  <2>1. Optimizer!IsPrefix(dir, w) /\ D \in Left(g, w)
    BY MovingAccepts
  <2>2. Len(dir) <= Len(w) /\ \A i \in 1..Len(dir) : dir[i] = w[i]
    <3>1. dir \in Seq(Chars)
      BY <1>1
    <3> QED  BY <2>1, <3>1, PrefixIs
  <2> QED  BY <2>1, <2>2
<1>3. DirectoryLeads(F, n, dir, g, w)
  BY DirectoryFits
<1>4. F[n - 1] \in SUBSET (0..L) /\ L \in F[n - 1]
  BY GroupFits
<1>5. Fitting(F, atoms, w)
  BY <1>1, FitsAre
<1>6. Ending(E, F, atoms, w)
  BY <1>1, EndsAre
<1> HIDE DEF F, E, n
<1>7. F \in [0..N -> SUBSET (0..L)]
  BY <1>5 DEF Fitting
<1>8. E[0] = 0 /\ \A k \in 1..N : E[k] = Optimizer!Max(Ended(k))
  BY <1>6 DEF Ending
<1> DEFINE S == {k \in Nat : k <= D => E[k] = k}
<1>9. 0 \in S
  BY <1>8
<1>10. ASSUME NEW k \in Nat, k \in S PROVE k + 1 \in S
  <2> SUFFICES ASSUME k + 1 <= D PROVE E[k + 1] = k + 1
    OBVIOUS
  <2> DEFINE e == k + 1
             d == D - e
             c == dir[e]
  <2>1. /\ e \in 1..D /\ e \in 1..N /\ e \in Nat /\ e - 1 = k /\ k <= D /\ d \in 0..D
        /\ e \in 0..L /\ k \in 0..L /\ k + 1 = e /\ k <= e
        /\ e + d = D /\ N - e = n + d /\ N - e \in 0..N /\ D - d = e
    BY <1>1, <1>2
  <2> HIDE DEF e, d
  <2>2. E[e - 1] = k
    BY <1>10, <2>1
  <2>3. c \in Chars /\ atoms[e] = c /\ w[e] = c
    BY <1>1, <1>2, <2>1
  <2>4. e \in F[N - e]
    <3>1. \A t \in 1..d : w[e + t] = dir[D - d + t]
      <4> TAKE t \in 1..d
      <4>1. e + t \in 1..D /\ D - d + t = e + t
        BY <1>1, <2>1
      <4> QED  BY <1>2, <4>1
    <3>2. e \in F[n + d]
      BY <1>2, <1>3, <2>1, <3>1 DEF DirectoryLeads
    <3> QED  BY <2>1, <3>2
  <2> HIDE DEF c
  <2>5. \A j \in F[N - e] :
           (k <= j /\ Optimizer!Means(c, SubSeq(w, k + 1, j))) <=> j = e
    <3> TAKE j \in F[N - e]
    <3> DEFINE X == {j}
    <3>1. X \in SUBSET (0..Len(w))
      BY <1>7, <2>1
    <3>2. (\E y \in X : k <= y /\ Optimizer!Means(c, SubSeq(w, k + 1, y)))
          <=> (k + 1 \in X /\ w[k + 1] = c)
      <4> HIDE DEF X
      <4> QED  BY <2>1, <2>3, <3>1, CharacterFits
    <3> QED  BY <2>1, <2>3, <3>2
  <2>6. Ended(e) = {e}
    BY <2>2, <2>3, <2>4, <2>5
  <2>7. Optimizer!Max({e}) = e
    <3> DEFINE X == {e}
    <3>1. X \in SUBSET Int /\ e \in X /\ \A y \in X : y <= e
      BY <2>1
    <3> HIDE DEF X
    <3>2. Optimizer!Max(X) = e
      BY <3>1, MaxIs
    <3> QED  BY <3>2 DEF X
  <2>8. E[e] = e
    BY <1>8, <2>1, <2>6, <2>7
  <2> QED  BY <2>8 DEF e
<1> HIDE DEF S
<1>11. \A k \in Nat : k \in S
  BY <1>9, <1>10, Induction
<1>12. E[D] = D
  BY <1>1, <1>11 DEF S
<1>13. E[D + 1] = L
  <2>1. D + 1 \in 1..N /\ (D + 1) - 1 = D /\ N - (D + 1) = n - 1
    BY <1>1
  <2> DEFINE X == {j \in F[n - 1] :
                     D <= j /\ Optimizer!Means(g, SubSeq(w, D + 1, j))}
  <2>2. E[D + 1] = Optimizer!Max(X)
    BY <1>1, <1>8, <1>12, <2>1
  <2>3. Optimizer!Means(g, SubSeq(w, D + 1, L))
    <3> DEFINE v == SubSeq(w, D + 1, L)
    <3>1. v \in Seq(Chars) /\ Len(v) = L - D
      BY <1>1, <1>2, Stretch
    <3> HIDE DEF v
    <3>2. ASSUME g = "(.*)" PROVE Optimizer!Means(g, v)
      BY <3>2, MeansAre
    <3>3. ASSUME g = "(.+)" PROVE Optimizer!Means(g, v)
      <4>1. L - D # 0
        BY <1>1, <1>2, <3>3 DEF Left
      <4>2. v # << >>
        BY <3>1, <4>1
      <4>3. Optimizer!Means("(.+)", v)
        BY <4>2, MeansAre
      <4> QED  BY <3>3, <4>3
    <3>4. Optimizer!Means(g, v)
      BY <1>1, <3>2, <3>3
    <3> QED  BY <3>4 DEF v
  <2>4. L \in X
    BY <1>2, <1>4, <2>3
  <2>5. X \in SUBSET Int /\ \A y \in X : y <= L
    BY <1>1, <1>4
  <2> HIDE DEF X
  <2>6. Optimizer!Max(X) = L
    BY <2>4, <2>5, MaxIs
  <2> QED  BY <2>2, <2>6
<1>14. Optimizer!Min({k \in DOMAIN atoms : atoms[k] \in Optimizer!Groups}) = D + 1
  <2> DEFINE X == {k \in DOMAIN atoms : atoms[k] \in Optimizer!Groups}
  <2>1. X \in SUBSET Int
    BY <1>1
  <2>2. D + 1 \in X
    <3>1. g \in Optimizer!Groups
      BY <1>1 DEF Optimizer!Groups
    <3>2. D + 1 \in 1..N
      BY <1>1
    <3> QED  BY <1>1, <3>1, <3>2
  <2>3. \A k \in X : D + 1 <= k
    <3> TAKE k \in X
    <3>1. ASSUME k \in 1..D PROVE FALSE
      <4>1. atoms[k] \in Chars
        BY <1>1, <3>1
      <4> QED  BY <4>1, CharsArePlain
    <3> QED  BY <1>1, <3>1
  <2> HIDE DEF X
  <2>4. Optimizer!Min(X) = D + 1
    BY <2>1, <2>2, <2>3, MinIs
  <2> QED  BY <2>4 DEF X
<1>15. Optimizer!Captured(atoms, w) = SubSeq(w, E[(D + 1) - 1] + 1, E[D + 1])
  BY <1>14 DEF Optimizer!Captured, E
<1>16. (D + 1) - 1 = D
  BY <1>1
<1> QED  BY <1>12, <1>13, <1>15, <1>16 DEF Optimizer!From

-----------------------------------------------------------------------------
(* What a route that moves a directory lists.                              *)

\* The words are the short lists of characters.
LEMMA WordsAre ==
    /\ KeyLength \in Nat
    /\ \A w : w \in Optimizer!Words <=> w \in Seq(Chars) /\ Len(w) <= KeyLength
    /\ << >> \in Optimizer!Words
<1>1. KeyLength \in Nat
  BY OptimizerAssumption DEF Optimizer!PrefixAssumption
<1>2. ASSUME NEW w, w \in Optimizer!Words PROVE w \in Seq(Chars) /\ Len(w) <= KeyLength
  <2>1. PICK n \in 0..KeyLength : w \in [1..n -> Chars]
    BY <1>2 DEF Optimizer!Words
  <2>2. n \in Nat /\ n <= KeyLength
    BY <1>1
  <2> QED  BY <2>1, <2>2
<1>3. ASSUME NEW w \in Seq(Chars), Len(w) <= KeyLength PROVE w \in Optimizer!Words
  <2> DEFINE n == Len(w)
  <2>1. n \in 0..KeyLength /\ w \in [1..n -> Chars]
    BY <1>1, <1>3
  <2> HIDE DEF n
  <2> QED  BY <2>1 DEF Optimizer!Words
<1>4. << >> \in Seq(Chars) /\ Len(<< >>) <= KeyLength
  BY <1>1
<1> QED  BY <1>1, <1>2, <1>3, <1>4

\* The parts of a route that moves what is in directory dir.
Moved(r, dir, g, rule) ==
    /\ r \in RouteTable /\ r.anchored /\ Everything(r.atoms, dir, g)
    /\ Moving(Optimizer!Whole(r), dir, g)
    /\ rule.before \in Seq(Chars) /\ rule.after \in Seq(Chars)
    /\ rule.before = << >> \/ rule.after = << >>
    /\ r.rewrites # << >> /\ r.rewrites[1] = rule

\* What rule makes of what a group captures.
Between(rule, inner) == rule.before \o inner \o rule.after

\* A route that moves a directory has such parts.
LEMMA MovesAre ==
    ASSUME NEW r \in RouteTable, Optimizer!Moves(r)
    PROVE  \E dir, g, rule : Moved(r, dir, g, rule)
<1> DEFINE atoms == r.atoms
           n == Len(atoms)
           dir == Optimizer!Front(atoms)
           g == Optimizer!Last(atoms)
           rule == r.rewrites[1]
           A == Optimizer!Atoms
           tail == IF r.ended THEN << >> ELSE <<".*">>
           W == Optimizer!Whole(r)
<1>1. /\ r.anchored /\ n > 1 /\ g \in {"(.*)", "(.+)"}
      /\ Optimizer!ToSet(dir) \subseteq Chars
      /\ dir[1] # "/" /\ Optimizer!Last(dir) = "/"
      /\ \A i \in 1..(Len(dir) - 1) : ~(dir[i] = "/" /\ dir[i + 1] = "/")
      /\ Len(r.rewrites) = 1
      /\ rule.before = << >> \/ rule.after = << >>
  BY DEF Optimizer!Moves
<1>2. atoms \in Seq(A) /\ r.rewrites \in Seq(Optimizer!RuleType) /\ r.ended \in BOOLEAN
  BY OptimizerAssumption DEF Optimizer!PrefixAssumption
<1>3. n \in Nat /\ n - 1 \in Nat /\ g = atoms[n] /\ g \in A
  BY <1>1, <1>2 DEF Optimizer!Last
<1>4. /\ dir \in Seq(A) /\ Len(dir) = n - 1
      /\ \A i \in 1..(n - 1) : dir[i] = atoms[i]
  <2> DEFINE x0 == 0
             k == n - 1
             p == SubSeq(atoms, x0 + 1, k)
  <2>1. /\ x0 \in Nat /\ k \in Nat /\ x0 <= k /\ k <= Len(atoms) /\ k - x0 = k
        /\ x0 + 1 = 1 /\ \A i \in 1..k : x0 + i = i
    BY <1>3
  <2> HIDE DEF x0, k, A
  <2>2. p \in Seq(A) /\ Len(p) = k - x0 /\ \A i \in 1..(k - x0) : p[i] = atoms[x0 + i]
    BY <1>2, <2>1, Stretch
  <2>3. dir = p
    BY <2>1 DEF k, Optimizer!Front
  <2> HIDE DEF p, dir, atoms, n
  <2>4. dir \in Seq(A) /\ Len(dir) = k /\ \A i \in 1..k : dir[i] = atoms[i]
    BY <2>1, <2>2, <2>3
  <2> QED  BY <2>4 DEF k
<1> HIDE DEF atoms, dir, g, n, A, rule
<1>5. /\ Len(dir) \in Nat /\ Len(dir) > 0 /\ n = Len(dir) + 1
      /\ \A i \in 1..Len(dir) : dir[i] = atoms[i]
  BY <1>1, <1>3, <1>4
<1>6. dir \in Seq(Chars)
  <2>1. \A i \in 1..Len(dir) : dir[i] \in Chars
    BY <1>1, <1>4 DEF Optimizer!ToSet
  <2> QED  BY <1>4, <2>1
<1>7. Directory(dir)
  <2>1. dir[Len(dir)] = "/"
    BY <1>1 DEF Optimizer!Last
  <2>2. dir # << >>
    BY <1>5
  <2> QED  BY <1>1, <1>6, <2>1, <2>2 DEF Directory
<1>8. Everything(atoms, dir, g)
  <2>1. \A i \in 1..n : atoms[i] \in Chars \cup {g}
    <3> TAKE i \in 1..n
    <3>1. CASE i = n
      BY <1>3, <3>1
    <3>2. CASE i # n
      <4>1. i \in 1..Len(dir)
        BY <1>3, <1>5, <3>2
      <4>2. dir[i] \in Chars
        BY <1>6, <4>1
      <4> QED  BY <1>5, <4>1, <4>2
    <3> QED  BY <3>1, <3>2
  <2>2. atoms \in Seq(Chars \cup {g})
    BY <1>2, <2>1 DEF n
  <2>3. Len(atoms) = Len(dir) + 1 /\ atoms[Len(dir) + 1] = g
    BY <1>3, <1>5 DEF n
  <2> QED  BY <1>1, <1>5, <1>7, <2>2, <2>3 DEF Everything
<1>9. /\ tail \in Seq(A)
      /\ \/ Len(tail) = 0
         \/ Len(tail) = 1 /\ tail[1] = ".*"
  <2>1. ".*" \in A
    BY DEF A, Optimizer!Atoms, Optimizer!Wide
  <2>2. << >> \in Seq(A) /\ <<".*">> \in Seq(A)
    BY <2>1
  <2>3. tail = << >> \/ tail = <<".*">>
    OBVIOUS
  <2> HIDE DEF tail
  <2>4. CASE tail = << >>
    <3>1. Len(tail) = 0
      BY <2>4
    <3> QED  BY <2>2, <2>4, <3>1
  <2>5. CASE tail = <<".*">>
    <3>1. Len(tail) = 1 /\ tail[1] = ".*"
      BY <2>5
    <3> QED  BY <2>2, <2>5, <3>1
  <2> QED  BY <2>3, <2>4, <2>5
<1>10. W = atoms \o tail
  <2>1. W = << >> \o atoms \o tail
    BY <1>1 DEF Optimizer!Whole, atoms
  <2> HIDE DEF W, tail
  <2>2. << >> \o atoms = atoms
    BY <1>2
  <2> QED  BY <2>1, <2>2
<1> HIDE DEF W, tail
<1>11. /\ W \in Seq(A) /\ Len(W) = n + Len(tail)
       /\ \A i \in 1..n : W[i] = atoms[i]
       /\ \A i \in 1..Len(tail) : W[n + i] = tail[i]
  <2>1. /\ W \in Seq(A) /\ Len(W) = Len(atoms) + Len(tail)
        /\ \A i \in 1..Len(atoms) : W[i] = atoms[i]
        /\ \A i \in 1..Len(tail) : W[Len(atoms) + i] = tail[i]
    BY <1>2, <1>9, <1>10
  <2> QED  BY <2>1 DEF n
<1>12. Moving(W, dir, g)
  <2> DEFINE D == Len(dir)
  <2>1. D \in Nat /\ D > 0 /\ n = D + 1
    BY <1>5
  <2> HIDE DEF D
  <2>2. Len(W) \in {D + 1, D + 2} /\ (Len(W) = D + 2 => Len(tail) = 1)
    BY <1>9, <1>11, <2>1
  <2>3. \A i \in 1..D : W[i] = dir[i]
    <3> TAKE i \in 1..D
    <3>1. i \in 1..n
      BY <2>1
    <3>2. dir[i] = atoms[i]
      BY <1>5 DEF D
    <3> QED  BY <1>11, <3>1, <3>2
  <2>4. W[D + 1] = g
    <3>1. n \in 1..n
      BY <2>1
    <3> QED  BY <1>3, <1>11, <2>1, <3>1
  <2>5. Len(tail) = 1 => W[D + 2] = ".*"
    <3>1. n + 1 = D + 2
      BY <2>1
    <3> QED  BY <1>9, <1>11, <3>1
  <2> QED  BY <1>1, <1>7, <1>11, <2>2, <2>3, <2>4, <2>5 DEF Moving, D, A
<1>13. /\ rule \in Optimizer!RuleType /\ r.rewrites # << >>
  BY <1>1, <1>2 DEF rule
<1>14. rule.before \in Seq(Chars) /\ rule.after \in Seq(Chars)
  BY <1>13 DEF Optimizer!RuleType
<1>15. Moved(r, dir, g, rule)
  BY <1>1, <1>8, <1>12, <1>13, <1>14 DEF Moved, W, atoms, rule
<1> QED  BY <1>15

\* What the optimizer does to such a route.
LEMMA MovedOptimized ==
    ASSUME NEW r, NEW dir, NEW g, NEW rule, Moved(r, dir, g, rule)
    PROVE  /\ Optimizer!StaticPrefix(r) = dir
           /\ Optimizer!LiteralStart(r.atoms) = dir
<1>1. Everything(r.atoms, dir, g) /\ dir # << >>
  BY DEF Moved, Everything, Directory
<1>2. r.ended \in BOOLEAN
  BY OptimizerAssumption DEF Moved, Optimizer!PrefixAssumption
<1> DEFINE segs == Optimizer!Segments(r.atoms)
<1>3. /\ Optimizer!StaticOf(segs) = dir
      /\ \A ended \in BOOLEAN : Optimizer!Safe(segs, ended)
  BY <1>1, DirectoryStatic
<1>4. Optimizer!CanOptimize(r)
  BY <1>1, <1>2, <1>3 DEF Optimizer!CanOptimize, Moved
<1>5. Optimizer!LiteralStart(r.atoms) = dir
  BY <1>1, DirectoryLiteral
<1> QED  BY <1>3, <1>4, <1>5 DEF Optimizer!StaticPrefix

\* What a GET does with such a route.
LEMMA MovedPhysical ==
    ASSUME NEW r, NEW dir, NEW g, NEW rule, Moved(r, dir, g, rule),
           NEW w \in Seq(Chars), Optimizer!Matches(r, w)
    PROVE  /\ Optimizer!IsPrefix(dir, w)
           /\ Optimizer!Physical(r, w) = Between(rule, Optimizer!From(w, Len(dir)))
<1> DEFINE W == Optimizer!Whole(r)
<1>1. Moving(W, dir, g) /\ r.rewrites # << >> /\ r.rewrites[1] = rule
  BY DEF Moved
<1>2. Optimizer!Accepts(W, w)
  BY DEF Optimizer!Matches
<1> HIDE DEF W
<1>3. Optimizer!IsPrefix(dir, w)
  BY <1>1, <1>2, MovingAccepts
<1>4. Optimizer!Captured(W, w) = Optimizer!From(w, Len(dir))
  BY <1>1, <1>2, MovingCaptures
<1>5. Optimizer!Physical(r, w) = Between(rule, Optimizer!Captured(W, w))
  BY <1>1 DEF Optimizer!Physical, W, Between
<1> QED  BY <1>3, <1>4, <1>5

\* What is taken off an object's name is what the rule put there.
LEMMA MovedBack ==
    ASSUME NEW r, NEW dir, NEW g, NEW rule, Moved(r, dir, g, rule),
           NEW inner \in Seq(Chars)
    PROVE  Optimizer!ReverseRewrite(r, Between(rule, inner)) = dir \o inner
<1> DEFINE before == rule.before
           after == rule.after
           o == before \o inner \o after
           stripped == IF before # << >> /\ Optimizer!IsPrefix(before, o)
                       THEN Optimizer!From(o, Len(before))
                       ELSE IF after # << >> /\ Optimizer!IsSuffix(after, o)
                       THEN Optimizer!First(o, Len(o) - Len(after))
                       ELSE o
<1>1. /\ before \in Seq(Chars) /\ after \in Seq(Chars)
      /\ before = << >> \/ after = << >>
      /\ r.rewrites # << >> /\ r.rewrites[1] = rule
  BY DEF Moved
<1>2. Optimizer!ReverseRewrite(r, o) = dir \o stripped
  <2>1. Optimizer!LiteralStart(r.atoms) = dir
    BY MovedOptimized
  <2> QED  BY <1>1, <2>1 DEF Optimizer!ReverseRewrite
<1> HIDE DEF before, after
<1>3. << >> \o inner = inner /\ inner \o << >> = inner
  OBVIOUS
<1>4. CASE before # << >>
  <2>1. after = << >> /\ before \o inner \in Seq(Chars)
    BY <1>1, <1>4
  <2>2. o = before \o inner
    <3> DEFINE u == before \o inner
    <3>1. u \in Seq(Chars)
      BY <2>1
    <3> HIDE DEF u
    <3>2. u \o << >> = u
      BY <3>1
    <3>3. o = u \o << >>
      BY <2>1 DEF u
    <3> QED  BY <3>2, <3>3 DEF u
  <2>3. Optimizer!IsPrefix(before, o) /\ Optimizer!From(o, Len(before)) = inner
    BY <1>1, <2>2, JoinedPrefix
  <2> HIDE DEF o
  <2>4. stripped = inner
    BY <1>4, <2>3
  <2> QED  BY <1>2, <2>4 DEF o, before, after, Between
<1>5. CASE before = << >> /\ after # << >>
  <2>1. o = inner \o after
    BY <1>3, <1>5
  <2>2. /\ Optimizer!IsSuffix(after, o)
        /\ Optimizer!First(o, Len(o) - Len(after)) = inner
    BY <1>1, <2>1, JoinedSuffix
  <2> HIDE DEF o
  <2>3. stripped = inner
    BY <1>5, <2>2
  <2> QED  BY <1>2, <2>3 DEF o, before, after, Between
<1>6. CASE before = << >> /\ after = << >>
  <2>1. o = inner
    BY <1>3, <1>6
  <2> HIDE DEF o
  <2>2. stripped = inner
    BY <1>6, <2>1
  <2> QED  BY <1>2, <2>2 DEF o, before, after, Between
<1> QED  BY <1>4, <1>5, <1>6

\* An object with the rule's literals lies between them.
LEMMA MovedBetween ==
    ASSUME NEW r, NEW dir, NEW g, NEW rule, Moved(r, dir, g, rule),
           NEW o \in Seq(Chars), Optimizer!IsPrefix(rule.before, o),
           Optimizer!IsSuffix(rule.after, o)
    PROVE  \E inner \in Seq(Chars) : o = Between(rule, inner)
<1> DEFINE before == rule.before
           after == rule.after
<1>1. /\ before \in Seq(Chars) /\ after \in Seq(Chars)
      /\ before = << >> \/ after = << >>
      /\ Optimizer!IsPrefix(before, o) /\ Optimizer!IsSuffix(after, o)
  BY DEF Moved
<1> HIDE DEF before, after
<1>2. \E inner \in Seq(Chars) : o = before \o inner \o after
  <2>1. CASE after = << >>
    <3> DEFINE inner == Optimizer!From(o, Len(before))
               u == before \o inner
    <3>1. inner \in Seq(Chars) /\ u = o
      BY <1>1, PrefixAndRest
    <3>2. o \o << >> = o
      OBVIOUS
    <3> HIDE DEF inner
    <3>3. o = before \o inner \o after
      BY <2>1, <3>1, <3>2
    <3> QED  BY <3>1, <3>3
  <2>2. CASE before = << >>
    <3> DEFINE inner == Optimizer!First(o, Len(o) - Len(after))
    <3>1. inner \in Seq(Chars) /\ inner \o after = o
      BY <1>1, SuffixAndRest
    <3> HIDE DEF inner
    <3>2. << >> \o inner = inner
      BY <3>1
    <3>3. o = before \o inner \o after
      BY <2>2, <3>1, <3>2
    <3> QED  BY <3>1, <3>3
  <2> QED  BY <1>1, <2>1, <2>2
<1> QED  BY <1>2 DEF before, after, Between

\* The backend is asked for a prefix of every object whose key has the client's.
LEMMA MovedAsked ==
    ASSUME NEW r, NEW dir, NEW g, NEW rule, Moved(r, dir, g, rule),
           NEW p \in Seq(Chars), NEW w \in Seq(Chars), Optimizer!IsPrefix(p, w),
           Optimizer!Matches(r, w)
    PROVE  /\ ~Optimizer!CanSkipRoute(r, p)
           /\ Optimizer!IsPrefix(Optimizer!PhysicalPrefix(r, p), Optimizer!Physical(r, w))
<1> DEFINE before == rule.before
           after == rule.after
           rest == Optimizer!From(w, Len(dir))
           o == before \o rest \o after
           q == Optimizer!PhysicalPrefix(r, p)
<1>1. /\ before \in Seq(Chars) /\ after \in Seq(Chars)
      /\ r.rewrites # << >> /\ r.rewrites[1] = rule
      /\ dir \in Seq(Chars) /\ Optimizer!StaticPrefix(r) = dir
  BY MovedOptimized DEF Moved, Everything, Directory
<1>2. Optimizer!IsPrefix(dir, w) /\ Optimizer!Physical(r, w) = o
  <2>1. Optimizer!IsPrefix(dir, w)
    BY MovedPhysical
  <2>2. Optimizer!Physical(r, w) = o
    <3> HIDE DEF o
    <3>1. Optimizer!Physical(r, w) = Between(rule, Optimizer!From(w, Len(dir)))
      BY MovedPhysical
    <3> QED  BY <3>1 DEF o, Between
  <2> QED  BY <2>1, <2>2
<1>3. ~Optimizer!CanSkipRoute(r, p)
  <2>1. Optimizer!IsPrefix(dir, p) \/ Optimizer!IsPrefix(p, dir)
    BY <1>1, <1>2, PrefixesNest
  <2> QED  BY <1>1, <2>1 DEF Optimizer!CanSkipRoute
<1>4. rest \in Seq(Chars) /\ dir \o rest = w
  BY <1>1, <1>2, PrefixAndRest
<1>5. \/ q = << >>
      \/ q = before
      \/ Optimizer!IsPrefix(dir, p) /\ q = before \o Optimizer!From(p, Len(dir))
  BY <1>1 DEF Optimizer!PhysicalPrefix, Optimizer!RewriteResultPrefix
<1> HIDE DEF before, after, rest, q
<1>6. before \o rest \in Seq(Chars) /\ o \in Seq(Chars)
  BY <1>1, <1>4
<1>7. CASE q = << >>
  <2>1. << >> \in Seq(Chars) /\ Len(<< >>) <= Len(o) /\ 1..Len(<< >>) = {}
    BY <1>6
  <2> HIDE DEF o
  <2>2. Optimizer!IsPrefix(<< >>, o)
    BY <1>6, <2>1, PrefixIs
  <2> QED  BY <1>2, <1>3, <1>7, <2>2 DEF q
<1>8. CASE q = before
  <2> DEFINE t == rest \o after
  <2>1. t \in Seq(Chars) /\ o = before \o t
    BY <1>1, <1>4
  <2> HIDE DEF t, o
  <2>2. Optimizer!IsPrefix(before, o)
    BY <1>1, <2>1, JoinedPrefix
  <2> QED  BY <1>2, <1>3, <1>8, <2>2 DEF q
<1>9. CASE Optimizer!IsPrefix(dir, p) /\ q = before \o Optimizer!From(p, Len(dir))
  <2> DEFINE s == Optimizer!From(p, Len(dir))
             v == Optimizer!From(w, Len(p))
  <2>1. s \in Seq(Chars) /\ dir \o s = p
    BY <1>1, <1>9, PrefixAndRest
  <2>2. v \in Seq(Chars) /\ p \o v = w
    BY PrefixAndRest
  <2>3. q = before \o s
    BY <1>9
  <2> HIDE DEF s, v
  <2>4. rest = s \o v
    <3> DEFINE u == s \o v
    <3>1. u \in Seq(Chars)
      BY <2>1, <2>2
    <3>2. (dir \o s) \o v = dir \o u
      <4>1. dir \in Seq(Chars) /\ s \in Seq(Chars) /\ v \in Seq(Chars)
        BY <1>1, <2>1, <2>2
      <4> QED  BY <4>1, ConcatAssociative
    <3>3. w = dir \o u
      BY <2>1, <2>2, <3>2
    <3> HIDE DEF u
    <3>4. Optimizer!From(dir \o u, Len(dir)) = u
      BY <1>1, <3>1, JoinedPrefix
    <3>5. rest = u
      BY <3>3, <3>4 DEF rest
    <3> QED  BY <3>5 DEF u
  <2>5. Optimizer!IsPrefix(before \o s, before \o (s \o v) \o after)
    BY <1>1, <2>1, <2>2, LongerPrefix
  <2>6. o = before \o (s \o v) \o after
    BY <2>4
  <2> HIDE DEF o
  <2>7. Optimizer!IsPrefix(q, o)
    BY <2>3, <2>5, <2>6
  <2> QED  BY <1>2, <1>3, <2>7 DEF q
<1> QED  BY <1>5, <1>7, <1>8, <1>9

\* When an object is listed, and under which key.
LEMMA ListedIs ==
    ASSUME NEW r, NEW p, NEW q, NEW key, NEW o \in Optimizer!Words,
           Optimizer!IsPrefix(q, o), Optimizer!ReverseRewrite(r, o) = key,
           Optimizer!Matches(r, key), Optimizer!IsPrefix(p, key)
    PROVE  <<key, o>> \in Optimizer!ListedFrom(r, p, q)
<1> DEFINE Asked == {w \in Optimizer!Words : Optimizer!IsPrefix(q, w)}
           Pairs == {<<Optimizer!ReverseRewrite(r, x), x>> : x \in Asked}
           pair == <<key, o>>
<1>1. pair \in Pairs /\ pair[1] = key
  OBVIOUS
<1>2. Optimizer!ListedFrom(r, p, q) =
         {y \in Pairs : Optimizer!Matches(r, y[1]) /\ Optimizer!IsPrefix(p, y[1])}
  BY DEF Optimizer!ListedFrom
<1> HIDE DEF Pairs, pair
<1>3. pair \in Optimizer!ListedFrom(r, p, q)
  BY <1>1, <1>2
<1> QED  BY <1>3 DEF pair

\* What is listed is an object with its key.
LEMMA ListedHas ==
    ASSUME NEW r, NEW p, NEW q, NEW pair \in Optimizer!ListedFrom(r, p, q)
    PROVE  /\ pair[2] \in Optimizer!Words
           /\ pair[1] = Optimizer!ReverseRewrite(r, pair[2])
           /\ Optimizer!Matches(r, pair[1])
<1> DEFINE Asked == {w \in Optimizer!Words : Optimizer!IsPrefix(q, w)}
           Pairs == {<<Optimizer!ReverseRewrite(r, x), x>> : x \in Asked}
<1>1. pair \in Pairs /\ Optimizer!Matches(r, pair[1])
  BY DEF Optimizer!ListedFrom
<1>2. PICK x \in Asked : pair = <<Optimizer!ReverseRewrite(r, x), x>>
  BY <1>1
<1> QED  BY <1>1, <1>2

\* What the backend of the route was asked for.
Asking ==
    /\ route \in RouteTable /\ prefix \in Optimizer!Words
    /\ skipped <=> Optimizer!CanSkipRoute(route, prefix)
    /\ query = IF skipped THEN << >> ELSE Optimizer!PhysicalPrefix(route, prefix)

\* A route that moves a directory hides no key.
LEMMA MovedHidesNothing ==
    ASSUME Asking, Optimizer!Moves(route)
    PROVE  Optimizer!NothingHidden
<1>1. PICK dir, g, rule : Moved(route, dir, g, rule)
  BY MovesAre DEF Asking
<1> SUFFICES ASSUME NEW key \in Optimizer!Words,
                    Optimizer!IsPrefix(prefix, key), Optimizer!Matches(route, key),
                    Len(Optimizer!Physical(route, key)) <= KeyLength
             PROVE  <<key, Optimizer!Physical(route, key)>> \in Optimizer!Listed
  BY DEF Optimizer!NothingHidden
<1> DEFINE o == Optimizer!Physical(route, key)
           rest == Optimizer!From(key, Len(dir))
<1>2. key \in Seq(Chars) /\ prefix \in Seq(Chars)
  BY WordsAre DEF Asking
<1>3. /\ dir \in Seq(Chars) /\ rule.before \in Seq(Chars) /\ rule.after \in Seq(Chars)
  BY <1>1 DEF Moved, Everything, Directory
<1>4. ~Optimizer!CanSkipRoute(route, prefix)
  BY <1>1, <1>2, MovedAsked
<1>5. Optimizer!IsPrefix(Optimizer!PhysicalPrefix(route, prefix), o)
  BY <1>1, <1>2, MovedAsked
<1>6. Optimizer!IsPrefix(dir, key) /\ o = Between(rule, rest)
  BY <1>1, <1>2, MovedPhysical
<1>7. rest \in Seq(Chars) /\ dir \o rest = key
  BY <1>2, <1>3, <1>6, PrefixAndRest
<1> HIDE DEF rest
<1>8. Between(rule, rest) \in Seq(Chars)
  BY <1>3, <1>7 DEF Between
<1>9. Optimizer!ReverseRewrite(route, Between(rule, rest)) = dir \o rest
  BY <1>1, <1>7, MovedBack
<1>10. o \in Optimizer!Words /\ Optimizer!ReverseRewrite(route, o) = key
  BY <1>6, <1>7, <1>8, <1>9, WordsAre
<1>11. ~skipped /\ query = Optimizer!PhysicalPrefix(route, prefix)
  BY <1>4 DEF Asking
<1> HIDE DEF o
<1>12. <<key, o>> \in Optimizer!ListedFrom(route, prefix, query)
  BY <1>5, <1>10, <1>11, ListedIs
<1> QED  BY <1>11, <1>12 DEF Optimizer!Listed, o

\* It lists nothing a GET does not find.
LEMMA MovedInventsNothing ==
    ASSUME Asking, Optimizer!Moves(route)
    PROVE  Optimizer!NothingInvented
<1>1. PICK dir, g, rule : Moved(route, dir, g, rule)
  BY MovesAre DEF Asking
<1> SUFFICES ASSUME NEW pair \in Optimizer!Listed,
                    Optimizer!IsPrefix(rule.before, pair[2]),
                    Optimizer!IsSuffix(rule.after, pair[2])
             PROVE  /\ Optimizer!Matches(route, pair[1])
                    /\ Optimizer!Physical(route, pair[1]) = pair[2]
  BY <1>1 DEF Optimizer!NothingInvented, Moved
<1> DEFINE key == pair[1]
           o == pair[2]
<1>2. pair \in Optimizer!ListedFrom(route, prefix, query)
  BY DEF Optimizer!Listed
<1>3. /\ o \in Optimizer!Words /\ key = Optimizer!ReverseRewrite(route, o)
      /\ Optimizer!Matches(route, key)
  BY <1>2, ListedHas
<1> HIDE DEF o, key
<1>4. o \in Seq(Chars)
  BY <1>3, WordsAre
<1>5. PICK inner \in Seq(Chars) : o = Between(rule, inner)
  <2>1. Optimizer!IsPrefix(rule.before, o) /\ Optimizer!IsSuffix(rule.after, o)
    BY DEF o
  <2> QED  BY <1>1, <1>4, <2>1, MovedBetween
<1>6. key = dir \o inner
  BY <1>1, <1>3, <1>5, MovedBack
<1>7. dir \in Seq(Chars)
  BY <1>1 DEF Moved, Everything, Directory
<1>8. key \in Seq(Chars) /\ Optimizer!From(key, Len(dir)) = inner
  <2>1. dir \o inner \in Seq(Chars)
    BY <1>7
  <2>2. Optimizer!From(dir \o inner, Len(dir)) = inner
    BY <1>7, JoinedPrefix
  <2> QED  BY <1>6, <2>1, <2>2
<1>9. Optimizer!Physical(route, key) = Between(rule, Optimizer!From(key, Len(dir)))
  BY <1>1, <1>3, <1>8, MovedPhysical
<1>10. Optimizer!Matches(route, key) /\ Optimizer!Physical(route, key) = o
  BY <1>3, <1>5, <1>8, <1>9
<1> QED  BY <1>10 DEF key, o

\* A route that the optimizer leaves alone hides no key.
LEMMA LeftAloneHidesNothing ==
    ASSUME Asking, Optimizer!LeftAlone(route)
    PROVE  Optimizer!NothingHidden
<1> SUFFICES ASSUME NEW key \in Optimizer!Words,
                    Optimizer!IsPrefix(prefix, key), Optimizer!Matches(route, key)
             PROVE  <<key, Optimizer!Physical(route, key)>> \in Optimizer!Listed
  BY DEF Optimizer!NothingHidden
<1>1. /\ route.rewrites = << >> /\ ~Optimizer!CanOptimize(route)
      /\ key \in Seq(Chars) /\ prefix \in Seq(Chars)
  BY WordsAre DEF Optimizer!LeftAlone, Asking
<1>2. Optimizer!Physical(route, key) = key /\ Optimizer!ReverseRewrite(route, key) = key
  BY <1>1 DEF Optimizer!Physical, Optimizer!ReverseRewrite
<1>3. ~skipped /\ query = Optimizer!PhysicalPrefix(route, prefix)
  BY <1>1 DEF Asking, Optimizer!CanSkipRoute
<1>4. query = << >> \/ query = prefix
  <2>1. Optimizer!StaticPrefix(route) = << >>
    BY <1>1 DEF Optimizer!StaticPrefix
  <2>2. Optimizer!RewriteResultPrefix(route) = << >>
    BY <1>1 DEF Optimizer!RewriteResultPrefix
  <2> DEFINE s == << >> \o Optimizer!From(prefix, Len(<< >>))
  <2>3. s = prefix
    BY <1>1 DEF Optimizer!From
  <2> HIDE DEF s
  <2>4. query = << >> \/ query = s
    BY <1>3, <2>1, <2>2 DEF Optimizer!PhysicalPrefix, s
  <2> QED  BY <2>3, <2>4
<1>5. Optimizer!IsPrefix(query, key)
  <2>1. Optimizer!IsPrefix(<< >>, key)
    <3> DEFINE e == << >>
    <3>1. e \in Seq(Chars) /\ Len(e) = 0
      OBVIOUS
    <3> HIDE DEF e
    <3>2. Len(e) <= Len(key) /\ \A i \in 1..Len(e) : e[i] = key[i]
      BY <1>1, <3>1
    <3>3. Optimizer!IsPrefix(e, key)
      BY <1>1, <3>1, <3>2, PrefixIs
    <3> QED  BY <3>3 DEF e
  <2> QED  BY <1>4, <2>1
<1>6. <<key, key>> \in Optimizer!ListedFrom(route, prefix, query)
  BY <1>2, <1>5, ListedIs
<1> QED  BY <1>2, <1>3, <1>6 DEF Optimizer!Listed

\* A route without a rule lists the keys themselves.
LEMMA UnrewrittenInventsNothing ==
    ASSUME route.rewrites = << >>
    PROVE  Optimizer!NothingInvented
<1> SUFFICES ASSUME NEW pair \in Optimizer!Listed
             PROVE  /\ Optimizer!Matches(route, pair[1])
                    /\ Optimizer!Physical(route, pair[1]) = pair[2]
  BY DEF Optimizer!NothingInvented
<1>1. pair \in Optimizer!ListedFrom(route, prefix, query)
  BY DEF Optimizer!Listed
<1>2. /\ pair[1] = Optimizer!ReverseRewrite(route, pair[2])
      /\ Optimizer!Matches(route, pair[1])
  BY <1>1, ListedHas
<1> QED  BY <1>2 DEF Optimizer!ReverseRewrite, Optimizer!Physical

\* The backend is always asked for what the optimizer computes.
LEMMA AlwaysAsking ==
    LookupsSpec => [](works = "optimizer" => Asking)
<1>1. LookupsInit => (works = "optimizer" => Asking)
  <2> SUFFICES ASSUME Optimizer!Init PROVE Asking
    BY DEF LookupsInit
  <2>1. ~Optimizer!CanSkipRoute(route, << >>)
    BY DEF Optimizer!CanSkipRoute
  <2>2. /\ route \in RouteTable /\ prefix = << >> /\ skipped = FALSE
        /\ query = Optimizer!PhysicalPrefix(route, << >>)
    BY DEF Optimizer!Init
  <2>3. prefix \in Optimizer!Words
    BY <2>2, WordsAre
  <2> QED  BY <2>1, <2>2, <2>3 DEF Asking
<1>2. (works = "optimizer" => Asking) /\ [LookupsNext]_lookups
      => (works = "optimizer" => Asking)'
  <2> SUFFICES ASSUME works = "optimizer" => Asking, [LookupsNext]_lookups,
                      works' = "optimizer"
               PROVE  Asking'
    OBVIOUS
  <2>1. CASE UNCHANGED <<works, optimizer>>
    BY <2>1 DEF Asking, optimizer
  <2>2. CASE works = "optimizer" /\ Optimizer!Next
    <3>1. PICK p \in Optimizer!Words : Optimizer!List(p)
      BY <2>2 DEF Optimizer!Next
    <3> QED  BY <2>2, <3>1 DEF Optimizer!List, Asking
  <2> QED  BY <2>1, <2>2 DEF LookupsNext, lookups, optimizer
<1> QED  BY <1>1, <1>2, PTL DEF LookupsSpec

\* A route that moves a directory, or that the optimizer leaves alone, lists
\* every key a GET finds, whatever prefix the client asks for, for any
\* characters, directories and rules and whatever the other routes are:
\* PrefixOptimizer.NothingHidden (CanSkipRoute, ComputePhysicalPrefix and
\* ReverseRewrite of prefix_optimizer.go).
THEOREM MovesHideNothing ==
    LookupsSpec => [](Optimizer!Moves(route) \/ Optimizer!LeftAlone(route)
                      => NothingHidden)
<1>1. (works = "optimizer" => Asking)
      => (Optimizer!Moves(route) \/ Optimizer!LeftAlone(route) => NothingHidden)
  BY MovedHidesNothing, LeftAloneHidesNothing DEF NothingHidden
<1> QED  BY <1>1, AlwaysAsking, PTL

\* A route that moves a directory, or rewrites nothing, lists only what a GET of
\* the listed key finds: PrefixOptimizer.NothingInvented (reverseRewrite takes
\* off what rewrite puts on).
THEOREM MovesInventNothing ==
    LookupsSpec => [](Optimizer!Moves(route) \/ route.rewrites = << >> => NothingInvented)
<1>1. (works = "optimizer" => Asking)
      => (Optimizer!Moves(route) \/ route.rewrites = << >> => NothingInvented)
  BY MovedInventsNothing, UnrewrittenInventsNothing DEF NothingInvented
<1> QED  BY <1>1, AlwaysAsking, PTL
=============================================================================

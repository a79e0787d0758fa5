---------------------------- MODULE BatchDelete ----------------------------
(***************************************************************************)
(* DeleteObjects (executeDeleteObjects): one request names many keys; each *)
(* is routed on its own, the keys are grouped by backend, each backend is  *)
(* asked once, in the order of a Go map, and the objects it reports        *)
(* deleted are translated back into the keys the client used.  A handler   *)
(* shares nothing with others but the matcher and the breakers, which have *)
(* modules of their own; here one handler serves request after request.    *)
(*                                                                         *)
(* An object is a backend and the key it has there.  Two keys of the       *)
(* client may be rewritten to one object.                                  *)
(***************************************************************************)
EXTENDS Naturals, Sequences

CONSTANTS
    Backends,
    Names,       \* keys at a backend, its prefix included
    Keys,        \* keys of clients
    Routed,      \* Matcher.Match: key -> object, or NoRoute where it fails
    NoRoute,
    RequestKey,  \* the object of the request's own, empty key
    MaxKeys      \* bound of the model: keys in a request (1000 in S3)

Objects == [backend : Backends, name : Names]

ASSUME BatchAssumption ==
    /\ Routed \in [Keys -> Objects \cup {NoRoute}]
    /\ NoRoute \notin Objects
    /\ RequestKey \in Objects
    /\ MaxKeys \in Nat

VARIABLES
    named,     \* the keys of the request, in order
    groups,    \* backend -> places of its keys, for backends not asked yet
    reported,  \* allDeleted: the keys to report
    phase,
    asked,     \* history: the backends asked
    removed,   \* history: the objects deleted
    confirmed  \* history: those of them a backend has confirmed

vars == <<named, groups, reported, phase, asked, removed, confirmed>>

-----------------------------------------------------------------------------
\* Mutant of Decide: the whole request goes where its own key is routed.
DecideByRequest(k) == RequestKey

\* A key that no route matches falls back to the request's own decision.
Decide(k) == IF Routed[k] = NoRoute THEN RequestKey ELSE Routed[k]

\* The keys of the request by backend, each known by its place.
GroupsOf(ks) ==
    [b \in {Decide(ks[i]).backend : i \in 1..Len(ks)} |->
       {i \in 1..Len(ks) : Decide(ks[i]).backend = b}]

\* Mutant of VirtualKey: the first key of the group stands for all.
VirtualKeyFirst(group, o) ==
    named[CHOOSE i \in group : \A j \in group : i <= j]

\* physicalToVirtual: of two keys with one object the later overwrites.
VirtualKey(group, o) ==
    named[CHOOSE i \in group :
            /\ Decide(named[i]) = o
            /\ \A j \in group : j > i => Decide(named[j]) # o]

-----------------------------------------------------------------------------
Init ==
    /\ named = << >> /\ groups = << >> /\ reported = {}
    /\ phase = "idle"
    /\ asked = {} /\ removed = {} /\ confirmed = {}

\* The body is parsed and every key is routed; a request that names no key is
\* answered at once.
Receive ==
    /\ phase # "asking"
    /\ \E n \in 0..MaxKeys : \E ks \in [1..n -> Keys] :
          /\ named' = ks
          /\ groups' = GroupsOf(ks)
          /\ phase' = IF n = 0 THEN "answered" ELSE "asking"
    /\ reported' = {} /\ asked' = {} /\ removed' = {} /\ confirmed' = {}

\* The loop over the groups takes up b.
Ask(b) ==
    /\ phase = "asking" /\ b \in DOMAIN groups
    /\ asked' = asked \cup {b}
    /\ groups' = [x \in DOMAIN groups \ {b} |-> groups[x]]

Targets(b) == {Decide(named[i]) : i \in groups[b]}

\* Backend b answers: it has deleted some of the objects it was given and
\* reports an error for each of the others, which nobody reads.
Deleted(b) ==
    /\ Ask(b)
    /\ \E gone \in SUBSET Targets(b) :
          /\ removed' = removed \cup gone
          /\ confirmed' = confirmed \cup gone
          /\ reported' = reported \cup {VirtualKey(groups[b], o) : o \in gone}
    /\ UNCHANGED <<named, phase>>

\* Mutant of Failed: the loop ends where it should go on.
FailedReturns(b) ==
    /\ phase = "asking" /\ b \in DOMAIN groups
    /\ asked' = asked \cup {b}
    /\ groups' = << >>
    /\ \E gone \in SUBSET Targets(b) : removed' = removed \cup gone
    /\ UNCHANGED <<named, phase, reported, confirmed>>

\* The call to b fails: refused by the breaker, or lost before or after b did
\* what it was asked.  The loop goes on with the next backend.
Failed(b) ==
    /\ Ask(b)
    /\ \E gone \in SUBSET Targets(b) : removed' = removed \cup gone
    /\ UNCHANGED <<named, phase, reported, confirmed>>

\* Mutant of Answer: only a batch that has deleted something is answered.
AnswerIfReported ==
    /\ phase = "asking" /\ DOMAIN groups = {} /\ reported # {}
    /\ phase' = "answered"
    /\ UNCHANGED <<named, groups, reported, asked, removed, confirmed>>

\* 200 OK with the reported keys, whatever failed.
Answer ==
    /\ phase = "asking" /\ DOMAIN groups = {}
    /\ phase' = "answered"
    /\ UNCHANGED <<named, groups, reported, asked, removed, confirmed>>

Serve == Answer \/ \E b \in Backends : Deleted(b) \/ Failed(b)

Next == Receive \/ Serve

Spec == Init /\ [][Next]_vars

\* A call to a backend returns (module Backend, CallsReturn); the rest is the
\* handler's own steps.
FairSpec == Spec /\ WF_vars(Serve)
-----------------------------------------------------------------------------
(* Properties.                                                             *)

NamedKeys == {named[i] : i \in 1..Len(named)}

\* Every variable stays in its range, and no backend is
\* asked to delete nothing.
TypeOK ==
    /\ named \in Seq(Keys)
    /\ phase \in {"idle", "asking", "answered"}
    /\ DOMAIN groups \subseteq Backends
    /\ \A b \in DOMAIN groups : groups[b] \subseteq 1..Len(named) /\ groups[b] # {}
    /\ reported \subseteq Keys /\ asked \subseteq Backends
    /\ confirmed \subseteq removed /\ removed \subseteq Objects

Routable == \A k \in NamedKeys : Routed[k] # NoRoute

\* A request deletes nothing but the objects its keys are routed to, whatever
\* the grouping and the failures.  Keys without a route are the exception: for
\* them the object of the empty key is deleted, and no other.
OnlyNamed ==
    removed \subseteq {Routed[k] : k \in NamedKeys}
                        \cup (IF Routable THEN {} ELSE {RequestKey})

\* A key is reported deleted only if the client named it and a backend has
\* confirmed that its object is gone, and each confirmed deletion is reported:
\* failures elsewhere, and keys that share an object, change neither.
ReportsAreTrue ==
    /\ reported \subseteq NamedKeys
    /\ Routable => {Routed[k] : k \in reported} = confirmed

\* A backend that fails takes no other backend's keys with it: each backend
\* the keys are routed to has been asked or is still to be asked, not both.
EveryBackendAsked ==
    /\ asked \cap DOMAIN groups = {}
    /\ Routable =>
         asked \cup DOMAIN groups = {Routed[k].backend : k \in NamedKeys}

\* Every batch is answered, whichever backends fail.
BatchesAnswered == phase = "asking" ~> phase = "answered"
=============================================================================

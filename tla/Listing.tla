------------------------------ MODULE Listing ------------------------------
(***************************************************************************)
(* A client lists a virtual bucket page by page (HandleListObjectsV2).     *)
(* For each page every route asks its backend in a goroutine of its own    *)
(* (ProcessRoutesParallel, processRouteWorker), the collector gathers the  *)
(* results from a channel, and buildResponse cuts the page out of the      *)
(* merged, sorted list.  The backends are asked from their first key each  *)
(* time; a token only says where the page starts.                          *)
(*                                                                         *)
(* Keys and common prefixes are numbers in the order of the strings.  A    *)
(* backend's keys are named as reverseRewrite names them; its order is     *)
(* taken to be the virtual one, as it is when a route swaps one prefix for *)
(* another.                                                                *)
(***************************************************************************)
EXTENDS Naturals, Sequences, FiniteSets, SequencesExt, FiniteSetsExt

CONSTANTS
    Routes,
    Keys,
    Matched,   \* route -> the keys its path matches
    Factor,    \* route -> 3 where the optimizer found a prefix, or else 5
    Narrowed,  \* routes whose backend is asked for the client's prefix only
    Limit,     \* the most keys a backend is asked for (1000)
    Stores,    \* what the backends may hold at first
    Clients,   \* what clients ask for, see ClientType
    MaxWrites  \* bound of the model: writes by others while a client lists

\* under: the keys with the client's prefix.  shown: what stands for a key in
\* the list, its common prefix under the client's delimiter or else itself.
\* skipped: the routes CanSkipRoute leaves out for the client's prefix.
ClientType ==
    [version : {"v1", "v2"}, maxKeys : Nat \ {0}, under : SUBSET Keys,
     shown : [Keys -> Nat \ {0}], skipped : SUBSET Routes]

ASSUME ListingAssumption ==
    /\ IsFiniteSet(Routes) /\ IsFiniteSet(Keys)
    /\ Keys \subseteq Nat \ {0} /\ Stores \subseteq [Routes -> SUBSET Keys]
    /\ Matched \in [Routes -> SUBSET Keys] /\ Factor \in [Routes -> Nat \ {0}]
    /\ Narrowed \subseteq Routes /\ Limit \in Nat \ {0} /\ MaxWrites \in Nat
    /\ \A c \in Clients :
          /\ c \in ClientType
          /\ \A r \in c.skipped : Matched[r] \cap c.under = {}
          /\ \A k \in Keys : c.shown[k] \in Keys => c.shown[k] = k

VARIABLES
    stored,     \* route -> the keys its backend holds
    writes,
    client,     \* the request, the same for each page
    phase,      \* "asking", "collecting", "done" or "failed"
    worker,     \* route -> "running", or "idle" after wg.Done()
    results,    \* resultsChan
    collected,  \* allObjects, as pairs of a route and a key
    errors,     \* the routes that failed for this page
    expired,    \* ctx is done
    token,      \* where the next page starts; 0: at the first item
    pages,      \* the pages the client has
    steady,     \* history: the pairs of route and key stored all the time
    held,       \* history: the pairs stored at some time
    cut,        \* history: a backend's reply was truncated
    lost        \* history: a page was answered although a route failed

vars == <<stored, writes, client, phase, worker, results, collected, errors,
          expired, token, pages, steady, held, cut, lost>>

request == <<worker, results, collected, errors, expired>>
history == <<steady, held, cut, lost>>

-----------------------------------------------------------------------------
\* The keys a backend may return to route r: those with the physical prefix
\* createOptimizedParams computes, or else all it holds.
Candidates(r) == stored[r] \cap (IF r \in Narrowed THEN client.under ELSE Keys)

FetchSize(r) == Min({Factor[r] * client.maxKeys, Limit})

\* Mutant of Objects: the keys that the route's path does not match stay.
ObjectsUnmatched(r) ==
    {k \in Candidates(r) :
       Cardinality({j \in Candidates(r) : j < k}) < FetchSize(r)}

\* listObjectsFromRoute: the first FetchSize keys, then those the path matches.
Objects(r) ==
    {k \in Candidates(r) :
       /\ Cardinality({j \in Candidates(r) : j < k}) < FetchSize(r)
       /\ k \in Matched[r]}

\* Mutant of Capacity: a channel for one result.
CapacityOne == 1

Capacity == Cardinality(Routes)

-----------------------------------------------------------------------------
(* buildResponse.                                                          *)

\* The objects under the prefix, one for each route that found the key, and
\* each common prefix once.
Entries ==
    {<<client.shown[p[2]], IF client.shown[p[2]] = p[2] THEN {p[1]} ELSE {}>> :
       p \in {q \in collected : q[2] \in client.under}}

\* Sorted: the i-th item has less than i entries before it, and no less than i
\* that are not after it.
unifiedList ==
    LET found == Entries
        Before(item) == Cardinality({e \in found : e[1] < item})
        UpTo(item) == Cardinality({e \in found : e[1] <= item})
    IN  [i \in 1..Cardinality(found) |->
           CHOOSE item \in {e[1] : e \in found} :
              Before(item) < i /\ i <= UpTo(item)]

\* Mutant of startIndex: the page starts with the token's own item.
startIndexAt(list) == Cardinality({i \in DOMAIN list : list[i] < token})

\* The list is sorted: what comes before the first item beyond the token.
startIndex(list) == Cardinality({i \in DOMAIN list : list[i] <= token})

After(list) == SubSeq(list, startIndex(list) + 1, Len(list))

\* Mutant of PageOf: only objects count against MaxKeys.
PageOfObjects(list) ==
    SelectSeq(list, LAMBDA i : i \notin Keys
                      \/ Cardinality({k \in ToSet(list) \cap Keys : k < i})
                         < client.maxKeys)

PageOf(list) == SubSeq(list, 1, Min({client.maxKeys, Len(list)}))

\* NextContinuationToken is the last item; handleListObjects gives a client
\* of version 1 the last object as NextMarker, if the page has any.
NextToken(page) ==
    LET candidates == IF client.version = "v2" THEN ToSet(page)
                                               ELSE ToSet(page) \cap Keys
    IN  IF candidates = {} THEN 0 ELSE Max(candidates)

-----------------------------------------------------------------------------
Pairs(s) == {p \in Routes \X Keys : p[2] \in s[p[1]]}

Init ==
    /\ stored \in Stores /\ writes = 0
    /\ client \in Clients
    /\ phase = "asking" /\ token = 0 /\ pages = << >>
    /\ worker = [r \in Routes |-> "idle"]
    /\ results = << >> /\ collected = {} /\ errors = {} /\ expired = FALSE
    /\ steady = Pairs(stored) /\ held = Pairs(stored)
    /\ cut = FALSE /\ lost = FALSE

\* The client asks for a page; the routes' goroutines start.
Ask ==
    /\ phase = "asking"
    /\ phase' = "collecting"
    /\ worker' = [r \in Routes |-> "running"]
    /\ results' = << >> /\ collected' = {} /\ errors' = {} /\ expired' = FALSE
    /\ UNCHANGED <<stored, writes, client, token, pages, history>>

\* Goroutine r sends its result and is done.
Send(r, result) ==
    /\ worker[r] = "running"
    /\ Len(results) < Capacity
    /\ results' = Append(results, result)
    /\ worker' = [worker EXCEPT ![r] = "idle"]

\* Mutant of Skip: the early return comes before wg.Done().
SkipUndone(r) ==
    /\ r \in client.skipped /\ worker[r] = "running"
    /\ worker' = [worker EXCEPT ![r] = "gone"]
    /\ UNCHANGED <<results, collected, errors, expired, stored, writes, client,
                   phase, token, pages, history>>

Skip(r) ==
    /\ r \in client.skipped
    /\ Send(r, [route |-> r, ok |-> TRUE, objects |-> {}])
    /\ UNCHANGED <<collected, errors, expired, stored, writes, client, phase,
                   token, pages, history>>

\* The backend answers route r.  That its reply may be truncated is not read.
Succeed(r) ==
    /\ r \notin client.skipped
    /\ Send(r, [route |-> r, ok |-> TRUE, objects |-> Objects(r)])
    /\ cut' = (cut \/ Cardinality(Candidates(r)) > FetchSize(r))
    /\ UNCHANGED <<collected, errors, expired, stored, writes, client, phase,
                   token, pages, steady, held, lost>>

\* The backend fails, its breaker refuses the call, or ctx ends it.
Fail(r) ==
    /\ r \notin client.skipped
    /\ Send(r, [route |-> r, ok |-> FALSE, objects |-> {}])
    /\ UNCHANGED <<collected, errors, expired, stored, writes, client, phase,
                   token, pages, history>>

Work(r) == Skip(r) \/ Succeed(r) \/ Fail(r)

\* The two minutes pass, or the client's connection is gone.
Expire ==
    /\ phase = "collecting" /\ ~expired
    /\ expired' = TRUE
    /\ UNCHANGED <<worker, results, collected, errors, stored, writes, client,
                   phase, token, pages, history>>

Collect ==
    /\ phase = "collecting" /\ results # << >>
    /\ LET result == Head(results)
       IN  IF result.ok
           THEN /\ collected' = collected \cup ({result.route} \X result.objects)
                /\ UNCHANGED errors
           ELSE /\ errors' = errors \cup {result.route}
                /\ UNCHANGED collected
    /\ results' = Tail(results)
    /\ UNCHANGED <<worker, expired, stored, writes, client, phase, token, pages,
                   history>>

\* select takes ctx.Done(), which it may do as soon as it can.
Abandon ==
    /\ phase = "collecting" /\ expired
    /\ phase' = "failed"
    /\ UNCHANGED <<request, stored, writes, client, token, pages, history>>

\* Mutant of Closed: the channel counts as closed when it is empty.
ClosedEmpty == results = << >> /\ \E r \in Routes : worker[r] = "idle"

\* The channel is closed after wg.Wait() and has been drained.
Closed == results = << >> /\ \A r \in Routes : worker[r] = "idle"

AllFailed == errors # {} /\ collected = {}

Answer ==
    /\ phase = "collecting" /\ Closed /\ ~AllFailed
    /\ LET rest == After(unifiedList)
           page == PageOf(rest)
           more == Len(page) < Len(rest)
       IN  /\ pages' = Append(pages, page)
           /\ token' = IF more THEN NextToken(page) ELSE 0
           /\ phase' = IF more /\ NextToken(page) # 0 THEN "asking" ELSE "done"
    /\ lost' = (lost \/ errors # {})
    /\ UNCHANGED <<request, stored, writes, client, steady, held, cut>>

Refuse ==
    /\ phase = "collecting" /\ Closed /\ AllFailed
    /\ phase' = "failed"
    /\ UNCHANGED <<request, stored, writes, client, token, pages, history>>

\* Another client puts or deletes a key.
Write ==
    /\ phase \in {"asking", "collecting"} /\ writes < MaxWrites
    /\ writes' = writes + 1
    /\ \E r \in Routes, k \in Keys :
          stored' = [stored EXCEPT ![r] = IF k \in @ THEN @ \ {k} ELSE @ \cup {k}]
    /\ steady' = steady \cap Pairs(stored')
    /\ held' = held \cup Pairs(stored')
    /\ UNCHANGED <<request, client, phase, token, pages, cut, lost>>

\* The listing has ended and nothing runs on.
Ended ==
    /\ phase \in {"done", "failed"} /\ \A r \in Routes : worker[r] = "idle"
    /\ UNCHANGED vars

Collector == Collect \/ Abandon \/ Answer \/ Refuse

Next ==
    \/ Ask \/ Collector \/ Expire \/ Write \/ Ended
    \/ \E r \in Routes : Work(r)

Spec == Init /\ [][Next]_vars

\* A backend call ends, because ctx ends it after two minutes if nothing else
\* does; the collector goes on, and the client asks for its next page.
FairSpec == Spec /\ WF_vars(Ask \/ Collector) /\ WF_vars(\E r \in Routes : Work(r))
-----------------------------------------------------------------------------
(* Properties.                                                             *)

Items == {client.shown[k] : k \in client.under}
Listed == UNION {ToSet(pages[i]) : i \in DOMAIN pages}

\* Every variable stays in its range, a page holds at most MaxKeys items,
\* objects and common prefixes together, and a token is an item of the list.
TypeOK ==
    /\ stored \in [Routes -> SUBSET Keys] /\ client \in Clients
    /\ phase \in {"asking", "collecting", "done", "failed"}
    /\ worker \in [Routes -> {"idle", "running"}]
    /\ Len(results) <= Cardinality(Routes)
    /\ \A i \in DOMAIN results :
          results[i].route \in Routes /\ results[i].objects \subseteq Keys
    /\ collected \subseteq Routes \X Keys /\ errors \subseteq Routes
    /\ token \in Items \cup {0}
    /\ \A i \in DOMAIN pages :
          ToSet(pages[i]) \subseteq Items /\ Len(pages[i]) <= client.maxKeys

\* Two routes that both match the key have both found it.
Twice(k) ==
    \E r, s \in Routes : /\ r # s /\ {<<r, k>>, <<s, k>>} \subseteq held
                         /\ k \in Matched[r] \cap Matched[s]

\* The pages follow one another in the order of the keys and nothing is listed
\* twice, except, on one page, a key that two routes match and whose backends
\* both hold it.  (A client of version 1 that uses a delimiter is not promised
\* this: NextMarker names the page's last object even when common prefixes
\* follow it.)
Ascending ==
    client.version = "v2" \/ Items \subseteq Keys =>
      \A i, j \in DOMAIN pages : \A m \in DOMAIN pages[i], n \in DOMAIN pages[j] :
         /\ i < j => pages[i][m] < pages[j][n]
         /\ i = j /\ m < n => \/ pages[i][m] < pages[j][n]
                              \/ pages[i][m] = pages[j][n] /\ Twice(pages[i][m])

\* What is listed comes from an object that some backend held while the client
\* was listing, that has the client's prefix, and that the route leads to.
Honest ==
    \A item \in Listed :
       \E p \in held : /\ p[2] \in Matched[p[1]] \cap client.under
                       /\ client.shown[p[2]] = item

Wanted ==
    {client.shown[p[2]] :
       p \in {q \in steady : q[2] \in Matched[q[1]] \cap client.under}}

\* A listing that ends, with no route failed and no backend's reply truncated,
\* has shown every object that was there all the time, whatever the order in
\* which the routes answer and whatever is written meanwhile.
Complete ==
    /\ phase = "done" /\ ~cut /\ ~lost
    /\ client.version = "v2" \/ Items \subseteq Keys
    => Wanted \subseteq Listed

\* Every goroutine of a route ends, also when nobody collects its result.
WorkersEnd == \A r \in Routes : worker[r] = "running" ~> worker[r] = "idle"

\* A client that follows the tokens comes to an end.
ListingEnds == <>(phase \in {"done", "failed"})

\* IMPLEMENTATION.md:109 and 144, "Backend returns: ALL objects matching
\* prefix" and "Pagination works correctly": a listing that ends with no route
\* failed has shown every object that was there all the time.
NothingMissing ==
    phase = "done" /\ ~lost /\ client.version = "v2" =>
        Wanted \subseteq Listed
=============================================================================

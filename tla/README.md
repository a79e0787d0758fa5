# s3-router, specified in TLA+

s3-router is an S3-compatible HTTP server that stores nothing. It verifies a
client's signature, chooses a backend for the object by the first route of the
virtual bucket that matches the key, rewrites the key, performs the operation
at the backend through an SDK client, and answers. Lists of a bucket are merged
from all its routes.

This directory models the parts of it that decide something, checks them with
TLC on small instances, and proves the main results with TLAPS for every value
of the constants. `PROJECT.json` maps each definition to the lines it models
and lists the runs, the mutants that show each property can fail, the hazards
and the findings.

    tlc -config MCBackend.cfg MCBackend     # a run
    tlapm BackendProofs.tla                 # a proof

## 1. Inventory

### 1.1 Components

| component | code | state it keeps | modules |
|---|---|---|---|
| HTTP front | `internal/server/server.go` | none but counters; one handler per request | `Server`, `ServerProofs` |
| request authentication | `internal/server/verifier.go`, `internal/auth` | the credentials, loaded once | `Server` (order of the checks) |
| routing and key rewriting | `internal/routing/matcher.go`, `internal/template` | LRU of decisions | `RouteMatcher`, `FirstMatch`, `Rewriting`, `RouteMatcherProofs` |
| backend calls, circuit breaker | `internal/backend/s3ops.go`, `manager.go` | a breaker and a connection pool per backend | `Backend`, `Isolation`, `BackendProofs` |
| streaming uploads | `internal/backend/proxy/chunked.go`, `streaming.go` | buffers of one upload | `ChunkReEncoder`, `ChunkReEncoderProofs` |
| executor: batch delete | `internal/backend/proxy/executor.go` 1236-1386 | groups of one request | `BatchDelete`, `LookupProofs` |
| executor: objects and multipart uploads | `executor.go`, `streaming.go` | none; the objects and uploads are at the backends | `Executor`, `VirtualBucket`, `ObjectStore`, `ExecutorProofs`; `Server` (dispatch, shapes of responses) |
| backend endpoints | `internal/backend/endpoint.go` | none | `Executor` (a key's address) |
| virtual listing | `internal/bucket/listobjectsv2.go`, `concurrent_processor.go` | channel, goroutines of one page | `Listing`, `ListingProofs` |
| prefix optimizer | `internal/bucket/prefix_optimizer.go` | none | `PrefixOptimizer`, `LookupProofs` |
| bucket operations | `internal/bucket/operations.go` | none | `Server` |
| virtual hosts | `internal/config/virtual_host.go` | none, sorted once | `VirtualHosts`, `LookupProofs` |
| health, admin server | `manager.go` 22-55, 220-241, `internal/admin` | health of each backend | `Process`, `ProcessProofs` |
| start and shutdown | `cmd/s3router/main.go` | set of servers | `Process`, `ProcessProofs` |
| configuration, credentials of backends, outgoing signer, observability, chart | | none, or read once | not modelled (section 8) |

### 1.2 How they interact

A request is one goroutine. It calls, in this order: the classification of the
path, the verifier, the matcher, the executor, and through the executor one
method of `CircuitBreakerS3Operations`, which runs the SDK call inside
`gobreaker.Execute`. Requests meet in three places only: the matcher's LRU, the
breaker of a backend, and the pool of its connections. A listing starts one
goroutine per route and collects their results from a channel. A streamed
upload has the body writer of `net/http` pull chunks out of `ChunkedReEncoder`;
it goes to the backend past the breaker. The admin
server is a second `http.Server` of the process; it writes a backend's health
when asked to check it and reads it for `/readyz`, and `main()` shuts both
servers down under one deadline.

### 1.3 What is hard

- Concurrency: the breaker's counts belong to generations, and calls end in a
  later one than they began in; a decision is cached after the lock of the miss
  was released; a collector may leave while its goroutines still send.
- Failure: replies lost after the work is done, backends that fail in the
  middle of a body, one backend of several failing, a client that hangs up, an
  attempt that was given up and is performed after all, a server that fails
  while the process is told to stop.
- Ordering: signatures that chain over chunks, results of routes in any order,
  tokens that must hold while others write.
- Boundaries: announced lengths computed before a byte is read, frames that do
  not align with chunks, pages that end at a common prefix.

Each hazard is in `PROJECT.json` at its line, with the properties aimed at it.

### 1.4 What makes each component correct

| component | correct means |
|---|---|
| front | only genuine requests reach a backend; the operation asked for is the one performed; bodies are closed; the client never takes a cut answer for a whole one |
| matcher | every answer, cached or not, is that of the first matching route |
| breaker | isolation lasts its full time, ends only after trials that went well, starts no call meanwhile, and always ends |
| uploads | bytes keep their order, memory is bounded, chunks verify, a cut body never becomes a whole object |
| batch delete | nothing unnamed is deleted, nothing is reported that was not confirmed, no backend is forgotten |
| listing | ascending, honest, complete, and nothing leaks |
| optimizer | narrowing what a backend is asked for never hides a key |
| executor | a key is one object, whichever path names it: an answer says what happened to it, a refused request does nothing, and nothing else changes |
| virtual hosts | the bucket of a host is that of its most specific entry, however the entries are ordered in the file |
| health, shutdown | a backend is called ready only on fresh evidence; nobody is cut off before the grace period is over, and the process ends |

## 2. The modules

Names follow the code; each action stands for a whole handler or a whole
critical section. Mutants, named `...` after what they change, stand before the
definition they replace and are used by nothing else.

**`Backend`, `Isolation`** (a breaker and its callers). `cb` is gobreaker's
state, its counts, and the set `fresh` of calls admitted in the present
generation, which replaces generation numbers: only whether a call's number is
the breaker's matters. `Admit`, `Reject` are `beforeRequest`; `Retry` the SDK's
retryer inside one admitted call; `Return` is `afterRequest` with the
classification of `IsNonFatalS3Error`; `Tick` is time, which no attempt
outlives beyond the HTTP timeout. gobreaker is a library outside the
repository; it is modelled as the code configures it and marked external.
`Isolation` is the promise without counts, windows or generations.

**`RouteMatcher`, `FirstMatch`, `Rewriting`** (the matcher). A call of `Match`
is `Call`, `Lookup` (bucket check and cache), `Skip` for each route that does
not match, and `Take` (rewrite, `Add`, return) or `NoRoute`. The LRU may evict
any entry. `Rewriting` is `Matcher.rewrite` with the execution of templates; a
regular expression is what `FindStringSubmatchIndex` says of it. `FirstMatch`
is the promise: the first matching route answers.

**`ChunkReEncoder`** (an upload). Actions are the steps of `Read`
(`ReadHeader`, `ReadData`, `ReadEnd`, `ReadFails`, `Emit`) and of the body
writer (`Drain`, `Break`, `Close`). A byte is its position in the object; a
signature is the list of what it was computed over. `Announced` is
`CalculateReEncodedContentLength`, with `Digits` for the width of a number that
`%x` prints; `WireLength` is what was really written.

**`BatchDelete`**. `Receive` parses, routes and groups; `Deleted` and `Failed`
are one iteration of the loop over a Go map, in any order; `Answer` reports.

**`Listing`**. `Ask` starts the goroutines; `Skip`, `Succeed`, `Fail` are
`processRouteWorker`; `Collect`, `Abandon`, `Answer`, `Refuse` are the
collector's `select` and `buildResponse`; `Write` is another client.

**`PrefixOptimizer`**. The operators of the optimizer (`Segments`, `Class`,
`StaticOf`, `Safe`, `CanSkipRoute`, `PhysicalPrefix`), reverse rewriting, and,
from the other side, what a GET does with a key (`Matches`, `Physical`). A
regular expression is matched from its end: `Fits` says from which places the
last atoms reach the end of the key, `Ends` where each atom ends when it takes
as much as it can, as Go's engine has it. `Moves` and `LeftAlone` name two kinds
of routes the theorems are about. The only action is a listing with some prefix.

**`Server`**. One request: `Classify`, then `BucketOperation`, `ListObjects` or
`Route`; `Execute` (dispatch and the response's shape), `Refuse` (the check of
the length), `SendHeaders`, `Copy`, `CopyEnds`, and `ReportError`, the deferred
function that also runs when the answer has begun.

**`Executor`, `ObjectStore`, `VirtualBucket`** (objects). `ObjectStore` is what
the router relies on of an S3 store, external and without state of its own:
`Executor` uses it with addresses at backends, `VirtualBucket` with the keys of
clients. In `Executor` an operation of the code is an operator of its name
(`PutObject`, `CopyObject`, ...), and a call is `Ask`, `Perform` (the backend
does it), `Deliver` (its reply arrives), or `Retry` and `Fail` when an attempt
is given up, which may still be performed (`PerformLate`). `Refuse` is an
answer without a call. A key is a sequence of tokens, some of them escapes, and
`Address` is where the SDK's and the streamed calls look for it; `CopyAddress`
is where a copy is stored. `VirtualBucket` is the promise, with one object per
key and neither backends nor attempts.

**`VirtualHosts`**. `Before` is the comparison of two entries, `Ahead` what the
stable sort makes of it, `Place` and `Sorted` its result; `AcceptsHost` are the
entries' extractors, `GetBucketMapping` the loop. The only action is a request
with some host.

**`Lookups`** puts `BatchDelete`, `PrefixOptimizer` and `VirtualHosts` side by
side: computations that share nothing with each other or the rest. In a
behaviour one of them works (`works`) and the others rest.

**`Process`** (the process). `ListenFails`, `Forget` and `Report` are the
goroutine of a server; `CatchSignals`, `Signal`, `FatalExit`, `Drain`,
`BeginShutdown`, `EndShutdown` and `Return` are `main()`; `BeginCheck`,
`BackendAnswers` and `EndCheck` a manual health check. `Tick` is time, which
outlives neither a check's context nor that of the shutdown. `silent` counts
how long the backend has been down and `health.old` is what it was when the
health was written.

The `MC...` modules give the constants values. The `...Proofs` modules extend
the module they prove about.

## 3. The runs

| run | instance | states | shows |
|---|---|---|---|
| `backend` | 3 callers, 2 trials, window 1, open 3, timeout 2, 2 attempts, 4 calls a window | 30,470 | counts are conserved, an open breaker starts no call, it implements `Isolation`, every call returns, a backend that is well again is used again |
| `routing` | 2 callers, 3 buckets, 3 keys, 2 methods, cache of 2 | 209,304 | the cache is sound; `FirstMatch` is implemented under purges and evictions |
| `chunked` | chunks of 3, up to 3 frames of 1, 2, 3 or 7, cut anywhere, declared right or wrong | 113,463 | order, memory, signatures, no cut body delivered, honest uploads arrive |
| `listing` | 2 routes, 4 keys, two of them under one prefix, both versions, 1 write | 182,794 | ascending, honest, complete, no leak, it ends |
| `lookups` | batches: 2 backends, 5 keys of which two share an object and one has no route, batches of 3; optimizer: 52 routes, keys of up to 4 characters over `x`, `y`, `/`; virtual hosts: all lists of 3 of 7 entries, hosts of up to 3 labels, with and without a port | 27,011 | only named objects go, reports are true, all backends are asked, batches are answered; nothing hidden, nothing invented; the most specific entry decides |
| `server` | all methods, both addressing styles, 13 queries, all states of a signature, limit 3, objects of up to 7 | 68,416 | only genuine requests served, right operation, bodies closed, limit held, truncation shows |
| `executor` | 2 clients, 2 backends, 4 keys, one with an escape and one without a route, 11 requests of 8 kinds, 1 upload, 2 attempts, 1 late attempt | 363,195 | the objects behave as `VirtualBucket` promises |
| `process` | 1 request, 2 health checks, grace 2, check time 1 | 193,896 | readiness rests on fresh evidence, nobody is cut early, the process ends |
| `backend_timeouts`, `chunked_truncated`, `listing_pages`, `prefixes_unrewritten` | | | disagreements with what the repository says, section 7 |

Why the bounds are enough. *backend*: with three callers and `MaxRequests` 2
one call is rejected while two trials run; a request (2 ticks) outlasts a
window (1), so answers arrive for older generations; three requests are the
fewest that trip; `MaxPerWindow` 4 lets one more succeed or fail after that.
*routing*: two callers are enough for every order of miss and insertion, since
a caller's scan reads nothing the others write but the cache; two entries and
more questions than that make it evict. *chunked*: a frame of 7 spans three
chunks, 3 is exactly one, 1 and 2 leave rests in the buffer; base 2 makes the
number of digits change inside a chunk. *lookups*: a batch of three has
the pair that shares an object and one more, or a key twice; four characters
give client prefixes shorter than, equal to and longer than a static prefix of
two or four; the entries overlap in every way two can (with and without a port,
exact and wildcard, with and without a bucket, one suffix below another), and
three show that the sort is stable. *listing*: the
two routes overlap in key 3, one is narrowed and one is not, one may be
skipped; with four keys and pages of one or two every boundary between objects
and common prefixes occurs; one write is enough to remove the item a token
names or to add one before it.
*server*: the limit lies between sizes with and without a known length, and the
error text (2) may be just what is missing.
*executor*: two clients interleave a put, a completion, an abort and a copy of
one key; two attempts and one late one give an effect after a failure was
answered, and after a retry. The instance has one request of every kind, and
copies from a routed key, from another backend and from an unrouted key; the
body of a put that is streamed goes to the unrouted key only, since streaming
differs from buffering in `SendsAgain` alone, which the parts exercise.
*process*: two checks overlap in every order; a check lasts one tick and a
silence of two is told from it; the grace of two ticks can be used up by the
first server or be left for the second.

## 4. Fairness, and what justifies it

- `Backend`: `WF(Tick)`, time passes; `WF(TimesOut(c))`, the HTTP client ends an
  attempt when its timeout is due; `WF(Admit(c))`, clients go on asking. The
  backend owes no answer. `Heals` assumes that from some point on every answer
  is non-fatal.
- `ChunkReEncoder`: `WF(Next)`. The body writer calls `Read` until it ends, and
  a read from a silent client ends because of the server's `ReadTimeout`.
  `Break` is never owed, as other actions satisfy `WF(Next)`.
- `BatchDelete`: `WF(Serve)`. A call to a backend returns, which is `CallsReturn`.
- `Listing`: `WF(Ask \/ Collector)` and `WF(\E r : Work(r))`. A backend call ends
  because the two-minute context ends it; the client asks for the next page.
- `Process`: `WF(Tick)`; `WF` of the end of a check whose context is over, which
  `context.WithTimeout` gives; `WF` of the steps of `main()` and of the servers'
  goroutines, which the Go scheduler runs. No request and no backend owes an
  answer: a shutdown ends because its context does.
- `RouteMatcher`, `PrefixOptimizer`, `VirtualHosts`, `Executor`, `Server`: no
  liveness is claimed. They have
  no loop that waits, so it would hold by their shape; what bounds a slow
  request is `WriteTimeout` and the backend's timeout.

## 5. What is proved

All for every value of the constants under the named assumptions of the modules.

**Backend.** `IInv == TypeOK /\ CountsConserved` is inductive by itself:
`CountsConserved` relates the counts to the calls in `fresh`. The steps of the
breaker are lemmas about operators (`CurrentStateSound`, `OnRequestSound`,
`AfterRequestSound`), so that the proof of a step only says which it uses. From
it follow `TypeCorrect`, `CountsAreConserved`, the action property
`OpenShields`, and `BreakerIsolates`: each action maps to a step of `Isolation`
or a stutter. The hard step is a success in half-open: that it closes the
breaker only when no other trial runs is
`consecutiveSuccesses + |fresh| = requests <= MaxRequests`.

**RouteMatcher.** `IInv == TypeOK /\ ScanInv /\ CacheInv`. `ScanInv` says that
the routes before `at[g]` do not match; `CacheInv` that every cached decision
is right for some question with that key. To conclude that it is right for
*every* question that finds it, `CacheKeyInjective` is needed: the first colon
ends the bucket and the last starts the method, since neither holds a colon,
though keys may. Assumption: bucket names and methods hold no colon, which S3
and HTTP grant but the router's configuration does not check. `TypeCorrect`,
`CacheIsSound`, `MatcherRoutesFirst`.

**ChunkReEncoder.** `TypeInv == TypeOK /\ FrameStaysShort` (the unread rest of a
frame is not longer than the frame); then, on top of it, `MemoryBounded` is
inductive; `Order` (every chunk but the final one is full as long as anything
follows, and chunks and buffer hold the bytes 1 to `taken` in order) gives
`InOrder`; `Chain` (the next signature is over all chunks so far) gives
`SignaturesChain`. `UploadsAreWhole` is `DeliveredWhole`: `Close` compares the
announced length with the bytes written and nothing else, so the proof has to
conclude from equal lengths that equally many bytes of the object were sent.
`WireShape` says what is on the wire after `taken` bytes, chunk by chunk, so
that its length is `Announced(taken)`; `AnnouncedGrows` says that a larger
object always has a larger announced length, across the changes in the number
of digits and of chunks (`DigitsGrow`, `EncodedGrows`). `Whole` carries the rest:
the source has ended cleanly, no chunk before the last data chunk is short, the
bytes taken are those of the frames read so far, and an honest upload has not
failed. From it also `HonestNeverFails`, the safety half of `UploadsArrive`.

**Server.** `IInv == TypeOK /\ Progress /\ Errors /\ Bodies /\ WithinLimit /\
Delivery`. `Progress` carries what each stage has established: past the
verifier the code is "none", and no bucket operation or listing reaches the
executor. `Errors` is what makes `GenuineOnly` true, since a failed request is
answered with its error's status, which must be no success. `Delivery` compares
what was sent of an object with what the backend gave. Two lemmas about the
tables stand apart: `VerifierSound` (code "none" only for genuine requests) and
`DispatchAgrees` (the executor's table and the detection agree). Theorems:
`TypeCorrect`, `GenuineOnly`, `OperationsAreRight`, `BodiesAreClosed`,
`LimitHolds`, `TruncationIsSeen`.

**BatchDelete** (in `LookupProofs`). `IInv` adds to `TypeOK` that each group
holds just the places of its backend (`GroupsRight`), that what is removed some
key was decided for (`RemovedDecided`), that what is reported is what was
confirmed (`ReportedConfirmed`), and that each backend of the batch is asked or
waiting (`AskedOrWaiting`). `OnlyNamed`, `ReportsAreTrue` and
`EveryBackendAsked` follow by name: `NothingElseDeleted`, `ReportsTrue`,
`AllBackendsAsked`, of `Lookups` by `BatchesRun`. That a reported key is one
whose object is gone rests on `VirtualKey`, the last place of the group with
that object, which always exists because the backend is given no other object.

**VirtualHosts** (in `LookupProofs`). `AheadOrders` shows that `Ahead` is a strict
total order of the places of a table. `Place` counts the places ahead of one, so
it is increasing along that order (`PlacesOrder`) and a permutation
(`SortPermutes`: an injection of a finite set into itself). The least accepting
place after the sort is then the entry ahead of all others that accept the host
(`FirstDecides`). `EntriesDecide`, for tables of any length.

**PrefixOptimizer** (in `LookupProofs`). For routes that move a directory
(`Moves`: `^dir/(.*)` or `^dir/(.+)`, with or without `$`, where `dir` does not
begin with a slash and has no empty segment, and one rule that puts literals
before the capture, or after it, or neither) the proof says what each function
of the optimizer returns: the tokenizer finds the segments of `dir` and then the
group (`DirectoryTokens`, `DirectorySegments`), so the static prefix is `dir/`
and safe (`DirectoryStatic`, `MovedOptimized`), while matching accepts what has
that prefix and captures the rest (`DirectoryFits`, `MovingAccepts`,
`MovingCaptures`). `MovedAsked` is the crux: a route with a key under the
client's prefix is not skipped, and that key's object has the prefix the backend
is asked for, whichever of the two prefixes is the longer. `MovedBack` and
`MovedBetween` say that reverse rewriting takes off what rewriting puts on. With
the invariant `Asking`, that the backend is asked for what the optimizer
computes, follow `MovesHideNothing` and `MovesInventNothing`, for any alphabet,
any directories, rules and key lengths, and whatever else is in the table. They
also cover routes that rewrite nothing: invention is excluded for all of them,
hiding for those the optimizer leaves alone, since others do hide keys
(`prefixes_unrewritten`). `MCLookups` assumes, and TLC evaluates, that all
routes of its run are of these kinds.

**Executor.** `TypeOK` is inductive by itself; `StoreStep` shows that each
operation of a backend keeps the store in its range. `ImplementsVirtualBucket`
maps each step to a step of `VirtualBucket` or a stutter. Its core is
`EffectMaps`: what a request does at an address is what the promise lets it do
to a key, because two routed keys never have one address
(`ExecutorAssumption`, which is about the configuration: routes that rewrite
two keys to one object, and keys that differ only in their escapes, are
excluded by it). `CopiesLand` is a second assumption of this theorem, not of
the module: copies go to keys without escapes. Section 7 says why it is needed.

**Listing.** The constants are finitely many routes and keys. The lemmas before
the invariant are about `buildResponse` as a function: the list has a place for
each entry, is sorted, and shows an item twice only for two entries
(`ListShape`, `ListOrder`, by counting the entries before an item and up to
it); the page is the stretch after the token (`StartIndex`, `PageShape`), and
its last item is the next token (`PageToken`). `IInv` adds to `Honest`,
`Ascending` and `Complete` what carries them from page to page: what a route has
found was stored and is matched (`Finds`); all that is listed lies at or before
the token (`Behind`); an object that is due on this page has been collected, or
is in the channel, or its route still runs or has failed (`Heard`, which needs
`WholeReply`: a reply that is not truncated holds every matching key); and what
is wanted up to the token has been listed (`ShownSoFar`). `ListsHonestly`,
`ListsInOrder`, `ListsAll`. Apart from them `SendNeverBlocks` counts the running
goroutines and the results in the channel: together never more than its
capacity, so that no goroutine can wait for a collector that has gone, the
safety half of `WorkersEnd`.

**Process.** `IInv` adds to `TypeOK` that a backend a check has seen up has been
silent no longer than the check runs (`EvidenceIsFresh`, `UpIsHeard`), from which
`FreshReadiness` follows for any number of overlapping checks; that a server
told to shut down and not waited for has nothing in flight but what was cut
(`DrainedOrCut`); and that only failed servers are missing from the map
(`MapIsTrue`). `GracefulShutdown` is an action property: of the steps that
cut requests off, `EndShutdown` needs the end of the grace period, `Signal` the
launching phase, `FatalExit` a failed server, and `Return` finds nothing in
flight, since by then every server of the map has drained.

**Recursion.** The library's induction theorems take an operator as a
parameter, which the provers cannot instantiate. `Induction`, in two of the
modules, takes a set instead and follows from the order of the numbers being
well-founded; a property is used as the set of the numbers that have it. From it
comes that a recursive function is what its definition says: `DigitsExist` and
`SumsExist` for an upload, `RecursionExists` for all functions of the optimizer.

**Only model-checked.** All liveness (`CallsReturn`, `Heals`, `UploadsArrive`,
`Settles`, `BatchesAnswered`, `WorkersEnd`, `ListingEnds`, `Ends`), which needs
fairness and `ENABLED`, out of the prover's reach; and everything about
`Rewriting`, whose operators are declared `RECURSIVE`, which the provers do not
take (the proofs about the matcher have `Matches` and `Rewrite` as
parameters). Every invariant and every action property of a passing run is a
theorem; those of the optimizer are theorems about the two kinds of routes above,
and nothing is claimed about others.

## 6. Abstractions to know of

- One backend in `Backend`: backends share no breaker. Its connection pool
  (`MaxConnsPerHost` 10) is not modelled.
- `ChunkReEncoder`: `Content-Length`, the buffered variant, and UploadPart's
  copy of the same steps are one model; frames carry no signatures of the
  client, which the router reads and does not check.
- `Listing`: keys are in the order the backends have them, as when a route
  swaps one prefix for another; a client asks for at least one key and stops
  at an error. That several fetches per page see different states is modelled
  by `Write`; a backend answers one fetch from one state.
- `PrefixOptimizer`: one route at a time, a rule without pattern or none, the
  backend's own prefix left out, a backend that holds every object. The routes
  of the run are the forms the repository's documents use. The class of
  patterns for which the optimizer is right is smaller than the one it accepts:
  `^logs?/(.*)`, `^foo(.*)` under a prefix and `^foo/bar` (no anchor at the end)
  hide keys.
- `Executor`: an object's content is the sequence of the bodies it was made of,
  and a part is known by its body as an ETag knows it; ranges, conditions and
  metadata are left out. Two attempts of one request that are both late count as
  one (`late` is a set). The breaker's refusals are `Refuse`; module `Backend`
  says when they happen. A copy's raw source may find anything (`Stray`).
- `VirtualHosts`: hosts are lists of labels, so a suffix is longer when it has
  more labels, which is so for suffixes of one host.
- `Process`: one backend; a request to the main server has no more to it than
  being in flight. A failed server serves the connections it has. Time is
  counted only as far as contexts and evidence need it.
- `Server`: methods in upper case; a virtual host is looked up in a constant; a
  request body over `max_body_size` is a failed execution; PutObject stands for
  its copy, streaming and trailer variants; lengths count units. A panic in
  `Match` ends a request in `net/http`, outside this model.

## 7. Where the code and what is said of it part

Shown by a run:

- `backend_timeouts`: timeouts do not trip the breaker, though `s3ops.go` lists
  them among what does. A closed window is one second, a timed-out call ends in
  a later one, and gobreaker drops its result.
- `chunked_truncated`: a body that ends inside a frame's data makes `Read` spin
  for ever.
- `listing_pages`: a backend is asked for 3 or 5 times `MaxKeys` keys, from its
  first, for every page; objects after those are never listed and the listing
  says it is complete.
- `prefixes_unrewritten`: an anchored route without rewrites, listed below its
  directory, asks its backend for a prefix without the directory.

Recorded without a run:

- `server.go:116`: when a backend's stream breaks after the headers are out, the
  deferred error writer adds "Internal Server Error" to the object; without a
  `Content-Length` the client takes that for a complete 200. `TruncationShows`
  says how far the repository's claim does hold, and is proved.
- `executor.go:1462`: the destination of a copy keeps its escapes, which the SDK
  escapes again, so the copy is stored under a name no GET of that key reads;
  the README of the repository lists only the copy's source as an exception.
  The tagging operations (738, 759) do the same, and a batch delete (1288)
  routes and addresses the key of its XML, which never was escaped.
- `executor.go:937`: an UploadPartCopy is taken for an UploadPart with an empty
  body and answered 200. The buffered UploadPart (984) hands the SDK a body it
  cannot rewind, so the SDK does not send it twice.
- `executor.go:1478`: a copy whose source has no route reads the bucket and key
  as the client wrote them from the destination's backend.
- `executor.go:1074`: a completion whose reply was lost is sent again and then
  answered 404 although the object is stored; a creation sent twice leaves an
  upload nobody knows. `VirtualBucket` allows both, and no more than that.
- `endpoint.go:96`: the error of `PathUnescape` is dropped, so an invalid escape
  in a streamed key leaves the path empty.
- `virtual_host.go:108`: a wildcard with a bucket of its own accepts names of any
  depth; the README says wildcards match one level. An exact host without a
  bucket never matches (145), but a wildcard above it still does, and then the
  host is not addressed path-style. `maybeSplitHostAndPort` (77) speaks of IPv6
  addresses and splits at the first colon.
- `main.go:262`: a signal between the start of the servers and `signal.Notify`
  ends the process without a drain; a server that has failed is not drained at
  all, even when a signal is what ends the process; the second server of the
  map accepts requests until its turn, and has what is left of the ten seconds.
  `NobodyCutEarly` names the first two.
- `manager.go:208`: a backend counts as healthy until it is first checked, and
  normal traffic never changes that.
- `matcher.go:99`: an optional group that matched nothing makes `Match` panic.
- `executor.go:1290`: a key of a batch that no route matches is replaced by the
  request's own decision, so the object of the empty key is deleted. `OnlyNamed`
  allows for that by name. A batch delete itself needs a route that matches the
  empty key.
- `executor.go:1351`: a batch's keys that a backend refused, or whose backend failed,
  are missing from the answer, which is always 200.
- `listobjectsv2.go:408`: an object that lacks a rewrite's literal prefix is
  listed under a key no GET reaches.
- `server.go:435-437`: `NextMarker` of version 1 is the last object even when
  common prefixes follow; `Ascending` and `Complete` leave that case out.
- `s3ops.go:61-63`: 4xx codes that are not in the list count as failures, while
  the comments at 39 and 73 speak of all client errors.
- `manager.go:171`: `retries` of a backend is parsed and used nowhere, every
  client makes up to three attempts; `max_body_size` 0 means no
  limit for requests and a limit of zero for responses; `route_cache_size` 0
  becomes 1000.
- `operations.go:147`: GET `/` on a virtual-hosted bucket is ListBuckets.
- `executor.go:1174-1218`: ListParts ignores `part-number-marker`.
- `README.md:533-537` of the repository says ListBuckets needs no
  authentication; the code asks for it, which `OnlyGenuineServed` confirms.

## 8. What is not modelled, and why

Configuration loading, the template parser, credentials of backends, the
building of endpoint URLs, logging and metrics: they run once or keep no state.
Canonical requests and HMAC, incoming and outgoing: pure functions over bytes,
for which there is nothing to explore. Tagging and ACLs of objects, and the
pages of ListParts: each is one call with one answer, whose routing and escapes
are those of the operations that are modelled, save what section 7 notes. The
chart and the Python tests are not the program.

## 9. Plan

Done, in this order: `Backend` with `Isolation`, `RouteMatcher` with
`FirstMatch` and `Rewriting`, `ChunkReEncoder`, `BatchDelete`, `Listing`,
`PrefixOptimizer`, `Server`, `Process` (health checks and the life of the
process), `Executor` with `VirtualBucket` and `ObjectStore`, `VirtualHosts`,
and `Lookups`; and the proofs of every safety property the passing runs check.

To be done next, most important first:

1. The optimizer: routes that narrow a segment and not a directory
   (`^logs-(.*)`), of which some are right and some hide keys (section 6); a
   theorem should say which.
2. `Rewriting` as recursive functions, so that the matcher's theorems hold of
   the rewriting itself and not of a parameter.
3. Composition: the front's contexts with `Backend`, for a cancelled client that
   counts as a failure of the backend, and the connection pool with response
   bodies that are read slowly; streamed uploads, which go past the breaker.
4. Composition: listing with routing, for keys that an earlier route catches.

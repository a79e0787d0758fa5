------------------------------ MODULE Executor ------------------------------
(***************************************************************************)
(* The proxy executor: the operations on objects and multipart uploads     *)
(* (executor.go, streaming.go), each sent to the backend its key is routed *)
(* to, with the SDK's retries or, for a streamed body, without, and the    *)
(* answer given to the client.                                             *)
(*                                                                         *)
(* The attempt of a call, the backend's performing it and the arrival of   *)
(* the reply are steps of their own.  An attempt that was given up may     *)
(* still be performed: requests outlive the caller's patience.             *)
(*                                                                         *)
(* A key is a sequence of tokens, and one of the tokens may be an escape   *)
(* such as %20 that stands for another.                                    *)
(***************************************************************************)
EXTENDS Naturals, Sequences, FiniteSets, Functions

CONSTANTS
    Clients,
    Requests,     \* what clients may ask
    Keys,         \* the keys they may name
    Routed,       \* Matcher.Match: key -> backend and rewritten key, or NoRoute
    NoRoute,
    Prefix,       \* backend -> its prefix
    Decoded,      \* escape -> the token it stands for
    Uploads,
    Absent,
    Stray,        \* contents that the raw source of a copy may find
    NoRequest,
    MaxAttempts,  \* retry.StandardOptions.MaxAttempts
    MaxLate       \* bound of the model: requests given up and still under way

Routable == {k \in Keys : Routed[k] # NoRoute}

\* Backend.Prefix + RewrittenKey, as the router has it: escaped.
Raw(k) == Prefix[Routed[k].backend] \o Routed[k].key

\* conservativePathUnescape.
Unescape(path) ==
    [i \in DOMAIN path |->
       IF path[i] \in DOMAIN Decoded THEN Decoded[path[i]] ELSE path[i]]

At(k, path) == [backend |-> Routed[k].backend, path |-> path]

\* Where a key's object is.  The SDK escapes again what it is given, and the
\* path of a streamed upload is escaped already.
Address == [k \in Routable |-> At(k, Unescape(Raw(k)))]

\* executeCopyObject gives the SDK the escaped key, which it escapes once more.
CopyAddress == [k \in Routable |-> At(k, Raw(k))]

Addresses == Range(Address) \cup Range(CopyAddress)

\* The operations; the executor's table is module Server's.
Operations ==
    {"get", "put", "delete", "copy", "create", "part", "complete", "abort"}

ASSUME ExecutorAssumption ==
    /\ \A j, k \in Routable : Address[j] = Address[k] => j = k
    /\ Absent \notin Addresses
    /\ \A r \in Requests :
         /\ r.key \in Keys /\ r.op \in Operations
         /\ r.op \in {"part", "complete", "abort"} => r.upload \in Uploads
    /\ NoRequest \notin Requests
    /\ MaxAttempts \in Nat \ {0}
    /\ MaxLate \in Nat

VARIABLES
    objects,  \* the objects at the backends
    uploads,  \* the multipart uploads there
    pending,  \* pending[c]: the request of client c, its attempt and result
    late,     \* requests an attempt of which may still be performed
    reply     \* what the last step answered a client, if it did

vars == <<objects, uploads, pending, late, reply>>

Store == INSTANCE ObjectStore

Nothing == [code |-> "none", read |-> Absent]

Idle == [request |-> NoRequest, attempt |-> 0, result |-> Nothing]

-----------------------------------------------------------------------------
\* Mutant: the source of a copy is not rewritten.
SourceAsWritten(r) == Stray \cup {Absent}

\* The source of a copy is routed on its own; where that fails, the store
\* looks up what the client wrote.
Source(r) ==
    IF r.source \in Routable THEN {objects[Address[r.source]]}
    ELSE Stray \cup {Absent}

\* What each operation has the backend of the key do, and the result.
GetObject(r, result) == Store!Get(Address[r.key], result)

PutObject(r, result) == Store!Put(Address[r.key], <<r.body>>, result)

DeleteObject(r, result) == Store!Put(Address[r.key], Absent, result)

CopyObject(r, result) ==
    \E found \in Source(r) : Store!Copy(found, CopyAddress[r.key], result)

CreateMultipartUpload(r, result) == Store!Create(Address[r.key], result)

UploadPart(r, result) ==
    Store!Part(Address[r.key], r.upload, r.number, r.body, result)

CompleteMultipartUpload(r, result) ==
    Store!Complete(Address[r.key], r.upload, r.list, result)

AbortMultipartUpload(r, result) == Store!Abort(Address[r.key], r.upload, result)

\* The backend performs r, with this result.
Performs(r, result) ==
    CASE r.op = "get"      -> GetObject(r, result)
      [] r.op = "put"      -> PutObject(r, result)
      [] r.op = "delete"   -> DeleteObject(r, result)
      [] r.op = "copy"     -> CopyObject(r, result)
      [] r.op = "create"   -> CreateMultipartUpload(r, result)
      [] r.op = "part"     -> UploadPart(r, result)
      [] r.op = "complete" -> CompleteMultipartUpload(r, result)
      [] r.op = "abort"    -> AbortMultipartUpload(r, result)

Results(r) ==
    [code : {"ok", "NoSuchKey", "NoSuchUpload", "InvalidPart"},
     read : {objects[Address[r.key]], Absent} \cup Uploads]

\* The SDK sends again what it can rewind; a streamed body, or the body of a
\* part, is sent once.
SendsAgain(r) == ~(r.op = "part" \/ (r.op = "put" /\ r.streamed))

\* awsErrorToHTTPResponse, and the relayed answer of a streamed request: any
\* 404 is told as one; a 400 it does not know becomes a failure.
AnswerOf(result) ==
    CASE result.code = "ok" -> result
      [] result.code \in {"NoSuchKey", "NoSuchUpload"} ->
           [Nothing EXCEPT !.code = "notFound"]
      [] result.code = "InvalidPart" -> [Nothing EXCEPT !.code = "failed"]

\* The routing of a copy's source: one backend cannot copy from another.
CrossesBackends(r) ==
    /\ r.op = "copy"
    /\ r.source \in Routable
    /\ Routed[r.source].backend # Routed[r.key].backend

-----------------------------------------------------------------------------
Init ==
    /\ objects = [a \in Addresses |-> Absent]
    /\ uploads = [u \in Uploads |-> Store!Unused]
    /\ pending = [c \in Clients |-> Idle]
    /\ late = {}
    /\ reply = Nothing

Ask(c, r) ==
    /\ pending[c] = Idle
    /\ pending' = [pending EXCEPT
                     ![c] = [request |-> r, attempt |-> 1, result |-> Nothing]]
    /\ reply' = Nothing
    /\ UNCHANGED <<objects, uploads, late>>

Reply(c, answer) ==
    /\ pending' = [pending EXCEPT ![c] = Idle]
    /\ reply' = answer

\* No backend is called: there is no route, the copy would cross backends, or
\* the call cannot be built, signed or let through the breaker.
Refuse(c) ==
    /\ pending[c] # Idle
    /\ pending[c].attempt = 1 /\ pending[c].result = Nothing
    /\ Reply(c, [Nothing EXCEPT
                   !.code = IF pending[c].request.key \in Routable
                            THEN "failed" ELSE "notFound"])
    /\ UNCHANGED <<objects, uploads, late>>

CanBeSent(r) == r.key \in Routable /\ ~CrossesBackends(r)

\* The backend performs the attempt; its reply is on the way.
Perform(c) ==
    /\ pending[c] # Idle
    /\ CanBeSent(pending[c].request)
    /\ pending[c].result = Nothing
    /\ \E result \in Results(pending[c].request) :
          /\ Performs(pending[c].request, result)
          /\ pending' = [pending EXCEPT ![c].result = result]
    /\ reply' = Nothing
    /\ UNCHANGED late

\* The reply arrives and the client is answered.
Deliver(c) ==
    /\ pending[c] # Idle
    /\ pending[c].result # Nothing
    /\ Reply(c, AnswerOf(pending[c].result))
    /\ UNCHANGED <<objects, uploads, late>>

\* The attempt is given up: the connection breaks or its time is over.  What
\* the backend has not performed it may perform later.
GivesUp(c) ==
    /\ pending[c] # Idle
    /\ CanBeSent(pending[c].request)
    /\ \/ UNCHANGED late
       \/ /\ pending[c].result = Nothing
          /\ pending[c].request \notin late
          /\ Cardinality(late) < MaxLate
          /\ late' = late \cup {pending[c].request}

\* Mutant: the attempts of a call are not counted.
RetryUncounted(c) ==
    /\ GivesUp(c)
    /\ SendsAgain(pending[c].request)
    /\ pending' = [pending EXCEPT ![c].attempt = @ + 1, ![c].result = Nothing]
    /\ reply' = Nothing
    /\ UNCHANGED <<objects, uploads>>

\* The SDK sends the next attempt of the call.
Retry(c) ==
    /\ GivesUp(c)
    /\ SendsAgain(pending[c].request)
    /\ pending[c].attempt < MaxAttempts
    /\ pending' = [pending EXCEPT ![c].attempt = @ + 1, ![c].result = Nothing]
    /\ reply' = Nothing
    /\ UNCHANGED <<objects, uploads>>

\* The SDK may stop before it has used up its attempts.
Fail(c) ==
    /\ GivesUp(c)
    /\ Reply(c, [Nothing EXCEPT !.code = "failed"])
    /\ UNCHANGED <<objects, uploads>>

PerformLate(r) ==
    /\ \E result \in Results(r) : Performs(r, result)
    /\ late' = late \ {r}
    /\ reply' = Nothing
    /\ UNCHANGED pending

Next ==
    \/ \E c \in Clients :
          \/ \E r \in Requests : Ask(c, r)
          \/ Refuse(c) \/ Perform(c) \/ Deliver(c) \/ Retry(c) \/ Fail(c)
    \/ \E r \in late : PerformLate(r)

Spec == Init /\ [][Next]_vars

-----------------------------------------------------------------------------
(* Properties.                                                             *)

Bodies == {r.body : r \in {q \in Requests : q.op \in {"put", "part"}}}

Contents ==
    {Absent} \cup Stray \cup {<<b>> : b \in Bodies}
      \cup {[i \in DOMAIN r.list |-> r.list[i].body] :
              r \in {q \in Requests : q.op = "complete"}}

\* What a backend says of a request.
Codes == {"ok", "NoSuchKey", "NoSuchUpload", "InvalidPart"}

Numbers == {r.number : r \in {q \in Requests : q.op = "part"}}

\* Every variable stays in its range, whatever is performed late; a call has
\* no more attempts than allowed, and an upload is at an address keys have.
TypeOK ==
    /\ objects \in [Addresses -> Contents]
    /\ uploads \in
         [Uploads -> [state : {"unused", "open", "gone"},
                      at    : Range(Address) \cup {Absent},
                      parts : UNION {[S -> Bodies] : S \in SUBSET Numbers}]]
    /\ \A u \in Uploads :
         uploads[u].state = "open" => uploads[u].at \in Range(Address)
    /\ pending \in
         [Clients -> [request : Requests \cup {NoRequest},
                      attempt : 0..MaxAttempts,
                      result  : {Nothing} \cup
                                  [code : Codes, read : Contents \cup Uploads]]]
    /\ \A c \in Clients : pending[c].request = NoRequest => pending[c] = Idle
    /\ late \subseteq {r \in Requests : CanBeSent(r)}

KeyAt == [a \in Range(Address) |-> CHOOSE k \in Routable : Address[k] = a]

\* What clients see of the backends and of the calls to them.
content == [k \in Routable |-> objects[Address[k]]]

virtualUploads ==
    [u \in Uploads |->
       [state |-> uploads[u].state,
        at    |-> IF uploads[u].at = Absent THEN Absent ELSE KeyAt[uploads[u].at],
        parts |-> uploads[u].parts]]

asked ==
    [c \in Clients |->
       [request |-> pending[c].request, result |-> pending[c].result]]

\* Through backends, prefixes, rewriting, escapes, retries and late effects the
\* objects behave as module VirtualBucket promises: a key is changed by
\* requests for that key only, an answer says what happened, and what was
\* refused does not happen.
Promise == INSTANCE VirtualBucket WITH
    Keys   <- Routable, uploads <- virtualUploads,
    ghosts <- late,     answer  <- reply

KeepsPromise == Promise!VirtualBucketSpec
=============================================================================

------------------------------- MODULE Server -------------------------------
(***************************************************************************)
(* server.Server.HandleS3Request: one S3 request from the moment it is     *)
(* parsed to the end of its answer.  Bucket operations and listings are    *)
(* answered here; an object operation is routed, run by proxy.Executor     *)
(* against a backend, and the backend's body is copied to the client.  An  *)
(* error any of these steps returns ends in the deferred error writer, also *)
(* when the answer has already begun.                                      *)
(*                                                                         *)
(* Requests share nothing here but counters, so one handler is modelled;   *)
(* the client may leave and the backend's body may break at any time.      *)
(* Lengths count units of the body, the error text included.  Methods are  *)
(* in upper case, as S3 clients send them.                                 *)
(***************************************************************************)
EXTENDS Integers, Sequences

CONSTANTS
    Requests,       \* [method, host, path, query, auth] of the clients
    HostBucket,     \* GetBucketMapping: virtual host -> bucket
    MaxBodySize,    \* server.max_body_size
    LargestObject,  \* bound: the size of a backend's body
    TextLength      \* the length of "Internal Server Error\n"

ASSUME ServerAssumption ==
    /\ MaxBodySize \in Nat /\ LargestObject \in Nat /\ TextLength \in Nat \ {0}
    /\ \A r \in Requests :
         /\ r.path \in Seq(STRING) /\ Len(r.path) > 0
         /\ r.auth.date \in {"missing", "garbled", "skewed", "fresh"}

VARIABLES
    request,   \* what the handler works on
    at,        \* where it is
    asked,     \* the S3 operation the executor asked a backend for
    response,  \* the http.Response the executor returned
    body,      \* response.Body: "none", "open" or "closed"
    sent,      \* the answer so far: status, announced length, units written
    err,       \* the status of the error to report, 0 when there is none
    client     \* "there", or "gone" when it has dropped the connection

vars == <<request, at, asked, response, body, sent, err, client>>

Unknown == -1      \* no Content-Length
Opaque  == 500    \* what an error without a status of its own is reported as

-----------------------------------------------------------------------------
(* What a request asks for.  A path is a sequence of tokens that begins    *)
(* with "/"; query is the set of the parameters that are present.          *)

Virtual(r) == r.host \in DOMAIN HostBucket

\* The place of the slash that ends the bucket in a path-style path.
Split(p) == {i \in 2..Len(p) : p[i] = "/" /\ \A j \in 2..(i - 1) : p[j] # "/"}

NamesBucket(r) == Virtual(r) \/ (Len(r.path) > 1 /\ r.path[2] # "/")

Key(r) ==
    IF Virtual(r) THEN Tail(r.path)
    ELSE IF Split(r.path) = {} THEN << >>
    ELSE SubSeq(r.path, 1 + (CHOOSE i \in Split(r.path) : TRUE), Len(r.path))

ListBucketsParams == {"bucket-region", "continuation-token", "max-buckets", "prefix"}

\* Mutant: the case of DELETE is missing.
DetectPutOnly(r) ==
    IF r.method = "GET" /\ r.path = <<"/">> /\ r.query \subseteq ListBucketsParams
    THEN "ListBuckets"
    ELSE IF Key(r) = << >> /\ r.method = "PUT" THEN "CreateBucket"
    ELSE "none"

DetectBucketOperation(r) ==
    IF r.method = "GET" /\ r.path = <<"/">> /\ r.query \subseteq ListBucketsParams
    THEN "ListBuckets"
    ELSE IF Key(r) = << >> /\ r.method = "PUT" THEN "CreateBucket"
    ELSE IF Key(r) = << >> /\ r.method = "DELETE" THEN "DeleteBucket"
    ELSE "none"

\* Version 1 or 2: between them every GET of a bucket.
DetectListing(r) == r.method = "GET" /\ Key(r) = << >>

DetectMultipartOperation(r) ==
    LET Has(p) == p \in r.query
    IN IF r.method = "POST"
       THEN IF Has("delete") THEN "DeleteObjects"
            ELSE IF Has("uploadId") THEN "CompleteMultipartUpload"
            ELSE IF Has("uploads") THEN "CreateMultipartUpload" ELSE "none"
       ELSE IF r.method = "PUT"
       THEN IF Has("acl") THEN "PutObjectAcl"
            ELSE IF Has("uploadId") /\ Has("partNumber") THEN "UploadPart" ELSE "none"
       ELSE IF r.method = "DELETE"
       THEN IF Has("uploadId") THEN "AbortMultipartUpload" ELSE "none"
       ELSE IF r.method = "GET"
       THEN IF Has("acl") THEN "GetObjectAcl"
            ELSE IF Has("uploadId") /\ ~Has("list-type") THEN "ListParts" ELSE "none"
       ELSE "none"

\* Executor.Execute and executePost: the operation that is run, by the method
\* first and then by the operation detected.
Dispatch(r) ==
    LET op == DetectMultipartOperation(r)
        Tagging(yes, no) == IF "tagging" \in r.query THEN yes ELSE no
    IN IF r.method = "GET"
       THEN IF op \in {"ListParts", "GetObjectAcl"} THEN op
            ELSE Tagging("GetObjectTagging", "GetObject")
       ELSE IF r.method = "HEAD" THEN "HeadObject"
       ELSE IF r.method = "PUT"
       THEN IF op \in {"PutObjectAcl", "UploadPart"} THEN op
            ELSE Tagging("PutObjectTagging", "PutObject")
       ELSE IF r.method = "DELETE"
       THEN IF op = "AbortMultipartUpload" THEN op
            ELSE Tagging("DeleteObjectTagging", "DeleteObject")
       ELSE IF r.method = "POST" /\ op # "none" THEN op
       ELSE "unsupported"

-----------------------------------------------------------------------------
(* Verification of the signature.                                          *)
(* auth tells of the credentials what the verifier finds out: whether they *)
(* are in the Authorization header; if not, in the query.                  *)

Signed(r) == r.auth.header \/ "X-Amz-Signature" \in r.query

\* Mutant: the date of a presigned URL is not compared with the clock.
VerifyQueryStale(r) ==
    IF ~Signed(r) THEN "MissingAuthenticationToken"
    ELSE IF r.auth.malformed THEN "InvalidAuthHeader"
    ELSE IF ~r.auth.known THEN "InvalidAccessKeyId"
    ELSE IF r.auth.date \in {"missing", "garbled"} THEN "InvalidDateHeader"
    ELSE IF r.auth.date = "skewed" /\ r.auth.header THEN "RequestTimeTooSkewed"
    ELSE IF ~r.auth.signed THEN "SignatureDoesNotMatch"
    ELSE "none"

\* The code of the AuthError, "none" when the request is authenticated.
VerifyRequest(r) ==
    LET Code(c) == IF r.auth.header THEN c ELSE "InvalidQueryStringParameter"
    IN IF ~Signed(r) THEN "MissingAuthenticationToken"
       ELSE IF r.auth.malformed THEN Code("InvalidAuthHeader")
       ELSE IF ~r.auth.known THEN "InvalidAccessKeyId"
       ELSE IF r.auth.date = "missing" THEN Code("MissingDateHeader")
       ELSE IF r.auth.date = "garbled" THEN Code("InvalidDateHeader")
       ELSE IF r.auth.date = "skewed" THEN "RequestTimeTooSkewed"
       ELSE IF ~r.auth.signed THEN "SignatureDoesNotMatch"
       ELSE "none"

AuthStatus(code) ==
    IF code = "MissingAuthenticationToken" THEN 401
    ELSE IF code \in {"InvalidAuthHeader", "MissingDateHeader", "InvalidDateHeader"} THEN 400
    ELSE 403

-----------------------------------------------------------------------------
(* The answer.                                                             *)

Begin(status, announced, text) ==
    [status |-> status, announced |-> announced, object |-> 0, text |-> text]

NothingSent == Begin(0, Unknown, 0)

\* http.ResponseWriter takes a write unless the status has no body or the
\* write goes beyond the length announced.
Takes(n) ==
    /\ sent.status \notin {204, 304}
    /\ sent.announced # Unknown => sent.object + sent.text + n <= sent.announced

Fail(status) ==
    /\ err' = status
    /\ at' = "failed"

\* An answer the server makes up itself: status and a short text.
Reply(status) ==
    /\ sent' = Begin(status, Unknown, 1)
    /\ at' = "done"
    /\ UNCHANGED err

NoResponse == [status |-> 0, length |-> Unknown, size |-> 0, from |-> "memory"]

Init ==
    /\ request \in Requests
    /\ at = "parse"
    /\ asked = "none" /\ response = NoResponse /\ body = "none"
    /\ sent = NothingSent
    /\ err = 0 /\ client = "there"

\* The next request of the connection, or of another one.
Receive ==
    /\ at = "done"
    /\ request' \in Requests
    /\ at' = "parse"
    /\ asked' = "none" /\ response' = NoResponse /\ body' = "none"
    /\ sent' = NothingSent
    /\ err' = 0 /\ client' = "there"

\* Which of the four handlers takes the request.
Classify ==
    /\ at = "parse"
    /\ \/ /\ DetectBucketOperation(request) # "none"
          /\ at' = "control"
          /\ UNCHANGED <<sent, err>>
       \/ /\ DetectBucketOperation(request) = "none" /\ ~NamesBucket(request)
          /\ Reply(400)
       \/ /\ DetectBucketOperation(request) = "none" /\ NamesBucket(request)
          /\ at' = IF DetectListing(request) THEN "listing" ELSE "object"
          /\ UNCHANGED <<sent, err>>
    /\ UNCHANGED <<request, asked, response, body, client>>

Verified(next) ==
    LET code == VerifyRequest(request)
    IN IF code = "none" THEN next ELSE Fail(AuthStatus(code)) /\ UNCHANGED sent

BucketOperation ==
    /\ at = "control"
    /\ Verified(Reply(IF DetectBucketOperation(request) = "ListBuckets" THEN 200
                      ELSE IF DetectBucketOperation(request) = "CreateBucket" THEN 409
                      ELSE 403))
    /\ UNCHANGED <<request, asked, response, body, client>>

\* handleListObjects and handleListObjectsV2; module Listing models what the
\* handler they call does.
ListObjects ==
    /\ at = "listing"
    /\ Verified(Reply(200) \/ (Fail(500) /\ UNCHANGED sent))
    /\ UNCHANGED <<request, asked, response, body, client>>

\* handleObjectOperation up to the matcher (module RouteMatcher), which
\* decides on a route or finds none.
Route ==
    /\ at = "object"
    /\ Verified(\/ at' = "execute" /\ UNCHANGED <<err, sent>>
                \/ Fail(404) /\ UNCHANGED sent)
    /\ UNCHANGED <<request, asked, response, body, client>>

-----------------------------------------------------------------------------
(* The backend.                                                            *)

\* executeGetObject: the body is the backend's stream, which may come without
\* a length; 206 for a range.
Streams ==
    {r \in [status : {200, 206}, length : {Unknown} \cup 0..LargestObject,
            size : 0..LargestObject, from : {"backend"}] :
       r.length \in {Unknown, r.size}}

\* executeHeadObject: the length of the object, and no body.
Heads ==
    [status : {200}, length : {Unknown} \cup 0..LargestObject, size : {0},
     from : {"memory"}]

\* awsErrorToHTTPResponse: the errors it knows, as an XML document in memory.
ErrorDocuments ==
    [status : {304, 400, 403, 404, 409, 412}, length : {Unknown}, size : {1},
     from : {"memory"}]

\* The streaming uploads hand the backend's own answer on, whatever it is.
Relayed ==
    {r \in [status : {200, 503}, length : {Unknown, 0, 1}, size : {0, 1},
            from : {"backend"}] : r.length \in {Unknown, r.size}}

\* Every other operation: an empty body, or a document in memory.
Documents ==
    {d \in [status : {200, 204}, length : {Unknown}, size : {0, 1}, from : {"memory"}] :
       d.status = 204 => d.size = 0}

Responses(op) ==
    ErrorDocuments \cup
        (IF op = "GetObject" THEN Streams
         ELSE IF op = "HeadObject" THEN Heads
         ELSE IF op \in {"PutObject", "UploadPart"} THEN Relayed \cup Documents
         ELSE Documents)

\* The operation runs.  It may fail before a backend is asked (no client, a
\* malformed key, an unreadable request body) or with an error that has no
\* counterpart in S3: 502.
Execute ==
    /\ at = "execute"
    /\ \/ /\ Fail(502)
          /\ asked' \in {"none", Dispatch(request)} \ {"unsupported"}
          /\ UNCHANGED <<response, body>>
       \/ /\ Dispatch(request) # "unsupported"
          /\ asked' = Dispatch(request)
          /\ response' \in Responses(asked')
          /\ body' = "open"
          /\ at' = "respond"
          /\ UNCHANGED err
    /\ UNCHANGED <<request, sent, client>>

TooLarge ==
    response.status = 200 /\ response.length # Unknown /\ response.length > MaxBodySize

\* Mutant: the backend's body stays open.
RefuseOpen ==
    /\ at = "respond" /\ TooLarge
    /\ sent' = Begin(413, Unknown, 1)
    /\ Fail(Opaque)
    /\ UNCHANGED <<request, asked, response, body, client>>

\* The check before the headers: 413, a message, and an error besides.
Refuse ==
    /\ at = "respond" /\ TooLarge
    /\ sent' = Begin(413, Unknown, 1)
    /\ body' = "closed"
    /\ Fail(Opaque)
    /\ UNCHANGED <<request, asked, response, client>>

\* Mutant: the length announced is cut down to what will be copied.
SendHeadersClamped ==
    /\ at = "respond" /\ ~TooLarge
    /\ sent' = Begin(response.status,
                     IF response.length > MaxBodySize THEN MaxBodySize + 1
                     ELSE response.length, 0)
    /\ at' = "copy"
    /\ UNCHANGED <<request, asked, response, body, err, client>>

SendHeaders ==
    /\ at = "respond" /\ ~TooLarge
    /\ sent' = Begin(response.status, response.length, 0)
    /\ at' = "copy"
    /\ UNCHANGED <<request, asked, response, body, err, client>>

\* Mutant: no LimitReader.
CopyUnlimited ==
    /\ at = "copy"
    /\ sent.object < response.size /\ Takes(1)
    /\ sent' = [sent EXCEPT !.object = @ + 1]
    /\ UNCHANGED <<request, at, asked, response, body, err, client>>

\* io.Copy from a LimitReader of MaxBodySize + 1, one unit at a time.
Unread == sent.object < response.size /\ sent.object < MaxBodySize + 1

Copy ==
    /\ at = "copy"
    /\ Unread /\ Takes(1)
    /\ sent' = [sent EXCEPT !.object = @ + 1]
    /\ UNCHANGED <<request, at, asked, response, body, err, client>>

\* The copy ends: the body is read or the limit reached, the backend's stream
\* breaks, or a write fails.  The body is closed on the way out.
CopyEnds ==
    /\ at = "copy"
    /\ \/ ~Unread /\ sent.object <= MaxBodySize /\ at' = "done" /\ UNCHANGED err
       \/ ~Unread /\ sent.object > MaxBodySize /\ Fail(Opaque)
       \/ Unread /\ (response.from = "backend" \/ client = "gone" \/ ~Takes(1)) /\ Fail(Opaque)
    /\ body' = "closed"
    /\ UNCHANGED <<request, asked, response, sent, client>>

\* The deferred function: http.Error.  Its status is of no effect once the
\* headers are out, but its text is written after what was sent.
ReportError ==
    /\ at = "failed"
    /\ \/ sent.status = 0 /\ sent' = Begin(err, Unknown, 1)
       \/ /\ sent.status # 0 /\ Takes(TextLength)
          /\ sent' = [sent EXCEPT !.text = @ + TextLength]
       \/ sent.status # 0 /\ ~Takes(TextLength) /\ UNCHANGED sent
    /\ at' = "done"
    /\ UNCHANGED <<request, asked, response, body, err, client>>

ClientLeaves ==
    /\ at # "done" /\ client = "there"
    /\ client' = "gone"
    /\ UNCHANGED <<request, at, asked, response, body, sent, err>>

Next ==
    \/ Receive \/ Classify
    \/ BucketOperation \/ ListObjects \/ Route
    \/ Execute \/ Refuse \/ SendHeaders \/ Copy \/ CopyEnds
    \/ ReportError
    \/ ClientLeaves

Spec == Init /\ [][Next]_vars
-----------------------------------------------------------------------------
(* Properties.                                                             *)

Stages == {"parse", "control", "listing", "object", "execute",
           "respond", "copy", "failed", "done"}

Operations ==
    {"none", "GetObject", "HeadObject", "PutObject", "DeleteObject",
     "GetObjectTagging", "PutObjectTagging", "DeleteObjectTagging",
     "GetObjectAcl", "PutObjectAcl", "ListParts", "UploadPart",
     "AbortMultipartUpload", "CreateMultipartUpload", "CompleteMultipartUpload",
     "DeleteObjects"}

\* Every variable stays in its range.
TypeOK ==
    /\ request \in Requests
    /\ at \in Stages
    /\ asked \in Operations
    /\ response \in {NoResponse} \cup Streams \cup Heads \cup ErrorDocuments
                      \cup Relayed \cup Documents
    /\ body \in {"none", "open", "closed"}
    /\ sent \in [status : Nat, announced : Int, object : Nat, text : Nat]
    /\ err \in Nat
    /\ client \in {"there", "gone"}

\* A request a client signed with a key the router knows, and just now.
Genuine(r) ==
    /\ Signed(r) /\ ~r.auth.malformed
    /\ r.auth.known /\ r.auth.date = "fresh" /\ r.auth.signed

\* Whichever of the four handlers takes a request, and wherever it gives up:
\* no backend is asked and no success answered unless the request is genuine.
OnlyGenuineServed ==
    asked # "none" \/ sent.status \in 200..299 => Genuine(request)

\* What the server detects and what the executor runs are two tables in two
\* packages, and bucket operations are caught by a third before both.  The
\* operation a backend is asked for is the one detected, and a GET, PUT or
\* DELETE that names no object never reaches a backend as an object operation.
RightOperation ==
    asked # "none" =>
        /\ DetectMultipartOperation(request) \in {"none", asked}
        /\ request.method \in {"GET", "PUT", "DELETE"} => Key(request) # << >>

\* However a request ends, the backend's body is closed, so that its
\* connection goes back to the pool.
BodyClosed == at = "done" => body # "open"

\* No client gets more of an object than max_body_size and one unit, and none
\* of one that a 200 announces as longer.
WithinLimit ==
    /\ sent.object <= MaxBodySize + 1
    /\ sent.status = 200 /\ sent.announced # Unknown => sent.announced <= MaxBodySize

\* The client has an answer that its HTTP library takes for complete.
Accepted ==
    /\ at = "done" /\ client = "there"
    /\ sent.announced \in {Unknown, sent.object + sent.text}

ObjectAnswer == request.method = "GET" /\ asked = "GetObject" /\ sent.status \in {200, 206}

\* A copy that stops halfway is visible to the client when the backend gave
\* the length: the answer is shorter than announced, unless the error text
\* that is written after it is just what was missing.
TruncationShows ==
    Accepted /\ ObjectAnswer /\ response.length # Unknown =>
        response.size \in {sent.object, sent.object + TextLength}
=============================================================================
